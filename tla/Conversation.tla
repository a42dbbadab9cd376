----------------------------- MODULE Conversation -----------------------------
(***************************************************************************)
(* The turns of WebSocket sessions and of HTTP requests, which share one   *)
(* planner.  A turn takes its context from the memory, which awaits, and   *)
(* then runs the shared agent, or calls Ollama when qwen-agent is missing. *)
(* A session keeps a history, which /brief writes to a file and clears,    *)
(* and whose end becomes an episode.                                       *)
(*                                                                         *)
(* Messages are told apart by their place in what their author has sent.   *)
(* The context of a turn stands for the whole system prompt that is built  *)
(* for it, and is named by the turn.                                       *)
(***************************************************************************)
EXTENDS Naturals, FiniteSets, SequencesExt

CONSTANTS
  Session,               \* WebSocket connections
  Request,               \* clients of the HTTP API, one request at a time
  Body,                  \* the messages of a request, as a sequence of roles
  MaxSaid                \* a bound on the messages of a session

ASSUME BodiesAssumption == Body \subseteq Seq({"system", "user", "assistant"})
ASSUME ActorsAssumption == Session \cap Request = {} /\ MaxSaid \in Nat

Actor == Session \cup Request

VARIABLES
  library,               \* qwen_agent: "works", "missing", or "raises"
  agent,                 \* planner._agent: the context it was built with
  at,                    \* [Actor -> where its turn is]
  said,                  \* [Session -> messages the user has sent]
  history,               \* [Session -> session.history]
  body,                  \* [Request -> the messages it carries]
  prompt,                \* [Actor -> the context the model was given]
  heard,                 \* [Actor -> the messages the model was given]
  briefed,               \* [Session -> messages in its mission briefs]
  episode                \* [Session -> its episode: "none", "stored", "failed"]

perSession == <<said, history, briefed, episode>>
toModel == <<prompt, heard>>
conversationVars == <<library, agent, at, perSession, body, toModel>>

Place == {"away", "idle", "context", "running", "ending", "ended", "cut"}

NoContext == <<>>
ContextOf(a) == IF a \in Session THEN <<a, said[a]>> ELSE <<a, body[a]>>

ConversationInit ==
  /\ library \in {"works", "missing", "raises"}
  /\ agent = NoContext
  /\ at = [a \in Actor |-> "away"]
  /\ said = [s \in Session |-> 0]
  /\ history = [s \in Session |-> <<>>]
  /\ body = [r \in Request |-> <<>>]
  /\ prompt = [a \in Actor |-> NoContext]
  /\ heard = [a \in Actor |-> <<>>]
  /\ briefed = [s \in Session |-> {}]
  /\ episode = [s \in Session |-> "none"]

Moves(a, from, to) ==
  /\ at[a] = from
  /\ at' = [at EXCEPT ![a] = to]

------------------------------------------------------------------------------
\* What a turn hands to planner.run: a session its history, to which the
\* message has been appended already, and the message; a request the last
\* message of its user and what precedes it.

UserMessages(b) == {i \in DOMAIN b : b[i] = "user"}

\* The positions of the messages that the loop over a body keeps: all but the
\* client's system prompts.
Kept(b) ==
  LET kept[n \in 0 .. Len(b)] ==
        IF n = 0 THEN <<>>
        ELSE IF b[n] = "system" THEN kept[n - 1]
        ELSE Append(kept[n - 1], n)
  IN  kept[Len(b)]

\* Mutant of PriorHistory: the last message is not taken off.
WholeBody(b) == Kept(b)

PriorHistory(b) ==
  IF Kept(b) # <<>> /\ b[Last(Kept(b))] = "user" THEN Front(Kept(b)) ELSE Kept(b)

\* A request without a user message asks the empty one, 0.
CurrentMessage(a) ==
  IF a \in Session THEN said[a]
  ELSE IF UserMessages(body[a]) = {} THEN 0
  ELSE CHOOSE i \in UserMessages(body[a]) : \A j \in UserMessages(body[a]) : j <= i

MessagesFor(a) ==
  Append(IF a \in Session THEN history[a] ELSE PriorHistory(body[a]), CurrentMessage(a))

\* The model gets a context and messages.
GivesModel(a, context, messages) ==
  /\ prompt' = [prompt EXCEPT ![a] = context]
  /\ heard' = [heard EXCEPT ![a] = messages]

------------------------------------------------------------------------------
\* handler and start_session.
Connect(s) ==
  /\ Moves(s, "away", "idle")
  /\ UNCHANGED <<library, agent, perSession, body, toModel>>

\* coder.generate: the message alone, under the coder's own system prompt.
AskCoder(s) ==
  /\ Moves(s, "idle", "running")
  /\ GivesModel(s, NoContext, <<said[s] + 1>>)

\* _handle_user_input, routed to the planner or to the coder.
Say(s) ==
  /\ said[s] < MaxSaid
  /\ said' = [said EXCEPT ![s] = @ + 1]
  /\ history' = [history EXCEPT ![s] = Append(@, said[s] + 1)]
  /\ \/ Moves(s, "idle", "context") /\ UNCHANGED toModel
     \/ AskCoder(s)
  /\ UNCHANGED <<library, agent, briefed, episode, body>>

\* chat_completions.
Ask(r) ==
  /\ Moves(r, "away", "context")
  /\ \E b \in Body : body' = [body EXCEPT ![r] = b]
  /\ UNCHANGED <<library, agent, perSession, toModel>>

\* A turn ends: its locals are gone, the agent and the history stay.
TurnEnds(a, from, to) ==
  /\ Moves(a, from, to)
  /\ GivesModel(a, NoContext, <<>>)
  /\ body' = [r \in Request |-> IF r = a THEN <<>> ELSE body[r]]
  /\ UNCHANGED <<library, agent, perSession>>

Waiting(a) == IF a \in Session THEN "idle" ELSE "away"

\* The context that the model sees: the agent was built with one.
PromptOf(a) ==
  IF library = "works" /\ agent # NoContext THEN agent ELSE ContextOf(a)

\* planner.run after build_context: the agent is built if there is none, with
\* this turn's context, and is run; without qwen-agent the turn calls Ollama
\* with its own.
RunModel(a) ==
  /\ library # "raises" \/ agent # NoContext
  /\ Moves(a, "context", "running")
  /\ agent' = IF library = "works" THEN PromptOf(a) ELSE agent
  /\ GivesModel(a, PromptOf(a), MessagesFor(a))
  /\ UNCHANGED <<library, perSession, body>>

\* Assistant() raises something other than ImportError, for a tool name it does
\* not know: the error goes to the user and the next turn tries again.
AgentRaises(a) ==
  /\ library = "raises"
  /\ agent = NoContext
  /\ TurnEnds(a, "context", Waiting(a))

\* The answer, or the error that stands for it, has been sent.
Answered(a) == TurnEnds(a, "running", Waiting(a))

\* Mutant of BriefLeaves: the history is cleared whether or not the brief was
\* written.
BriefLeavesNothing(s, written) == <<>>

\* Mutant of BriefLeaves: the history is not cleared.
BriefLeavesAll(s, written) == history[s]

\* What /brief leaves of the history: clear() follows the write, whose
\* exception passes it over.
BriefLeaves(s, written) == IF written THEN <<>> ELSE history[s]

\* write_brief, into a file named by a new task id.
WriteBrief(s, written) ==
  briefed' = [briefed EXCEPT ![s] = IF written THEN @ \cup ToSet(history[s]) ELSE @]

\* _cmd_brief.
Brief(s) ==
  /\ at[s] = "idle"
  /\ \E written \in BOOLEAN :
       /\ WriteBrief(s, written)
       /\ history' = [history EXCEPT ![s] = BriefLeaves(s, written)]
  /\ UNCHANGED <<library, agent, at, said, episode, body, toModel>>

\* The connection is lost: the receive loop ends, or the send of an answer
\* raises, and so does the send of the error that follows it.
HangUp(s) == \E from \in {"idle", "running"} : TurnEnds(s, from, "ending")

\* EpisodicMemory.store awaits an embedding and adds to the collection, or
\* either raises.
StoreOutcome == {"stored", "failed"}

\* end_session, in handler's finally.  A failure to store is logged.
EndSession(s) ==
  /\ Moves(s, "ending", "ended")
  /\ \E outcome \in IF Len(history[s]) > 2 THEN StoreOutcome ELSE {"none"} :
       episode' = [episode EXCEPT ![s] = outcome]
  /\ UNCHANGED <<library, agent, said, history, briefed, body, toModel>>

\* The process ends.  Its sessions are over, but for what is on disk, and the
\* next one finds qwen-agent, and its own tools, as they then are.
Forgotten ==
  /\ library' \in {"works", "missing", "raises"}
  /\ agent' = NoContext
  /\ at' = [a \in Actor |->
              IF a \in Request THEN "away"
              ELSE IF at[a] \in {"away", "ended"} THEN at[a] ELSE "cut"]
  /\ body' = [r \in Request |-> <<>>]
  /\ prompt' = [a \in Actor |-> NoContext]
  /\ heard' = [a \in Actor |-> <<>>]
  /\ UNCHANGED perSession

ConversationStep ==
  \/ \E a \in Actor : RunModel(a) \/ AgentRaises(a) \/ Answered(a)
  \/ \E s \in Session : Say(s) \/ Brief(s) \/ HangUp(s) \/ EndSession(s)

------------------------------------------------------------------------------
ConversationTypeOK ==
  /\ library \in {"works", "missing", "raises"}
  /\ at \in [Actor -> Place]
  /\ said \in [Session -> 0 .. MaxSaid]
  /\ history \in [Session -> Seq(1 .. MaxSaid)]
  /\ body \in [Request -> Body \cup {<<>>}]
  /\ briefed \in [Session -> SUBSET (1 .. MaxSaid)]
  /\ episode \in [Session -> {"none", "stored", "failed"}]
  /\ \A s \in Session : ToSet(history[s]) \cap briefed[s] = {}

\* However turns, briefs and lost connections interleave in the one planner:
\* the model of a turn hears the current message last; of a session everything
\* that was said since the last brief, and nothing that a brief has taken (the
\* coder hears the current message alone); of a request that ends with its
\* user's message each message once, client system prompts left out.
ModelHearsOwnTurn ==
  \A a \in Actor :
    at[a] = "running" =>
      /\ Last(heard[a]) = CurrentMessage(a)
      /\ a \in Session /\ prompt[a] # NoContext =>
           ToSet(heard[a]) = (1 .. said[a]) \ briefed[a]
      /\ a \in Request /\ Last(<<"none">> \o body[a]) = "user" => heard[a] = Kept(body[a])

\* A session that has ended left a trace of all but its last words: unless
\* there is an episode, or storing it failed, at most two of its messages are
\* in no mission brief.
EndedSessionLeavesATrace ==
  \A s \in Session :
    at[s] = "ended" /\ episode[s] = "none" =>
      Cardinality((1 .. said[s]) \ briefed[s]) <= 2
==============================================================================
