--------------------------- MODULE SessionApproval ---------------------------
(***************************************************************************)
(* The approval callback of one WebSocket session                          *)
(* (SessionManager.get_approval_callback), the receive loop that delivers  *)
(* RISK_RESPONSE messages (ValetServer.handler, handle_message), and the   *)
(* client's prompt loop (ValetClient._handle_message).                     *)
(*                                                                         *)
(* Each call of the callback is an actor.  A step runs from one await to   *)
(* the next: everything here shares one event loop.  A RISK_RESPONSE       *)
(* carries no request id; the ghost field "about" remembers the prompt     *)
(* the user was looking at, and no action of the server reads it.          *)
(***************************************************************************)
EXTENDS Sequences, FiniteSets, Naturals

CONSTANTS
  Call,                  \* one element for each call of the callback
  InTurn,                \* those made from within this session's own turn
  NoCall

ASSUME ApprovalAssumption == InTurn \subseteq Call /\ NoCall \notin Call

VARIABLES
  connection,            \* session._ws: "none", then "open", then "closed"
  at,                    \* where in callback the call is
  future,                \* the Future the call made
  expired,               \* the 300 second timer of its wait_for has fired
  answer,                \* what the call returned
  pending,               \* session._pending_approval: whose Future it is
  prompts,               \* RISK_PROMPT messages the client has not read
  replies,               \* RISK_RESPONSE messages the server has not read
  said,                  \* ghost: what the user answered to each prompt
  overlapped             \* ghost: some call began while another waited

callVars == <<at, future, expired, answer, pending>>
wire == <<prompts, replies, said>>
approvalVars == <<connection, callVars, wire, overlapped>>

Answer == {"none", "yes", "no"}
Reply == [about : Call, approved : {"yes", "no"}]

Init ==
  /\ connection = "none"
  /\ at = [c \in Call |-> "idle"]
  /\ future = [c \in Call |-> "none"]
  /\ expired = [c \in Call |-> FALSE]
  /\ answer = [c \in Call |-> "none"]
  /\ pending = NoCall
  /\ prompts = << >>
  /\ replies = << >>
  /\ said = [c \in Call |-> "none"]
  /\ overlapped = FALSE

InProgress(c) == at[c] \in {"sending", "waiting"}
Settled(c) == at[c] \in {"returned", "raised"}

\* The receive loop awaits handle_message, so while a turn of this session is
\* inside the callback no other message of this session is read.
TurnBusy == \E c \in InTurn : InProgress(c)

------------------------------------------------------------------------------
\* handler installs the callback before start_session sets _ws.
StartSession ==
  /\ connection = "none"
  /\ connection' = "open"
  /\ UNCHANGED <<callVars, wire, overlapped>>

\* The client goes away.  What it sent last may be lost; what has arrived can
\* still be read.
Disconnect ==
  /\ connection = "open"
  /\ connection' = "closed"
  /\ prompts' = << >>
  /\ \E n \in 0 .. Len(replies) : replies' = SubSeq(replies, 1, n)
  /\ UNCHANGED <<callVars, said, overlapped>>

\* A turn begins only when the receive loop is free, and never before the
\* session has started.
MayBegin(c) ==
  /\ at[c] = "idle"
  /\ c \in InTurn => ~TurnBusy /\ connection # "none"

\* callback with self._ws None.
NoConnection(c) ==
  /\ MayBegin(c)
  /\ connection = "none"
  /\ at' = [at EXCEPT ![c] = "returned"]
  /\ answer' = [answer EXCEPT ![c] = "no"]
  /\ UNCHANGED <<connection, future, expired, pending, wire, overlapped>>

\* await self._ws.send(prompt): the prompt is on its way before the call has
\* a Future.
SendPrompt(c) ==
  /\ MayBegin(c)
  /\ connection = "open"
  /\ at' = [at EXCEPT ![c] = "sending"]
  /\ prompts' = Append(prompts, c)
  /\ overlapped' = (overlapped \/ \E d \in Call : InProgress(d))
  /\ UNCHANGED <<connection, future, expired, answer, pending, replies, said>>

\* send raises ConnectionClosed, at once or while it drains.
SendRaises(c) ==
  /\ connection = "closed"
  /\ MayBegin(c) \/ at[c] = "sending"
  /\ at' = [at EXCEPT ![c] = "raised"]
  /\ UNCHANGED <<connection, future, expired, answer, pending, wire, overlapped>>

\* The call makes its Future and puts it into the session's only slot.
Register(c) ==
  /\ at[c] = "sending"
  /\ at' = [at EXCEPT ![c] = "waiting"]
  /\ future' = [future EXCEPT ![c] = "pending"]
  /\ pending' = c
  /\ UNCHANGED <<connection, expired, answer, wire, overlapped>>

\* Mutant of Expire: the call waits for ever.
NeverExpires(c) == FALSE /\ UNCHANGED approvalVars

\* Mutant of Expire: the Future ends in a state the callback does not know.
ExpireUnknown(c) ==
  /\ at[c] = "waiting"
  /\ ~expired[c]
  /\ expired' = [expired EXCEPT ![c] = TRUE]
  /\ future' = [future EXCEPT ![c] = "expired"]
  /\ UNCHANGED <<connection, at, answer, pending, wire, overlapped>>

\* wait_for's timer fires: a Future that is not done is cancelled.
Expire(c) ==
  /\ at[c] = "waiting"
  /\ ~expired[c]
  /\ expired' = [expired EXCEPT ![c] = TRUE]
  /\ future' = [future EXCEPT ![c] = IF @ = "pending" THEN "cancelled" ELSE @]
  /\ UNCHANGED <<connection, at, answer, pending, wire, overlapped>>

\* Mutant of ClearSlot: the finally clause is missing.
KeepSlot == pending' = pending

ClearSlot == pending' = NoCall

\* The call wakes up and clears the slot, whoever's Future is in it.  If the
\* timer fired after the answer, either wins (it depends on the version of
\* wait_for).
Resume(c) ==
  /\ at[c] = "waiting"
  /\ future[c] # "pending"
  /\ at' = [at EXCEPT ![c] = "returned"]
  /\ \/ /\ future[c] \in {"yes", "no"}
        /\ answer' = [answer EXCEPT ![c] = future[c]]
     \/ /\ expired[c]
        /\ answer' = [answer EXCEPT ![c] = "no"]
  /\ ClearSlot
  /\ UNCHANGED <<connection, future, expired, wire, overlapped>>

\* Mutant of Deliver: every Future that waits gets the answer.
DeliverToAll(approved) ==
  future' = [c \in Call |-> IF future[c] = "pending" THEN approved ELSE future[c]]

\* Mutant of Deliver: any response counts as a yes.
DeliverYes(approved) ==
  IF pending # NoCall /\ future[pending] = "pending"
  THEN future' = [future EXCEPT ![pending] = "yes"]
  ELSE future' = future

\* handle_message, RISK_RESPONSE: without a Future in the slot it is dropped;
\* on one that is done set_result raises, which the receive loop reports.
Deliver(approved) ==
  IF pending # NoCall /\ future[pending] = "pending"
  THEN future' = [future EXCEPT ![pending] = approved]
  ELSE future' = future

HandleResponse ==
  /\ replies # << >>
  /\ ~TurnBusy
  /\ Deliver(Head(replies).approved)
  /\ replies' = Tail(replies)
  /\ UNCHANGED <<connection, at, expired, answer, pending, prompts, said, overlapped>>

\* The client shows its prompts one at a time, in order, and sends what it
\* reads: a "y" or "yes" is a yes (display.py:85-87), whether it was typed for
\* the prompt or as a line of the chat that the prompt read.
UserAnswers ==
  /\ connection = "open"
  /\ prompts # << >>
  /\ \E v \in {"yes", "no"} :
       /\ said' = [said EXCEPT ![Head(prompts)] = v]
       /\ replies' = Append(replies, [about |-> Head(prompts), approved |-> v])
  /\ prompts' = Tail(prompts)
  /\ UNCHANGED <<connection, callVars, overlapped>>

\* The prompt and the thread of the input loop both read stdin, and a line goes
\* to either.  An answer that the input loop reads leaves the prompt as it is;
\* a chat line that the prompt reads and that is no "y" or "yes" is sent as a
\* no that the user did not say (one that is, is a UserAnswers).
StrayLine ==
  /\ connection = "open"
  /\ prompts # << >>
  /\ replies' = Append(replies, [about |-> Head(prompts), approved |-> "no"])
  /\ prompts' = Tail(prompts)
  /\ UNCHANGED <<connection, callVars, said, overlapped>>

\* What callback does once it is called.
CallbackStep(c) ==
  \/ NoConnection(c) \/ SendPrompt(c) \/ SendRaises(c)
  \/ Register(c) \/ Expire(c) \/ Resume(c)

Environment ==
  StartSession \/ Disconnect \/ UserAnswers \/ StrayLine \/ HandleResponse

AllSettled == (\A c \in Call : Settled(c)) /\ UNCHANGED approvalVars

Next ==
  \/ \E c \in Call : CallbackStep(c)
  \/ Environment
  \/ AllSettled

Spec == Init /\ [][Next]_approvalVars

\* A call that has sent its prompt goes on, and its timer fires.  The user
\* need not answer and the receive loop need not read.
FairSpec ==
  Spec /\ \A c \in Call : WF_approvalVars(at[c] # "idle" /\ CallbackStep(c))

------------------------------------------------------------------------------
\* Type invariant.
TypeOK ==
  /\ connection \in {"none", "open", "closed"}
  /\ at \in [Call -> {"idle", "sending", "waiting", "returned", "raised"}]
  /\ future \in [Call -> {"none", "pending", "yes", "no", "cancelled"}]
  /\ expired \in [Call -> BOOLEAN]
  /\ answer \in [Call -> Answer]
  /\ pending \in Call \cup {NoCall}
  /\ prompts \in Seq(Call)
  /\ replies \in Seq(Reply)
  /\ said \in [Call -> Answer]
  /\ overlapped \in BOOLEAN

\* One "yes" of the user approves at most one command, even when it is
\* delivered to another call than the one it was about (handle_message).
OneYesOneApproval ==
  Cardinality({c \in Call : "yes" \in {future[c], answer[c]}})
    <= Cardinality({c \in Call : said[c] = "yes"})

\* While no two calls overlap and no timer fires, the single slot is enough:
\* a call is approved only by a "yes" to its own prompt.
SerialApprovalsMatch ==
  ~overlapped /\ (\A c \in Call : ~expired[c]) =>
    \A c \in Call : answer[c] = "yes" => said[c] = "yes"

\* The finally clause: the slot never keeps the Future of a call that is gone.
SlotHasAWaiter == pending # NoCall => at[pending] = "waiting"

\* The callback ends within its timeout whatever client and loop do.
EveryCallbackEnds == \A c \in Call : InProgress(c) ~> Settled(c)

------------------------------------------------------------------------------
\* What README:105-106 and openai_compat.py:12-13 promise of the CLI, when the
\* user is quick: 300 seconds are longer than anything but a wait for them.

\* Something other than a timer still has to happen: a message to be read, or a
\* call to go on.
Busy ==
  \/ prompts # << >>
  \/ replies # << >> /\ ~TurnBusy
  \/ \E c \in Call : at[c] = "sending" \/ (at[c] = "waiting" /\ future[c] # "pending")

\* A timer fires only when all the others wait.
QuickSpec == Init /\ [][Next /\ (expired' # expired => ~Busy)]_approvalVars

\* A command that a tool of the CLI user's own turn asks about is approved when
\* the user has said yes to it and the connection has held.
TurnYesApproves ==
  \A c \in InTurn :
    Settled(c) /\ said[c] = "yes" /\ connection = "open" /\ ~overlapped => answer[c] = "yes"
==============================================================================
