----------------------------- MODULE GatedSession -----------------------------
(***************************************************************************)
(* The risk engine with the callback of a WebSocket session as the         *)
(* approval_callback of the calls that have one: engine calls that ask     *)
(* become calls of the session's callback, and what the callback returns   *)
(* is what the engine acts on.  Calls of the HTTP surface interleave.      *)
(*                                                                         *)
(* The two are composed as their interfaces document it (session.py:115-   *)
(* 120, ws_server.py:101, openai_compat.py:66-68).  As the code stands no  *)
(* tool passes a callback on: ws_server.py:102 sets an attribute that      *)
(* execute does not read, and nothing sets the tools' own.  So its         *)
(* behaviours are those in which every call is given none; the others are  *)
(* what the engine and the session's callback do together for a caller     *)
(* that connects them.                                                     *)
(*                                                                         *)
(* Call identities are shared: call c of execute makes call c of the       *)
(* callback.                                                               *)
(***************************************************************************)
EXTENDS RiskEngine, FiniteSets

CONSTANTS InTurn, NoCall

ASSUME GatedAssumption == InTurn \subseteq Call /\ NoCall \notin Call

VARIABLES connection, at, future, expired, answer, pending,
          prompts, replies, said, overlapped

Session == INSTANCE SessionApproval

sessionVars == <<connection, at, future, expired, answer, pending,
                 prompts, replies, said, overlapped>>
gatedVars == <<vars, sessionVars>>

GatedInit == Init /\ Session!Init

\* A session's turn starts after the session, and runs one tool at a time.  Its
\* tools are given no callback, as they are today, or the session's; a caller
\* outside the turn, any.
ToolCalls(c) ==
  /\ c \in InTurn => /\ connection # "none"
                     /\ \A d \in InTurn : pc[d] = "idle" \/ Ended(d)
  /\ Begin(c)
  /\ c \in InTurn => callback'[c] # "http"

\* The engine alone: everything but the await of the callback.
EngineStep(c) ==
  /\ \/ ToolCalls(c) \/ AutoRun(c) \/ NoCallback(c) \/ Ask(c)
     \/ StampBackup(c) \/ BackupRaises(c)
     \/ CopyFile(c) \/ CopyFails(c) \/ SkipWord(c) \/ NothingToCopy(c)
     \/ Spawn(c) \/ SpawnFails(c) \/ Collect(c) \/ TimeOut(c) \/ Finish(c)
     \/ ProcessWrites(c) \/ ProcessExits(c)
  /\ UNCHANGED sessionVars

\* The callback runs only while the engine awaits it: the call was given the
\* session's (see above).
AwaitCallback(c) ==
  /\ pc[c] = "asking"
  /\ callback[c] = "session"
  /\ Session!CallbackStep(c)
  /\ UNCHANGED vars

\* Mutant of CallbackReturns: a callback that raises counts as approval.
RaisingApproves(c) ==
  /\ \/ at[c] = "returned" /\ answer[c] = "yes" /\ Approved(c)
     \/ at[c] = "returned" /\ answer[c] = "no" /\ Refused(c)
     \/ at[c] = "raised" /\ Approved(c)
  /\ UNCHANGED sessionVars

\* A call of the HTTP surface is answered by its tier.
HttpAnswers(c) ==
  /\ callback[c] = "http"
  /\ Approved(c) \/ Refused(c)
  /\ UNCHANGED sessionVars

\* The engine resumes with what the session's callback returned or raised.
CallbackReturns(c) ==
  /\ \/ at[c] = "returned" /\ answer[c] = "yes" /\ Approved(c)
     \/ at[c] = "returned" /\ answer[c] = "no" /\ Refused(c)
     \/ at[c] = "raised" /\ CallbackRaises(c)
  /\ UNCHANGED sessionVars

\* The clock stands still here: it only names backups (RiskEngine).
Outside ==
  \/ Session!Environment /\ UNCHANGED vars
  \/ AllEnded /\ UNCHANGED sessionVars

GatedNext ==
  \/ \E c \in Call : \/ EngineStep(c) \/ AwaitCallback(c)
                     \/ CallbackReturns(c) \/ HttpAnswers(c)
  \/ Outside

GatedSpec == GatedInit /\ [][GatedNext]_gatedVars

\* What a call of execute that has begun goes on to do by itself; that
\* something raises is not among it.
Proceeds(c) ==
  /\ \/ AutoRun(c) \/ NoCallback(c) \/ Ask(c)
     \/ StampBackup(c) \/ CopyFile(c) \/ SkipWord(c) \/ NothingToCopy(c)
     \/ Spawn(c) \/ Collect(c) \/ TimeOut(c) \/ Finish(c)
  /\ UNCHANGED sessionVars

\* The event loops run: an engine call that has begun and its callback take
\* their steps.  The user, the receive loop and the processes owe nothing.
GatedFairSpec ==
  /\ GatedSpec
  /\ \A c \in Call :
       /\ WF_gatedVars(Proceeds(c))
       /\ WF_gatedVars(AwaitCallback(c))
       /\ WF_gatedVars(CallbackReturns(c))
       /\ WF_gatedVars(HttpAnswers(c))

------------------------------------------------------------------------------
\* Across engine, callback and wire: of the commands that need approval and did
\* not come over HTTP, no more have run than the user has said yes to, counting
\* processes that outlived their call.
NoRunWithoutAYes ==
  Cardinality({c \in Call : proc[c] # "none" /\ ~AutoRuns(c) /\ callback[c] # "http"})
    <= Cardinality({c \in Call : said[c] = "yes"})

\* Every call of execute ends, also when its command never does: the
\* callback's own timeout is what this needs, not an answer of the user.
GatedCallsEnd == Gate!Settles
==============================================================================
