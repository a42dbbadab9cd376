-------------------------- MODULE GatedSessionProofs --------------------------
(***************************************************************************)
(* The composition of engine and session is an engine and is a session, so *)
(* what is proved of each holds in it; and what follows from both.         *)
(***************************************************************************)
EXTENDS GatedSession, RiskEngineProofs

\* The theorems about the callback, for the session of the composition.
Approval == INSTANCE SessionApprovalProofs

\* The composition's step as the engine and as the session see it.
LEMMA StepIsEngineStep == [GatedNext]_gatedVars => [Next]_vars
BY DEF GatedNext, gatedVars, EngineStep, ToolCalls, AwaitCallback, CallbackReturns,
       HttpAnswers, Outside, Next, CallStep

LEMMA StepIsSessionStep == [GatedNext]_gatedVars => [Approval!Next]_Approval!approvalVars
<1>1. ASSUME UNCHANGED sessionVars PROVE UNCHANGED Approval!approvalVars
  BY <1>1 DEF sessionVars, Approval!approvalVars, Approval!callVars, Approval!wire
<1>2. ASSUME NEW c \in Call, Session!CallbackStep(c) PROVE Approval!Next
  BY <1>2 DEF Approval!Next, Session!CallbackStep, Approval!CallbackStep,
       Session!NoConnection, Approval!NoConnection, Session!SendPrompt, Approval!SendPrompt,
       Session!SendRaises, Approval!SendRaises, Session!Register, Approval!Register,
       Session!Expire, Approval!Expire, Session!Resume, Approval!Resume,
       Session!MayBegin, Approval!MayBegin, Session!TurnBusy, Approval!TurnBusy,
       Session!InProgress, Approval!InProgress, Session!ClearSlot, Approval!ClearSlot,
       Session!callVars, Approval!callVars, Session!wire, Approval!wire
<1>3. ASSUME Session!Environment PROVE Approval!Next
  BY <1>3 DEF Approval!Next, Session!Environment, Approval!Environment,
       Session!StartSession, Approval!StartSession, Session!Disconnect, Approval!Disconnect,
       Session!UserAnswers, Approval!UserAnswers, Session!StrayLine, Approval!StrayLine,
       Session!HandleResponse, Approval!HandleResponse, Session!Deliver, Approval!Deliver,
       Session!TurnBusy, Approval!TurnBusy, Session!InProgress, Approval!InProgress,
       Session!callVars, Approval!callVars, Session!wire, Approval!wire
<1> QED
  BY <1>1, <1>2, <1>3 DEF GatedNext, gatedVars, EngineStep, AwaitCallback,
     CallbackReturns, HttpAnswers, Outside

\* Composed with a session's callback the engine is still the engine.
THEOREM GatedIsAnEngine == GatedSpec => Spec
<1>1. GatedInit => Init
  BY DEF GatedInit
<1> QED
  BY <1>1, StepIsEngineStep, PTL DEF GatedSpec, Spec

\* And so implements the abstract gate.
THEOREM GatedImplementsGate == GatedSpec => ImplementsGate
BY GatedIsAnEngine, EngineImplementsGate

LEMMA GatedIsASession == GatedSpec => Approval!Spec
<1>1. GatedInit => Approval!Init
  BY DEF GatedInit, Session!Init, Approval!Init
<1> QED
  BY <1>1, StepIsSessionStep, PTL DEF GatedSpec, Approval!Spec

------------------------------------------------------------------------------
\* The engine acts on what the session's callback returned, and that is final.
AnswerIsFinal ==
  \A c \in Call :
    approved[c] = "yes" /\ callback[c] # "http" => at[c] = "returned" /\ answer[c] = "yes"

LEMMA GatedInitEstablishes == GatedInit => AnswerIsFinal
BY DEF GatedInit, Init, AnswerIsFinal

LEMMA StepKeepsAnswer ==
  ASSUME IInv, Approval!TypeOK, AnswerIsFinal, [GatedNext]_gatedVars
  PROVE  AnswerIsFinal'
<1>1. ASSUME UNCHANGED <<approved, callback, at, answer>>
      PROVE  AnswerIsFinal'
  BY <1>1 DEF AnswerIsFinal
<1>2. ASSUME NEW c \in Call, EngineStep(c) PROVE AnswerIsFinal'
  <2>1. UNCHANGED <<approved, at, answer>>
    BY <1>2 DEF EngineStep, ToolCalls, Begin, AutoRun, NoCallback, Ask, StampBackup,
         BackupRaises, CopyFile, CopyFails, SkipWord, NothingToCopy, Spawn, SpawnFails,
         Collect, TimeOut, Finish, ProcessWrites, ProcessExits, locals, sessionVars
  <2>2. CASE ToolCalls(c)
    <3>1. approved[c] = "none"
      BY <2>2 DEF ToolCalls, Begin, Goto, IInv, GateHeld
    <3>2. \A d \in Call \ {c} : callback'[d] = callback[d]
      BY <2>2 DEF ToolCalls, Begin, IInv, TypeOK
    <3> QED
      BY <2>1, <3>1, <3>2 DEF AnswerIsFinal
  <2>3. CASE ~ToolCalls(c)
    <3>1. UNCHANGED callback
      BY <1>2, <2>3 DEF EngineStep, AutoRun, NoCallback, Ask, StampBackup,
         BackupRaises, CopyFile, CopyFails, SkipWord, NothingToCopy, Spawn, SpawnFails,
         Collect, TimeOut, Finish, ProcessWrites, ProcessExits, locals
    <3> QED
      BY <1>1, <2>1, <3>1
  <2> QED
    BY <2>2, <2>3
<1>3. ASSUME NEW c \in Call, AwaitCallback(c) PROVE AnswerIsFinal'
  <2>1. UNCHANGED <<approved, callback>>
    BY <1>3 DEF AwaitCallback, vars, locals
  <2>2. at[c] # "returned" /\ \A d \in Call \ {c} : at'[d] = at[d] /\ answer'[d] = answer[d]
    BY <1>3 DEF Approval!TypeOK, AwaitCallback, Session!CallbackStep, Session!NoConnection,
         Session!SendPrompt, Session!SendRaises, Session!Register, Session!Expire,
         Session!Resume, Session!MayBegin
  <2> QED
    BY <2>1, <2>2 DEF AnswerIsFinal
<1>4. ASSUME NEW c \in Call, CallbackReturns(c) \/ HttpAnswers(c) PROVE AnswerIsFinal'
  <2>1. UNCHANGED <<at, answer>>
    BY <1>4 DEF CallbackReturns, HttpAnswers, sessionVars
  <2>2. CASE Approved(c)
    <3>1. /\ UNCHANGED callback
          /\ \A d \in Call \ {c} : approved'[d] = approved[d]
      BY <2>2 DEF Approved, IInv, TypeOK
    <3>2. callback[c] = "http" \/ (at[c] = "returned" /\ answer[c] = "yes")
      BY <1>4, <2>2 DEF CallbackReturns, HttpAnswers, Approved, Refused, CallbackRaises,
         Goto, IInv, TypeOK
    <3> QED
      BY <2>1, <3>1, <3>2 DEF AnswerIsFinal
  <2>3. CASE Refused(c)
    BY <2>1, <2>3 DEF Refused, AnswerIsFinal, IInv, TypeOK
  <2>4. CASE CallbackRaises(c)
    BY <2>1, <2>4 DEF CallbackRaises, AnswerIsFinal, locals
  <2> QED
    BY <1>4, <2>2, <2>3, <2>4 DEF CallbackReturns, HttpAnswers
<1>5. CASE Outside
  BY <1>1, <1>5 DEF Outside, AllEnded, vars, locals, sessionVars, Session!Environment,
     Session!StartSession, Session!Disconnect, Session!UserAnswers,
     Session!StrayLine, Session!HandleResponse, Session!callVars
<1>6. CASE UNCHANGED gatedVars
  BY <1>1, <1>6 DEF gatedVars, vars, locals, sessionVars
<1> QED
  BY <1>2, <1>3, <1>4, <1>5, <1>6 DEF GatedNext

LEMMA AnswerAlwaysFinal == GatedSpec => []AnswerIsFinal
<1>1. Approval!Spec => []Approval!TypeOK
  BY GatedAssumption, Approval!ApprovalTypeOK DEF Approval!ApprovalAssumption
<1> QED
  BY <1>1, InvariantHolds, GatedIsAnEngine, GatedIsASession, GatedInitEstablishes,
     StepKeepsAnswer, PTL DEF GatedSpec

\* What ran with approval, however it came about, is what the callback
\* approved, and that the yeses of the user pay for (AnswerIsFinal and
\* OneYesOneApproval together): no more of it than the user said yes to.
THEOREM NeverRunsWithoutAYes == GatedSpec => []NoRunWithoutAYes
<1>1. Approval!Spec => []Approval!HInv
  BY GatedAssumption, Approval!HistoryHolds DEF Approval!ApprovalAssumption
<1>2. ASSUME IInv, AnswerIsFinal, Approval!HInv
      PROVE  NoRunWithoutAYes
  <2> DEFINE Ran == {c \in Call : proc[c] # "none" /\ ~AutoRuns(c) /\ callback[c] # "http"}
  <2>1. Ran \in SUBSET Approval!Approvals
    <3>1. ASSUME NEW c \in Ran PROVE answer[c] = "yes"
      BY <1>2, <3>1 DEF IInv, GateHeld, Allowed, AnswerIsFinal
    <3> QED
      BY <3>1 DEF Approval!Approvals
  <2>2. Approval!YesSpentOnce
    BY <1>2 DEF Approval!HInv
  <2> HIDE DEF Ran
  \* The instance has a Cardinality of its own, with the same definition.
  <2>3. Cardinality(Ran) <= Cardinality(Approval!YesSaid)
    <3>1. Approval!Cardinality(Ran) <= Approval!Cardinality(Approval!YesSaid)
      BY <2>1, <2>2, GatedAssumption, Approval!YesesPay DEF Approval!ApprovalAssumption
    <3> QED
      BY <3>1 DEF Cardinality, Approval!Cardinality
  <2> QED
    BY <2>3 DEF Ran, NoRunWithoutAYes, Approval!YesSaid
<1> QED
  BY <1>1, <1>2, AnswerAlwaysFinal, GatedIsAnEngine, GatedIsASession, InvariantHolds, PTL
==============================================================================
