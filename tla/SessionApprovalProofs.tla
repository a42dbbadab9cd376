------------------------- MODULE SessionApprovalProofs -------------------------
(***************************************************************************)
(* The approval callback for any number of calls: types, the single slot,  *)
(* the fate of a call made from the session's own turn, how many calls the *)
(* user's answers can approve, and which, while calls do not overlap.      *)
(***************************************************************************)
EXTENDS SessionApproval, SequenceTheorems, FiniteSetTheorems, TLAPS

\* A response reaches the Future in the slot only while no turn is busy, and
\* the owner of that Future is waiting: the Future of a turn's own call is
\* never resolved, so Resume can only time out.
TurnUnheard == \A c \in InTurn : future[c] \in {"none", "pending", "cancelled"}

\* So no such call is ever approved, whatever its user answers.
InTurnIsNeverApproved == \A c \in InTurn : answer[c] # "yes"

IInv == TypeOK /\ SlotHasAWaiter /\ TurnUnheard /\ InTurnIsNeverApproved

LEMMA InitEstablishes == Init => IInv
<1> SUFFICES ASSUME Init PROVE IInv
  OBVIOUS
<1>1. TypeOK
  <2>1. prompts \in Seq(Call) /\ replies \in Seq(Reply)
    BY DEF Init
  <2> QED
    BY <2>1 DEF Init, TypeOK, Answer
<1>2. SlotHasAWaiter
  BY DEF Init, SlotHasAWaiter
<1>3. TurnUnheard /\ InTurnIsNeverApproved
  BY ApprovalAssumption DEF Init, TurnUnheard, InTurnIsNeverApproved
<1> QED
  BY <1>1, <1>2, <1>3 DEF IInv

\* A response changes the Future of at most the call in the slot.
LEMMA DeliverChanges ==
  ASSUME TypeOK, SlotHasAWaiter, NEW v \in {"yes", "no"}, Deliver(v)
  PROVE  /\ future' \in [Call -> {"none", "pending", "yes", "no", "cancelled"}]
         /\ \A c \in Call : future'[c] # future[c] => c = pending /\ at[c] = "waiting"
BY ApprovalAssumption DEF Deliver, TypeOK, SlotHasAWaiter

------------------------------------------------------------------------------
LEMMA StepTypeOK ==
  ASSUME IInv, [Next]_approvalVars
  PROVE  TypeOK'
<1> USE DEF IInv, TypeOK, Answer
<1>1. CASE StartSession
  BY <1>1 DEF StartSession, callVars, wire
<1>2. CASE Disconnect
  <2>1. PICK n \in 0 .. Len(replies) : replies' = SubSeq(replies, 1, n)
    BY <1>2 DEF Disconnect
  <2>2. replies' \in Seq(Reply)
    BY <2>1, SubSeqProperties
  <2> QED
    BY <1>2, <2>2 DEF Disconnect, callVars
<1>3. CASE HandleResponse
  <2>1. Head(replies) \in Reply /\ Tail(replies) \in Seq(Reply)
    BY <1>3, HeadTailProperties DEF HandleResponse
  <2>2. future' \in [Call -> {"none", "pending", "yes", "no", "cancelled"}]
    BY <1>3, <2>1, DeliverChanges DEF HandleResponse, Reply
  <2> QED
    BY <1>3, <2>1, <2>2 DEF HandleResponse
<1>4. CASE UserAnswers \/ StrayLine
  <2>1. Head(prompts) \in Call /\ Tail(prompts) \in Seq(Call)
    BY <1>4, HeadTailProperties DEF UserAnswers, StrayLine
  <2>2. CASE UserAnswers
    BY <2>1, <2>2 DEF UserAnswers, callVars, Reply
  <2>3. CASE StrayLine
    BY <2>1, <2>3 DEF StrayLine, callVars, Reply
  <2> QED
    BY <1>4, <2>2, <2>3
<1>5. ASSUME NEW c \in Call, NoConnection(c) PROVE TypeOK'
  BY <1>5 DEF NoConnection, wire
<1>6. ASSUME NEW c \in Call, SendPrompt(c) PROVE TypeOK'
  BY <1>6 DEF SendPrompt
<1>7. ASSUME NEW c \in Call, SendRaises(c) PROVE TypeOK'
  BY <1>7 DEF SendRaises, wire
<1>8. ASSUME NEW c \in Call, Register(c) PROVE TypeOK'
  BY <1>8 DEF Register, wire
<1>9. ASSUME NEW c \in Call, Expire(c) PROVE TypeOK'
  BY <1>9 DEF Expire, wire
<1>10. ASSUME NEW c \in Call, Resume(c) PROVE TypeOK'
  BY <1>10 DEF Resume, ClearSlot, wire
<1>11. CASE AllSettled \/ UNCHANGED approvalVars
  BY <1>11 DEF AllSettled, approvalVars, callVars, wire
<1> QED
  BY <1>1, <1>2, <1>3, <1>4, <1>5, <1>6, <1>7, <1>8, <1>9, <1>10, <1>11
     DEF Next, CallbackStep, Environment

\* The slot and the turn.
LEMMA StepKeepsSlot ==
  ASSUME IInv, [Next]_approvalVars
  PROVE  SlotHasAWaiter' /\ TurnUnheard' /\ InTurnIsNeverApproved'
<1> DEFINE Kept == SlotHasAWaiter' /\ TurnUnheard' /\ InTurnIsNeverApproved'
<1> USE ApprovalAssumption
    DEF IInv, TypeOK, SlotHasAWaiter, TurnUnheard, InTurnIsNeverApproved
<1>1. CASE StartSession \/ Disconnect \/ UserAnswers \/ StrayLine
  BY <1>1 DEF StartSession, Disconnect, UserAnswers, StrayLine, callVars
<1>2. CASE HandleResponse
  <2>1. Head(replies).approved \in {"yes", "no"}
    <3>1. Head(replies) \in Reply
      BY <1>2, HeadTailProperties DEF HandleResponse
    <3> QED
      BY <3>1 DEF Reply
  <2>2. \A c \in Call : future'[c] # future[c] => c = pending /\ at[c] = "waiting"
    BY <1>2, <2>1, DeliverChanges DEF HandleResponse
  <2>3. \A c \in InTurn : future'[c] = future[c]
    BY <1>2, <2>2 DEF HandleResponse, TurnBusy, InProgress
  <2> QED
    BY <1>2, <2>3 DEF HandleResponse
<1>3. ASSUME NEW c \in Call, NoConnection(c) PROVE Kept
  BY <1>3 DEF NoConnection, MayBegin
<1>4. ASSUME NEW c \in Call, SendPrompt(c) PROVE Kept
  BY <1>4 DEF SendPrompt, MayBegin
<1>5. ASSUME NEW c \in Call, SendRaises(c) PROVE Kept
  BY <1>5 DEF SendRaises, MayBegin
<1>6. ASSUME NEW c \in Call, Register(c) PROVE Kept
  BY <1>6 DEF Register
<1>7. ASSUME NEW c \in Call, Expire(c) PROVE Kept
  BY <1>7 DEF Expire
<1>8. ASSUME NEW c \in Call, Resume(c) PROVE Kept
  BY <1>8 DEF Resume, ClearSlot
<1>9. CASE AllSettled \/ UNCHANGED approvalVars
  BY <1>9 DEF AllSettled, approvalVars, callVars
<1> QED
  BY <1>1, <1>2, <1>3, <1>4, <1>5, <1>6, <1>7, <1>8, <1>9
     DEF Next, CallbackStep, Environment

LEMMA StepPreserves == IInv /\ [Next]_approvalVars => IInv'
BY StepTypeOK, StepKeepsSlot DEF IInv

LEMMA InvariantHolds == Spec => []IInv
BY InitEstablishes, StepPreserves, PTL DEF Spec

------------------------------------------------------------------------------
\* The prompts and responses on the wire: at most one of them is about a call,
\* none about a call that has not begun; a prompt that is not read yet has no
\* answer, and a yes on the wire is one the user gave.
WireInOrder ==
  /\ \A i, j \in DOMAIN prompts : prompts[i] = prompts[j] => i = j
  /\ \A i, j \in DOMAIN replies : replies[i].about = replies[j].about => i = j
  /\ \A i \in DOMAIN prompts, j \in DOMAIN replies : prompts[i] # replies[j].about
  /\ \A i \in DOMAIN prompts : at[prompts[i]] # "idle" /\ said[prompts[i]] = "none"
  /\ \A j \in DOMAIN replies :
       /\ at[replies[j].about] # "idle"
       /\ replies[j].approved = "yes" => said[replies[j].about] = "yes"
  /\ \A c \in Call : at[c] = "idle" => said[c] = "none"

\* The elements of a sequence after its head was taken or one was added.
LEMMA TailElements ==
  ASSUME NEW S, NEW s \in Seq(S), s # << >>
  PROVE  /\ Head(s) = s[1] /\ 1 \in DOMAIN s /\ Head(s) \in S
         /\ Tail(s) \in Seq(S)
         /\ \A i \in DOMAIN Tail(s) :
              i \in Nat /\ i + 1 \in DOMAIN s /\ i + 1 # 1 /\ Tail(s)[i] = s[i + 1]
BY HeadTailProperties

LEMMA AppendElements ==
  ASSUME NEW S, NEW s \in Seq(S), NEW e \in S
  PROVE  /\ Append(s, e) \in Seq(S)
         /\ Len(s) + 1 \notin DOMAIN s
         /\ \A i \in DOMAIN Append(s, e) :
              \/ i \in DOMAIN s /\ Append(s, e)[i] = s[i]
              \/ i = Len(s) + 1 /\ Append(s, e)[i] = e
BY AppendProperties

LEMMA PrefixElements ==
  ASSUME NEW S, NEW s \in Seq(S), NEW n \in 0 .. Len(s)
  PROVE  /\ SubSeq(s, 1, n) \in Seq(S)
         /\ \A i \in DOMAIN SubSeq(s, 1, n) : i \in DOMAIN s /\ SubSeq(s, 1, n)[i] = s[i]
BY SubSeqProperties

LEMMA WireTypes ==
  ASSUME TypeOK
  PROVE  /\ \A i \in DOMAIN prompts : prompts[i] \in Call
         /\ \A j \in DOMAIN replies :
              replies[j].about \in Call /\ replies[j].approved \in {"yes", "no"}
<1>1. \A i \in DOMAIN prompts : prompts[i] \in Call
  BY DEF TypeOK
<1>2. \A j \in DOMAIN replies : replies[j] \in Reply
  BY DEF TypeOK
<1> QED
  BY <1>1, <1>2 DEF Reply

\* What a step takes from the wire, puts on it, and begins.
LEMMA StepKeepsWire ==
  ASSUME IInv, WireInOrder, [Next]_approvalVars
  PROVE  WireInOrder'
<1> USE DEF IInv, TypeOK
<1>1. CASE Disconnect
  <2>1. PICK n \in 0 .. Len(replies) : replies' = SubSeq(replies, 1, n)
    BY <1>1 DEF Disconnect
  <2>2. \A i \in DOMAIN replies' : i \in DOMAIN replies /\ replies'[i] = replies[i]
    BY <2>1, PrefixElements
  <2>3. prompts' = << >> /\ UNCHANGED <<at, said>>
    BY <1>1 DEF Disconnect, callVars
  <2> QED
    BY <2>2, <2>3 DEF WireInOrder
<1>2. CASE HandleResponse
  <2>1. \A i \in DOMAIN replies' : /\ i \in Nat /\ i + 1 \in DOMAIN replies
                                   /\ replies'[i] = replies[i + 1]
    BY <1>2, TailElements DEF HandleResponse
  <2>2. UNCHANGED <<at, prompts, said>>
    BY <1>2 DEF HandleResponse
  <2>3. \A i, j \in DOMAIN replies' : replies'[i].about = replies'[j].about => i = j
    <3>1. ASSUME NEW i \in DOMAIN replies', NEW j \in DOMAIN replies',
                 replies'[i].about = replies'[j].about
          PROVE  i = j
      <4>1. i + 1 = j + 1
        BY <2>1, <3>1 DEF WireInOrder
      <4> QED
        BY <2>1, <4>1
    <3> QED
      BY <3>1
  <2> QED
    BY <2>1, <2>2, <2>3 DEF WireInOrder
<1>3. ASSUME prompts # << >>, NEW v \in {"yes", "no"},
             prompts' = Tail(prompts), at' = at,
             replies' = Append(replies, [about |-> Head(prompts), approved |-> v]),
             \/ said' = [said EXCEPT ![Head(prompts)] = v]
             \/ said' = said /\ v = "no"
      PROVE  WireInOrder'
  <2> DEFINE r == [about |-> Head(prompts), approved |-> v]
  <2>1. /\ Head(prompts) = prompts[1] /\ 1 \in DOMAIN prompts /\ Head(prompts) \in Call
        /\ \A i \in DOMAIN prompts' : /\ i \in Nat /\ i + 1 \in DOMAIN prompts /\ i + 1 # 1
                                      /\ prompts'[i] = prompts[i + 1]
    BY <1>3, TailElements
  <2>2. /\ Len(replies) + 1 \notin DOMAIN replies
        /\ \A i \in DOMAIN replies' : \/ i \in DOMAIN replies /\ replies'[i] = replies[i]
                                      \/ i = Len(replies) + 1 /\ replies'[i] = r
    BY <1>3, <2>1, AppendElements DEF Reply
  <2>3. \A j \in DOMAIN replies : replies[j].about # Head(prompts) /\ replies[j].about \in Call
    BY <2>1, WireTypes DEF WireInOrder
  <2>4. /\ \A c \in Call \ {Head(prompts)} : said'[c] = said[c]
        /\ v = "yes" => said'[Head(prompts)] = "yes"
    BY <1>3, <2>1
  <2>5. ASSUME NEW i \in DOMAIN prompts', NEW j \in DOMAIN prompts', prompts'[i] = prompts'[j]
        PROVE  i = j
    <3>1. i + 1 = j + 1
      BY <2>1, <2>5 DEF WireInOrder
    <3> QED
      BY <2>1, <3>1
  <2>6. \A i \in DOMAIN prompts' : /\ prompts'[i] # Head(prompts) /\ prompts'[i] \in Call
                                   /\ said'[prompts'[i]] = "none" /\ at'[prompts'[i]] # "idle"
    <3>1. \A i \in DOMAIN prompts' : prompts'[i] # Head(prompts) /\ prompts'[i] \in Call
      BY <2>1 DEF WireInOrder
    <3> QED
      BY <1>3, <2>1, <2>4, <3>1 DEF WireInOrder
  <2>7. \A i \in DOMAIN prompts', j \in DOMAIN replies' : prompts'[i] # replies'[j].about
    <3>1. ASSUME NEW i \in DOMAIN prompts', NEW j \in DOMAIN replies'
          PROVE  prompts'[i] # replies'[j].about
      <4>1. CASE j \in DOMAIN replies /\ replies'[j] = replies[j]
        BY <2>1, <3>1, <4>1 DEF WireInOrder
      <4>2. CASE replies'[j] = r
        BY <2>6, <4>2
      <4> QED
        BY <2>2, <4>1, <4>2
    <3> QED
      BY <3>1
  <2>8. \A i, j \in DOMAIN replies' : replies'[i].about = replies'[j].about => i = j
    BY <2>2, <2>3 DEF WireInOrder
  <2>9. \A j \in DOMAIN replies' :
          /\ at'[replies'[j].about] # "idle"
          /\ replies'[j].approved = "yes" => said'[replies'[j].about] = "yes"
    <3>1. ASSUME NEW j \in DOMAIN replies'
          PROVE  /\ at'[replies'[j].about] # "idle"
                 /\ replies'[j].approved = "yes" => said'[replies'[j].about] = "yes"
      <4>1. CASE j \in DOMAIN replies /\ replies'[j] = replies[j]
        BY <1>3, <2>3, <2>4, <4>1 DEF WireInOrder
      <4>2. CASE replies'[j] = r
        BY <1>3, <2>1, <2>4, <4>2 DEF WireInOrder
      <4> QED
        BY <2>2, <4>1, <4>2
    <3> QED
      BY <3>1
  <2>10. \A c \in Call : at'[c] = "idle" => said'[c] = "none"
    BY <1>3, <2>1, <2>4 DEF WireInOrder
  <2> QED
    BY <2>5, <2>6, <2>7, <2>8, <2>9, <2>10 DEF WireInOrder
<1>4. CASE UserAnswers \/ StrayLine
  BY <1>3, <1>4 DEF UserAnswers, StrayLine, callVars
<1>5. ASSUME NEW c \in Call, SendPrompt(c) PROVE WireInOrder'
  <2>1. /\ at[c] = "idle" /\ at' = [at EXCEPT ![c] = "sending"]
        /\ prompts' = Append(prompts, c) /\ UNCHANGED <<replies, said>>
    BY <1>5 DEF SendPrompt, MayBegin
  <2>2. /\ Len(prompts) + 1 \notin DOMAIN prompts
        /\ \A i \in DOMAIN prompts' : \/ i \in DOMAIN prompts /\ prompts'[i] = prompts[i]
                                      \/ i = Len(prompts) + 1 /\ prompts'[i] = c
    BY <2>1, AppendElements
  <2>3. /\ \A i \in DOMAIN prompts : prompts[i] # c
        /\ \A j \in DOMAIN replies : replies[j].about # c
        /\ said[c] = "none"
    BY <2>1 DEF WireInOrder
  <2>4. \A d \in Call : at'[d] = "idle" => at[d] = "idle"
    BY <2>1
  <2>5. \A i, j \in DOMAIN prompts' : prompts'[i] = prompts'[j] => i = j
    BY <2>2, <2>3 DEF WireInOrder
  <2>6. \A i \in DOMAIN prompts', j \in DOMAIN replies' : prompts'[i] # replies'[j].about
    BY <2>1, <2>2, <2>3 DEF WireInOrder
  <2>7. \A i \in DOMAIN prompts' : at'[prompts'[i]] # "idle" /\ said'[prompts'[i]] = "none"
    BY <2>1, <2>2, <2>3 DEF WireInOrder
  <2>8. \A j \in DOMAIN replies' :
          /\ at'[replies'[j].about] # "idle"
          /\ replies'[j].approved = "yes" => said'[replies'[j].about] = "yes"
    BY <2>1 DEF WireInOrder, Reply
  <2> QED
    BY <2>1, <2>4, <2>5, <2>6, <2>7, <2>8 DEF WireInOrder
<1>6. ASSUME NEW c \in Call,
             \/ NoConnection(c) \/ SendRaises(c) \/ Register(c) \/ Expire(c) \/ Resume(c)
      PROVE  WireInOrder'
  <2>1. /\ UNCHANGED <<prompts, replies, said>>
        /\ \A d \in Call : at'[d] = "idle" => at[d] = "idle"
    BY <1>6 DEF NoConnection, SendRaises, Register, Expire, Resume, wire
  <2> QED
    BY <2>1, WireTypes DEF WireInOrder
<1>7. CASE StartSession \/ AllSettled \/ UNCHANGED approvalVars
  BY <1>7 DEF StartSession, AllSettled, approvalVars, callVars, wire, WireInOrder
<1> QED
  BY <1>1, <1>2, <1>4, <1>5, <1>6, <1>7 DEF Next, CallbackStep, Environment

------------------------------------------------------------------------------
\* Counting approvals.  A call that was approved, or is about to be, has spent
\* a yes of the user that no other call has spent and that is on no response
\* still to be read: a yes that is dropped or comes late is spent on nobody.
Approvals == {c \in Call : "yes" \in {future[c], answer[c]}}
YesSaid == {c \in Call : said[c] = "yes"}

YesSpentOnce ==
  /\ IsFiniteSet(YesSaid)
  /\ \E spent \in Injection(Approvals, YesSaid) :
       \A c \in Approvals, j \in DOMAIN replies :
         replies[j].approved = "yes" => replies[j].about # spent[c]

\* The calls that a prompt or a response on the wire is about.
OnTheWire == {prompts[i] : i \in DOMAIN prompts} \cup {replies[j].about : j \in DOMAIN replies}

\* A call has a Future exactly from its registration on, and a Future is
\* cancelled by its timer only.
FutureInOrder ==
  \A c \in Call :
    /\ at[c] \in {"idle", "sending"} => future[c] = "none"
    /\ at[c] = "waiting" => future[c] # "none"
    /\ future[c] = "cancelled" => expired[c]

\* While calls do not overlap and no timer fired: one call is in progress, and
\* what is on the wire is about that call, which has no answer yet; when the
\* connection is gone it may also be about one that has raised, and then
\* nobody else is in progress or will be.
OneAtATime ==
  ~overlapped /\ (\A c \in Call : ~expired[c]) =>
    /\ \A c, d \in Call : InProgress(c) /\ InProgress(d) => c = d
    /\ \A y \in OnTheWire :
         /\ connection # "closed" => InProgress(y)
         /\ \A c \in Call : InProgress(c) => c = y
         /\ future[y] \notin {"yes", "no"}
    /\ \A c \in Call : "yes" \in {future[c], answer[c]} => said[c] = "yes"

HInv == IInv /\ WireInOrder /\ YesSpentOnce /\ FutureInOrder /\ OneAtATime

\* Where no call is newly approved, no yes is taken back and no yes that was
\* spent is sent, the yeses that were spent pay for what is left.
LEMMA SpentStays ==
  ASSUME YesSpentOnce, IsFiniteSet(YesSaid'), YesSaid \subseteq YesSaid',
         Approvals' \subseteq Approvals,
         \A j \in DOMAIN replies' :
           \/ \E i \in DOMAIN replies : replies[i] = replies'[j]
           \/ replies'[j].approved = "yes" => replies'[j].about \notin YesSaid
  PROVE  YesSpentOnce'
<1>1. PICK spent \in Injection(Approvals, YesSaid) :
        \A c \in Approvals, j \in DOMAIN replies :
          replies[j].approved = "yes" => replies[j].about # spent[c]
  BY DEF YesSpentOnce
<1> DEFINE f == [c \in Approvals' |-> spent[c]]
<1>2. spent \in [Approvals -> YesSaid] /\ \A c, d \in Approvals : spent[c] = spent[d] => c = d
  BY <1>1 DEF Injection, IsInjective
<1>3. f \in [Approvals' -> YesSaid'] /\ \A c, d \in Approvals' : f[c] = f[d] => c = d
  BY <1>2
<1>4. f \in Injection(Approvals', YesSaid')
  BY <1>3 DEF Injection, IsInjective
<1>5. ASSUME NEW c \in Approvals', NEW j \in DOMAIN replies', replies'[j].approved = "yes"
      PROVE  replies'[j].about # f[c]
  <2>1. f[c] = spent[c] /\ spent[c] \in YesSaid /\ c \in Approvals
    BY <1>2, <1>5
  <2>2. CASE \E i \in DOMAIN replies : replies[i] = replies'[j]
    BY <1>1, <1>5, <2>1, <2>2
  <2>3. CASE replies'[j].about \notin YesSaid
    BY <2>1, <2>3
  <2> QED
    BY <1>5, <2>2, <2>3
<1> HIDE DEF f
<1> QED
  BY <1>4, <1>5 DEF YesSpentOnce

\* A response that is read: a yes goes to the call in the slot, whoever it is
\* about, and no other response is about the same prompt.
LEMMA DeliverySpends ==
  ASSUME IInv, WireInOrder, YesSpentOnce, HandleResponse
  PROVE  YesSpentOnce'
<1> DEFINE r == Head(replies)
<1>1. /\ r = replies[1] /\ 1 \in DOMAIN replies
      /\ r.about \in Call /\ r.approved \in {"yes", "no"}
      /\ \A i \in DOMAIN replies' : /\ i \in Nat /\ i + 1 \in DOMAIN replies /\ i + 1 # 1
                                    /\ replies'[i] = replies[i + 1]
  BY TailElements, WireTypes DEF HandleResponse, IInv, TypeOK
<1>2. UNCHANGED <<answer, said>> /\ Deliver(r.approved)
  BY DEF HandleResponse
<1>3. YesSaid' = YesSaid /\ IsFiniteSet(YesSaid')
  BY <1>2 DEF YesSaid, YesSpentOnce
<1>4. \A j \in DOMAIN replies' : \E i \in DOMAIN replies : replies[i] = replies'[j]
  BY <1>1
<1>5. CASE r.approved = "no" \/ future' = future
  <2>1. Approvals' \subseteq Approvals
    BY <1>2, <1>5 DEF Deliver, Approvals, IInv, TypeOK
  <2> QED
    BY <1>3, <1>4, <2>1, SpentStays
<1>6. CASE r.approved = "yes" /\ future' # future
  <2>1. future' = [future EXCEPT ![pending] = "yes"]
    BY <1>2, <1>6 DEF Deliver
  <2>2. Approvals' \subseteq Approvals \cup {pending}
    BY <1>2, <2>1 DEF Approvals, IInv, TypeOK
  <2>3. PICK spent \in Injection(Approvals, YesSaid) :
          \A c \in Approvals, j \in DOMAIN replies :
            replies[j].approved = "yes" => replies[j].about # spent[c]
    BY DEF YesSpentOnce
  <2>4. spent \in [Approvals -> YesSaid] /\ \A c, d \in Approvals : spent[c] = spent[d] => c = d
    BY <2>3 DEF Injection, IsInjective
  <2>5. r.about \in YesSaid /\ \A c \in Approvals : spent[c] # r.about
    BY <1>1, <1>6, <2>3 DEF WireInOrder, YesSaid
  <2> DEFINE f == [c \in Approvals' |-> IF c = pending THEN r.about ELSE spent[c]]
  <2>6. f \in [Approvals' -> YesSaid'] /\ \A c, d \in Approvals' : f[c] = f[d] => c = d
    BY <1>3, <2>2, <2>4, <2>5
  <2>7. f \in Injection(Approvals', YesSaid')
    BY <2>6 DEF Injection, IsInjective
  <2>8. ASSUME NEW c \in Approvals', NEW j \in DOMAIN replies', replies'[j].approved = "yes"
        PROVE  replies'[j].about # f[c]
    <3>1. j + 1 \in DOMAIN replies /\ j + 1 # 1 /\ replies'[j] = replies[j + 1]
      BY <1>1
    <3>2. replies'[j].about # r.about
      BY <1>1, <3>1 DEF WireInOrder
    <3>3. \A d \in Approvals : replies'[j].about # spent[d]
      BY <2>3, <2>8, <3>1
    <3> QED
      BY <2>2, <3>2, <3>3
  <2> HIDE DEF f
  <2> QED
    BY <1>3, <2>7, <2>8 DEF YesSpentOnce
<1> QED
  BY <1>1, <1>5, <1>6

LEMMA StepSpends ==
  ASSUME IInv, WireInOrder, FutureInOrder, YesSpentOnce, [Next]_approvalVars
  PROVE  YesSpentOnce'
<1> USE DEF IInv, TypeOK
<1>1. CASE Disconnect
  <2>1. PICK n \in 0 .. Len(replies) : replies' = SubSeq(replies, 1, n)
    BY <1>1 DEF Disconnect
  <2>2. \A i \in DOMAIN replies' : i \in DOMAIN replies /\ replies'[i] = replies[i]
    BY <2>1, PrefixElements
  <2>3. YesSaid' = YesSaid /\ Approvals' = Approvals
    BY <1>1 DEF Disconnect, callVars, YesSaid, Approvals
  <2>4. \A j \in DOMAIN replies' : \E i \in DOMAIN replies : replies[i] = replies'[j]
    BY <2>2
  <2> QED
    BY <2>3, <2>4, SpentStays DEF YesSpentOnce
<1>2. CASE HandleResponse
  BY <1>2, DeliverySpends
<1>3. CASE UserAnswers \/ StrayLine
  <2>1. /\ Head(prompts) \in Call
        /\ Head(prompts) = prompts[1] /\ 1 \in DOMAIN prompts
    BY <1>3, TailElements DEF UserAnswers, StrayLine
  <2>2. said[Head(prompts)] = "none"
    BY <2>1 DEF WireInOrder
  <2>3. Approvals' = Approvals
    BY <1>3 DEF UserAnswers, StrayLine, callVars, Approvals
  <2>4. PICK v \in {"yes", "no"} :
          /\ replies' = Append(replies, [about |-> Head(prompts), approved |-> v])
          /\ \/ said' = [said EXCEPT ![Head(prompts)] = v]
             \/ said' = said
    BY <1>3 DEF UserAnswers, StrayLine
  <2>5. YesSaid' = YesSaid \/ YesSaid' = YesSaid \cup {Head(prompts)}
    <3>1. CASE said' = said
      BY <3>1 DEF YesSaid
    <3>2. CASE said' = [said EXCEPT ![Head(prompts)] = v] /\ v = "yes"
      BY <2>1, <3>2 DEF YesSaid
    <3>3. CASE said' = [said EXCEPT ![Head(prompts)] = v] /\ v = "no"
      BY <2>1, <2>2, <3>3 DEF YesSaid
    <3> QED
      BY <2>4, <3>1, <3>2, <3>3
  <2>6. IsFiniteSet(YesSaid')
    <3>1. IsFiniteSet(YesSaid)
      BY DEF YesSpentOnce
    <3>2. IsFiniteSet(YesSaid \cup {Head(prompts)})
      BY <3>1, FS_AddElement
    <3> QED
      BY <2>5, <3>1, <3>2
  <2>7. \A j \in DOMAIN replies' :
          \/ \E i \in DOMAIN replies : replies[i] = replies'[j]
          \/ replies'[j].approved = "yes" => replies'[j].about \notin YesSaid
    <3>1. \A j \in DOMAIN replies' :
            \/ j \in DOMAIN replies /\ replies'[j] = replies[j]
            \/ replies'[j] = [about |-> Head(prompts), approved |-> v]
      BY <2>1, <2>4, AppendElements DEF Reply
    <3>2. Head(prompts) \notin YesSaid
      BY <2>2 DEF YesSaid
    <3> QED
      BY <3>1, <3>2, SMTT(20)
  <2> QED
    BY <2>3, <2>5, <2>6, <2>7, SpentStays
<1>4. ASSUME UNCHANGED <<replies, said>>, Approvals' \subseteq Approvals
      PROVE  YesSpentOnce'
  <2>1. YesSaid' = YesSaid
    BY <1>4 DEF YesSaid
  <2> QED
    BY <1>4, <2>1, SpentStays DEF YesSpentOnce
<1>5. ASSUME NEW c \in Call,
             NoConnection(c) \/ SendPrompt(c) \/ SendRaises(c) \/ Register(c) \/ Expire(c)
      PROVE  YesSpentOnce'
  <2>1. Approvals' \subseteq Approvals /\ UNCHANGED <<replies, said>>
    BY <1>5 DEF NoConnection, SendPrompt, SendRaises, Register, Expire, wire, Approvals
  <2> QED
    BY <1>4, <2>1
<1>6. ASSUME NEW c \in Call, Resume(c) PROVE YesSpentOnce'
  <2>1. future' = future /\ UNCHANGED <<replies, said>>
    BY <1>6 DEF Resume, wire
  <2>2. \A d \in Call : answer'[d] = "yes" => answer[d] = "yes" \/ future[d] = "yes"
    BY <1>6 DEF Resume
  <2>3. Approvals' \subseteq Approvals
    BY <2>1, <2>2 DEF Approvals
  <2> QED
    BY <1>4, <2>1, <2>3
<1>7. CASE StartSession \/ AllSettled \/ UNCHANGED approvalVars
  <2>1. Approvals' = Approvals /\ UNCHANGED <<replies, said>>
    BY <1>7 DEF StartSession, AllSettled, approvalVars, callVars, wire, Approvals
  <2> QED
    BY <1>4, <2>1
<1> QED
  BY <1>1, <1>2, <1>3, <1>5, <1>6, <1>7 DEF Next, CallbackStep, Environment

------------------------------------------------------------------------------
LEMMA StepKeepsFutures ==
  ASSUME IInv, FutureInOrder, [Next]_approvalVars
  PROVE  FutureInOrder'
<1> USE DEF IInv, TypeOK, FutureInOrder
<1>1. CASE HandleResponse
  <2>1. Head(replies).approved \in {"yes", "no"}
    BY <1>1, TailElements, WireTypes DEF HandleResponse
  <2>2. \A c \in Call : future'[c] # future[c] =>
          at[c] = "waiting" /\ future'[c] \in {"yes", "no"}
    BY <1>1, <2>1, ApprovalAssumption DEF HandleResponse, Deliver, SlotHasAWaiter
  <2> QED
    BY <1>1, <2>2 DEF HandleResponse
<1>2. ASSUME NEW c \in Call,
             NoConnection(c) \/ SendPrompt(c) \/ SendRaises(c) \/ Register(c) \/ Resume(c)
      PROVE  FutureInOrder'
  BY <1>2 DEF NoConnection, SendPrompt, SendRaises, Register, Resume, MayBegin
<1>3. ASSUME NEW c \in Call, Expire(c) PROVE FutureInOrder'
  BY <1>3 DEF Expire
<1>4. CASE StartSession \/ Disconnect \/ UserAnswers \/ StrayLine \/ AllSettled
           \/ UNCHANGED approvalVars
  BY <1>4 DEF StartSession, Disconnect, UserAnswers, StrayLine, AllSettled,
       approvalVars, callVars
<1> QED
  BY <1>1, <1>2, <1>3, <1>4 DEF Next, CallbackStep, Environment

\* What the steps do to the wire, as a set.
LEMMA ReadsOffTheWire ==
  ASSUME IInv, WireInOrder, HandleResponse
  PROVE  /\ Head(replies).about \in OnTheWire
         /\ OnTheWire' \subseteq OnTheWire \ {Head(replies).about}
<1> DEFINE r == Head(replies)
<1>1. /\ r = replies[1] /\ 1 \in DOMAIN replies
      /\ \A i \in DOMAIN replies' : /\ i \in Nat /\ i + 1 \in DOMAIN replies /\ i + 1 # 1
                                    /\ replies'[i] = replies[i + 1]
  BY TailElements DEF HandleResponse, IInv, TypeOK
<1>2. prompts' = prompts
  BY DEF HandleResponse
<1>3. ASSUME NEW i \in DOMAIN prompts
      PROVE  prompts[i] \in OnTheWire \ {r.about}
  BY <1>1 DEF WireInOrder, OnTheWire
<1>4. ASSUME NEW j \in DOMAIN replies'
      PROVE  replies'[j].about \in OnTheWire \ {r.about}
  <2>1. j + 1 \in DOMAIN replies /\ j + 1 # 1 /\ replies'[j] = replies[j + 1]
    BY <1>1
  <2> QED
    BY <1>1, <2>1 DEF WireInOrder, OnTheWire
<1>5. r.about \in OnTheWire
  BY <1>1 DEF OnTheWire
<1> HIDE DEF r
<1>6. OnTheWire' \subseteq OnTheWire \ {r.about}
  BY <1>2, <1>3, <1>4 DEF OnTheWire
<1> QED
  BY <1>5, <1>6 DEF r

LEMMA ClientKeepsTheWire ==
  ASSUME IInv, UserAnswers \/ StrayLine
  PROVE  OnTheWire' \subseteq OnTheWire
<1>1. /\ Head(prompts) = prompts[1] /\ 1 \in DOMAIN prompts /\ Head(prompts) \in Call
      /\ \A i \in DOMAIN prompts' : /\ i \in Nat /\ i + 1 \in DOMAIN prompts
                                    /\ prompts'[i] = prompts[i + 1]
  <2>1. prompts # << >> /\ prompts' = Tail(prompts) /\ prompts \in Seq(Call)
    BY DEF UserAnswers, StrayLine, IInv, TypeOK
  <2> QED
    BY <2>1, TailElements
<1>2. PICK v \in {"yes", "no"} :
        replies' = Append(replies, [about |-> Head(prompts), approved |-> v])
  BY DEF UserAnswers, StrayLine
<1>3. \A j \in DOMAIN replies' :
        \/ j \in DOMAIN replies /\ replies'[j] = replies[j]
        \/ replies'[j] = [about |-> Head(prompts), approved |-> v]
  BY <1>1, <1>2, AppendElements DEF Reply, IInv, TypeOK
<1>4. \A i \in DOMAIN prompts' : prompts'[i] \in OnTheWire
  BY <1>1 DEF OnTheWire
<1>5. \A j \in DOMAIN replies' : replies'[j].about \in OnTheWire
  BY <1>1, <1>3 DEF OnTheWire
<1> QED
  BY <1>4, <1>5 DEF OnTheWire

LEMMA DisconnectKeepsTheWire ==
  ASSUME IInv, Disconnect
  PROVE  OnTheWire' \subseteq OnTheWire
<1>1. PICK n \in 0 .. Len(replies) : replies' = SubSeq(replies, 1, n)
  BY DEF Disconnect
<1>2. \A i \in DOMAIN replies' : i \in DOMAIN replies /\ replies'[i] = replies[i]
  BY <1>1, PrefixElements DEF IInv, TypeOK
<1>3. prompts' = << >>
  BY DEF Disconnect
<1> QED
  BY <1>2, <1>3 DEF OnTheWire

LEMMA PromptOnTheWire ==
  ASSUME IInv, WireInOrder, NEW c \in Call, SendPrompt(c)
  PROVE  c \notin OnTheWire /\ OnTheWire' \subseteq OnTheWire \cup {c}
<1>1. at[c] = "idle" /\ prompts' = Append(prompts, c) /\ replies' = replies
  BY DEF SendPrompt, MayBegin
<1>2. \A i \in DOMAIN prompts' : \/ i \in DOMAIN prompts /\ prompts'[i] = prompts[i]
                                 \/ prompts'[i] = c
  BY <1>1, AppendElements DEF IInv, TypeOK
<1>3. \A i \in DOMAIN prompts' : prompts'[i] \in OnTheWire \cup {c}
  BY <1>2 DEF OnTheWire
<1>4. \A j \in DOMAIN replies' : replies'[j].about \in OnTheWire
  BY <1>1 DEF OnTheWire
<1>5. OnTheWire' \subseteq OnTheWire \cup {c}
  BY <1>3, <1>4 DEF OnTheWire
<1>6. c \notin OnTheWire
  BY <1>1 DEF WireInOrder, OnTheWire
<1> QED
  BY <1>5, <1>6

LEMMA WireHasCalls == IInv => OnTheWire \subseteq Call
BY WireTypes DEF IInv, OnTheWire

\* What the user said stays said.
LEMMA AnswersStand ==
  ASSUME IInv, WireInOrder, UserAnswers \/ StrayLine
  PROVE  \A c \in Call : said[c] = "yes" => said'[c] = "yes"
<1>1. Head(prompts) = prompts[1] /\ 1 \in DOMAIN prompts /\ Head(prompts) \in Call
  BY TailElements DEF UserAnswers, StrayLine, IInv, TypeOK
<1>2. said[Head(prompts)] = "none"
  BY <1>1 DEF WireInOrder
<1> QED
  BY <1>1, <1>2 DEF UserAnswers, StrayLine, IInv, TypeOK

\* One call at a time, by the step that could break it.
LEMMA PromptKeepsOneAtATime ==
  ASSUME HInv, NEW c \in Call, SendPrompt(c)
  PROVE  OneAtATime'
<1>1. /\ at[c] = "idle" /\ connection = "open" /\ connection' = connection
      /\ at' = [at EXCEPT ![c] = "sending"]
      /\ overlapped' = (overlapped \/ \E d \in Call : InProgress(d))
      /\ UNCHANGED <<future, expired, answer, said>>
  BY DEF SendPrompt, MayBegin
<1> SUFFICES ASSUME ~overlapped', \A d \in Call : ~expired'[d]
             PROVE  OneAtATime'
  BY DEF OneAtATime
<1>2. ~overlapped /\ (\A d \in Call : ~expired[d]) /\ \A d \in Call : ~InProgress(d)
  BY <1>1
<1>3. OnTheWire = {}
  BY <1>1, <1>2, WireHasCalls DEF HInv, OneAtATime
<1>4. OnTheWire' \subseteq {c}
  BY <1>3, PromptOnTheWire DEF HInv
<1>5. \A d \in Call : InProgress(d)' <=> d = c
  BY <1>1, <1>2 DEF InProgress, HInv, IInv, TypeOK
<1>6. future'[c] = "none"
  BY <1>1 DEF HInv, FutureInOrder
<1>7. \A d \in Call : "yes" \in {future'[d], answer'[d]} => said'[d] = "yes"
  BY <1>1, <1>2 DEF HInv, OneAtATime
<1> QED
  BY <1>4, <1>5, <1>6, <1>7 DEF OneAtATime

\* The response that is read is about the one call that waits.
LEMMA DeliveryMatches ==
  ASSUME HInv, HandleResponse
  PROVE  OneAtATime'
<1> DEFINE r == Head(replies)
<1>1. /\ r.about \in OnTheWire /\ OnTheWire' \subseteq OnTheWire \ {r.about}
      /\ OnTheWire \subseteq Call
  BY ReadsOffTheWire, WireHasCalls DEF HInv
<1>2. /\ r.approved \in {"yes", "no"}
      /\ r.approved = "yes" => said[r.about] = "yes"
  BY TailElements, WireTypes DEF HandleResponse, HInv, IInv, TypeOK, WireInOrder
<1>3. UNCHANGED <<connection, at, expired, answer, said, overlapped>> /\ Deliver(r.approved)
  BY DEF HandleResponse
<1> HIDE DEF r
<1> SUFFICES ASSUME ~overlapped, \A d \in Call : ~expired[d]
             PROVE  OneAtATime'
  BY <1>3 DEF OneAtATime
<1>4. \A c, d \in Call : InProgress(c) /\ InProgress(d) => c = d
  BY DEF HInv, OneAtATime
<1>5. \A y \in OnTheWire : /\ connection # "closed" => InProgress(y)
                           /\ \A c \in Call : InProgress(c) => c = y
                           /\ future[y] \notin {"yes", "no"}
  BY DEF HInv, OneAtATime
<1>6. \A c \in Call : future'[c] # future[c] =>
        InProgress(c) /\ future'[c] = r.approved
  BY <1>2, <1>3, ApprovalAssumption
     DEF Deliver, InProgress, HInv, IInv, TypeOK, SlotHasAWaiter
<1>7. \A c \in Call : future'[c] # future[c] => c = r.about
  BY <1>1, <1>5, <1>6
<1>8. \A c \in Call : InProgress(c)' <=> InProgress(c)
  BY <1>3 DEF InProgress
<1>9. \A y \in OnTheWire' : y \in OnTheWire /\ y # r.about /\ future'[y] = future[y]
  BY <1>1, <1>7
<1>10. \A c \in Call : "yes" \in {future'[c], answer'[c]} => said'[c] = "yes"
  <2>1. ASSUME NEW c \in Call, "yes" \in {future'[c], answer'[c]}
        PROVE  said'[c] = "yes"
    <3>1. CASE future'[c] = future[c]
      BY <1>3, <2>1, <3>1 DEF HInv, OneAtATime
    <3>2. CASE future'[c] # future[c] /\ future'[c] = "yes"
      BY <1>2, <1>3, <1>6, <1>7, <3>2
    <3>3. CASE answer'[c] = "yes"
      BY <1>3, <3>3 DEF HInv, OneAtATime
    <3> QED
      BY <2>1, <3>1, <3>2, <3>3
  <2> QED
    BY <2>1
<1>11. \A y \in OnTheWire' : /\ connection' # "closed" => InProgress(y)'
                             /\ \A c \in Call : InProgress(c)' => c = y
                             /\ future'[y] \notin {"yes", "no"}
  <2>1. ASSUME NEW y \in OnTheWire'
        PROVE  /\ y \in Call /\ future'[y] = future[y]
               /\ connection # "closed" => InProgress(y)
               /\ \A c \in Call : InProgress(c) => c = y
               /\ future[y] \notin {"yes", "no"}
    <3>1. y \in OnTheWire /\ future'[y] = future[y]
      BY <1>9, <2>1
    <3>2. y \in Call
      BY <1>1, <3>1
    <3> QED
      BY <1>5, <3>1, <3>2
  <2> QED
    BY <1>3, <1>8, <2>1
<1>12. \A c, d \in Call : InProgress(c)' /\ InProgress(d)' => c = d
  BY <1>4, <1>8
<1> QED
  BY <1>10, <1>11, <1>12 DEF OneAtATime

\* A call that ends leaves nothing on the wire that a later call could take
\* for its own.
LEMMA ResumeKeepsOneAtATime ==
  ASSUME HInv, NEW c \in Call, Resume(c)
  PROVE  OneAtATime'
<1>1. /\ at[c] = "waiting" /\ future[c] # "pending"
      /\ at' = [at EXCEPT ![c] = "returned"]
      /\ \/ future[c] \in {"yes", "no"} /\ answer' = [answer EXCEPT ![c] = future[c]]
         \/ expired[c] /\ answer' = [answer EXCEPT ![c] = "no"]
      /\ UNCHANGED <<connection, future, expired, prompts, replies, said, overlapped>>
  BY DEF Resume, wire
<1> SUFFICES ASSUME ~overlapped, \A d \in Call : ~expired[d]
             PROVE  OneAtATime'
  BY <1>1 DEF OneAtATime
<1>2. InProgress(c) /\ future[c] \in {"yes", "no"} /\ answer' = [answer EXCEPT ![c] = future[c]]
  BY <1>1 DEF InProgress
<1>3. OnTheWire = {}
  BY <1>2, WireHasCalls DEF HInv, OneAtATime
<1>4. OnTheWire' = {}
  BY <1>1, <1>3 DEF OnTheWire
<1>5. \A d \in Call : InProgress(d)' => InProgress(d)
  BY <1>1 DEF InProgress, HInv, IInv, TypeOK
<1>6. \A d \in Call : "yes" \in {future'[d], answer'[d]} => said'[d] = "yes"
  BY <1>1, <1>2 DEF HInv, IInv, TypeOK, OneAtATime
<1> QED
  BY <1>4, <1>5, <1>6 DEF HInv, OneAtATime

LEMMA StepKeepsOneAtATime ==
  ASSUME HInv, [Next]_approvalVars
  PROVE  OneAtATime'
<1>1. ASSUME NEW c \in Call, SendPrompt(c) PROVE OneAtATime'
  BY <1>1, PromptKeepsOneAtATime
<1>2. CASE HandleResponse
  BY <1>2, DeliveryMatches
<1>3. ASSUME NEW c \in Call, Resume(c) PROVE OneAtATime'
  BY <1>3, ResumeKeepsOneAtATime
<1>4. ASSUME NEW c \in Call, NoConnection(c) \/ SendRaises(c) PROVE OneAtATime'
  <2>1. /\ UNCHANGED <<connection, future, expired, prompts, replies, said, overlapped>>
        /\ \/ connection = "closed" /\ at' = [at EXCEPT ![c] = "raised"]
           \/ at[c] = "idle" /\ at' = [at EXCEPT ![c] = "returned"]
        /\ \A d \in Call : answer'[d] = "yes" => answer[d] = "yes"
    BY <1>4 DEF NoConnection, SendRaises, MayBegin, wire, HInv, IInv, TypeOK
  <2>2. /\ \A d \in Call : InProgress(d)' => InProgress(d)
        /\ connection # "closed" => \A d \in Call : InProgress(d) => InProgress(d)'
    BY <2>1 DEF InProgress, HInv, IInv, TypeOK
  <2>3. OnTheWire' = OnTheWire
    BY <2>1 DEF OnTheWire
  <2> QED
    BY <2>1, <2>2, <2>3, WireHasCalls DEF HInv, OneAtATime
<1>5. ASSUME NEW c \in Call, Register(c) PROVE OneAtATime'
  <2>1. /\ UNCHANGED <<connection, expired, answer, prompts, replies, said, overlapped>>
        /\ at[c] = "sending" /\ at' = [at EXCEPT ![c] = "waiting"]
        /\ future' = [future EXCEPT ![c] = "pending"]
    BY <1>5 DEF Register, wire
  <2>2. \A d \in Call : InProgress(d)' <=> InProgress(d)
    BY <2>1 DEF InProgress, HInv, IInv, TypeOK
  <2>3. OnTheWire' = OnTheWire
    BY <2>1 DEF OnTheWire
  <2>4. \A d \in Call : future'[d] \in {"yes", "no"} => future'[d] = future[d]
    BY <2>1 DEF HInv, IInv, TypeOK
  <2> QED
    BY <2>1, <2>2, <2>3, <2>4, WireHasCalls DEF HInv, OneAtATime
<1>6. ASSUME NEW c \in Call, Expire(c) PROVE OneAtATime'
  <2>1. expired'[c]
    BY <1>6 DEF Expire, HInv, IInv, TypeOK
  <2> QED
    BY <2>1 DEF OneAtATime
<1>7. CASE UserAnswers \/ StrayLine
  <2>1. UNCHANGED <<connection, at, future, expired, answer, overlapped>>
    BY <1>7 DEF UserAnswers, StrayLine, callVars
  <2>2. OnTheWire' \subseteq OnTheWire
    BY <1>7, ClientKeepsTheWire DEF HInv
  <2>3. \A c \in Call : said[c] = "yes" => said'[c] = "yes"
    BY <1>7, AnswersStand DEF HInv
  <2>4. \A d \in Call : InProgress(d)' <=> InProgress(d)
    BY <2>1 DEF InProgress
  <2> QED
    BY <2>1, <2>2, <2>3, <2>4, WireHasCalls DEF HInv, OneAtATime
<1>8. CASE StartSession \/ Disconnect \/ AllSettled \/ UNCHANGED approvalVars
  <2>1. /\ UNCHANGED <<at, future, expired, answer, said, overlapped>>
        /\ connection' # "closed" => connection # "closed"
    BY <1>8 DEF StartSession, Disconnect, AllSettled, approvalVars, callVars, wire
  <2>2. OnTheWire' \subseteq OnTheWire
    <3>1. CASE Disconnect
      BY <3>1, DisconnectKeepsTheWire DEF HInv
    <3>2. CASE UNCHANGED <<prompts, replies>>
      BY <3>2 DEF OnTheWire
    <3> QED
      BY <1>8, <3>1, <3>2 DEF StartSession, AllSettled, approvalVars, wire
  <2>3. \A d \in Call : InProgress(d)' <=> InProgress(d)
    BY <2>1 DEF InProgress
  <2> QED
    BY <2>1, <2>2, <2>3, WireHasCalls DEF HInv, OneAtATime
<1> QED
  BY <1>1, <1>2, <1>3, <1>4, <1>5, <1>6, <1>7, <1>8 DEF Next, CallbackStep, Environment

------------------------------------------------------------------------------
LEMMA InitCounts == Init => WireInOrder /\ YesSpentOnce /\ FutureInOrder /\ OneAtATime
<1> SUFFICES ASSUME Init
             PROVE  WireInOrder /\ YesSpentOnce /\ FutureInOrder /\ OneAtATime
  OBVIOUS
<1>1. WireInOrder /\ FutureInOrder
  BY DEF Init, WireInOrder, FutureInOrder
<1>2. Approvals = {} /\ YesSaid = {} /\ OnTheWire = {}
  BY DEF Init, Approvals, YesSaid, OnTheWire
<1>3. YesSpentOnce
  <2> DEFINE f == [c \in {} |-> NoCall]
  <2>1. f \in [Approvals -> YesSaid] /\ \A c, d \in {} : f[c] = f[d] => c = d
    BY <1>2
  <2>2. f \in Injection(Approvals, YesSaid)
    BY <2>1 DEF Injection, IsInjective
  <2>3. IsFiniteSet(YesSaid)
    BY <1>2, FS_EmptySet
  <2> QED
    BY <1>2, <2>2, <2>3 DEF YesSpentOnce
<1>4. OneAtATime
  BY <1>2 DEF Init, OneAtATime, InProgress
<1> QED
  BY <1>1, <1>3, <1>4

LEMMA HistoryHolds == Spec => []HInv
<1>1. Init => HInv
  BY InitEstablishes, InitCounts DEF HInv
<1>2. HInv /\ [Next]_approvalVars => HInv'
  BY StepPreserves, StepKeepsWire, StepSpends, StepKeepsFutures, StepKeepsOneAtATime
     DEF HInv
<1> QED
  BY <1>1, <1>2, PTL DEF Spec

\* Some of the calls that are approved are no more than the yeses said.
LEMMA YesesPay ==
  YesSpentOnce => \A S \in SUBSET Approvals : Cardinality(S) <= Cardinality(YesSaid)
<1> SUFFICES ASSUME YesSpentOnce, NEW S \in SUBSET Approvals
             PROVE  Cardinality(S) <= Cardinality(YesSaid)
  OBVIOUS
<1>1. PICK spent \in Injection(Approvals, YesSaid) : TRUE
  BY DEF YesSpentOnce
<1>2. IsFiniteSet(YesSaid)
  BY DEF YesSpentOnce
<1>3. IsFiniteSet(Approvals) /\ Cardinality(Approvals) <= Cardinality(YesSaid)
  BY <1>1, <1>2, FS_Injection
<1>4. IsFiniteSet(S) /\ Cardinality(S) <= Cardinality(Approvals)
  BY <1>3, FS_Subset
<1>5. /\ Cardinality(S) \in Nat /\ Cardinality(Approvals) \in Nat
      /\ Cardinality(YesSaid) \in Nat
  BY <1>2, <1>3, <1>4, FS_CardinalityType
<1> QED
  BY <1>3, <1>4, <1>5

------------------------------------------------------------------------------
\* The types of the callback's state, for any set of calls.
THEOREM ApprovalTypeOK == Spec => []TypeOK
BY InvariantHolds, PTL DEF IInv

\* The slot holds a waiting call's Future or nothing (session.py:136-137).
THEOREM SlotAlwaysHasAWaiter == Spec => []SlotHasAWaiter
BY InvariantHolds, PTL DEF IInv

\* The disagreement that TurnYesApproves finds is no matter of luck: of the
\* calls made inside the session's own turn none is ever approved, as the loop
\* that would read the answer awaits the turn (ws_server.py:107-110).
THEOREM TurnIsNeverApproved == Spec => []InTurnIsNeverApproved
BY InvariantHolds, PTL DEF IInv

\* The answers of the user pay for the approvals (session.py:82-87 and
\* 115-137): a yes that reaches another call than the one
\* it was about approves that call instead, never both, for any number of
\* calls, prompts and late answers.
THEOREM OneYesAlwaysOneApproval == Spec => []OneYesOneApproval
<1>1. HInv => OneYesOneApproval
  BY YesesPay DEF HInv, OneYesOneApproval, Approvals, YesSaid
<1> QED
  BY <1>1, HistoryHolds, PTL

\* The single slot of the session (session._pending_approval) is enough while
\* calls come one after the other and are answered in time: nobody is
\* approved by a yes to another prompt, also across a lost connection.
THEOREM SerialApprovalsAlwaysMatch == Spec => []SerialApprovalsMatch
<1>1. HInv => SerialApprovalsMatch
  BY DEF HInv, OneAtATime, SerialApprovalsMatch
<1> QED
  BY <1>1, HistoryHolds, PTL
==============================================================================
