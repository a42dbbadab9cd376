--------------------------- MODULE NetDeviceProofs ---------------------------
(***************************************************************************)
(* The network device tools for any number of devices, calls and batches.  *)
(* What a call has sent follows from where it is (CallInv); what a device  *)
(* holds was sent to it (LinesWereSent); and a call is among those who     *)
(* saved a device only if it answered so (SaversAnswered).                 *)
(***************************************************************************)
EXTENDS NetDevice, TLAPS

\* What a device runs or will start with.
OnDevice(d) == running[d] \cup startup[d]

CallInv ==
  \A c \in Call :
    /\ step[c] \in {"idle", "connecting"} => sent[c] = 0
    /\ step[c] \notin {"applied", "done"} => result[c] = "none"
    /\ step[c] = "applied" => result[c] \in {"error", "success"}
    /\ step[c] = "applied" /\ result[c] = "success" => ~MoreToSend(c)
    /\ result[c] = "saved" => step[c] = "done" /\ request[c].save /\ ~MoreToSend(c)

LinesWereSent ==
  \A d \in Device : \A line \in OnDevice(d) :
    line[1] \in Call /\ line[2] \in 1 .. sent[line[1]]

SaversAnswered ==
  \A d \in Device :
    /\ startup[d] # {} => saved_by[d] # {}
    /\ \A c \in saved_by[d] \cap Call : result[c] = "saved"

IInv == TypeOK /\ CallInv /\ LinesWereSent /\ SaversAnswered

------------------------------------------------------------------------------
LEMMA RequestIsTyped ==
  ASSUME TypeOK, NEW c \in Call
  PROVE  /\ request[c].commands \in Seq(Part)
         /\ request[c].save \in BOOLEAN
         /\ Target(c) \in Device
         /\ Len(request[c].commands) \in Nat
BY RequestsAssumption DEF TypeOK, Target

LEMMA KeepIsTyped ==
  ASSUME TypeOK, NEW d \in Device, NEW who \in Call \cup {Operator}, Keep(d, who)
  PROVE  /\ running' \in [Device -> SUBSET Line]
         /\ startup' \in [Device -> SUBSET Line]
         /\ saved_by' \in [Device -> SUBSET (Call \cup {Operator})]
<1>1. saved_by[d] \cup {who} \in SUBSET (Call \cup {Operator})
  BY DEF TypeOK
<1>2. running[d] \in SUBSET Line
  BY DEF TypeOK
<1> QED
  BY <1>1, <1>2 DEF TypeOK, Keep

LEMMA InitEstablishes == Init => IInv
<1> SUFFICES ASSUME Init PROVE IInv
  OBVIOUS
<1>1. TypeOK
  <2>1. \A c \in Call : Len(request[c].commands) \in Nat
    BY RequestsAssumption DEF Init
  <2> QED
    BY <2>1 DEF Init, TypeOK, Step, Result
<1>2. CallInv
  BY DEF Init, CallInv
<1>3. LinesWereSent /\ SaversAnswered
  BY DEF Init, LinesWereSent, SaversAnswered, OnDevice
<1> QED
  BY <1>1, <1>2, <1>3 DEF IInv

------------------------------------------------------------------------------
LEMMA StepTypeOK ==
  ASSUME IInv, [Next]_vars
  PROVE  TypeOK'
<1> USE DEF IInv, TypeOK, Step, Result
<1>1. ASSUME NEW c \in Call, Show(c) \/ ShowFails(c) PROVE TypeOK'
  BY <1>1 DEF Show, ShowFails, Returns, Goes, devices
<1>2. ASSUME NEW c \in Call, Config(c) PROVE TypeOK'
  BY <1>2 DEF Config, Goes, devices
<1>3. ASSUME NEW c \in Call, Connect(c) PROVE TypeOK'
  BY <1>3 DEF Connect, Goes, devices
<1>4. ASSUME NEW c \in Call, SendLine(c) PROVE TypeOK'
  <2>1. <<c, sent[c] + 1>> \in Line
    BY DEF Line
  <2>2. Target(c) \in Device /\ Len(request[c].commands) \in Nat
    BY RequestIsTyped
  <2>3. running' \in [Device -> SUBSET Line]
    <3>1. running[Target(c)] \cup {<<c, sent[c] + 1>>} \in SUBSET Line
      BY <2>1, <2>2
    <3> QED
      BY <1>4, <2>2, <3>1 DEF SendLine
  <2>4. sent' \in [Call -> Nat] /\ \A b \in Call : sent'[b] <= Len(request[b].commands)
    BY <1>4, <2>2 DEF SendLine, MoreToSend
  <2> QED
    BY <1>4, <2>3, <2>4 DEF SendLine
<1>5. ASSUME NEW c \in Call, BatchSent(c) \/ BatchFails(c) PROVE TypeOK'
  BY <1>5 DEF BatchSent, BatchFails, BatchReturns, Goes, devices
<1>6. ASSUME NEW c \in Call, Save(c) PROVE TypeOK'
  <2>1. ASSUME Keep(Target(c), c)
        PROVE  /\ running' \in [Device -> SUBSET Line]
               /\ startup' \in [Device -> SUBSET Line]
               /\ saved_by' \in [Device -> SUBSET (Call \cup {Operator})]
    BY <2>1, RequestIsTyped, KeepIsTyped
  <2>2. step' \in [Call -> Step] /\ result' \in [Call -> Result]
    BY <1>6 DEF Save, Returns, Goes
  <2> QED
    BY <1>6, <2>1, <2>2 DEF Save, devices
<1>7. ASSUME NEW c \in Call, ReturnUnsaved(c) PROVE TypeOK'
  BY <1>7 DEF ReturnUnsaved, Returns, Goes, devices
<1>8. ASSUME NEW d \in Device, OperatorSaves(d) PROVE TypeOK'
  <2>1. /\ running' \in [Device -> SUBSET Line]
        /\ startup' \in [Device -> SUBSET Line]
        /\ saved_by' \in [Device -> SUBSET (Call \cup {Operator})]
    BY <1>8, KeepIsTyped DEF OperatorSaves
  <2> QED
    BY <1>8, <2>1 DEF OperatorSaves
<1>9. ASSUME NEW d \in Device, Reload(d) PROVE TypeOK'
  BY <1>9 DEF Reload
<1>10. CASE UNCHANGED vars
  BY <1>10 DEF vars
<1> QED
  BY <1>1, <1>2, <1>3, <1>4, <1>5, <1>6, <1>7, <1>8, <1>9, <1>10 DEF Next

LEMMA StepCallInv ==
  ASSUME IInv, [Next]_vars
  PROVE  CallInv'
<1> USE DEF IInv, TypeOK, CallInv, MoreToSend
<1>1. ASSUME NEW c \in Call, Show(c) \/ ShowFails(c) PROVE CallInv'
  <2>1. PICK what \in {"refused", "success", "error"} : Returns(c, "idle", what)
    BY <1>1 DEF Show, ShowFails
  <2>2. UNCHANGED <<request, sent>>
    BY <1>1 DEF Show, ShowFails
  <2> QED
    BY <2>1, <2>2 DEF Returns, Goes
<1>2. ASSUME NEW c \in Call, Config(c) PROVE CallInv'
  BY <1>2 DEF Config, Goes, devices
<1>3. ASSUME NEW c \in Call, Connect(c) PROVE CallInv'
  BY <1>3 DEF Connect, Goes, devices
<1>4. ASSUME NEW c \in Call, SendLine(c) PROVE CallInv'
  BY <1>4 DEF SendLine
<1>5. ASSUME NEW c \in Call, BatchSent(c) \/ BatchFails(c) PROVE CallInv'
  <2>1. PICK from \in {"connecting", "sending", "cut"}, what \in {"success", "error"} :
          BatchReturns(c, from, what) /\ (what = "success" => ~MoreToSend(c))
    BY <1>5 DEF BatchSent, BatchFails
  <2> QED
    BY <2>1 DEF BatchReturns, Goes
<1>6. ASSUME NEW c \in Call, Save(c) PROVE CallInv'
  BY <1>6 DEF Save, Saves, Returns, Goes
<1>7. ASSUME NEW c \in Call, ReturnUnsaved(c) PROVE CallInv'
  BY <1>7 DEF ReturnUnsaved, Returns, Goes
<1>8. ASSUME NEW d \in Device, OperatorSaves(d) PROVE CallInv'
  BY <1>8 DEF OperatorSaves
<1>9. ASSUME NEW d \in Device, Reload(d) PROVE CallInv'
  BY <1>9 DEF Reload, Step
<1>10. CASE UNCHANGED vars
  BY <1>10 DEF vars
<1> QED
  BY <1>1, <1>2, <1>3, <1>4, <1>5, <1>6, <1>7, <1>8, <1>9, <1>10 DEF Next

\* A step in which nothing is sent and no device takes a new line.
LEMMA NothingNewOnDevices ==
  ASSUME IInv, sent' = sent, \A d \in Device : OnDevice(d)' \subseteq OnDevice(d)
  PROVE  LinesWereSent'
BY DEF IInv, LinesWereSent

LEMMA StepLinesWereSent ==
  ASSUME IInv, [Next]_vars
  PROVE  LinesWereSent'
<1>1. ASSUME NEW c \in Call, SendLine(c) PROVE LinesWereSent'
  <2>1. Target(c) \in Device
    BY RequestIsTyped DEF IInv
  <2>2. sent[c] \in Nat /\ sent' = [sent EXCEPT ![c] = sent[c] + 1]
    BY <1>1 DEF SendLine, IInv, TypeOK
  <2>3. ASSUME NEW d \in Device, NEW line \in OnDevice(d)'
        PROVE  line \in OnDevice(d) \/ line = <<c, sent[c] + 1>>
    BY <1>1, <2>1, <2>3 DEF SendLine, OnDevice, IInv, TypeOK
  <2>4. \A b \in Call : sent[b] \in Nat /\ sent'[b] \in Nat /\ sent'[b] >= sent[b]
    BY <2>2 DEF IInv, TypeOK
  <2> QED
    BY <2>2, <2>3, <2>4 DEF LinesWereSent, IInv, TypeOK
<1>2. ASSUME ~(\E c \in Call : SendLine(c)) PROVE LinesWereSent'
  <2>1. sent' = sent
    BY <1>2 DEF Next, vars, Show, ShowFails, Config, Connect, BatchSent,
         BatchFails, BatchReturns, Save, ReturnUnsaved, OperatorSaves, Reload
  <2>2. ASSUME NEW d \in Device PROVE OnDevice(d)' \subseteq OnDevice(d)
    <3>1. CASE UNCHANGED devices
      BY <3>1 DEF devices, OnDevice
    <3>2. ASSUME NEW e \in Device, NEW who, Keep(e, who) PROVE OnDevice(d)' \subseteq OnDevice(d)
      BY <3>2 DEF Keep, OnDevice, IInv, TypeOK
    <3>3. ASSUME NEW e \in Device, Reload(e) PROVE OnDevice(d)' \subseteq OnDevice(d)
      BY <3>3 DEF Reload, OnDevice, IInv, TypeOK
    <3>4. \A c \in Call : Target(c) \in Device
      BY RequestIsTyped DEF IInv
    <3>5. \/ UNCHANGED devices
          \/ \E e \in Device : Reload(e) \/ Keep(e, Operator)
          \/ \E c \in Call : Keep(Target(c), c)
      BY <1>2 DEF Next, vars, devices, Show, ShowFails, Config, Connect,
           BatchSent, BatchFails, BatchReturns, Save, ReturnUnsaved, OperatorSaves
    <3> QED
      BY <3>1, <3>2, <3>3, <3>4, <3>5
  <2> QED
    BY <2>1, <2>2, NothingNewOnDevices
<1> QED
  BY <1>1, <1>2

LEMMA StepSaversAnswered ==
  ASSUME IInv, [Next]_vars
  PROVE  SaversAnswered'
<1> USE DEF SaversAnswered
<1>1. ASSUME NEW c \in Call, Save(c) PROVE SaversAnswered'
  <2>1. Target(c) \in Device
    BY RequestIsTyped DEF IInv
  <2>2. result' = [result EXCEPT ![c] = "saved"]
    BY <1>1 DEF Save, Returns
  <2>3. CASE Keep(Target(c), c)
    BY <2>1, <2>2, <2>3 DEF Keep, IInv, TypeOK
  <2>4. CASE UNCHANGED devices
    BY <2>2, <2>4 DEF devices, IInv, TypeOK
  <2> QED
    BY <1>1, <2>3, <2>4 DEF Save
<1>2. ASSUME NEW d \in Device, OperatorSaves(d) PROVE SaversAnswered'
  BY <1>2, CallsAssumption DEF OperatorSaves, Keep, IInv, TypeOK
<1>3. ASSUME NEW d \in Device, Reload(d) PROVE SaversAnswered'
  BY <1>3 DEF Reload, IInv
<1>4. ASSUME NEW c \in Call, SendLine(c) PROVE SaversAnswered'
  BY <1>4 DEF SendLine, IInv
<1>5. ASSUME UNCHANGED devices,
             \A c \in Call : result[c] = "saved" => result'[c] = "saved"
      PROVE  SaversAnswered'
  BY <1>5 DEF devices, IInv
<1>6. ASSUME NEW c \in Call,
             \/ Show(c) \/ ShowFails(c) \/ Config(c) \/ Connect(c)
             \/ BatchSent(c) \/ BatchFails(c) \/ ReturnUnsaved(c)
      PROVE  SaversAnswered'
  <2>1. UNCHANGED devices
    BY <1>6 DEF Show, ShowFails, Config, Connect, BatchSent, BatchFails,
         BatchReturns, ReturnUnsaved
  <2>2. step[c] # "done" /\ \A b \in Call \ {c} : result'[b] = result[b]
    BY <1>6 DEF Show, ShowFails, Config, Connect, BatchSent, BatchFails,
         BatchReturns, ReturnUnsaved, Returns, Goes, IInv, TypeOK
  <2>3. result[c] # "saved"
    BY <2>2 DEF IInv, CallInv
  <2> QED
    BY <1>5, <2>1, <2>2, <2>3
<1>7. CASE UNCHANGED vars
  BY <1>7, <1>5 DEF vars, devices
<1> QED
  BY <1>1, <1>2, <1>3, <1>4, <1>6, <1>7 DEF Next

THEOREM InductiveInvariant == Spec => []IInv
<1>1. IInv /\ [Next]_vars => IInv'
  BY StepTypeOK, StepCallInv, StepLinesWereSent, StepSaversAnswered DEF IInv
<1> QED
  BY InitEstablishes, <1>1, PTL DEF Spec

------------------------------------------------------------------------------
\* For any calls, batches and devices: no call sends more lines than its batch
\* has, and every variable keeps its type.
THEOREM Typed == Spec => []TypeOK
BY InductiveInvariant, PTL DEF IInv

\* For any calls, batches and devices: what a batch leaves that was cut
\* short, or was not to be saved, becomes permanent only when somebody else
\* saves.
THEOREM FailedBatchesAreNotKept == Spec => []KeptOnlyByAnother
<1>1. IInv => KeptOnlyByAnother
  <2> SUFFICES ASSUME IInv, NEW d \in Device, NEW line \in startup[d],
                      \/ result[line[1]] = "error"
                      \/ sent[line[1]] < Len(request[line[1]].commands)
                      \/ ~request[line[1]].save
               PROVE  saved_by[d] \ {line[1]} # {}
    BY DEF KeptOnlyByAnother
  <2>1. line[1] \in Call
    BY DEF IInv, LinesWereSent, OnDevice
  <2>2. line[1] \notin saved_by[d]
    BY <2>1 DEF IInv, SaversAnswered, CallInv, MoreToSend
  <2>3. saved_by[d] # {}
    BY DEF IInv, SaversAnswered
  <2> QED
    BY <2>2, <2>3
<1> QED
  BY InductiveInvariant, <1>1, PTL
==============================================================================
