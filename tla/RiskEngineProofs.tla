--------------------------- MODULE RiskEngineProofs ---------------------------
(***************************************************************************)
(* The chokepoint, for any number of calls, any commands and files, and    *)
(* either setting of risk_auto_approve_green: types, the gate, the log,    *)
(* the backups, and that the engine implements CommandGate.                *)
(***************************************************************************)
EXTENDS RiskEngine, TLAPS

\* A call is past the gate from its answer to its return.
PastTheGate == {"backup", "copying", "spawning", "running", "logged"}

\* What makes NonGreenNeedsYes inductive: only a call that may not run by
\* itself asks, and it has no answer before it asked; the gate is passed with
\* permission; and a process exists only from _run on.  A yes over HTTP is one
\* that the tier allows.
GateHeld ==
  \A c \in Call :
    /\ pc[c] \in {"idle", "classified", "asking"} => approved[c] = "none"
    /\ pc[c] = "asking" => ~AutoRuns(c)
    /\ pc[c] \in PastTheGate => Allowed(c)
    /\ proc[c] # "none" => pc[c] \in {"running", "logged", "returned"} /\ Allowed(c)
    /\ callback[c] = "http" /\ approved[c] = "yes" => HttpApproves(c)

\* What the later steps of a call need of the earlier ones: a copying call
\* has its timestamp, a logged one its result.
StepsInOrder ==
  \A c \in Call :
    /\ pc[c] = "copying" => stamp[c] \in 0 .. MaxClock
    /\ pc[c] = "logged" => result[c] \in ExecutionResult /\ result[c].approved

IInv == TypeOK /\ GateHeld /\ StepsInOrder /\ LogIsComplete

------------------------------------------------------------------------------
\* A word of a command is a file, and names a backup.
LEMMA WordIsAFile ==
  ASSUME TypeOK, NEW c \in Call, WordsLeft(c)
  PROVE  Word(c) \in File /\ BasenameOf[Word(c)] \in Basename
<1>1. NamesOf[cmd[c]] \in Seq(File)
  BY EngineAssumption DEF TypeOK
<1>2. next_word[c] \in 1 .. Len(NamesOf[cmd[c]])
  BY <1>1 DEF TypeOK, WordsLeft
<1> QED
  BY <1>1, <1>2, EngineAssumption DEF Word

LEMMA InitTypeOK == Init => TypeOK
BY EngineAssumption DEF Init, TypeOK, NotStamped

LEMMA LogTypeOK ==
  ASSUME TypeOK, NEW c \in Call, NEW outcome \in {"exit", "error", "timeout"},
         Log(c, outcome)
  PROVE  /\ execution_log' \in Seq(Call)
         /\ result' \in [Call -> ExecutionResult \cup {NoResult}]
         /\ result'[c] \in ExecutionResult /\ result'[c].approved
         /\ \A d \in Call \ {c} : result'[d] = result[d]
BY DEF TypeOK, Log, Return, ExecutionResult

\* Every step keeps the types; what the steps of a call before _run do.
LEMMA BeforeRunTypeOK ==
  ASSUME TypeOK, StepsInOrder, NEW c \in Call,
         \/ Begin(c) \/ AutoRun(c) \/ NoCallback(c) \/ Ask(c) \/ Approved(c)
         \/ Refused(c) \/ CallbackRaises(c) \/ StampBackup(c) \/ BackupRaises(c)
         \/ CopyFile(c) \/ CopyFails(c) \/ SkipWord(c) \/ NothingToCopy(c)
  PROVE  TypeOK'
<1> USE DEF TypeOK, Goto, Return, locals, disk
<1>1. CASE Begin(c)
  BY <1>1 DEF Begin
<1>2. CASE AutoRun(c)
  BY <1>2 DEF AutoRun
<1>3. CASE NoCallback(c)
  BY <1>3 DEF NoCallback, Denied, ExecutionResult
<1>4. CASE Ask(c)
  BY <1>4 DEF Ask
<1>5. CASE Approved(c)
  BY <1>5 DEF Approved
<1>6. CASE Refused(c)
  BY <1>6 DEF Refused, Denied, ExecutionResult
<1>7. CASE CallbackRaises(c)
  BY <1>7 DEF CallbackRaises
<1>8. CASE StampBackup(c)
  BY <1>8 DEF StampBackup
<1>9. CASE BackupRaises(c)
  BY <1>9 DEF BackupRaises
<1>10. CASE CopyFile(c)
  <2>1. NameFor(c) \in BackupName /\ content[Word(c)] \in {"original"} \cup Call
    BY <1>10, WordIsAFile DEF CopyFile, StepsInOrder, NameFor, BackupName
  <2> QED
    BY <1>10, <2>1 DEF CopyFile
<1>11. CASE CopyFails(c)
  BY <1>11 DEF CopyFails
<1>12. CASE SkipWord(c)
  BY <1>12 DEF SkipWord
<1>13. CASE NothingToCopy(c)
  BY <1>13 DEF NothingToCopy
<1> QED
  BY <1>1, <1>2, <1>3, <1>4, <1>5, <1>6, <1>7, <1>8, <1>9, <1>10, <1>11, <1>12, <1>13

LEMMA StepTypeOK ==
  ASSUME TypeOK, StepsInOrder, [Next]_vars
  PROVE  TypeOK'
<1> USE DEF TypeOK, Goto, Return, locals, disk
<1>1. ASSUME NEW c \in Call, Spawn(c) PROVE TypeOK'
  BY <1>1 DEF Spawn
<1>2. ASSUME NEW c \in Call, SpawnFails(c) PROVE TypeOK'
  BY <1>2, LogTypeOK DEF SpawnFails
<1>3. ASSUME NEW c \in Call, Collect(c) PROVE TypeOK'
  BY <1>3, LogTypeOK DEF Collect
<1>4. ASSUME NEW c \in Call, TimeOut(c) PROVE TypeOK'
  BY <1>4, LogTypeOK DEF TimeOut
<1>5. ASSUME NEW c \in Call, Finish(c) PROVE TypeOK'
  <2>1. result[c] \in ExecutionResult /\ backup_path[c] \in BackupName \cup {NoPath}
    BY <1>5 DEF Finish, StepsInOrder
  <2>2. [result[c] EXCEPT !.backup_path = backup_path[c]] \in ExecutionResult
    BY <2>1 DEF ExecutionResult
  <2> QED
    BY <1>5, <2>2 DEF Finish
<1>6. ASSUME NEW c \in Call, ProcessWrites(c) PROVE TypeOK'
  <2>1. content' \in [File -> {"original", "absent"} \cup Call]
    <3>1. PICK f \in WritesOf[cmd[c]], now \in {c, "absent"} :
            content' = [content EXCEPT ![f] = now]
      BY <1>6 DEF ProcessWrites
    <3> QED
      BY <3>1
  <2>2. UNCHANGED <<pc, cmd, callback, approved, stamp, next_word, backup_path,
                    result, execution_log, proc, backups, clock>>
    BY <1>6 DEF ProcessWrites
  <2> QED
    BY <2>1, <2>2
<1>7. ASSUME NEW c \in Call, ProcessExits(c) PROVE TypeOK'
  BY <1>7 DEF ProcessExits
<1>8. CASE Tick
  BY <1>8, EngineAssumption DEF Tick
<1>9. CASE AllEnded \/ UNCHANGED vars
  BY <1>9 DEF AllEnded, vars
<1> QED
  BY <1>1, <1>2, <1>3, <1>4, <1>5, <1>6, <1>7, <1>8, <1>9, BeforeRunTypeOK
     DEF Next, CallStep

------------------------------------------------------------------------------
\* The gate and the order of a call's steps.
LEMMA BeforeRunKeepsGate ==
  ASSUME TypeOK, GateHeld, StepsInOrder, NEW c \in Call,
         \/ Begin(c) \/ AutoRun(c) \/ NoCallback(c) \/ Ask(c) \/ Approved(c)
         \/ Refused(c) \/ CallbackRaises(c) \/ StampBackup(c) \/ BackupRaises(c)
         \/ CopyFile(c) \/ CopyFails(c) \/ SkipWord(c) \/ NothingToCopy(c)
  PROVE  GateHeld' /\ StepsInOrder'
<1> USE DEF TypeOK, GateHeld, StepsInOrder, PastTheGate, Allowed, AutoRuns,
            HttpApproves, Goto, Return, locals, disk
<1>1. CASE Begin(c)
  BY <1>1 DEF Begin
<1>2. CASE AutoRun(c)
  BY <1>2 DEF AutoRun
<1>3. CASE NoCallback(c)
  BY <1>3 DEF NoCallback
<1>4. CASE Ask(c)
  BY <1>4 DEF Ask
<1>5. CASE Approved(c)
  BY <1>5 DEF Approved
<1>6. CASE Refused(c)
  BY <1>6 DEF Refused
<1>7. CASE CallbackRaises(c)
  BY <1>7 DEF CallbackRaises
<1>8. CASE StampBackup(c)
  BY <1>8 DEF StampBackup
<1>9. CASE BackupRaises(c)
  BY <1>9 DEF BackupRaises
<1>10. CASE CopyFile(c)
  BY <1>10 DEF CopyFile
<1>11. CASE CopyFails(c)
  BY <1>11 DEF CopyFails
<1>12. CASE SkipWord(c)
  BY <1>12 DEF SkipWord
<1>13. CASE NothingToCopy(c)
  BY <1>13 DEF NothingToCopy
<1> QED
  BY <1>1, <1>2, <1>3, <1>4, <1>5, <1>6, <1>7, <1>8, <1>9, <1>10, <1>11, <1>12, <1>13

LEMMA StepKeepsGate ==
  ASSUME TypeOK, GateHeld, StepsInOrder, [Next]_vars
  PROVE  GateHeld' /\ StepsInOrder'
<1> USE DEF TypeOK, GateHeld, StepsInOrder, PastTheGate, Allowed, AutoRuns,
            HttpApproves, Goto, Return, locals, disk
<1>1. ASSUME NEW c \in Call, Spawn(c) PROVE GateHeld' /\ StepsInOrder'
  BY <1>1 DEF Spawn
<1>2. ASSUME NEW c \in Call, SpawnFails(c) PROVE GateHeld' /\ StepsInOrder'
  BY <1>2, LogTypeOK DEF SpawnFails
<1>3. ASSUME NEW c \in Call, Collect(c) PROVE GateHeld' /\ StepsInOrder'
  BY <1>3, LogTypeOK DEF Collect
<1>4. ASSUME NEW c \in Call, TimeOut(c) PROVE GateHeld' /\ StepsInOrder'
  BY <1>4, LogTypeOK DEF TimeOut
<1>5. ASSUME NEW c \in Call, Finish(c) PROVE GateHeld' /\ StepsInOrder'
  BY <1>5 DEF Finish
<1>6. ASSUME NEW c \in Call, ProcessWrites(c) PROVE GateHeld' /\ StepsInOrder'
  BY <1>6 DEF ProcessWrites
<1>7. ASSUME NEW c \in Call, ProcessExits(c) PROVE GateHeld' /\ StepsInOrder'
  BY <1>7 DEF ProcessExits
<1>8. CASE Tick \/ AllEnded \/ UNCHANGED vars
  BY <1>8 DEF Tick, AllEnded, vars
<1> QED
  BY <1>1, <1>2, <1>3, <1>4, <1>5, <1>6, <1>7, <1>8, BeforeRunKeepsGate
     DEF Next, CallStep

------------------------------------------------------------------------------
\* The log.  What Append adds to the elements of a sequence, and that it
\* keeps them distinct.
LEMMA AppendAdds ==
  ASSUME NEW S, NEW s \in Seq(S), NEW e \in S,
         \A i \in DOMAIN s : s[i] # e,
         \A i, j \in DOMAIN s : s[i] = s[j] => i = j
  PROVE  LET t == Append(s, e)
         IN  /\ {t[i] : i \in DOMAIN t} = {s[i] : i \in DOMAIN s} \cup {e}
             /\ \A i, j \in DOMAIN t : t[i] = t[j] => i = j
<1> DEFINE t == Append(s, e)
<1>1. /\ DOMAIN s = 1 .. Len(s) /\ DOMAIN t = 1 .. Len(s) + 1 /\ Len(s) \in Nat
      /\ \A i \in 1 .. Len(s) : t[i] = s[i]
      /\ t[Len(s) + 1] = e
  OBVIOUS
<1> HIDE DEF t
<1>2. {t[i] : i \in DOMAIN t} = {s[i] : i \in DOMAIN s} \cup {e}
  BY <1>1
<1>3. \A i, j \in DOMAIN t : t[i] = t[j] => i = j
  BY <1>1
<1> QED
  BY <1>2, <1>3 DEF t

\* A step that logs call c from a state in which it has not run.
LEMMA LogKeepsLog ==
  ASSUME TypeOK, LogIsComplete, NEW c \in Call,
         NEW outcome \in {"exit", "error", "timeout"},
         pc[c] \in {"spawning", "running"}, pc' = [pc EXCEPT ![c] = "logged"],
         Log(c, outcome)
  PROVE  LogIsComplete'
<1>1. c \notin RanCommands
  BY DEF RanCommands
<1>2. RanCommands' = RanCommands \cup {c}
  <2>1. \A d \in Call \ {c} : pc'[d] = pc[d] /\ result'[d] = result[d]
    BY LogTypeOK DEF TypeOK
  <2>2. pc'[c] = "logged"
    BY DEF TypeOK
  <2> QED
    BY <2>1, <2>2 DEF RanCommands
<1>3. execution_log \in Seq(Call) /\ execution_log' = Append(execution_log, c)
  BY DEF TypeOK, Log
<1>4. \A i \in DOMAIN execution_log : execution_log[i] # c
  BY <1>1 DEF LogIsComplete
<1> QED
  BY <1>1, <1>2, <1>3, <1>4, AppendAdds DEF LogIsComplete

LEMMA StepKeepsLog ==
  ASSUME TypeOK, StepsInOrder, LogIsComplete, [Next]_vars
  PROVE  LogIsComplete'
<1> USE DEF Goto, Return, locals, disk
<1>1. ASSUME NEW c \in Call, SpawnFails(c) \/ Collect(c) \/ TimeOut(c)
      PROVE  LogIsComplete'
  BY <1>1, LogKeepsLog DEF SpawnFails, Collect, TimeOut
<1>2. ASSUME NEW c \in Call, Finish(c) PROVE LogIsComplete'
  <2>1. RanCommands' = RanCommands
    BY <1>2 DEF Finish, RanCommands, StepsInOrder, TypeOK, ExecutionResult
  <2> QED
    BY <1>2, <2>1 DEF Finish, LogIsComplete
<1>3. ASSUME NEW c \in Call, NoCallback(c) \/ Refused(c) PROVE LogIsComplete'
  <2>1. RanCommands' = RanCommands
    BY <1>3 DEF NoCallback, Refused, Denied, RanCommands, TypeOK
  <2> QED
    BY <1>3, <2>1 DEF NoCallback, Refused, LogIsComplete
<1>4. ASSUME NEW c \in Call,
             \/ Begin(c) \/ AutoRun(c) \/ Ask(c) \/ Approved(c)
             \/ CallbackRaises(c) \/ StampBackup(c) \/ BackupRaises(c)
             \/ CopyFile(c) \/ CopyFails(c) \/ SkipWord(c) \/ NothingToCopy(c)
             \/ Spawn(c) \/ ProcessWrites(c) \/ ProcessExits(c)
      PROVE  LogIsComplete'
  <2>1. execution_log' = execution_log /\ result' = result
    BY <1>4 DEF Begin, AutoRun, Ask, Approved, CallbackRaises, StampBackup,
         BackupRaises, CopyFile, CopyFails, SkipWord, NothingToCopy, Spawn,
         ProcessWrites, ProcessExits
  <2>2. \/ pc' = pc
        \/ /\ pc[c] \notin {"logged", "returned"}
           /\ \E to : to \notin {"logged", "returned"} /\ pc' = [pc EXCEPT ![c] = to]
    BY <1>4 DEF Begin, AutoRun, Ask, Approved, CallbackRaises, StampBackup,
         BackupRaises, CopyFile, CopyFails, SkipWord, NothingToCopy, Spawn,
         ProcessWrites, ProcessExits
  <2>3. RanCommands' = RanCommands
    BY <2>1, <2>2 DEF RanCommands, TypeOK
  <2> QED
    BY <2>1, <2>3 DEF LogIsComplete
<1>5. CASE Tick \/ AllEnded \/ UNCHANGED vars
  BY <1>5 DEF Tick, AllEnded, vars, LogIsComplete, RanCommands
<1> QED
  BY <1>1, <1>2, <1>3, <1>4, <1>5 DEF Next, CallStep

------------------------------------------------------------------------------
LEMMA InitEstablishes == Init => IInv
<1> SUFFICES ASSUME Init PROVE IInv
  OBVIOUS
<1>1. TypeOK
  BY InitTypeOK
<1>2. GateHeld /\ StepsInOrder
  BY DEF Init, GateHeld, StepsInOrder, PastTheGate
<1>3. LogIsComplete
  BY DEF Init, LogIsComplete, RanCommands
<1> QED
  BY <1>1, <1>2, <1>3 DEF IInv

LEMMA StepPreserves == IInv /\ [Next]_vars => IInv'
BY StepTypeOK, StepKeepsGate, StepKeepsLog DEF IInv

LEMMA InvariantHolds == Spec => []IInv
BY InitEstablishes, StepPreserves, PTL DEF Spec

\* The types of the engine's state hold for every set of calls and commands.
THEOREM EngineTypeOK == Spec => []TypeOK
BY InvariantHolds, PTL DEF IInv

\* A command that Classify calls green has only green parts.
LEMMA GreenHasGreenParts ==
  ASSUME NEW command, Classify(command) = "green"
  PROVE  \A i \in DOMAIN command : MatchTier(command[i]) = "green"
BY DEF Classify, TiersOf, MatchTier

\* Nothing that is not green gets a process without a yes of its own callback
\* (engine.py:59-97), for any interleaving of any number of calls.
THEOREM NonGreenAlwaysNeedsYes == Spec => []NonGreenNeedsYes
<1>1. IInv => NonGreenNeedsYes
  BY GreenHasGreenParts DEF IInv, GateHeld, NonGreenNeedsYes, Allowed, AutoRuns
<1> QED
  BY <1>1, InvariantHolds, PTL

\* Over HTTP nothing red runs, and nothing yellow without the operator's
\* opt-in (openai_compat.py:80-87).
THEOREM HttpNeverRunsRed == Spec => []HttpRunsNothingRed
<1>1. IInv => HttpRunsNothingRed
  BY DEF IInv, GateHeld, HttpRunsNothingRed, Allowed, AutoRuns, HttpApproves
<1> QED
  BY <1>1, InvariantHolds, PTL

\* Files change only by processes that the gate let start.
THEOREM OnlyAllowedWrites == Spec => OnlyAllowedCommandsWrite
<1>1. ASSUME IInv, [Next]_vars
      PROVE  [\A f \in File : content'[f] # content[f] =>
                \E c \in Call : /\ proc[c] = "alive"
                                /\ f \in WritesOf[cmd[c]]
                                /\ Allowed(c)]_vars
  <2>1. ASSUME NEW c \in Call, ProcessWrites(c), NEW f \in File, content'[f] # content[f]
        PROVE  proc[c] = "alive" /\ f \in WritesOf[cmd[c]] /\ Allowed(c)
    BY <1>1, <2>1 DEF ProcessWrites, IInv, GateHeld, TypeOK
  <2>2. (\E c \in Call : ProcessWrites(c)) \/ content' = content
    BY <1>1 DEF Next, CallStep, vars, locals, disk, Tick, AllEnded, Begin, AutoRun,
         NoCallback, Ask, Approved, Refused, CallbackRaises, StampBackup, BackupRaises,
         CopyFile, CopyFails, SkipWord, NothingToCopy, Spawn, SpawnFails, Collect,
         TimeOut, Finish, ProcessExits
  <2> QED
    BY <2>1, <2>2
<1> QED
  BY <1>1, InvariantHolds, PTL DEF Spec, OnlyAllowedCommandsWrite

\* Every command that ran is in the execution log, once, and no other is.
THEOREM LogAlwaysComplete == Spec => []LogIsComplete
BY InvariantHolds, PTL DEF IInv

------------------------------------------------------------------------------
\* What makes BackupIsPreImage inductive: a call is stamped once, as it goes
\* on to copy; the path it keeps is one of its own names under its own stamp;
\* and before it has a process no file holds what it writes.
BackupsInOrder ==
  \A c \in Call :
    /\ pc[c] \in {"idle", "classified", "asking", "backup"} => stamp[c] = NotStamped
    /\ backup_path[c] # NoPath =>
         /\ pc[c] \in {"spawning", "running", "logged", "returned"}
         /\ stamp[c] # NotStamped
         /\ \E i \in DOMAIN NamesOf[cmd[c]] :
              backup_path[c] = <<BasenameOf[NamesOf[cmd[c]][i]], stamp[c]>>
    /\ proc[c] = "none" => \A f \in File : content[f] # c

BInv == IInv /\ BackupsInOrder /\ BackupIsPreImage

\* Nobody else's backup has the name that this call is about to write, unless
\* the two calls may have one name.
LEMMA OwnName ==
  ASSUME IInv, BackupsInOrder, NEW c \in Call, pc[c] = "copying", WordsLeft(c),
         NEW d \in Call, c # d, backup_path[d] = NameFor(c)
  PROVE  SameBackupName(d, c)
<1>1. stamp[c] # NotStamped /\ NameFor(c) # NoPath
  BY DEF IInv, StepsInOrder, NameFor, NoPath, NotStamped
<1>2. PICK i \in DOMAIN NamesOf[cmd[d]] :
        backup_path[d] = <<BasenameOf[NamesOf[cmd[d]][i]], stamp[d]>>
  BY <1>1 DEF BackupsInOrder
<1>3. next_word[c] \in DOMAIN NamesOf[cmd[c]]
  <2>1. NamesOf[cmd[c]] \in Seq(File) /\ next_word[c] \in Nat \ {0}
    BY EngineAssumption DEF IInv, TypeOK
  <2> QED
    BY <2>1 DEF WordsLeft
<1>4. /\ BasenameOf[NamesOf[cmd[d]][i]] = BasenameOf[NamesOf[cmd[c]][next_word[c]]]
      /\ stamp[d] = stamp[c]
  BY <1>2 DEF NameFor, Word
<1> QED
  BY <1>1, <1>3, <1>4 DEF SameBackupName

\* A step that changes neither stamps nor paths nor backups keeps the copies.
LEMMA CopiesKept ==
  ASSUME BackupIsPreImage, UNCHANGED <<cmd, stamp, backup_path, backups>>
  PROVE  BackupIsPreImage'
<1>1. \A c, d \in Call : SameBackupName(c, d)' = SameBackupName(c, d)
  BY DEF SameBackupName
<1> QED
  BY <1>1 DEF BackupIsPreImage

\* The copy: what the path names is what the file held, and the calling call
\* has not written it.
LEMMA CopyFileKeepsCopies ==
  ASSUME BInv, NEW c \in Call, CopyFile(c)
  PROVE  BackupsInOrder' /\ BackupIsPreImage'
<1>1. /\ pc[c] = "copying" /\ WordsLeft(c) /\ content[Word(c)] # "absent"
      /\ pc' = [pc EXCEPT ![c] = "spawning"]
      /\ backups' = [backups EXCEPT ![NameFor(c)] = content[Word(c)]]
      /\ backup_path' = [backup_path EXCEPT ![c] = NameFor(c)]
      /\ UNCHANGED <<cmd, stamp, proc, content>>
  BY DEF CopyFile, Goto
<1>2. Word(c) \in File /\ NameFor(c) \in BackupName /\ stamp[c] # NotStamped
  BY <1>1, WordIsAFile DEF BInv, IInv, StepsInOrder, NameFor, BackupName, NotStamped
<1>3. next_word[c] \in DOMAIN NamesOf[cmd[c]]
  <2>1. NamesOf[cmd[c]] \in Seq(File) /\ next_word[c] \in Nat \ {0}
    BY EngineAssumption DEF BInv, IInv, TypeOK
  <2> QED
    BY <1>1, <2>1 DEF WordsLeft
<1>4. content[Word(c)] \notin {"none", "partial", c}
  <2>1. proc[c] = "none"
    BY <1>1 DEF BInv, IInv, GateHeld, TypeOK
  <2> QED
    BY <1>2, <2>1, EngineAssumption DEF BInv, IInv, TypeOK, BackupsInOrder
<1>5. /\ backup_path'[c] = NameFor(c)
      /\ \A d \in Call \ {c} : backup_path'[d] = backup_path[d] /\ pc'[d] = pc[d]
      /\ pc'[c] = "spawning"
  BY <1>1 DEF BInv, IInv, TypeOK
<1>6. BackupsInOrder'
  <2>1. ASSUME NEW d \in Call, d # c
        PROVE  /\ pc'[d] = pc[d] /\ backup_path'[d] = backup_path[d]
    BY <1>5, <2>1
  <2>2. backup_path'[c] = <<BasenameOf[NamesOf[cmd[c]][next_word[c]]], stamp[c]>>
    BY <1>5 DEF NameFor, Word
  <2> QED
    BY <1>1, <1>2, <1>3, <1>5, <2>1, <2>2 DEF BInv, BackupsInOrder
<1>7. BackupIsPreImage'
  <2> SUFFICES ASSUME NEW d \in Call, backup_path'[d] # NoPath,
                      \A e \in Call : ~SameBackupName(d, e)'
               PROVE  backups'[backup_path'[d]] \notin {"none", "partial", d}
    BY DEF BackupIsPreImage
  <2>1. \A e \in Call : ~SameBackupName(d, e)
    BY <1>1 DEF SameBackupName
  <2>2. CASE d = c
    <3>1. backups'[NameFor(c)] = content[Word(c)]
      BY <1>1, <1>2 DEF BInv, IInv, TypeOK
    <3> QED
      BY <1>4, <1>5, <2>2, <3>1
  <2>3. CASE d # c
    <3>1. backup_path'[d] = backup_path[d] /\ backup_path[d] # NameFor(c)
      BY <1>1, <1>5, <2>1, <2>3, OwnName DEF BInv
    <3>2. backups'[backup_path[d]] = backups[backup_path[d]]
      BY <1>1, <3>1 DEF BInv, IInv, TypeOK
    <3> QED
      BY <2>1, <3>1, <3>2 DEF BInv, BackupIsPreImage
  <2> QED
    BY <2>2, <2>3
<1> QED
  BY <1>6, <1>7

\* A copy that fails half way overwrites nobody's backup.
LEMMA CopyFailsKeepsCopies ==
  ASSUME BInv, NEW c \in Call, CopyFails(c)
  PROVE  BackupsInOrder' /\ BackupIsPreImage'
<1>1. /\ pc[c] = "copying" /\ WordsLeft(c)
      /\ UNCHANGED <<pc, cmd, stamp, backup_path, proc, content>>
      /\ \/ backups' = backups
         \/ backups' = [backups EXCEPT ![NameFor(c)] = "partial"]
  BY DEF CopyFails
<1>2. BackupsInOrder'
  BY <1>1 DEF BInv, BackupsInOrder
<1>3. BackupIsPreImage'
  <2> SUFFICES ASSUME NEW d \in Call, backup_path[d] # NoPath,
                      \A e \in Call : ~SameBackupName(d, e)
               PROVE  backups'[backup_path[d]] \notin {"none", "partial", d}
    BY <1>1 DEF BackupIsPreImage, SameBackupName
  <2>1. d # c
    BY <1>1 DEF BInv, BackupsInOrder
  <2>2. backup_path[d] # NameFor(c)
    BY <1>1, <2>1, OwnName DEF BInv
  <2>3. backups'[backup_path[d]] = backups[backup_path[d]]
    BY <1>1, <2>2 DEF BInv, IInv, TypeOK
  <2> QED
    BY <2>3 DEF BInv, BackupIsPreImage
<1> QED
  BY <1>2, <1>3

\* The timestamp: it can only make more names the same.
LEMMA StampKeepsCopies ==
  ASSUME BInv, NEW c \in Call, StampBackup(c)
  PROVE  BackupsInOrder' /\ BackupIsPreImage'
<1>1. /\ pc[c] = "backup" /\ pc' = [pc EXCEPT ![c] = "copying"]
      /\ stamp' = [stamp EXCEPT ![c] = clock]
      /\ UNCHANGED <<cmd, backup_path, proc, content, backups>>
  BY DEF StampBackup, Goto, disk
<1>2. stamp[c] = NotStamped /\ backup_path[c] = NoPath
  BY <1>1 DEF BInv, BackupsInOrder
<1>3. /\ \A d \in Call \ {c} : stamp'[d] = stamp[d] /\ pc'[d] = pc[d]
      /\ pc'[c] = "copying"
  BY <1>1 DEF BInv, IInv, TypeOK
<1>4. BackupsInOrder'
  <2>1. ASSUME NEW d \in Call, d # c PROVE stamp'[d] = stamp[d] /\ pc'[d] = pc[d]
    BY <1>3, <2>1
  <2> QED
    BY <1>1, <1>2, <1>3, <2>1 DEF BInv, BackupsInOrder
<1>5. \A d, e \in Call : d # c /\ SameBackupName(d, e) => SameBackupName(d, e)'
  BY <1>1, <1>2, <1>3 DEF SameBackupName
<1>6. BackupIsPreImage'
  BY <1>1, <1>2, <1>5 DEF BInv, BackupIsPreImage
<1> QED
  BY <1>4, <1>6

LEMMA StepKeepsCopies ==
  ASSUME BInv, [Next]_vars
  PROVE  BackupsInOrder' /\ BackupIsPreImage'
<1> DEFINE Kept == BackupsInOrder' /\ BackupIsPreImage'
<1>1. ASSUME NEW c \in Call, CopyFile(c) PROVE Kept
  BY <1>1, CopyFileKeepsCopies
<1>2. ASSUME NEW c \in Call, CopyFails(c) PROVE Kept
  BY <1>2, CopyFailsKeepsCopies
<1>3. ASSUME NEW c \in Call, StampBackup(c) PROVE Kept
  BY <1>3, StampKeepsCopies
<1>4. ASSUME NEW c \in Call,
             \/ Begin(c) \/ AutoRun(c) \/ NoCallback(c) \/ Ask(c) \/ Approved(c)
             \/ Refused(c) \/ CallbackRaises(c) \/ BackupRaises(c) \/ SkipWord(c)
             \/ NothingToCopy(c) \/ Spawn(c) \/ SpawnFails(c) \/ Collect(c)
             \/ TimeOut(c) \/ Finish(c)
      PROVE  Kept
  <2>1. UNCHANGED <<cmd, stamp, backup_path, content, backups>>
    BY <1>4 DEF Begin, AutoRun, NoCallback, Ask, Approved, Refused, CallbackRaises,
         BackupRaises, SkipWord, NothingToCopy, Spawn, SpawnFails, Collect, TimeOut,
         Finish, locals, disk
  <2>2. /\ \A d \in Call : proc'[d] = "none" => proc[d] = "none"
        /\ \A d \in Call \ {c} : pc'[d] = pc[d]
        /\ pc'[c] \in {"idle", "classified", "asking", "backup"} =>
             pc[c] \in {"idle", "classified", "asking"}
        /\ pc[c] \in {"spawning", "running", "logged", "returned"} =>
             pc'[c] \in {"spawning", "running", "logged", "returned"}
    BY <1>4 DEF Begin, AutoRun, NoCallback, Ask, Approved, Refused, CallbackRaises,
         BackupRaises, SkipWord, NothingToCopy, Spawn, SpawnFails, Collect, TimeOut,
         Finish, Goto, BInv, IInv, TypeOK
  <2>3. BackupsInOrder'
    BY <2>1, <2>2 DEF BInv, BackupsInOrder
  <2> QED
    BY <2>1, <2>3, CopiesKept DEF BInv
<1>5. ASSUME NEW c \in Call, ProcessWrites(c) PROVE Kept
  <2>1. /\ UNCHANGED <<pc, cmd, stamp, backup_path, backups, proc>>
        /\ proc[c] = "alive"
    BY <1>5 DEF ProcessWrites, locals
  <2>2. ASSUME NEW d \in Call, proc[d] = "none", NEW f \in File PROVE content'[f] # d
    <3>1. PICK g \in WritesOf[cmd[c]], now \in {c, "absent"} :
            content' = [content EXCEPT ![g] = now]
      BY <1>5 DEF ProcessWrites
    <3>2. now # d
      BY <2>1, <2>2, EngineAssumption DEF BInv, IInv, TypeOK
    <3> QED
      BY <2>2, <3>1, <3>2 DEF BInv, IInv, TypeOK, BackupsInOrder
  <2> QED
    BY <2>1, <2>2, CopiesKept DEF BInv, BackupsInOrder
<1>6. ASSUME NEW c \in Call, ProcessExits(c) PROVE Kept
  <2>1. UNCHANGED <<pc, cmd, stamp, backup_path, content, backups>>
    BY <1>6 DEF ProcessExits, locals, disk
  <2>2. \A d \in Call : proc'[d] = "none" => proc[d] = "none"
    BY <1>6 DEF ProcessExits, BInv, IInv, TypeOK
  <2> QED
    BY <2>1, <2>2, CopiesKept DEF BInv, BackupsInOrder
<1>7. CASE Tick \/ AllEnded \/ UNCHANGED vars
  BY <1>7, CopiesKept DEF Tick, AllEnded, vars, locals, disk, BInv, BackupsInOrder
<1> QED
  BY <1>1, <1>2, <1>3, <1>4, <1>5, <1>6, <1>7 DEF Next, CallStep, BInv, IInv

\* The backup a call returns (_create_backup, engine.py:145-165) is a whole
\* copy from before the command, unless another call may use its name, for
\* any calls and files and whatever the copies' failures.
THEOREM BackupIsAlwaysPreImage == Spec => []BackupIsPreImage
<1>1. Init => BackupsInOrder /\ BackupIsPreImage
  BY EngineAssumption DEF Init, BackupsInOrder, BackupIsPreImage
<1>2. BInv /\ [Next]_vars => BInv'
  BY StepPreserves, StepKeepsCopies DEF BInv
<1>3. BInv => BackupIsPreImage
  BY DEF BInv
<1> QED
  BY <1>1, <1>2, <1>3, InitEstablishes, PTL DEF Spec, BInv

------------------------------------------------------------------------------
\* The refinement.  The variables of the gate as the engine's state gives
\* them, under names of their own.
Phase == [c \in Call |-> IF pc[c] = "idle" THEN "new"
                         ELSE IF Ended(c) THEN "settled" ELSE "open"]
NeedsConsent == {c \in Call : pc[c] # "idle" /\ ~AutoRuns(c)}
Started == {c \in Call : proc[c] # "none"}
Logged == {execution_log[i] : i \in DOMAIN execution_log}

LEMMA InitIsGateInit == Init => Gate!Init
BY DEF Init, Gate!Init, Ended

\* A step of one call between its begin and its end moves no phase.
LEMMA PhaseKept ==
  ASSUME TypeOK, NEW c \in Call, NEW to, cmd' = cmd,
         pc[c] \notin {"idle", "returned", "raised"},
         to \notin {"idle", "returned", "raised"},
         pc' = [pc EXCEPT ![c] = to]
  PROVE  Phase' = Phase /\ NeedsConsent' = NeedsConsent /\ Phase[c] = "open"
BY DEF TypeOK, Phase, NeedsConsent, Ended, AutoRuns

LEMMA PhaseSettled ==
  ASSUME TypeOK, NEW c \in Call, NEW to \in {"returned", "raised"}, cmd' = cmd,
         pc[c] \notin {"idle", "returned", "raised"},
         pc' = [pc EXCEPT ![c] = to]
  PROVE  /\ Phase' = [Phase EXCEPT ![c] = "settled"]
         /\ NeedsConsent' = NeedsConsent
         /\ Phase[c] = "open"
BY DEF TypeOK, Phase, NeedsConsent, Ended, AutoRuns

\* What the invariant says in the gate's terms.
LEMMA GateFacts ==
  ASSUME IInv, NEW c \in Call
  PROVE  /\ c \in Logged <=> c \in RanCommands
         /\ pc[c] \in PastTheGate => (c \in NeedsConsent => approved[c] = "yes")
         /\ c \in Started => pc[c] \in {"running", "logged", "returned"}
BY DEF IInv, LogIsComplete, Logged, GateHeld, NeedsConsent, Allowed, Started

LEMMA GateNextIs ==
  Gate!Next <=> \E c \in Call : \/ Gate!Submit(c) \/ Gate!Consent(c) \/ Gate!Start(c)
                                \/ Gate!Record(c) \/ Gate!Settle(c)
BY DEF Gate!Next

LEMMA BeginSubmits ==
  ASSUME IInv, NEW c \in Call, Begin(c)
  PROVE  Gate!Submit(c)
<1>1. /\ pc[c] = "idle" /\ pc' = [pc EXCEPT ![c] = "classified"] /\ cmd' = cmd
      /\ pc \in [Call -> {"idle", "classified", "asking", "backup", "copying",
                          "spawning", "running", "logged", "returned", "raised"}]
  BY DEF IInv, TypeOK, Begin, Goto
<1>2. Phase[c] = "new" /\ Phase' = [Phase EXCEPT ![c] = "open"]
  BY <1>1 DEF Phase, Ended
<1>3. \A d \in Call : AutoRuns(d)' = AutoRuns(d)
  BY <1>1 DEF AutoRuns
<1>4. NeedsConsent' = NeedsConsent \cup {c} \/ NeedsConsent' = NeedsConsent
  <2>1. CASE AutoRuns(c)
    BY <1>1, <1>3, <2>1 DEF NeedsConsent
  <2>2. CASE ~AutoRuns(c)
    BY <1>1, <1>3, <2>2 DEF NeedsConsent
  <2> QED
    BY <2>1, <2>2
<1>5. UNCHANGED <<approved, Started, Logged>>
  BY DEF Begin, Started, Logged
<1> QED
  BY <1>2, <1>4, <1>5 DEF Gate!Submit, Phase, NeedsConsent, Started, Logged

\* Steps inside execute that the gate does not see.
LEMMA InternalStepStutters ==
  ASSUME IInv, NEW c \in Call,
         \/ AutoRun(c) \/ Ask(c) \/ StampBackup(c) \/ CopyFile(c)
         \/ CopyFails(c) \/ SkipWord(c) \/ NothingToCopy(c)
  PROVE  UNCHANGED <<Phase, NeedsConsent, approved, Started, Logged>>
<1>1. UNCHANGED <<cmd, approved, proc, execution_log>>
  BY DEF AutoRun, Ask, StampBackup, CopyFile, CopyFails, SkipWord, NothingToCopy, locals
<1>2. UNCHANGED <<Started, Logged>>
  BY <1>1 DEF Started, Logged
<1>3. CASE pc' = pc
  BY <1>1, <1>2, <1>3 DEF Phase, NeedsConsent, Ended, AutoRuns
<1>4. CASE pc' # pc
  <2>1. /\ pc[c] \notin {"idle", "returned", "raised"}
        /\ \E to : /\ to \notin {"idle", "returned", "raised"}
                   /\ pc' = [pc EXCEPT ![c] = to]
    BY <1>4 DEF Goto, AutoRun, Ask, StampBackup, CopyFile, CopyFails, SkipWord,
         NothingToCopy
  <2> QED
    BY <1>1, <1>2, <2>1, PhaseKept DEF IInv
<1> QED
  BY <1>3, <1>4

LEMMA ApprovedConsents ==
  ASSUME IInv, NEW c \in Call, Approved(c)
  PROVE  Gate!Consent(c)
<1>1. /\ cmd' = cmd /\ UNCHANGED <<proc, execution_log>>
      /\ approved' = [approved EXCEPT ![c] = "yes"]
      /\ pc[c] \notin {"idle", "returned", "raised"}
      /\ \E to : to \notin {"idle", "returned", "raised"} /\ pc' = [pc EXCEPT ![c] = to]
  BY DEF Approved, Goto
<1>2. Phase' = Phase /\ NeedsConsent' = NeedsConsent /\ Phase[c] = "open"
  BY <1>1, PhaseKept DEF IInv
<1>3. c \in NeedsConsent /\ approved[c] = "none"
  BY DEF NeedsConsent, Approved, Goto, IInv, GateHeld
<1>4. UNCHANGED <<Started, Logged>>
  BY <1>1 DEF Started, Logged
<1> QED
  BY <1>1, <1>2, <1>3, <1>4 DEF Gate!Consent, Phase, NeedsConsent, Started, Logged

LEMMA SpawnStarts ==
  ASSUME IInv, NEW c \in Call, Spawn(c)
  PROVE  Gate!Start(c)
<1>1. /\ pc[c] = "spawning" /\ pc' = [pc EXCEPT ![c] = "running"]
      /\ proc' = [proc EXCEPT ![c] = "alive"]
      /\ UNCHANGED <<cmd, approved, execution_log>>
  BY DEF Spawn, Goto, locals
<1>2. Phase' = Phase /\ NeedsConsent' = NeedsConsent /\ Phase[c] = "open"
  BY <1>1, PhaseKept DEF IInv
<1>3. /\ c \in NeedsConsent => approved[c] = "yes"
      /\ c \notin Started \cup Logged
  BY <1>1, GateFacts DEF PastTheGate, RanCommands
<1>4. Started' = Started \cup {c} /\ Logged' = Logged
  BY <1>1 DEF Started, Logged, IInv, TypeOK
<1> QED
  BY <1>1, <1>2, <1>3, <1>4
     DEF Gate!Start, Gate!Admitted, Phase, NeedsConsent, Started, Logged

LEMMA LoggingRecords ==
  ASSUME IInv, NEW c \in Call, SpawnFails(c) \/ Collect(c) \/ TimeOut(c)
  PROVE  Gate!Record(c)
<1>1. /\ pc[c] \in {"spawning", "running"} /\ pc' = [pc EXCEPT ![c] = "logged"]
      /\ UNCHANGED <<cmd, approved, proc>>
      /\ execution_log' = Append(execution_log, c)
  BY DEF SpawnFails, Collect, TimeOut, Goto, Log, locals
<1>2. Phase' = Phase /\ NeedsConsent' = NeedsConsent /\ Phase[c] = "open"
  BY <1>1, PhaseKept DEF IInv
<1>3. /\ c \in NeedsConsent => approved[c] = "yes"
      /\ c \notin Logged
  BY <1>1, GateFacts DEF PastTheGate, RanCommands
<1>4. \A i \in DOMAIN execution_log : execution_log[i] # c
  BY <1>3 DEF Logged
<1>5. Logged' = Logged \cup {c}
  <2>1. /\ execution_log \in Seq(Call)
        /\ \A i, j \in DOMAIN execution_log : execution_log[i] = execution_log[j] => i = j
    BY DEF IInv, TypeOK, LogIsComplete
  <2>2. LET log == Append(execution_log, c)
        IN  {log[i] : i \in DOMAIN log}
              = {execution_log[i] : i \in DOMAIN execution_log} \cup {c}
    BY <1>4, <2>1, AppendAdds
  <2> QED
    BY <1>1, <2>2 DEF Logged
<1>6. Started' = Started
  BY <1>1 DEF Started
<1> QED
  BY <1>1, <1>2, <1>3, <1>5, <1>6
     DEF Gate!Record, Gate!Admitted, Phase, NeedsConsent, Started, Logged

LEMMA EndingSettles ==
  ASSUME IInv, NEW c \in Call,
         \/ Finish(c) \/ CallbackRaises(c) \/ BackupRaises(c)
         \/ NoCallback(c) \/ Refused(c)
  PROVE  pc[c] # "idle" /\ Gate!Settle(c)
<1>1. /\ pc[c] \notin {"idle", "returned", "raised"}
      /\ UNCHANGED <<cmd, proc, execution_log>>
      /\ \E to \in {"returned", "raised"} : pc' = [pc EXCEPT ![c] = to]
  BY DEF Finish, CallbackRaises, BackupRaises, NoCallback, Refused, Goto, locals
<1>2. /\ Phase' = [Phase EXCEPT ![c] = "settled"]
      /\ NeedsConsent' = NeedsConsent /\ Phase[c] = "open"
  BY <1>1, PhaseSettled DEF IInv
<1>3. c \in Started => c \in Logged
  <2>1. pc[c] \in {"classified", "asking", "backup", "copying", "logged"}
    BY DEF Finish, CallbackRaises, BackupRaises, NoCallback, Refused, Goto
  <2> QED
    BY <2>1, GateFacts DEF RanCommands
<1>4. \/ approved' = approved
      \/ /\ c \in NeedsConsent /\ approved[c] = "none"
         /\ approved' = [approved EXCEPT ![c] = "no"]
  <2>1. CASE Refused(c)
    BY <2>1 DEF Refused, Goto, NeedsConsent, IInv, GateHeld
  <2>2. CASE ~Refused(c)
    BY <2>2 DEF Finish, CallbackRaises, BackupRaises, NoCallback, locals
  <2> QED
    BY <2>1, <2>2
<1>5. UNCHANGED <<Started, Logged>>
  BY <1>1 DEF Started, Logged
<1> QED
  BY <1>1, <1>2, <1>3, <1>4, <1>5 DEF Gate!Settle, Phase, NeedsConsent, Started, Logged
LEMMA StepIsGateStep ==
  ASSUME IInv, [Next]_vars
  PROVE  [Gate!Next]_Gate!gateVars
<1>1. ASSUME NEW c \in Call, Begin(c) PROVE Gate!Next
  BY <1>1, BeginSubmits, GateNextIs
<1>2. ASSUME NEW c \in Call, Approved(c) PROVE Gate!Next
  BY <1>2, ApprovedConsents, GateNextIs
<1>3. ASSUME NEW c \in Call, Spawn(c) PROVE Gate!Next
  BY <1>3, SpawnStarts, GateNextIs
<1>4. ASSUME NEW c \in Call, SpawnFails(c) \/ Collect(c) \/ TimeOut(c) PROVE Gate!Next
  BY <1>4, LoggingRecords, GateNextIs
<1>5. ASSUME NEW c \in Call,
             \/ Finish(c) \/ CallbackRaises(c) \/ BackupRaises(c)
             \/ NoCallback(c) \/ Refused(c)
      PROVE  Gate!Next
  BY <1>5, EndingSettles, GateNextIs
<1>6. ASSUME NEW c \in Call,
             \/ AutoRun(c) \/ Ask(c) \/ StampBackup(c) \/ CopyFile(c)
             \/ CopyFails(c) \/ SkipWord(c) \/ NothingToCopy(c)
      PROVE  UNCHANGED Gate!gateVars
  BY <1>6, InternalStepStutters DEF Gate!gateVars, Phase, NeedsConsent, Started, Logged
<1>7. ASSUME NEW c \in Call, ProcessWrites(c) \/ ProcessExits(c)
      PROVE  UNCHANGED Gate!gateVars
  <2>1. UNCHANGED <<pc, cmd, approved, execution_log>>
    BY <1>7 DEF ProcessWrites, ProcessExits, locals
  <2>2. Started' = Started
    BY <1>7 DEF ProcessWrites, ProcessExits, Started, IInv, TypeOK
  <2> QED
    BY <2>1, <2>2 DEF Gate!gateVars, Ended, AutoRuns, Started
<1>8. CASE Tick \/ AllEnded \/ UNCHANGED vars
  BY <1>8 DEF Tick, AllEnded, vars, locals, Gate!gateVars, Ended, AutoRuns
<1> QED
  BY <1>1, <1>2, <1>3, <1>4, <1>5, <1>6, <1>7, <1>8 DEF Next, CallStep

\* The engine implements the abstract gate, whatever the calls, the commands
\* and the answers: consent, effect, record and settlement in order, once.
THEOREM EngineImplementsGate == Spec => ImplementsGate
<1>1. IInv /\ [Next]_vars => [Gate!Next]_Gate!gateVars
  BY StepIsGateStep
<1> QED
  BY <1>1, InitIsGateInit, InvariantHolds, PTL DEF Spec, ImplementsGate, Gate!Spec
==============================================================================
