------------------------------ MODULE RiskEngine ------------------------------
(***************************************************************************)
(* silicon_valet/risk/engine.py.  Each call of execute is an actor: the    *)
(* tools run every call in a thread and an event loop of its own           *)
(* (ShellExecTool.call), so the steps of two calls interleave anywhere.    *)
(* The started processes and the files they write are the environment.     *)
(*                                                                         *)
(* File contents are named by who wrote them: a call, or "original".       *)
(***************************************************************************)
EXTENDS RiskTiers

CONSTANTS
  Call,                  \* one element for each call of execute
  Command,               \* the commands it is called with
  PartsOf,               \* [Command -> PipeCommand]: what the classifier sees
  NamesOf,               \* [Command -> Seq(File)]: the words that are paths
  WritesOf,              \* [Command -> SUBSET File]: what running it modifies
  File,
  Basename, BasenameOf,  \* [File -> Basename]
  AutoApproveGreen,      \* config.risk_auto_approve_green
  HttpAutoApproveYellow, \* config.http_auto_approve_yellow
  MaxClock               \* bound of the clock (whole seconds)

ASSUME EngineAssumption ==
  /\ PartsOf \in [Command -> PipeCommand]
  /\ NamesOf \in [Command -> Seq(File)]
  /\ WritesOf \in [Command -> SUBSET File]
  /\ BasenameOf \in [File -> Basename]
  /\ AutoApproveGreen \in BOOLEAN
  /\ HttpAutoApproveYellow \in BOOLEAN
  /\ MaxClock \in Nat
  /\ {"original", "absent", "partial", "none"} \cap Call = {}

VARIABLES
  pc,                    \* where in execute the call is
  cmd,                   \* its argument command
  callback,              \* its approval_callback: "none", "session", "http"
  approved,              \* what the callback returned: "none", "yes", "no"
  stamp,                 \* _create_backup's timestamp
  next_word,             \* _create_backup's position in the command's words
  backup_path,           \* the local backup_path of execute
  result,                \* the ExecutionResult built so far
  execution_log,         \* engine.execution_log, as the calls logged
  proc,                  \* the call's process: "none", "alive", "exited"
  content,               \* [File -> contents or "absent"]
  backups,               \* [backup name -> contents, "partial" or "none"]
  clock

locals == <<cmd, callback, approved, stamp, next_word, backup_path>>
disk == <<content, backups>>
vars == <<pc, locals, result, execution_log, proc, disk, clock>>

BackupName == Basename \X (0 .. MaxClock)
NotStamped == -1
NoPath == <<"none", NotStamped>>
ExecutionResult ==
  [approved : BOOLEAN, outcome : {"exit", "error", "timeout", "denied"},
   backup_path : BackupName \cup {NoPath}]
NoResult == [approved |-> FALSE, outcome |-> "none", backup_path |-> NoPath]

\* Mutant of AutoRuns: a pipe chain is judged by its first part.
FirstPartAutoRuns(c) == AutoApproveGreen /\ MatchTier(PartsOf[cmd[c]][1]) = "green"

\* risk_auto_approve_green and the tier decide whether the gate asks at all.
AutoRuns(c) == AutoApproveGreen /\ Classify(PartsOf[cmd[c]]) = "green"

Init ==
  /\ pc = [c \in Call |-> "idle"]
  /\ cmd \in [Call -> Command]
  /\ callback = [c \in Call |-> "none"]
  /\ approved = [c \in Call |-> "none"]
  /\ stamp = [c \in Call |-> NotStamped]
  /\ next_word = [c \in Call |-> 1]
  /\ backup_path = [c \in Call |-> NoPath]
  /\ result = [c \in Call |-> NoResult]
  /\ execution_log = << >>
  /\ proc = [c \in Call |-> "none"]
  /\ content = [f \in File |-> "original"]
  /\ backups = [b \in BackupName |-> "none"]
  /\ clock = 0

------------------------------------------------------------------------------
Goto(c, from, to) ==
  /\ pc[c] = from
  /\ pc' = [pc EXCEPT ![c] = to]

Return(c, res) == result' = [result EXCEPT ![c] = res]

\* Mutant of Denied: a denial without a backup_path.
DeniedWithoutPath == [approved |-> FALSE, outcome |-> "denied"]

\* The result of a call that is refused or cannot ask.
Denied == [approved |-> FALSE, outcome |-> "denied", backup_path |-> NoPath]

\* A tool calls execute, without a callback or with that of its surface.
Begin(c) ==
  /\ Goto(c, "idle", "classified")
  /\ \E given \in {"none", "session", "http"} :
       callback' = [callback EXCEPT ![c] = given]
  /\ UNCHANGED <<cmd, approved, stamp, next_word, backup_path,
                 result, execution_log, proc, disk, clock>>

AutoRun(c) ==
  /\ AutoRuns(c)
  /\ Goto(c, "classified", "spawning")
  /\ UNCHANGED <<locals, result, execution_log, proc, disk, clock>>

\* Mutant of NoCallback: without a callback the command runs.
NoCallbackRuns(c) ==
  /\ ~AutoRuns(c)
  /\ callback[c] = "none"
  /\ Goto(c, "classified", "spawning")
  /\ UNCHANGED <<locals, result, execution_log, proc, disk, clock>>

\* Nobody to ask: a result with approved=False, which is not logged.
NoCallback(c) ==
  /\ ~AutoRuns(c)
  /\ callback[c] = "none"
  /\ Goto(c, "classified", "returned")
  /\ Return(c, Denied)
  /\ UNCHANGED <<locals, execution_log, proc, disk, clock>>

\* await approval_callback(...): the call waits here for the user.
Ask(c) ==
  /\ ~AutoRuns(c)
  /\ callback[c] # "none"
  /\ Goto(c, "classified", "asking")
  /\ UNCHANGED <<locals, result, execution_log, proc, disk, clock>>

\* Mutant of HttpApproves: the opt-in for yellow is tested before the tier.
HttpApprovesFlagFirst(c) ==
  HttpAutoApproveYellow \/ Classify(PartsOf[cmd[c]]) = "green"

\* The callback of the HTTP API decides by the tier alone.
HttpApproves(c) ==
  \/ Classify(PartsOf[cmd[c]]) = "green"
  \/ Classify(PartsOf[cmd[c]]) = "yellow" /\ HttpAutoApproveYellow

Approved(c) ==
  /\ callback[c] = "http" => HttpApproves(c)
  /\ Goto(c, "asking", IF BackupNeeded(PartsOf[cmd[c]]) THEN "backup" ELSE "spawning")
  /\ approved' = [approved EXCEPT ![c] = "yes"]
  /\ UNCHANGED <<cmd, callback, stamp, next_word, backup_path,
                 result, execution_log, proc, disk, clock>>

\* Mutant of Refused: the early return is missing.
RefusedFallsThrough(c) ==
  /\ callback[c] = "http" => ~HttpApproves(c)
  /\ Goto(c, "asking", "spawning")
  /\ approved' = [approved EXCEPT ![c] = "no"]
  /\ UNCHANGED <<cmd, callback, stamp, next_word, backup_path,
                 result, execution_log, proc, disk, clock>>

Refused(c) ==
  /\ callback[c] = "http" => ~HttpApproves(c)
  /\ Goto(c, "asking", "returned")
  /\ approved' = [approved EXCEPT ![c] = "no"]
  /\ Return(c, Denied)
  /\ UNCHANGED <<cmd, callback, stamp, next_word, backup_path,
                 execution_log, proc, disk, clock>>

\* A session's callback raises (its connection is gone): execute does not
\* catch it.
CallbackRaises(c) ==
  /\ callback[c] = "session"
  /\ Goto(c, "asking", "raised")
  /\ UNCHANGED <<locals, result, execution_log, proc, disk, clock>>

------------------------------------------------------------------------------
\* _create_backup: mkdir, then the timestamp.
StampBackup(c) ==
  /\ Goto(c, "backup", "copying")
  /\ stamp' = [stamp EXCEPT ![c] = clock]
  /\ UNCHANGED <<cmd, callback, approved, next_word, backup_path,
                 result, execution_log, proc, disk, clock>>

\* mkdir raises, or path.exists() at any of the words (engine.py:161, outside
\* the try), and nothing up the stack catches it.
BackupRaises(c) ==
  /\ pc[c] \in {"backup", "copying"}
  /\ Goto(c, pc[c], "raised")
  /\ UNCHANGED <<locals, result, execution_log, proc, disk, clock>>

WordsLeft(c) == next_word[c] <= Len(NamesOf[cmd[c]])
Word(c) == NamesOf[cmd[c]][next_word[c]]
NameFor(c) == <<BasenameOf[Word(c)], stamp[c]>>

\* The loop over the words: the first existing file that can be copied ends
\* it, a word that is no file or cannot be copied is passed over.
CopyFile(c) ==
  /\ WordsLeft(c)
  /\ content[Word(c)] # "absent"
  /\ Goto(c, "copying", "spawning")
  /\ backups' = [backups EXCEPT ![NameFor(c)] = content[Word(c)]]
  /\ backup_path' = [backup_path EXCEPT ![c] = NameFor(c)]
  /\ UNCHANGED <<cmd, callback, approved, stamp, next_word,
                 result, execution_log, proc, content, clock>>

\* Mutant of CopyFails: the path is returned although the copy failed.
CopyFailsQuietly(c) ==
  /\ WordsLeft(c)
  /\ content[Word(c)] # "absent"
  /\ Goto(c, "copying", "spawning")
  /\ backups' = [backups EXCEPT ![NameFor(c)] = "partial"]
  /\ backup_path' = [backup_path EXCEPT ![c] = NameFor(c)]
  /\ UNCHANGED <<cmd, callback, approved, stamp, next_word,
                 result, execution_log, proc, content, clock>>

\* shutil.copy2 fails before it opened the destination, or half way.
CopyFails(c) ==
  /\ WordsLeft(c)
  /\ content[Word(c)] # "absent"
  /\ pc[c] = "copying"
  /\ next_word' = [next_word EXCEPT ![c] = @ + 1]
  /\ \/ backups' = backups
     \/ backups' = [backups EXCEPT ![NameFor(c)] = "partial"]
  /\ UNCHANGED <<pc, cmd, callback, approved, stamp, backup_path,
                 result, execution_log, proc, content, clock>>

SkipWord(c) ==
  /\ WordsLeft(c)
  /\ content[Word(c)] = "absent"
  /\ pc[c] = "copying"
  /\ next_word' = [next_word EXCEPT ![c] = @ + 1]
  /\ UNCHANGED <<pc, cmd, callback, approved, stamp, backup_path,
                 result, execution_log, proc, disk, clock>>

NothingToCopy(c) ==
  /\ ~WordsLeft(c)
  /\ Goto(c, "copying", "spawning")
  /\ UNCHANGED <<locals, result, execution_log, proc, disk, clock>>

------------------------------------------------------------------------------
\* _run.
Spawn(c) ==
  /\ Goto(c, "spawning", "running")
  /\ proc' = [proc EXCEPT ![c] = "alive"]
  /\ UNCHANGED <<locals, result, execution_log, disk, clock>>

\* Mutant of Log: a command that timed out is not logged.
LogUnlessTimeout(c, outcome) ==
  /\ execution_log' = IF outcome = "timeout" THEN execution_log ELSE Append(execution_log, c)
  /\ Return(c, [approved |-> TRUE, outcome |-> outcome, backup_path |-> NoPath])

\* The tail of _run: every outcome but a refusal is appended to the log.
Log(c, outcome) ==
  /\ execution_log' = Append(execution_log, c)
  /\ Return(c, [approved |-> TRUE, outcome |-> outcome, backup_path |-> NoPath])

\* create_subprocess_shell raises, or communicate() or the decoding does once
\* the process has started: except Exception makes an error of either.
SpawnFails(c) ==
  /\ pc[c] \in {"spawning", "running"}
  /\ Goto(c, pc[c], "logged")
  /\ Log(c, "error")
  /\ UNCHANGED <<locals, proc, disk, clock>>

Collect(c) ==
  /\ proc[c] = "exited"
  /\ Goto(c, "running", "logged")
  /\ Log(c, "exit")
  /\ UNCHANGED <<locals, proc, disk, clock>>

\* Mutant of TimeOut: giving up waits for the process to end.
TimeOutWhenExited(c) ==
  /\ proc[c] = "exited"
  /\ Goto(c, "running", "logged")
  /\ Log(c, "timeout")
  /\ UNCHANGED <<locals, proc, disk, clock>>

\* wait_for gives up.  Nothing kills the process.
TimeOut(c) ==
  /\ Goto(c, "running", "logged")
  /\ Log(c, "timeout")
  /\ UNCHANGED <<locals, proc, disk, clock>>

\* execute fills in backup_path of the result that is already in the log.
Finish(c) ==
  /\ Goto(c, "logged", "returned")
  /\ Return(c, [result[c] EXCEPT !.backup_path = backup_path[c]])
  /\ UNCHANGED <<locals, execution_log, proc, disk, clock>>

------------------------------------------------------------------------------
\* The environment: the process writes or removes its files, and may exit.
ProcessWrites(c) ==
  /\ proc[c] = "alive"
  /\ \E f \in WritesOf[cmd[c]], now \in {c, "absent"} :
        content' = [content EXCEPT ![f] = now]
  /\ UNCHANGED <<pc, locals, result, execution_log, proc, backups, clock>>

ProcessExits(c) ==
  /\ proc[c] = "alive"
  /\ proc' = [proc EXCEPT ![c] = "exited"]
  /\ UNCHANGED <<pc, locals, result, execution_log, disk, clock>>

Tick ==
  /\ clock < MaxClock
  /\ clock' = clock + 1
  /\ UNCHANGED <<pc, locals, result, execution_log, proc, disk>>

Ended(c) == pc[c] \in {"returned", "raised"}

\* Every call has ended: nothing is left to do.
AllEnded ==
  /\ \A c \in Call : Ended(c)
  /\ UNCHANGED vars

\* The steps execute takes once it is called.
CallStep(c) ==
  \/ AutoRun(c) \/ NoCallback(c) \/ Ask(c)
  \/ Approved(c) \/ Refused(c) \/ CallbackRaises(c)
  \/ StampBackup(c) \/ BackupRaises(c)
  \/ CopyFile(c) \/ CopyFails(c) \/ SkipWord(c) \/ NothingToCopy(c)
  \/ Spawn(c) \/ SpawnFails(c) \/ Collect(c) \/ TimeOut(c) \/ Finish(c)

Next ==
  \/ \E c \in Call : Begin(c) \/ CallStep(c) \/ ProcessWrites(c) \/ ProcessExits(c)
  \/ Tick
  \/ AllEnded

Spec == Init /\ [][Next]_vars

------------------------------------------------------------------------------
\* Type invariant.
TypeOK ==
  /\ pc \in [Call -> {"idle", "classified", "asking", "backup", "copying",
                      "spawning", "running", "logged", "returned", "raised"}]
  /\ cmd \in [Call -> Command]
  /\ callback \in [Call -> {"none", "session", "http"}]
  /\ approved \in [Call -> {"none", "yes", "no"}]
  /\ stamp \in [Call -> (0 .. MaxClock) \cup {NotStamped}]
  /\ next_word \in [Call -> Nat \ {0}]
  /\ backup_path \in [Call -> BackupName \cup {NoPath}]
  /\ result \in [Call -> ExecutionResult \cup {NoResult}]
  /\ execution_log \in Seq(Call)
  /\ proc \in [Call -> {"none", "alive", "exited"}]
  /\ content \in [File -> {"original", "absent"} \cup Call]
  /\ backups \in [BackupName -> {"original", "partial", "none"} \cup Call]
  /\ clock \in 0 .. MaxClock

\* A call may run its command: it is green and green runs by itself, or the
\* callback of this very call said yes.
Allowed(c) == AutoRuns(c) \/ approved[c] = "yes"

\* "The single chokepoint" (engine.py:1): a file changes only by the hand of
\* a live process whose call was allowed, however calls, late processes and
\* backups interleave.
OnlyAllowedCommandsWrite ==
  [][\A f \in File : content'[f] # content[f] =>
       \E c \in Call : /\ proc[c] = "alive"
                       /\ f \in WritesOf[cmd[c]]
                       /\ Allowed(c)]_vars

\* A command with a part that is not green never gets a process before its
\* callback returned yes; a refused, unasked or failed call never gets one.
NonGreenNeedsYes ==
  \A c \in Call : proc[c] # "none" =>
    /\ pc[c] \in {"running", "logged", "returned"}
    /\ \/ approved[c] = "yes"
       \/ /\ AutoApproveGreen
          /\ \A i \in DOMAIN PartsOf[cmd[c]] : MatchTier(PartsOf[cmd[c]][i]) = "green"

\* openai_compat.py:14-18, "Over HTTP, we default to denying YELLOW/RED tool
\* calls unless SV_HTTP_AUTO_APPROVE_YELLOW=true": a red command sent over
\* HTTP has no process, and a yellow one only where the operator opted in,
\* whatever other surfaces' calls do meanwhile.
HttpRunsNothingRed ==
  \A c \in Call : callback[c] = "http" /\ proc[c] # "none" =>
    /\ Classify(PartsOf[cmd[c]]) # "red"
    /\ Classify(PartsOf[cmd[c]]) = "yellow" => HttpAutoApproveYellow

\* The execution log holds a call once if it went through _run, and never if
\* it was refused or raised (execute's early returns do not log).
RanCommands == {c \in Call : pc[c] = "logged" \/ (pc[c] = "returned" /\ result[c].approved)}

LogIsComplete ==
  /\ {execution_log[i] : i \in DOMAIN execution_log} = RanCommands
  /\ \A i, j \in DOMAIN execution_log : execution_log[i] = execution_log[j] => i = j

\* Two calls whose backups may get one name: same second, and both name a
\* file with the same basename.
SameBackupName(c, d) ==
  /\ c # d
  /\ stamp[c] = stamp[d] /\ stamp[d] # NotStamped
  /\ \E i \in DOMAIN NamesOf[cmd[c]], j \in DOMAIN NamesOf[cmd[d]] :
        BasenameOf[NamesOf[cmd[c]][i]] = BasenameOf[NamesOf[cmd[d]][j]]

\* When no other call can use its name, the backup_path a call returns
\* (_create_backup) names a complete copy, taken before the command wrote.
BackupIsPreImage ==
  \A c \in Call :
    /\ backup_path[c] # NoPath
    /\ \A d \in Call : ~SameBackupName(c, d)
    => backups[backup_path[c]] \notin {"none", "partial", c}

\* The engine implements the gate of CommandGate.
Gate == INSTANCE CommandGate WITH
  phase <- [c \in Call |-> IF pc[c] = "idle" THEN "new"
                           ELSE IF Ended(c) THEN "settled" ELSE "open"],
  needs_consent <- {c \in Call : pc[c] # "idle" /\ ~AutoRuns(c)},
  consent <- approved,
  started <- {c \in Call : proc[c] # "none"},
  logged <- {execution_log[i] : i \in DOMAIN execution_log}

\* execute is an implementation of the gate: consent, effect, record and
\* answer come in the order the abstract gate allows, once each.
ImplementsGate == Gate!Spec

\* What execute's docstring says of timeout ("Maximum execution time in
\* seconds", engine.py:54): when the call has ended so has its command.
CommandEndsWithItsCall ==
  \A c \in Call : Ended(c) => proc[c] # "alive"
==============================================================================
