------------------------------ MODULE NetDevice ------------------------------
(***************************************************************************)
(* The network device tools: netdevice_show sends one read-only command,   *)
(* netdevice_config sends a batch of configuration lines in one SSH        *)
(* session and, if asked to, saves in a second session.  A device keeps    *)
(* the running configuration, which a reload replaces by the saved one.    *)
(*                                                                         *)
(* netdevice_config asks for approval only if its _approval_callback is    *)
(* set (netdevice.py:292).  Nothing under src/ sets it, so no process gets *)
(* into that branch, and it is not here: a batch of any tier is sent.      *)
(*                                                                         *)
(* A line is the set of the prefix tables that match it, as a Part of      *)
(* RiskTiers is the set of the pattern tables.  Netmiko is external: its   *)
(* send_config_set sends the lines one at a time and, without an           *)
(* error_pattern, goes on after a line that the device refuses.            *)
(***************************************************************************)
EXTENDS RiskTiers

CONSTANTS
  Device,
  HasSaveCommand,        \* the devices whose platform has a save command
  Call,                  \* calls of the tools, each made once
  InLoop,                \* those made in the thread of the server's event loop
  Operator,              \* whoever else configures the devices
  Request                \* the arguments the tools are called with

Line == Call \X Nat      \* the i-th line of a call's batch

ASSUME DevicesAssumption == HasSaveCommand \subseteq Device
ASSUME CallsAssumption == InLoop \subseteq Call /\ Operator \notin Call
ASSUME RequestsAssumption ==
  /\ Request \subseteq [tool : {"show", "config"}, device : Device,
                         commands : Seq(Part), save : BOOLEAN]
  /\ \A r \in Request : r.tool = "show" => Len(r.commands) = 1

VARIABLES
  request,               \* [Call -> its arguments]
  step,                  \* [Call -> where it is]
  sent,                  \* [Call -> lines sent so far]
  result,                \* [Call -> what it returns]
  running,               \* [Device -> the batch lines its running configuration holds]
  startup,               \* [Device -> lines in its saved configuration]
  saved_by               \* [Device -> who has saved its configuration]

vars == <<request, step, sent, result, running, startup, saved_by>>
devices == <<running, startup, saved_by>>

Step == {"idle", "connecting", "sending", "cut", "applied", "done"}
Result == {"none", "refused", "error", "success", "saved"}

Init ==
  /\ request \in [Call -> Request]
  /\ step = [c \in Call |-> "idle"]
  /\ sent = [c \in Call |-> 0]
  /\ result = [c \in Call |-> "none"]
  /\ running = [d \in Device |-> {}]
  /\ startup = [d \in Device |-> {}]
  /\ saved_by = [d \in Device |-> {}]

------------------------------------------------------------------------------
\* _classify_device_command: the red prefixes first, the green ones before the
\* yellow ones, yellow when no prefix matches.
ClassifyDeviceCommand(line) == MatchTier(line)

ReadOnly(c) == ClassifyDeviceCommand(Head(request[c].commands)) = "green"

Target(c) == request[c].device

Goes(c, from, to) ==
  /\ step[c] = from
  /\ step' = [step EXCEPT ![c] = to]

Returns(c, from, what) ==
  /\ Goes(c, from, "done")
  /\ result' = [result EXCEPT ![c] = what]

\* A tool that the planner calls blocks the event loop until it returns.
MayStart(c) ==
  c \in InLoop => \A other \in InLoop : step[other] \in {"idle", "done"}

\* netdevice_show: refused unless the command is green, else sent with
\* send_command, which does not enter configuration mode.
Show(c) ==
  /\ request[c].tool = "show"
  /\ MayStart(c)
  /\ Returns(c, "idle",
       IF ReadOnly(c) THEN "success" ELSE "refused")
  /\ UNCHANGED <<request, sent, devices>>

\* The device does not answer, or netmiko is not installed.
ShowFails(c) ==
  /\ request[c].tool = "show"
  /\ MayStart(c)
  /\ ReadOnly(c)
  /\ Returns(c, "idle", "error")
  /\ UNCHANGED <<request, sent, devices>>

\* netdevice_config up to the session: the tier it computes is only part of
\* the answer.
Config(c) ==
  /\ request[c].tool = "config"
  /\ MayStart(c)
  /\ Goes(c, "idle", "connecting")
  /\ UNCHANGED <<request, sent, result, devices>>

\* _run_on_device: the session is open.
Connect(c) ==
  /\ Goes(c, "connecting", "sending")
  /\ UNCHANGED <<request, sent, result, devices>>

\* Mutant of MoreToSend: one line too many.
MoreToSendOffByOne(c) == sent[c] <= Len(request[c].commands)

MoreToSend(c) == sent[c] < Len(request[c].commands)

\* The next line goes out; the device takes it or refuses it, and the tool
\* does not see which.
SendLine(c) ==
  /\ step[c] = "sending"
  /\ MoreToSend(c)
  /\ sent' = [sent EXCEPT ![c] = @ + 1]
  /\ \/ running' = [running EXCEPT ![Target(c)] = @ \cup {<<c, sent[c] + 1>>}]
     \/ UNCHANGED running
  /\ UNCHANGED <<request, step, result, startup, saved_by>>

\* _run_on_device returns to netdevice_config.
BatchReturns(c, from, what) ==
  /\ Goes(c, from, "applied")
  /\ result' = [result EXCEPT ![c] = what]
  /\ UNCHANGED <<request, sent, devices>>

\* The whole batch has been sent.
BatchSent(c) ==
  /\ ~MoreToSend(c)
  /\ BatchReturns(c, "sending", "success")

\* No session, or it breaks, or netmiko raises; the lines sent so far stay.
BatchFails(c) ==
  \E from \in {"connecting", "sending", "cut"} : BatchReturns(c, from, "error")

\* Mutant of Saves: whether the batch succeeded is not looked at.
SavesAnyway(c) == request[c].save /\ Target(c) \in HasSaveCommand

\* The condition of the save step.
Saves(c) ==
  /\ request[c].save
  /\ result[c] = "success"
  /\ Target(c) \in HasSaveCommand

\* The configuration that runs becomes the one the device starts with.
Keep(d, who) ==
  /\ startup' = [startup EXCEPT ![d] = running[d]]
  /\ saved_by' = [saved_by EXCEPT ![d] = @ \cup {who}]
  /\ UNCHANGED running

\* The save command, in a session of its own whose outcome nobody looks at:
\* the answer says "saved" either way.
Save(c) ==
  /\ Saves(c)
  /\ Returns(c, "applied", "saved")
  /\ Keep(Target(c), c) \/ UNCHANGED devices
  /\ UNCHANGED <<request, sent>>

ReturnUnsaved(c) ==
  /\ ~Saves(c)
  /\ Returns(c, "applied", result[c])
  /\ UNCHANGED <<request, sent, devices>>

------------------------------------------------------------------------------
\* The devices have other users, and restart.
OperatorSaves(d) ==
  /\ Keep(d, Operator)
  /\ UNCHANGED <<request, step, sent, result>>

\* A power cycle, or a line of a batch that reloads: every session to the
\* device is cut, what was not saved is gone.
Reload(d) ==
  /\ running' = [running EXCEPT ![d] = startup[d]]
  /\ step' = [c \in Call |->
                IF step[c] = "sending" /\ Target(c) = d THEN "cut" ELSE step[c]]
  /\ UNCHANGED <<request, sent, result, startup, saved_by>>

Next ==
  \/ \E c \in Call :
       \/ Show(c) \/ ShowFails(c) \/ Config(c) \/ Connect(c)
       \/ SendLine(c) \/ BatchSent(c) \/ BatchFails(c)
       \/ Save(c) \/ ReturnUnsaved(c)
  \/ \E d \in Device : OperatorSaves(d) \/ Reload(d)

Spec == Init /\ [][Next]_vars

------------------------------------------------------------------------------
\* Type invariant; sent stays within the batch.
TypeOK ==
  /\ request \in [Call -> Request]
  /\ step \in [Call -> Step]
  /\ sent \in [Call -> Nat]
  /\ result \in [Call -> Result]
  /\ running \in [Device -> SUBSET Line]
  /\ startup \in [Device -> SUBSET Line]
  /\ saved_by \in [Device -> SUBSET (Call \cup {Operator})]
  /\ \A c \in Call : sent[c] <= Len(request[c].commands)

\* A batch that was not sent to its end, or was not to be saved, survives a
\* reload only if another call or the operator saved the device in between:
\* a call whose batch failed half way never makes its own lines permanent.
KeptOnlyByAnother ==
  \A d \in Device : \A line \in startup[d] :
    LET c == line[1]
    IN  \/ result[c] = "error"
        \/ sent[c] < Len(request[c].commands)
        \/ ~request[c].save
        => saved_by[d] \ {c} # {}
==============================================================================
