# Silicon Valet: formal specification

TLA+ modules of the parts of Silicon Valet whose correctness depends on order,
interleaving and failure, the TLC configurations that check them on small
instances, and TLAPS proofs of what matters most for every instance.

Silicon Valet is an assistant for a machine's administrator. A language model
proposes shell commands through tools; every command goes through one risk
engine; a WebSocket session asks the user for approval; a SQLite store (the
"DNA") holds what was discovered about the infrastructure; a runbook library is
seeded from domain packs. The text the models produce is outside any model
here: whatever command comes, the parts below have to treat it correctly.

## The system

| Part | State | Operations | Talks to |
|---|---|---|---|
| Risk classifier (`risk/classifier.py`, `patterns.py`) | none | `classify`, `_classify_pipe_chain`, `_match_tier` | called by the engine |
| Risk engine (`risk/engine.py`) | `execution_log`, backup directory | `execute`, `_create_backup`, `_run` | classifier, approval callback, shell processes |
| Tools (`tools/*.py`) | `_risk_engine`, `_approval_callback` | `call`: build a command, run `execute` in a thread with a loop of its own | engine |
| Session (`server/session.py`, `ws_server.py`) | `_ws`, `_pending_approval`, `history` | `start_session`, `handle_message`, the approval callback, `end_session` | client over the wire, engine through the callback |
| Client (`cli/client.py`) | connection, input loop | show a prompt, send the answer | session |
| HTTP API (`api/openai_compat.py`) | its approval callback | chat completions | planner, engine |
| DNA store (`dna/store.py`, `schema.py`, `models.py`) | six tables and `changes_log` | upserts, `add_dependency`, `mark_services_removed`, `get_dependents`, reads | SQLite |
| DNA scanner (`dna/scanner.py`) | none between scans; in one, the first node and the names seen | `scan_once`, periodic loop | probes, store |
| Runbooks and packs (`memory/procedural.py`, `packs/`) | `runbooks` table, vector collection, active packs | `add`, `search`, `record_success`, `seed_runbooks` | SQLite, ChromaDB, embedding service |
| Episodic memory (`memory/episodic.py`, `context.py`) | episodes, vectors | `store`, `search` | ChromaDB |
| Planner, coder, hand-off, router (`orchestrator/`) | one agent for all sessions | `run`, `generate` | model server, tools |
| Network device tools (`tools/netdevice.py`) | none | show, configure, save | SSH sessions, approval callback |
| Startup and configuration (`__main__.py`, `config.py`, `environment.py`) | token file, settings | phases of startup, `ensure_auth_token` | everything |
| Packs' texts, CLI display, deployment | none of interest | | |

How they meet: a tool calls `execute`; `execute` awaits the approval callback it
was given; the session's callback sends a prompt over the WebSocket and waits for
a Future that the receive loop resolves (the repository does not yet join these:
no tool is given a session's callback, see Findings); the started process runs on
its own and may outlive the call. The scanner and the tools meet in the store.
Startup activates packs by what the store holds, seeds their runbooks in tasks
that nobody awaits, and gathers the servers; sessions and HTTP requests share one
planner and its agent; a device tool blocks the event loop while its worker thread
talks to the device.

Hard behaviours: calls of `execute` interleave at every await; an answer carries
no request id and the session has one slot for the Future; the receive loop awaits
the whole turn; timers race answers; processes outlive timeouts; copies fail half
way; seeding tasks are started and not awaited and the process may stop between
the two stores; removals cascade through the tables; a scan is no transaction and
may end after any row; the token file may be left empty by a crash; one server
that fails ends the process under the others; the shared agent outlives the turn
that built it; a batch of device configuration stops half way, and others save and
reload the device in between. The list, with lines, is in PROJECT.json under
`hazards`.

What makes each part correct: the classifier returns the tier of the riskiest
part; the engine lets nothing that is not green take effect without a yes, and
logs what ran, once; a yes approves at most one command and every request ends;
the store has no duplicate and no dangling row and its log tells what happened;
a finished scan is in the store, and finding the same again changes nothing;
the dependents search finds exactly the transitive dependents; seeding stores
each runbook once; a token once handed out stays good; the model of a turn gets
that turn's messages; a session does not end without a trace; a device keeps no
half batch unless somebody else saves it.

## Modules

| Module | Models | Notes |
|---|---|---|
| `RiskTiers` | tiers, the pattern tables, `_match_tier`, `Classify` as a definition | no state |
| `RiskClassifier` | the loop of `_classify_pipe_chain` and `classify` | shown to compute `Classify` |
| `CommandGate` | the abstract specification of the engine | what it promises: consent, effect, record, settlement |
| `RiskEngine` | `execute`, `_create_backup`, `_run` with processes and files | one actor per call; refines `CommandGate` |
| `SessionApproval` | the approval callback, the receive loop, the client's prompt loop | one actor per call of the callback |
| `GatedSession` | `RiskEngine` composed with `SessionApproval` | the callback's answer is what the engine acts on |
| `DNAStore` | the writing methods over the schema | one action per method, as each is one transaction |
| `DNAScanner` | `run_forever` and `scan_once` over `DNAStore` | a loop's turn is an action; extends the store and takes its actions |
| `Dependents` | the loop of `get_dependents` | on every dependencies table |
| `RunbookSeeding` | `seed_runbooks` and `RunbookLibrary.add` across restarts | the abstract specification of seeding: any choice of active packs; rows and vectors persist, tasks do not |
| `Startup` | the phases of `startup`, pack detection, `ensure_auth_token`, the gathered servers, shutdown and restart | extends `RunbookSeeding` and refines it |
| `Conversation` | turns of sessions and HTTP requests in the shared planner, history, `/brief`, `end_session` | one actor per session and per HTTP client |
| `Valet` | `Startup` composed with `Conversation` | sessions and requests live while the servers listen; refines `Startup` |
| `NetDevice` | `netdevice_show`, `netdevice_config` and the devices | one actor per call; devices have other users and reload |
| `MC...` | instances for TLC | constants only |
| `RiskClassifierProofs`, `RiskEngineProofs`, `SessionApprovalProofs`, `GatedSessionProofs`, `DNAProofs`, `DependentsProofs`, `NetDeviceProofs`, `ValetProofs` | theorems and proofs | |

### How state and actions correspond to the code

*RiskTiers, RiskClassifier.* A command is the sequence of its pipe components,
and a component is the set of pattern tables that match it: the classifier can
tell nothing else apart. All eight sets occur ("frobnicate" matches none, a
`cat` with an append redirect matches green and yellow). `position`,
`highest_tier` are the loop's variables.

*RiskEngine.* `pc` is where a call is between two awaits or system calls. The
synchronous parts in between are one action each. `proc` is the call's process,
which is the environment's: it may write its files, exit, or run for ever, also
after the call timed out. `content` names a file's content by its writer.
`_create_backup` is a stamp and then one step per word, as `copy2` may fail
before or after it opened its destination. `raised` is an exception that leaves
`execute`. A call may be made without a callback, which is how the tools are
configured until something assigns `_approval_callback`; with a session's, whose
answer is free here and bound in `GatedSession`; or with that of the HTTP API,
which answers by tier (`HttpApproves`). TLC sets `HttpAutoApproveYellow`, the more
permissive setting; `HttpNeverRunsRed` is proved for both. `BackupIsPreImage` is
about backups whose name no other call can use: two calls within one second that
back up files of one basename do overwrite each other's.

*SessionApproval.* `pending` is `_pending_approval`; `prompts` and `replies` are
the two directions of the WebSocket; `said` and `overlapped` are ghosts. An
action runs from one await to the next. `Deliver` is the whole RISK_RESPONSE
branch, including the two ways in which an answer is dropped.
`InTurn` marks the calls that are made from inside a turn of the session, during
which the receive loop does not read. The callback and the loop are taken to
share an event loop, as the callback is written for. `UserAnswers` is a line that
the client's risk prompt reads. Prompt and input loop both read stdin
(`StrayLine`): an answer that the input loop takes leaves the prompt as it was,
and a chat line that the prompt takes is sent as a no.

*GatedSession.* Call `c` of `execute` makes call `c` of the callback, or is
answered by tier if it came over HTTP, or has no callback. As shipped, the last is
the case of every tool: the server stores the session's callback in
`risk_engine.approval_callback`, which nothing reads, and nothing sets the tools'
own. So the module is the composition that the interfaces document, for any mix of
callers; the shipped program's behaviours are those in which nobody passes the
callback on. The commands of the instance
write no files: who may write is `RiskEngine`'s question.

*DNAStore.* A row is its lookup key, its owner, one value that stands for each of
its columns whose changes are logged, and one `aside` for the column whose changes
are not: a port's `bind_address`, a configuration file's `last_modified`. A port's
columns are set to what an upsert is given, those of the other tables under
COALESCE (`Updated`). Services are looked up with NULL equal to NULL, ports and
configuration files plainly, so that one without a service is never found and is
inserted again (`NullFindsNull`). Methods that raise change nothing, because the
connection is not committed before the error; they are no step. `MaxId` and
`MaxLog` only bound the run.

*DNAScanner.* `scan_once` awaits its probes, then loops over what they found:
`step` is the loop, `todo` what the loop has left. One turn calls the store once
and is one action, the store's own; an item is a key, a value and, for a
configuration file, the service it is of. What the probes may find are
constants, less if a tool is not installed; a probe that fails or whose output
cannot be parsed finds nothing, or a part, and so do they. `Interrupted` is a
probe or the store raising, which `run_forever` logs, as well as the end of the
process: both lose what the scan holds in memory and keep the rows. `settled` is
a ghost: the result of the last scan that went through, as long as no later scan
has found anything else. `NumberOf`, `NameOf` and `KnownDeps` stand for the
comparison of port numbers, of names, and for the substring patterns of
`_infer_dependencies`.

*Dependents.* One action per turn of the while loop; the rows of a join come in
any order. A service that depends on two others that are found is listed
twice: the properties are about the set of what is returned.

*RunbookSeeding.* `task` is the state of a seed's `add` in this boot. Which packs
are active may differ from boot to boot.

*Startup.* `startup` does not await between pack detection and the gather, so the
seeding tasks run only from `process = "up"` on. `stored` is what the packs look
for in the DNA store ("signs"); only the scanner of a process that is up adds to
it. `token_file` is the file, `auth_token` the setting: a token generated in a
boot is named by the boot's number, so that two boots never generate the same.
`write_text` is two steps, opening, which empties the file, and writing, either
of which may fail; the process may end between them. `ServerStarts` is a server's
task coming to its port or raising; `GatherRaises` is the gather passing the
first exception on, which ends `main`. `published` and `stored_at_boot` are
history variables.

*Conversation.* A turn is `context` while it awaits `build_context`, `running`
while a model answers. `agent` is `planner._agent`, named by the context that it
was built with; `library` says how `Assistant` behaves in this process: it works,
it cannot be imported, or it raises for a tool name it does not know, which it does
where an active pack names its tools by their classes. A message
is its place in what its author has sent; a session's history holds only its
user's messages, as in the code, and for the planner's turn the current message
is both its last element and appended once more (`MessagesFor`). The coder gets
the message alone. `Brief` writes the brief and then clears the history, in that
order; `HangUp` leads to `end_session` in handler's `finally`. `Forgotten` is the
end of the process: it takes the memory of every session with it, and those that
were not over are `cut` and promise nothing. A brief has the first 80 characters of
each message (`commands.py:71`); that is the trace meant here.

*Valet.* Sessions connect while the WebSocket server listens, requests come while
the HTTP server does. A step of the conversation needs the process up; `Crash`
and `ServersEnd` end both parts in one step.

*NetDevice.* A line of a batch is the set of the prefix tables that match it, as
a pipe component is in `RiskTiers`, whose `MatchTier` tries the tables in the
order that `_classify_device_command` does. `InLoop` are the calls made in the
thread of the server's event loop, which is where the planner runs its tools:
such a call blocks the loop until it returns. The approval of
`netdevice.py:292-301` asks a callback that nothing in `src/` sets: no process gets
there, and it is not modelled. Netmiko and the devices are
external, modelled as the tool uses them: `send_config_set` sends the lines one
at a time and goes on after one that is refused. `running` is what a device has
taken, its candidate configuration where the platform commits. `saved_by` is a history
variable.

## Runs

| Run | What it asks | Bounds |
|---|---|---|
| `classifier` | does the loop compute the highest tier, and is green only what is green in every part | all commands of up to three parts; three positions are enough for first, middle and last |
| `engine` | gate, log, backups, what HTTP may run, and refinement of `CommandGate`, for two calls of any surface | a green, a yellow and a red command, the yellow one naming two files of one basename, so that its backup may fail at the first and fall to the second; two clock values, so that backups may and may not share a name. Calls are symmetric. 470,000 states |
| `engine_timeout` | has a command ended when its call has (no: finding) | same |
| `approval` | three requests on one slot, with timers, crossed answers and a disconnect; each ends | two calls from outside and one from inside a turn. 409,000 states |
| `approval_quick` | is a turn's command approved when its user says yes, timers firing only when all else waits (no: finding) | same |
| `gated` | engine and session together: nothing runs without a yes, every call ends | one call from outside, one from inside a turn; a green, a yellow and a red command. 152,000 states |
| `dna_store` | keys, references, log and knowledge after any sequence of writes | one key for each table but two services; two rows ever per table and five log entries: enough for a row to be added, changed, removed and replaced, and for a port without a service to be stored twice |
| `scanner` | after a scan that went through, does the store have what it found, and is finding it again silent, also for scans that are cut off | three scans, so that one may find the machine changed and the next find it as it was; two nodes of which kubectl may fail to list either, a name that systemd and Docker both have, a service and a file that come and go. `MaxId` and `MaxLog` are never in the way: six service rows are all that the keys allow |
| `dependents` | does the search find all and only the dependents, and end | every graph on three services, with loops, cycles and diamonds |
| `netdevice` | does a batch that was cut short or was not to be saved become permanent only by somebody else's save | one call in the event loop and one in a thread, two devices of which one has a save command; an operator who saves and devices that reload at any time. 622,000 states |
| `valet` | seeds, token, packs, turns, history and episodes through restarts, failing servers and lost connections | three boots, so that one may leave an empty token file or a row without a vector, the next meet it, and a third follow; one runbook of a pack that looks for one sign; one session of up to three messages, which is the least for an episode, and one HTTP client, so that two turns overlap in the planner; a request with a system prompt that ends with its user's message, and one that does not. `CHECK_DEADLOCK` is off because the boots are bounded. 654,000 states |
| `seeding_search` | has every stored runbook its vector (not after a failed embedding: finding) | two seeds; restarts are unbounded |

Each property has a mutant in PROJECT.json: a change to a definition, of the
kind a bug in that code would make, under which the property fails. The mutated
forms stand beside the definitions they replace, marked "Mutant of".

### Fairness

`SessionApproval!FairSpec` assumes that a call that has sent its prompt takes its
steps: its event loop runs and the timer of `wait_for` fires. Nothing is assumed
of the user, the wire or the receive loop. `GatedFairSpec` assumes the same of an
engine call that has begun (`Proceeds`; that something raises is not counted on),
and of its callback; processes may run for ever, tools need not call. `Dependents!FairSpec` assumes that the loop runs. Fairness is
weak throughout, as no step competes for being enabled. The other specifications
assume no fairness.

## Findings

Three have a run that shows a counterexample, listed in PROJECT.json with the lines
they contradict:

- A command that timed out goes on running (`CommandEndsWithItsCall`).
- The README's "CLI prompts for approval": the session's callback, asked from inside
  a turn, cannot hear the answer, because the loop that would read it awaits the turn
  (`TurnYesApproves`; `TurnIsNeverApproved` proves that it never can).
- A runbook whose embedding failed once is never searchable (`RowsAreSearchable`).

Others the models show in a definition or a theorem, against a line of the
repository:

- No tool is given an approval callback, so a yellow or red command of a turn is
  denied and nobody is asked (`NoCallback` of `RiskEngine`), while `README.md:218` says
  that tools get the callback for free.
- `netdevice_config` changes a device without asking (`Config`), while
  `netdevice.py:253` says that it always goes through user approval.
- No listening port is ever stored: a port goes under a service that has that port
  in the table, and nothing else fills the table. `PortsNeverKnown` proves it of every
  machine; `scan_once` is to "reconcile with the store" and to "associate ports with
  services" (`dna/scanner.py:101`, `148`).
- A part that both the yellow and the green pattern table list is green, and runs
  without a prompt, because `_match_tier` tries the green table first (`MatchTier`);
  `risk/patterns.py:66` says that what the yellow table lists requires confirmation.
- With qwen-agent all turns are answered with the context of the one that built
  the agent (`PromptOf`), while `memory/context.py:30` says that the context is
  injected before every response.
- Where fastapi or uvicorn is missing, the HTTP API is not disabled, as
  `__main__.py:118` has it, but ends the process: the import fails in a task of the
  gather (`ServerStarts`, `GatherRaises`).
- A crash, or a failed write, between opening and writing `auth.token` leaves an
  empty file, which later boots read as the token (`ReadToken`), while `config.py:121`
  says that one is generated if none exists. `TokenOutlivesRestarts` speaks of tokens
  that were once written whole.

Also surprising:

- A port or configuration file without a service is stored again by every upsert.
  The scanner stores no such port, but the store's callers may.
- A change of a port's `bind_address` or of a file's `last_modified` is not logged,
  and a port observed without them loses both of its columns.
- What has vanished from the machine is never removed, as nothing calls
  `mark_services_removed`. When kubectl fails for one scan, the local machine is the
  first node and all services found are stored a second time under it;
  `tests/test_dna_scanner.py:135-138` still expects no nodes then.
- An answer carries no request id. If calls with a session's callback overlap, or
  one's timer has fired, the yes to one prompt resolves another: a yes approves one
  command (`OneYesOneApproval`), which need not be the one that was shown.
- `_create_backup` of a copy command backs up its source, the first word that is a
  file, and not the file that is overwritten.
- A session's model never sees an assistant's answer in the history, and sees the
  current message twice.
- `netdevice_config` answers `saved` without looking at the outcome of the save, and
  also when a reload between batch and save has dropped the lines. With a callback
  it would deny every call of the planner's, whose loop is running.
- `PackLoader` matches packs before the first scan, so on an empty store only the
  packs that are always relevant, or that the device inventory turns on, are active
  until the next restart.

## Proofs

| Module | Theorems | Argument |
|---|---|---|
| `RiskClassifierProofs` | `ClassifierReturnsHighestTier`, `GreenNeedsEveryPart` | loop invariant: `highest_tier` bounds the parts seen and is one of them |
| `RiskEngineProofs` | `EngineTypeOK`, `NonGreenAlwaysNeedsYes`, `HttpNeverRunsRed`, `OnlyAllowedWrites`, `LogAlwaysComplete`, `BackupIsAlwaysPreImage`, `EngineImplementsGate` | below |
| `SessionApprovalProofs` | `ApprovalTypeOK`, `SlotAlwaysHasAWaiter`, `TurnIsNeverApproved`, `OneYesAlwaysOneApproval`, `SerialApprovalsAlwaysMatch` | below |
| `GatedSessionProofs` | `GatedIsAnEngine`, `GatedImplementsGate`, `NeverRunsWithoutAYes` | the composition's steps are steps or stutters of both parts; a call that has run has its own callback's yes, so the session's counting carries over |
| `DNAProofs` | `StoreTypeOK`, `NeverDuplicateRows`, `NeverDanglingReferences`, `KnownIsNeverForgotten`, `LogAlwaysTellsHistory`; `ScannerAlwaysTypeOK`, `ScannerIsAStore`, `ScansLeaveTheStoreSound`, `PortsNeverKnown`, `StoreAlwaysHoldsResult`, `RescansAreQuiet` | below |
| `DependentsProofs` | `LoopInvariantHolds`, `SearchIsCorrect` | the loop invariant of the module; the closure is the least closed set |
| `NetDeviceProofs` | `Typed`, `FailedBatchesAreNotKept` | below |
| `ValetProofs` | `SeedsOnce`, `StartupImplementsSeeding`, `ValetImplementsStartup`, `ValetSeedsOnce`, `TokenIsKept`, `PacksLag`, `SessionsLeaveATrace`, `ValetTyped`, `ModelAlwaysHearsOwnTurn` | below |

*The gate.* `NonGreenNeedsYes` is not inductive: it speaks of processes, and says
nothing of a call that is about to start one. `GateHeld` adds that a call that
asks has no answer yet and could not run by itself, that a call past the gate has
its permission, and that a process exists only from `_run` on. With the log's
invariant and the order of a call's steps this is inductive, and it is exactly
what the steps of the refinement need: `Start` of the gate must find the call
admitted and unlogged.

*The backups.* A backup_path is a basename and a stamp, so another call can write
it only if it has both. `BackupsInOrder` adds what makes this inductive: a call is
stamped once, as it goes on to copy; the path that it keeps is one of its own
names under its own stamp; and before a call has a process no file holds what it
writes, so that what it copies is what was there before.

*The slot.* That a turn's own call is never approved needs that the slot's owner
waits (`SlotHasAWaiter`): then a response can be delivered to a turn's call only
while that turn is busy, when the loop reads nothing.

*One yes, one approval.* A response may be delivered to another call than the one
it is about, so that a yes must be counted and not looked up. `YesSpentOnce` says
that there is an injection from the calls that a yes has reached into the yeses
that were said, and that none of those is still on the wire: a delivery extends
it by the one that was read, and it stays where a yes is dropped or comes late.
It needs that the wire carries at most one message about a call (`WireInOrder`).
For `SerialApprovalsMatch`, `OneAtATime` says that while calls do not overlap and
no timer fires one call is in progress and the wire is about it alone; once the
connection is gone, a response may be left of a call that has raised, and then
nobody else is or will be in progress.

*The store.* The three invariants are inductive together: references stay whole
under a removal because the cascade follows them, and under an upsert because it
leaves every id, key and owner (`UpsertChanges`), which also gives the action
property. For the log, each method appends at most one entry for a row, and that
entry links to the row's last one: its old value is what the row was
(`InsertKeepsLog`, `UpdateKeepsLog`, `RemovalKeepsLog`). A removal appends one
entry for each row that goes, in some order that names each once. That an id that
is inserted is new comes from the counter, in `TypeOK`, and for the log from
`LoggedWereInserted`.

*The scanner.* `ScannerIsAStore` says that every step of it is a step of the
store or leaves it alone: each loop gets items of its table's types, and the
owners it fills in are ids. For the last, an upsert must have left a row whose id
`StoredId` finds. That no port is stored is part of the same induction: with an
empty table no port finds a service. What is proved of the store then holds of
what scans leave, by the implication alone.

*What a scan leaves.* `Progress` follows a scan: what its loops have been through
(`Done`) is in the store under the first node, and the map leads a name to the row of
the last service that has it. A later item of the same key must not undo an
earlier one, which is where it counts that a listing does not contradict itself
(`ListingAssumption`). At the end `Done` is everything, so that the store holds the
result (`Holds`); `Standing` keeps that while no scan finds anything else. Then
each row that a scan stores is there already, has its value, and is the only one
of its key (`NoDuplicateRows`): no upsert changes anything (`SettledIsQuiet`), which
gives `RescanIsQuiet`, and makes `Standing` inductive.

*The devices.* For `KeptOnlyByAnother`: a device holds only lines that were sent
(`LinesWereSent`), and a call that is among a device's savers has answered `saved`,
which it does only after its whole batch (`SaversAnswered`, with `CallInv`).

*The whole process.* `SeededOnce` is proved of `RunbookSeeding`, where any packs
may be active, and carried up by two refinements: every step of `Startup` is one
of `RunbookSeeding` or leaves its variables alone, and the same for `Valet` over
`Startup`. That a task exists only for a seed without a row makes it inductive.
The token: a file that is not absent never is again, and a published token stays
in it. The trace: the history and the briefs of a session are disjoint and
together all it has said, so a session that ends with at most two messages in its
history has briefed the others.

*The model's turns.* `TurnInv` says of a turn that the model has in hand which
messages it was given; in a session of the planner, whose history no brief can
take while the turn runs, they are the history itself (`TurnStays`, `HistoryInv`).
That a request's last message is heard once speaks of the loop over the request's
messages, which is a recursive function on a body of any length. The induction
theorems of the library cannot be applied here, but `WFMin` and
`NatLessThanWellFounded` can: they give the least element of a set of numbers
(`LeastNumber`), that gives induction for sets (`Induction`), and with it the
loop's function exists, is the one that `Kept` names, and ends as the body does
(`LoopRuns`, `KeptIsTheLoop`, `KeptEndsAsTheBody`).

*Assumptions.* `CommandsAssumption`, `EngineAssumption`, `ApprovalAssumption`,
`GatedAssumption`, `StoreAssumption`, `ScannerAssumption`, `DependentsAssumption`,
`DevicesAssumption`, `CallsAssumption`, `RequestsAssumption`, `PacksAssumption`,
`BootsAssumption`, `BodiesAssumption`, `ActorsAssumption`: the types of the
constants, that the names of contents and the absent call are not calls, that NULL
is no value and no id, that sessions are not requests and the operator is no call,
that a machine has a name (`_scan_local_node` finds a node), and that the
dependencies table is finite. Nothing is assumed of the sizes.

`ListingAssumption`: within one listing no key comes with two values. `kubectl`,
`systemctl`, `docker`, `ip` and `find` name each thing once, pods and deployments
have types of their own, and the paths of `SERVICE_CONFIG_PATHS` that belong to one
service do not overlap. `ss` is not covered, as a port may be bound to two
addresses; no theorem needs that of ports. Without the assumption the claim about
the store would be false: of two values that one listing gives a key, the store
keeps the later.

Only model-checked: the liveness properties `EveryCallbackEnds`, `GatedCallsEnd`
and `SearchEnds`, as TLAPS has no fairness or ENABLED here. Every safety invariant
and action property of the passing runs is a theorem. No recursive operator occurs
in a module with theorems.

## Plan

Done: the modules above, in the order of the table (the gate first, as everything
destructive passes it), then the session's lifecycle, the startup, the shared
planner, their composition, and the network device tools.

Left, by weight:

1. Several sessions with approvals of their own over one engine, in place of the
   one session of `GatedSession`.
2. Theorems: the refinement of an abstract scanner (a set of things found, taken
   in at once) by `DNAScanner`; that the steps the liveness properties count on
   each decrease a measure, which is the part of them that needs no fairness.

## Not modelled

The models' text and its streaming, similarity search and ranking, the pattern
tables' regular expressions (a part is which tables match it), probing of the
machine (`environment.py`, and the endpoints that `config.py` resolves from what it
finds: once, in sequence, before anything else exists), display and the slash
commands that only print, the comparison of tokens, the packs' texts,
`record_success`, which nothing calls, the approval in `netdevice_config`, which no
process reaches, the device fingerprint and the inventory's
listing, deployment scripts. The read-only tools build a command string and call
`execute`; that call is modelled. `/resume` prints a brief and changes nothing.
