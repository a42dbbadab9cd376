---------------------------- MODULE RunbookSeeding ----------------------------
(***************************************************************************)
(* Seeding the runbook library at startup: PackLoader.seed_runbooks checks *)
(* SQLite for each seed of the active packs and starts a task that runs    *)
(* RunbookLibrary.add, which commits the row, awaits an embedding, and     *)
(* stores the vector in ChromaDB.  Rows and vectors survive a restart, the *)
(* tasks do not, and nobody awaits them.                                   *)
(***************************************************************************)
EXTENDS Naturals, FiniteSets

CONSTANTS Seed           \* the seeds of all packs, as (title, pack_source)

VARIABLES
  process,               \* "down", "starting" (in seed_runbooks), "up"
  to_check,              \* the seeds of active packs the loop has yet to see
  task,                  \* [Seed -> the state of this boot's add(seed)]
  row_count,             \* [Seed -> rows of runbooks with this title and pack]
  vectors                \* [Seed -> vectors in the collection for its rows]

vars == <<process, to_check, task, row_count, vectors>>

TaskState == {"none", "scheduled", "embedding", "added", "failed"}

Init ==
  /\ process = "down"
  /\ to_check = {}
  /\ task = [s \in Seed |-> "none"]
  /\ row_count = [s \in Seed |-> 0]
  /\ vectors = [s \in Seed |-> 0]

\* activate_matching: which packs are active depends on what the DNA holds at
\* this boot.
Boot ==
  /\ process = "down"
  /\ process' = "starting"
  /\ to_check' \in SUBSET Seed
  /\ UNCHANGED <<task, row_count, vectors>>

Run(s, from, to) ==
  /\ task[s] = from
  /\ task' = [task EXCEPT ![s] = to]

\* Mutant of AlreadySeeded: the check asks ChromaDB.
AlreadySearchable(s) == vectors[s] # 0

AlreadySeeded(s) == row_count[s] # 0

\* One turn of seed_runbooks' loop.  It does not await, so no task runs
\* between two of them.
CheckSeed(s) ==
  /\ process = "starting"
  /\ s \in to_check
  /\ to_check' = to_check \ {s}
  /\ task' = [task EXCEPT ![s] = IF AlreadySeeded(s) THEN @ ELSE "scheduled"]
  /\ UNCHANGED <<process, row_count, vectors>>

SeedingDone ==
  /\ process = "starting"
  /\ to_check = {}
  /\ process' = "up"
  /\ UNCHANGED <<to_check, task, row_count, vectors>>

\* add: INSERT and commit.  Every attempt has an id of its own.
InsertRow(s) ==
  /\ process = "up"
  /\ Run(s, "scheduled", "embedding")
  /\ row_count' = [row_count EXCEPT ![s] = @ + 1]
  /\ UNCHANGED <<process, to_check, vectors>>

\* add after its await: the collection gets the vector.
StoreVector(s) ==
  /\ process = "up"
  /\ Run(s, "embedding", "added")
  /\ vectors' = [vectors EXCEPT ![s] = @ + 1]
  /\ UNCHANGED <<process, to_check, row_count>>

\* SQLite, the embedding service or ChromaDB fails; nobody looks at the task.
AddFails(s) ==
  /\ process = "up"
  /\ Run(s, "scheduled", "failed") \/ Run(s, "embedding", "failed")
  /\ UNCHANGED <<process, to_check, row_count, vectors>>

\* The process ends, whatever its tasks are at.
Stop ==
  /\ process # "down"
  /\ process' = "down"
  /\ to_check' = {}
  /\ task' = [s \in Seed |-> "none"]
  /\ UNCHANGED <<row_count, vectors>>

Next ==
  \/ Boot \/ SeedingDone \/ Stop
  \/ \E s \in Seed : CheckSeed(s) \/ InsertRow(s) \/ StoreVector(s) \/ AddFails(s)

Spec == Init /\ [][Next]_vars

------------------------------------------------------------------------------
\* Type invariant.
TypeOK ==
  /\ process \in {"down", "starting", "up"}
  /\ to_check \in SUBSET Seed
  /\ task \in [Seed -> TaskState]
  /\ row_count \in [Seed -> Nat]
  /\ vectors \in [Seed -> Nat]

\* However often the process is restarted and wherever it was interrupted, a
\* seed is stored at most once, and no vector exists without its row, so
\* that search never drops a hit.
SeededOnce ==
  \A s \in Seed : vectors[s] <= row_count[s] /\ row_count[s] <= 1

\* RunbookLibrary.add's docstring, "Add a runbook entry to both SQLite and
\* ChromaDB": a row whose add is over, in this boot or an earlier one, has
\* its vector.
RowsAreSearchable ==
  \A s \in Seed :
    process = "up" /\ task[s] \in {"none", "added", "failed"} =>
      row_count[s] = vectors[s]
==============================================================================
