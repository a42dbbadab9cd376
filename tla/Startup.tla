------------------------------- MODULE Startup -------------------------------
(***************************************************************************)
(* The life of the process: startup() activates the packs that match the   *)
(* store, seeds their runbooks, makes sure of the auth token and gathers   *)
(* the servers; while it is up the scanner fills the store; it ends at any *)
(* point and is started again.  Up to the gather startup does not await,   *)
(* so that none of the tasks it creates runs before.                       *)
(*                                                                         *)
(* RunbookSeeding has the seeds; here the packs and the store decide which *)
(* of them a boot looks at.  Rows, vectors, the token file and the store   *)
(* outlive the process.                                                    *)
(***************************************************************************)
EXTENDS RunbookSeeding, Integers

CONSTANTS
  Pack,
  PackOf,                \* [Seed -> Pack]
  Sign,                  \* what a pack may look for in the store
  SignsOf,               \* [Pack -> the signs, one of which activates it]
  MaxBoots               \* a bound on the boots of a behaviour

ASSUME PacksAssumption ==
  PackOf \in [Seed -> Pack] /\ SignsOf \in [Pack -> SUBSET Sign]
ASSUME BootsAssumption == MaxBoots \in Nat

VARIABLES
  boots,                 \* the boots so far
  stored,                \* the signs in the store
  stored_at_boot,        \* history: the signs in it when packs were matched
  token_file,            \* what auth.token holds
  auth_token,            \* config.auth_token
  token_step,            \* ensure_auth_token: "due", "opened", "done"
  published,             \* history: the first token that was in the file
  server                 \* [Server -> its task]

token == <<token_file, auth_token, token_step, published>>
store == <<stored, stored_at_boot>>
startupVars == <<vars, boots, store, token, server>>

Server == {"ws", "http"}
ServerState == {"none", "created", "listening", "failed"}

\* The token generated in a boot is that boot's number; a file may be absent,
\* a file or a token blank, a token that of SV_AUTH_TOKEN.
Absent == -2
Blank == -1
FromEnv == 0
Generated == 1 .. MaxBoots

StartupInit ==
  /\ Init
  /\ boots = 0
  /\ stored = {}
  /\ stored_at_boot = {}
  /\ token_file = Absent
  /\ auth_token = Blank
  /\ token_step = "due"
  /\ published = Absent
  /\ server = [t \in Server |-> "none"]

------------------------------------------------------------------------------
\* Mutant of Detects: an error in detect counts as a match.
DetectsAnyhow(pack) == TRUE

\* BasePack.detect of the packs: some are always relevant (linux, networking,
\* and those that the device inventory turns on), the others look for any one
\* of a few services.
Detects(pack) == SignsOf[pack] = {} \/ SignsOf[pack] \cap stored # {}

\* startup up to activate_matching.  A pack whose detect or whose import
\* raises is passed over.
BootProcess ==
  /\ boots < MaxBoots
  /\ boots' = boots + 1
  /\ stored_at_boot' = stored
  /\ Boot
  /\ \E broken \in SUBSET Pack :
       to_check' = {s \in Seed : Detects(PackOf[s]) /\ PackOf[s] \notin broken}
  /\ auth_token' \in {Blank, FromEnv}
  /\ token_step' = "due"
  /\ UNCHANGED <<stored, token_file, published, server>>

SeedTask ==
  /\ \E s \in Seed : CheckSeed(s) \/ InsertRow(s) \/ StoreVector(s) \/ AddFails(s)
  /\ UNCHANGED <<boots, store, token, server>>

\* ensure_auth_token runs once the seeds have been checked.
EnsuresToken ==
  /\ process = "starting"
  /\ to_check = {}
  /\ UNCHANGED <<vars, boots, store, server>>

\* The token came with the environment.
KeepToken ==
  /\ EnsuresToken
  /\ token_step = "due"
  /\ auth_token # Blank
  /\ token_step' = "done"
  /\ UNCHANGED <<token_file, auth_token, published>>

\* Mutant of TokenFileExists: the file is not looked for.
NeverLooksForFile == FALSE

TokenFileExists == token_file # Absent

\* The file has it; a file that was left empty gives an empty token.
ReadToken ==
  /\ EnsuresToken
  /\ token_step = "due"
  /\ auth_token = Blank
  /\ TokenFileExists
  /\ auth_token' = token_file
  /\ token_step' = "done"
  /\ UNCHANGED <<token_file, published>>

\* A new token: write_text first empties the file, or cannot open it.
GenerateToken ==
  /\ EnsuresToken
  /\ token_step = "due"
  /\ auth_token = Blank
  /\ ~TokenFileExists
  /\ auth_token' = boots
  /\ \/ token_file' = Blank /\ token_step' = "opened"
     \/ token_step' = "done" /\ UNCHANGED token_file
  /\ UNCHANGED published

\* It is written, or the write fails, which is logged.
WriteToken ==
  /\ EnsuresToken
  /\ token_step = "opened"
  /\ \/ /\ token_file' = auth_token
        /\ published' = IF published = Absent THEN auth_token ELSE published
     \/ UNCHANGED <<token_file, published>>
  /\ token_step' = "done"
  /\ UNCHANGED auth_token

\* The servers' tasks are created and gathered, and the loop runs.
GatherServers ==
  /\ token_step = "done"
  /\ SeedingDone
  /\ \E http_enabled \in BOOLEAN :
       server' = [server EXCEPT !["ws"] = "created",
                                !["http"] = IF http_enabled THEN "created" ELSE "none"]
  /\ UNCHANGED <<boots, store, token>>

------------------------------------------------------------------------------
\* A server's task binds its port, or raises: the port is taken, or uvicorn or
\* fastapi cannot be imported.
ServerStarts(t) ==
  /\ process = "up"
  /\ server[t] = "created"
  /\ \E outcome \in {"listening", "failed"} : server' = [server EXCEPT ![t] = outcome]
  /\ UNCHANGED <<vars, boots, store, token>>

\* The background scanner finds another sign.
ScanFinds ==
  /\ process = "up"
  /\ \E sign \in Sign \ stored : stored' = stored \cup {sign}
  /\ UNCHANGED <<vars, boots, stored_at_boot, token, server>>

\* The process is gone; what was not written is lost.
ProcessEnds ==
  /\ Stop
  /\ auth_token' = Blank
  /\ token_step' = "due"
  /\ server' = [t \in Server |-> "none"]
  /\ UNCHANGED <<boots, store, token_file, published>>

\* gather raises the first exception of a server.
EndsGather == \E t \in Server : server[t] = "failed"

GatherRaises ==
  /\ process = "up"
  /\ EndsGather
  /\ ProcessEnds

StartupNext ==
  \/ BootProcess \/ SeedTask
  \/ KeepToken \/ ReadToken \/ GenerateToken \/ WriteToken
  \/ GatherServers \/ ScanFinds \/ ProcessEnds \/ GatherRaises
  \/ \E t \in Server : ServerStarts(t)

StartupSpec == StartupInit /\ [][StartupNext]_startupVars

------------------------------------------------------------------------------
\* Type invariant of the startup.
StartupTypeOK ==
  /\ TypeOK
  /\ boots \in 0 .. MaxBoots
  /\ stored \in SUBSET Sign
  /\ stored_at_boot \in SUBSET stored
  /\ token_file \in {Absent, Blank} \cup Generated
  /\ auth_token \in {Blank, FromEnv} \cup Generated
  /\ token_step \in {"due", "opened", "done"}
  /\ published \in {Absent} \cup Generated
  /\ server \in [Server -> ServerState]

\* A token that was once whole in auth.token is the one that every later boot
\* without SV_AUTH_TOKEN uses, wherever the boots in between were cut off:
\* what clients were given stays good.
TokenOutlivesRestarts ==
  process = "up" /\ auth_token # FromEnv /\ published # Absent =>
    auth_token = published

\* Packs are matched before the scan of the same boot has found anything: a
\* runbook is in the library, or on its way, only if a sign of its pack was
\* in the store when this boot or an earlier one matched the packs; on the
\* first boot, only those of the packs that are always relevant.
PacksLagTheScan ==
  \A s \in Seed :
    row_count[s] > 0 \/ task[s] # "none" =>
      SignsOf[PackOf[s]] = {} \/ SignsOf[PackOf[s]] \cap stored_at_boot # {}
==============================================================================
