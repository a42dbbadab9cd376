----------------------------- MODULE ValetProofs -----------------------------
(***************************************************************************)
(* The life of the process for any seeds, packs, sessions and requests.    *)
(* Every step of the process is a step of Startup or leaves it alone, and  *)
(* every step of Startup one of RunbookSeeding, so that what holds of the  *)
(* seeding and of the startup holds of the whole.  The sessions: what they *)
(* leave behind, and what the model of a turn is given.                    *)
(***************************************************************************)
EXTENDS Valet, FiniteSetTheorems, SequenceTheorems, WellFoundedInduction, TLAPS

------------------------------------------------------------------------------
\* Seeding: a task is under way only for a seed without a row, or with the row
\* that it has just stored.
SeedInv ==
  /\ TypeOK
  /\ SeededOnce
  /\ \A s \in Seed :
       /\ task[s] = "scheduled" => row_count[s] = 0
       /\ task[s] = "embedding" => row_count[s] = 1 /\ vectors[s] = 0
       /\ process = "down" => task[s] = "none"

LEMMA SeedingStarts == Init => SeedInv
BY DEF Init, SeedInv, TypeOK, SeededOnce, TaskState

LEMMA SeedingStep ==
  ASSUME SeedInv, [Next]_vars
  PROVE  SeedInv'
<1> USE DEF SeedInv, TypeOK, SeededOnce, TaskState
<1>1. CASE Boot
  BY <1>1 DEF Boot
<1>2. CASE SeedingDone
  BY <1>2 DEF SeedingDone
<1>3. CASE Stop
  BY <1>3 DEF Stop
<1>4. ASSUME NEW s \in Seed, CheckSeed(s) PROVE SeedInv'
  BY <1>4 DEF CheckSeed, AlreadySeeded
<1>5. ASSUME NEW s \in Seed, InsertRow(s) PROVE SeedInv'
  BY <1>5 DEF InsertRow, Run
<1>6. ASSUME NEW s \in Seed, StoreVector(s) PROVE SeedInv'
  BY <1>6 DEF StoreVector, Run
<1>7. ASSUME NEW s \in Seed, AddFails(s) PROVE SeedInv'
  BY <1>7 DEF AddFails, Run
<1>8. CASE UNCHANGED vars
  BY <1>8 DEF vars
<1> QED
  BY <1>1, <1>2, <1>3, <1>4, <1>5, <1>6, <1>7, <1>8 DEF Next

\* The seeding of any set of runbooks stores each at most once.
THEOREM SeedsOnce == Spec => []SeededOnce
<1>1. SeedInv => SeededOnce
  BY DEF SeedInv
<1> QED
  BY SeedingStarts, SeedingStep, <1>1, PTL DEF Spec

------------------------------------------------------------------------------
\* Startup starts as the seeding does, and each of its steps is one of the
\* seeding's or leaves it alone: what decides on packs, token and servers
\* only restricts it.
THEOREM StartupImplementsSeeding == StartupSpec => Spec
<1>1. StartupInit => Init
  BY DEF StartupInit
<1>2. [StartupNext]_startupVars => [Next]_vars
  BY DEF StartupNext, startupVars, Next, BootProcess, SeedTask, KeepToken, ReadToken,
       GenerateToken, WriteToken, EnsuresToken, GatherServers, ScanFinds, ProcessEnds,
       GatherRaises, ServerStarts
<1> QED
  BY <1>1, <1>2, PTL DEF StartupSpec, Spec

\* The composed process implements the startup: sessions and requests leave
\* it alone.
THEOREM ValetImplementsStartup == ValetSpec => StartupSpec
<1>1. ValetInit => StartupInit
  BY DEF ValetInit
<1>2. [ValetNext]_valetVars => [StartupNext]_startupVars
  BY DEF ValetNext, valetVars, StartupNext, Housekeeping, Arrival, Turns, Crash, ServersEnd
<1> QED
  BY <1>1, <1>2, PTL DEF ValetSpec, StartupSpec

\* Whatever the sessions do, and wherever the process is cut off, no runbook
\* is stored twice.
THEOREM ValetSeedsOnce == ValetSpec => []SeededOnce
BY SeedsOnce, StartupImplementsSeeding, ValetImplementsStartup, PTL

------------------------------------------------------------------------------
\* The token: the file keeps the first token that was whole in it, and once
\* ensure_auth_token has returned the process has that one.
TokenInv ==
  /\ process = "up" => token_step = "done"
  /\ published # Absent => token_file = published
  /\ token_step = "due" => auth_token \in {Blank, FromEnv}
  /\ token_step = "opened" => published = Absent
  /\ token_step = "done" /\ auth_token # FromEnv /\ published # Absent =>
       auth_token = published

LEMMA TokenStep ==
  ASSUME TokenInv, [StartupNext]_startupVars
  PROVE  TokenInv'
<1> USE DEF TokenInv, token
<1>1. CASE BootProcess
  BY <1>1 DEF BootProcess, Boot
<1>2. CASE SeedTask
  BY <1>2 DEF SeedTask, CheckSeed, InsertRow, StoreVector, AddFails
<1>3. CASE KeepToken
  BY <1>3 DEF KeepToken, EnsuresToken, vars, Blank, FromEnv
<1>4. CASE ReadToken
  BY <1>4 DEF ReadToken, EnsuresToken, vars
<1>5. CASE GenerateToken
  BY <1>5 DEF GenerateToken, EnsuresToken, TokenFileExists, vars
<1>6. CASE WriteToken
  BY <1>6 DEF WriteToken, EnsuresToken, vars
<1>7. CASE GatherServers
  BY <1>7 DEF GatherServers, SeedingDone
<1>8. CASE ScanFinds \/ \E t \in Server : ServerStarts(t)
  BY <1>8 DEF ScanFinds, ServerStarts, vars
<1>9. CASE ProcessEnds \/ GatherRaises
  BY <1>9 DEF ProcessEnds, GatherRaises, Stop
<1>10. CASE UNCHANGED startupVars
  BY <1>10 DEF startupVars, vars
<1> QED
  BY <1>1, <1>2, <1>3, <1>4, <1>5, <1>6, <1>7, <1>8, <1>9, <1>10 DEF StartupNext

\* For any number of boots, cut off anywhere: a token that was once whole in
\* auth.token is the token of every later boot that has none of its own.
THEOREM TokenIsKept == ValetSpec => []TokenOutlivesRestarts
<1>1. StartupInit => TokenInv
  BY DEF StartupInit, TokenInv, Init, Absent, Blank
<1>2. TokenInv => TokenOutlivesRestarts
  BY DEF TokenInv, TokenOutlivesRestarts
<1> QED
  BY <1>1, <1>2, TokenStep, ValetImplementsStartup, PTL DEF StartupSpec

------------------------------------------------------------------------------
\* What a boot looks at, has under way or finds in the library was matched by
\* the store as it was at this boot, the store only grows, and it was no
\* larger then than now.
Matched(s) == SignsOf[PackOf[s]] = {} \/ SignsOf[PackOf[s]] \cap stored_at_boot # {}

PacksInv ==
  /\ task \in [Seed -> TaskState]
  /\ row_count \in [Seed -> Nat]
  /\ stored_at_boot \subseteq stored
  /\ \A s \in Seed :
       s \in to_check \/ task[s] # "none" \/ row_count[s] > 0 => Matched(s)

LEMMA PacksStep ==
  ASSUME PacksInv, SeedInv, [StartupNext]_startupVars
  PROVE  PacksInv'
<1> USE DEF PacksInv, Matched, store, TaskState
<1>1. CASE BootProcess
  BY <1>1 DEF BootProcess, Boot, Detects, SeedInv
<1>2. CASE SeedTask
  BY <1>2 DEF SeedTask, CheckSeed, InsertRow, StoreVector, AddFails, Run
<1>3. CASE KeepToken \/ ReadToken \/ GenerateToken \/ WriteToken
  BY <1>3 DEF KeepToken, ReadToken, GenerateToken, WriteToken, EnsuresToken, vars
<1>4. CASE GatherServers
  BY <1>4 DEF GatherServers, SeedingDone
<1>5. CASE ScanFinds
  BY <1>5 DEF ScanFinds, vars
<1>6. CASE \E t \in Server : ServerStarts(t)
  BY <1>6 DEF ServerStarts, vars
<1>7. CASE ProcessEnds \/ GatherRaises
  BY <1>7 DEF ProcessEnds, GatherRaises, Stop
<1>8. CASE UNCHANGED startupVars
  BY <1>8 DEF startupVars, vars
<1> QED
  BY <1>1, <1>2, <1>3, <1>4, <1>5, <1>6, <1>7, <1>8 DEF StartupNext

\* For any packs and signs: a runbook is there only if its pack was matched by
\* what earlier boots had found.
THEOREM PacksLag == ValetSpec => []PacksLagTheScan
<1>1. StartupInit => PacksInv
  BY DEF StartupInit, PacksInv, Init, TaskState
<1>2. PacksInv => PacksLagTheScan
  BY DEF PacksInv, PacksLagTheScan, Matched
<1>3. StartupSpec => []SeedInv
  BY SeedingStarts, SeedingStep, StartupImplementsSeeding, PTL DEF Spec
<1> QED
  BY <1>1, <1>2, <1>3, PacksStep, ValetImplementsStartup, PTL DEF StartupSpec

------------------------------------------------------------------------------
\* The history and the briefs of a session hold between them all that was
\* said, each message once; while a turn waits for its context its message is
\* in the history; and a session that has ended without an episode had a
\* short one.
HistoryInv ==
  /\ at \in [Actor -> Place]
  /\ said \in [Session -> 0 .. MaxSaid]
  /\ history \in [Session -> Seq(1 .. MaxSaid)]
  /\ briefed \in [Session -> SUBSET (1 .. MaxSaid)]
  /\ episode \in [Session -> {"none", "stored", "failed"}]
  /\ \A s \in Session :
       /\ ToSet(history[s]) \cap briefed[s] = {}
       /\ ToSet(history[s]) \cup briefed[s] = 1 .. said[s]
       /\ at[s] = "context" => said[s] \in ToSet(history[s])
       /\ at[s] = "ended" /\ episode[s] = "none" => Len(history[s]) <= 2

\* A step that leaves the histories alone, starts no turn of a session and
\* ends none.
LEMMA HistoriesStay ==
  ASSUME HistoryInv, UNCHANGED perSession, at' \in [Actor -> Place],
         \A s \in Session : at'[s] \in {"context", "ended"} => at[s] = at'[s]
  PROVE  HistoryInv'
BY DEF HistoryInv, perSession

LEMMA TurnEndsKeeps ==
  ASSUME HistoryInv, NEW a \in Actor, NEW from, NEW to \in Place \ {"context", "ended"}, TurnEnds(a, from, to)
  PROVE  HistoryInv'
BY HistoriesStay DEF TurnEnds, Moves, HistoryInv, Actor

LEMMA AppendedSet ==
  ASSUME NEW S, NEW h \in Seq(S), NEW m \in S
  PROVE  Append(h, m) \in Seq(S) /\ ToSet(Append(h, m)) = ToSet(h) \cup {m}
<1> DEFINE g == Append(h, m)
<1>1. /\ g \in Seq(S)
      /\ DOMAIN g = DOMAIN h \cup {Len(h) + 1}
      /\ g[Len(h) + 1] = m
      /\ \A i \in DOMAIN h : g[i] = h[i] /\ i # Len(h) + 1
  OBVIOUS
<1> HIDE DEF g
<1>2. ToSet(g) = ToSet(h) \cup {m}
  <2>1. ASSUME NEW e \in ToSet(g) PROVE e \in ToSet(h) \cup {m}
    BY <1>1, <2>1 DEF ToSet
  <2>2. ASSUME NEW e \in ToSet(h) \cup {m} PROVE e \in ToSet(g)
    BY <1>1, <2>2 DEF ToSet
  <2> QED
    BY <2>1, <2>2
<1> QED
  BY <1>1, <1>2 DEF g

LEMMA SayKeeps ==
  ASSUME HistoryInv, NEW s \in Session, Say(s)
  PROVE  HistoryInv'
<1>1. at' \in [Actor -> Place] /\ at'[s] # "ended"
  BY DEF Say, AskCoder, Moves, HistoryInv, Place, Actor
<1>2. \A r \in Session \ {s} : at'[r] = at[r]
  BY DEF Say, AskCoder, Moves, HistoryInv, Actor
<1>3. said[s] \in 0 .. MaxSaid /\ said[s] < MaxSaid /\ said[s] + 1 \in 1 .. MaxSaid
  BY ActorsAssumption DEF Say, AskCoder, HistoryInv
<1>4. said' = [said EXCEPT ![s] = said[s] + 1]
  BY DEF Say, AskCoder
<1>5. history' = [history EXCEPT ![s] = Append(history[s], said[s] + 1)]
  BY DEF Say, AskCoder
<1>6. /\ Append(history[s], said[s] + 1) \in Seq(1 .. MaxSaid)
      /\ ToSet(Append(history[s], said[s] + 1)) = ToSet(history[s]) \cup {said[s] + 1}
  <2>1. history[s] \in Seq(1 .. MaxSaid)
    BY DEF HistoryInv
  <2>2. said[s] + 1 \in 1 .. MaxSaid
    BY <1>3
  <2> DEFINE S == 1 .. MaxSaid
             m == said[s] + 1
  <2>3. history[s] \in Seq(S) /\ m \in S
    BY <2>1, <2>2
  <2> HIDE DEF S, m
  <2>4. Append(history[s], m) \in Seq(S) /\ ToSet(Append(history[s], m)) = ToSet(history[s]) \cup {m}
    BY <2>3, AppendedSet
  <2> QED
    BY <2>4 DEF S, m
<1>7. 1 .. (said[s] + 1) = (1 .. said[s]) \cup {said[s] + 1} /\ said[s] + 1 \notin 1 .. said[s]
  BY <1>3
<1>8. briefed[s] \subseteq 1 .. said[s]
  BY DEF HistoryInv
<1>9. UNCHANGED <<briefed, episode>>
  BY DEF Say, AskCoder
<1> QED
  BY <1>1, <1>2, <1>3, <1>4, <1>5, <1>6, <1>7, <1>8, <1>9 DEF HistoryInv

LEMMA BriefKeeps ==
  ASSUME HistoryInv, NEW s \in Session, Brief(s)
  PROVE  HistoryInv'
<1>1. at[s] = "idle" /\ UNCHANGED <<at, said, episode>>
  BY DEF Brief, WriteBrief
<1>2. PICK written \in BOOLEAN :
        /\ briefed' = [briefed EXCEPT ![s] = IF written THEN @ \cup ToSet(history[s]) ELSE @]
        /\ history' = [history EXCEPT ![s] = BriefLeaves(s, written)]
  BY DEF Brief, WriteBrief
<1>3. CASE written
  <2>1. <<>> \in Seq(1 .. MaxSaid) /\ ToSet(<<>>) = {}
    BY DEF ToSet
  <2>2. history' = [history EXCEPT ![s] = <<>>]
    BY <1>2, <1>3 DEF BriefLeaves
  <2>3. briefed' = [briefed EXCEPT ![s] = briefed[s] \cup ToSet(history[s])]
    BY <1>2, <1>3
  <2>4. briefed[s] \cup ToSet(history[s]) = 1 .. said[s]
    BY DEF HistoryInv
  <2>5. 1 .. said[s] \subseteq 1 .. MaxSaid
    BY ActorsAssumption DEF HistoryInv
  <2> QED
    BY <1>1, <2>1, <2>2, <2>3, <2>4, <2>5 DEF HistoryInv
<1>4. CASE ~written
  BY <1>1, <1>2, <1>4 DEF BriefLeaves, HistoryInv
<1> QED
  BY <1>3, <1>4

LEMMA EndKeeps ==
  ASSUME HistoryInv, NEW s \in Session, EndSession(s)
  PROVE  HistoryInv'
<1>1. PICK outcome \in IF Len(history[s]) > 2 THEN {"stored", "failed"} ELSE {"none"} :
        episode' = [episode EXCEPT ![s] = outcome]
  BY DEF EndSession, StoreOutcome
<1>2. Len(history[s]) \in Nat
  BY DEF HistoryInv
<1>3. outcome = "none" => Len(history[s]) <= 2
  BY <1>1, <1>2
<1> QED
  BY <1>1, <1>2, <1>3 DEF EndSession, StoreOutcome, Moves, HistoryInv, Place, Actor

LEMMA HistoryStep ==
  ASSUME HistoryInv, [ValetNext]_valetVars
  PROVE  HistoryInv'
<1>1. CASE Housekeeping \/ UNCHANGED valetVars
  BY <1>1, HistoriesStay DEF Housekeeping, valetVars, conversationVars, HistoryInv
<1>2. ASSUME NEW s \in Session, Connect(s) PROVE HistoryInv'
  BY <1>2, HistoriesStay DEF Connect, Moves, HistoryInv, Place, Actor
<1>3. ASSUME NEW r \in Request, Ask(r) PROVE HistoryInv'
  BY <1>3, HistoriesStay, ActorsAssumption DEF Ask, Moves, HistoryInv, Place, Actor
<1>4. ASSUME NEW a \in Actor, RunModel(a) PROVE HistoryInv'
  BY <1>4, HistoriesStay DEF RunModel, Moves, HistoryInv, Place, Actor
<1>5. ASSUME NEW a \in Actor, AgentRaises(a) \/ Answered(a) PROVE HistoryInv'
  BY <1>5, TurnEndsKeeps DEF AgentRaises, Answered, Waiting, Place
<1>6. ASSUME NEW s \in Session, HangUp(s) PROVE HistoryInv'
  BY <1>6, TurnEndsKeeps DEF HangUp, Place, Actor
<1>7. ASSUME Forgotten PROVE HistoryInv'
  <2>1. at' \in [Actor -> Place]
    BY <1>7 DEF Forgotten, HistoryInv, Place
  <2>2. \A s \in Session : at'[s] \in {"context", "ended"} => at[s] = at'[s]
    BY <1>7, ActorsAssumption DEF Forgotten, Actor
  <2> QED
    BY <1>7, <2>1, <2>2, HistoriesStay DEF Forgotten
<1> QED
  BY <1>1, <1>2, <1>3, <1>4, <1>5, <1>6, <1>7, SayKeeps, BriefKeeps, EndKeeps
     DEF ValetNext, Arrival, Turns, ConversationStep, Crash, ServersEnd

LEMMA ShortHistory ==
  ASSUME NEW S, NEW h \in Seq(S), Len(h) <= 2
  PROVE  Cardinality(ToSet(h)) <= 2
<1>1. ToSet(h) \subseteq {h[1], h[2]}
  BY DEF ToSet
<1>2. IsFiniteSet({h[1], h[2]}) /\ Cardinality({h[1], h[2]}) <= 2
  <2>1. IsFiniteSet({h[1]}) /\ Cardinality({h[1]}) = 1
    BY FS_Singleton
  <2>2. IsFiniteSet({h[1]} \cup {h[2]})
        /\ Cardinality({h[1]} \cup {h[2]}) \in {1, 2}
    <3>1. IsFiniteSet({h[1]} \cup {h[2]}) /\
          (Cardinality({h[1]} \cup {h[2]}) = Cardinality({h[1]})
           \/ Cardinality({h[1]} \cup {h[2]}) = Cardinality({h[1]}) + 1)
      BY <2>1, FS_AddElement
    <3> QED
      BY <2>1, <3>1
  <2>3. {h[1], h[2]} = {h[1]} \cup {h[2]}
    OBVIOUS
  <2> QED
    BY <2>2, <2>3
<1>3. IsFiniteSet(ToSet(h)) /\ Cardinality(ToSet(h)) <= Cardinality({h[1], h[2]})
  BY <1>1, <1>2, FS_Subset
<1> QED
  BY <1>2, <1>3, FS_CardinalityType

LEMMA HistoriesAreWhole == ValetSpec => []HistoryInv
<1>1. ValetInit => HistoryInv
  <2> SUFFICES ASSUME ConversationInit PROVE HistoryInv
    BY DEF ValetInit
  <2>1. <<>> \in Seq(1 .. MaxSaid) /\ ToSet(<<>>) = {}
    BY DEF ToSet
  <2> QED
    BY <2>1, ActorsAssumption DEF ConversationInit, HistoryInv, Place, Actor
<1> QED
  BY <1>1, HistoryStep, PTL DEF ValetSpec

\* For any number of sessions of any length, however they are cut off: when a
\* session has ended without an episode, at most two of its messages are in no
\* mission brief.
THEOREM SessionsLeaveATrace == ValetSpec => []EndedSessionLeavesATrace
<1>1. HistoryInv => EndedSessionLeavesATrace
  <2> SUFFICES ASSUME HistoryInv, NEW s \in Session, at[s] = "ended", episode[s] = "none"
               PROVE  Cardinality((1 .. said[s]) \ briefed[s]) <= 2
    BY DEF EndedSessionLeavesATrace
  <2>1. (1 .. said[s]) \ briefed[s] = ToSet(history[s])
    BY DEF HistoryInv
  <2> QED
    BY <2>1, ShortHistory DEF HistoryInv
<1> QED
  BY <1>1, HistoriesAreWhole, PTL

------------------------------------------------------------------------------
\* Types.  A process that is not down has booted, so that the token that it
\* generates has the number of a boot.
StartupTypeInv ==
  /\ StartupTypeOK
  /\ process # "down" => boots > 0
  /\ token_step = "opened" => auth_token \in Generated

LEMMA StartupTypeStep ==
  ASSUME StartupTypeInv, TypeOK', [StartupNext]_startupVars
  PROVE  StartupTypeInv'
<1> USE BootsAssumption DEF StartupTypeInv, StartupTypeOK, token, store, Generated
<1>1. CASE BootProcess
  BY <1>1 DEF BootProcess, Boot
<1>2. CASE SeedTask
  BY <1>2 DEF SeedTask, CheckSeed, InsertRow, StoreVector, AddFails
<1>3. CASE KeepToken
  BY <1>3 DEF KeepToken, EnsuresToken, vars
<1>4. CASE ReadToken
  BY <1>4 DEF ReadToken, EnsuresToken, TokenFileExists, vars
<1>5. CASE GenerateToken
  BY <1>5 DEF GenerateToken, EnsuresToken, vars
<1>6. CASE GatherServers
  BY <1>6 DEF GatherServers, SeedingDone, Server, ServerState
<1>7. CASE ScanFinds
  BY <1>7 DEF ScanFinds, vars
<1>8. ASSUME NEW t \in Server, ServerStarts(t) PROVE StartupTypeInv'
  BY <1>8 DEF ServerStarts, ServerState, vars
<1>9. CASE ProcessEnds \/ GatherRaises
  BY <1>9 DEF ProcessEnds, GatherRaises, Stop, ServerState
<1>10. CASE UNCHANGED startupVars
  BY <1>10 DEF startupVars, vars
<1>11. CASE WriteToken
  <2>1. UNCHANGED <<vars, boots, store, server, auth_token>> /\ token_step' = "done"
    BY <1>11 DEF WriteToken, EnsuresToken
  <2>2. \/ token_file' = auth_token /\ published' \in {auth_token, published}
        \/ UNCHANGED <<token_file, published>>
    BY <1>11 DEF WriteToken
  <2>3. auth_token \in Generated
    BY <1>11 DEF WriteToken
  <2> QED
    BY <2>1, <2>2, <2>3 DEF vars
<1> QED
  BY <1>1, <1>2, <1>3, <1>4, <1>5, <1>6, <1>7, <1>8, <1>9, <1>10, <1>11 DEF StartupNext

ConversationTypeInv ==
  /\ library \in {"works", "missing", "raises"}
  /\ body \in [Request -> Body \cup {<<>>}]

LEMMA ConversationTypeStep ==
  ASSUME ConversationTypeInv, [ValetNext]_valetVars
  PROVE  ConversationTypeInv'
<1> USE DEF ConversationTypeInv, perSession, toModel
<1>1. CASE Housekeeping \/ UNCHANGED valetVars
  BY <1>1 DEF Housekeeping, valetVars, conversationVars
<1>2. CASE Arrival
  BY <1>2 DEF Arrival, Connect, Ask
<1>3. ASSUME NEW a \in Actor, RunModel(a) PROVE ConversationTypeInv'
  BY <1>3 DEF RunModel
<1>4. ASSUME NEW a, NEW from, NEW to, TurnEnds(a, from, to) PROVE ConversationTypeInv'
  BY <1>4 DEF TurnEnds
<1>5. ASSUME NEW s \in Session, Say(s) \/ Brief(s) \/ EndSession(s) PROVE ConversationTypeInv'
  BY <1>5 DEF Say, AskCoder, Brief, WriteBrief, EndSession, StoreOutcome
<1>6. CASE Forgotten
  BY <1>6 DEF Forgotten
<1> QED
  BY <1>1, <1>2, <1>3, <1>4, <1>5, <1>6
     DEF ValetNext, Turns, ConversationStep, AgentRaises, Answered, HangUp, Crash, ServersEnd

\* Type correctness of the whole process, for any constants.
THEOREM ValetTyped == ValetSpec => []ValetTypeOK
<1>1. ValetInit => StartupTypeInv /\ ConversationTypeInv
  BY BootsAssumption DEF ValetInit, StartupInit, ConversationInit, Init, StartupTypeInv,
     StartupTypeOK, TypeOK, TaskState, ConversationTypeInv, Absent, Blank, Server, ServerState
<1>2. StartupTypeInv /\ HistoryInv /\ ConversationTypeInv => ValetTypeOK
  BY DEF ValetTypeOK, StartupTypeInv, ConversationTypeInv, ConversationTypeOK, HistoryInv
<1>3. ValetSpec => []SeedInv
  BY SeedingStarts, SeedingStep, StartupImplementsSeeding, ValetImplementsStartup, PTL DEF Spec
<1>4. SeedInv => TypeOK
  BY DEF SeedInv
<1>5. ValetSpec => []StartupTypeInv
  BY <1>1, <1>3, <1>4, StartupTypeStep, ValetImplementsStartup, PTL DEF StartupSpec, ValetSpec
<1>6. ValetSpec => []ConversationTypeInv
  BY <1>1, ConversationTypeStep, PTL DEF ValetSpec
<1> QED
  BY <1>2, <1>5, <1>6, HistoriesAreWhole, PTL
------------------------------------------------------------------------------
\* Induction over the natural numbers, for sets.
LEMMA LeastNumber ==
  ASSUME NEW T, T \subseteq Nat, T # {}
  PROVE  \E x \in T : \A y \in T : x <= y
<1> DEFINE R == {p \in Nat \X Nat : p[1] < p[2]}
<1>1. IsWellFoundedOn(R, Nat)
  BY NatLessThanWellFounded DEF OpToRel
<1> HIDE DEF R
<1>2. PICK x \in T : \A y \in T : ~ (<<y, x>> \in R)
  BY <1>1, WFMin
<1>3. ASSUME NEW y \in T PROVE x <= y
  <2>1. <<y, x>> \notin R /\ x \in Nat /\ y \in Nat
    BY <1>2
  <2> QED
    BY <2>1 DEF R
<1> QED
  BY <1>3

LEMMA Induction ==
  ASSUME NEW S, 0 \in S, \A n \in Nat : n \in S => n + 1 \in S
  PROVE  Nat \subseteq S
<1> SUFFICES ASSUME Nat \ S # {} PROVE FALSE
  OBVIOUS
<1>1. PICK x \in Nat \ S : \A y \in Nat \ S : x <= y
  BY LeastNumber
<1>2. x # 0 /\ x - 1 \in Nat
  BY <1>1
<1>3. x - 1 \in S
  BY <1>1, <1>2
<1> QED
  BY <1>1, <1>2, <1>3

\* What the loop over a request's messages keeps of the first n.
KeptOfFirst(b, k, n) ==
  /\ k \in [0 .. n -> Seq(Nat)]
  /\ k[0] = <<>>
  /\ \A i \in 1 .. n : k[i] = IF b[i] = "system" THEN k[i - 1] ELSE Append(k[i - 1], i)

LEMMA LoopRuns ==
  ASSUME NEW b
  PROVE  \A n \in Nat : \E k : KeptOfFirst(b, k, n)
<1> DEFINE S == {n \in Nat : \E k : KeptOfFirst(b, k, n)}
<1>1. 0 \in S
  <2>1. KeptOfFirst(b, [i \in 0 .. 0 |-> <<>>], 0)
    BY DEF KeptOfFirst
  <2> QED
    BY <2>1
<1>2. ASSUME NEW n \in Nat, n \in S PROVE n + 1 \in S
  <2>1. PICK k : KeptOfFirst(b, k, n)
    BY <1>2
  <2> DEFINE next == IF b[n + 1] = "system" THEN k[n] ELSE Append(k[n], n + 1)
             l == [i \in 0 .. n + 1 |-> IF i = n + 1 THEN next ELSE k[i]]
  <2>2. k[n] \in Seq(Nat)
    BY <2>1 DEF KeptOfFirst
  <2>3. next \in Seq(Nat)
    BY <2>2
  <2> HIDE DEF next
  <2>4. l \in [0 .. n + 1 -> Seq(Nat)] /\ l[n + 1] = next /\ \A i \in 0 .. n : l[i] = k[i]
    BY <2>1, <2>3 DEF KeptOfFirst
  <2> HIDE DEF l
  <2>5. l[0] = <<>>
    BY <2>1, <2>4 DEF KeptOfFirst
  <2>6. ASSUME NEW i \in 1 .. n + 1
        PROVE  l[i] = IF b[i] = "system" THEN l[i - 1] ELSE Append(l[i - 1], i)
    <3>1. CASE i = n + 1
      <4>1. l[i - 1] = k[n]
        BY <2>4, <3>1
      <4> QED
        BY <2>4, <3>1, <4>1 DEF next
    <3>2. CASE i \in 1 .. n
      <4>1. l[i] = k[i] /\ l[i - 1] = k[i - 1]
        BY <2>4, <3>2
      <4> QED
        BY <2>1, <3>2, <4>1 DEF KeptOfFirst
    <3> QED
      BY <3>1, <3>2
  <2>7. KeptOfFirst(b, l, n + 1)
    BY <2>4, <2>5, <2>6 DEF KeptOfFirst
  <2> QED
    BY <2>7
<1> HIDE DEF S
<1>3. Nat \subseteq S
  BY <1>1, <1>2, Induction
<1> QED
  BY <1>3 DEF S

\* The recursion that defines Kept has a solution, so Kept satisfies it.
LEMMA KeptIsTheLoop ==
  ASSUME NEW b, Len(b) \in Nat
  PROVE  \E k : KeptOfFirst(b, k, Len(b)) /\ Kept(b) = k[Len(b)]
<1> DEFINE Loop(f) == [n \in 0 .. Len(b) |->
                         IF n = 0 THEN <<>>
                         ELSE IF b[n] = "system" THEN f[n - 1]
                         ELSE Append(f[n - 1], n)]
           kept == CHOOSE f : f = Loop(f)
<1>1. Kept(b) = kept[Len(b)]
  BY DEF Kept
<1>2. PICK k : KeptOfFirst(b, k, Len(b))
  BY LoopRuns
<1>3. k = Loop(k)
  <2>1. ASSUME NEW n \in 0 .. Len(b) PROVE k[n] = Loop(k)[n]
    <3>1. CASE n = 0
      BY <1>2, <3>1 DEF KeptOfFirst
    <3>2. CASE n \in 1 .. Len(b)
      BY <1>2, <3>2 DEF KeptOfFirst
    <3> QED
      BY <3>1, <3>2
  <2> QED
    BY <1>2, <2>1 DEF KeptOfFirst
<1> HIDE DEF Loop
<1>4. kept = Loop(kept)
  BY <1>3
<1> HIDE DEF kept
<1>5. /\ kept[0] = <<>>
      /\ \A n \in 1 .. Len(b) :
           kept[n] = IF b[n] = "system" THEN kept[n - 1] ELSE Append(kept[n - 1], n)
  <2>1. \A n \in 0 .. Len(b) : kept[n] = Loop(kept)[n]
    BY <1>4
  <2> QED
    BY <2>1 DEF Loop
<1> DEFINE S == {n \in Nat : n <= Len(b) => kept[n] = k[n]}
<1>6. 0 \in S
  BY <1>2, <1>5 DEF KeptOfFirst
<1>7. ASSUME NEW n \in Nat, n \in S PROVE n + 1 \in S
  <2> SUFFICES ASSUME n + 1 <= Len(b) PROVE kept[n + 1] = k[n + 1]
    OBVIOUS
  <2>1. kept[n] = k[n] /\ n + 1 \in 1 .. Len(b) /\ (n + 1) - 1 = n
    BY <1>7
  <2> QED
    BY <1>2, <1>5, <2>1 DEF KeptOfFirst
<1> HIDE DEF S
<1>8. Nat \subseteq S
  BY <1>6, <1>7, Induction
<1>9. kept[Len(b)] = k[Len(b)]
  BY <1>8 DEF S
<1> QED
  BY <1>1, <1>2, <1>9

\* What a request keeps ends with its last message if that is not a system
\* prompt, and what precedes the current message is a history either way.
LEMMA KeptEndsAsTheBody ==
  ASSUME NEW b \in Seq({"system", "user", "assistant"})
  PROVE  /\ Kept(b) \in Seq(Nat) /\ PriorHistory(b) \in Seq(Nat)
         /\ b # <<>> /\ b[Len(b)] = "user" => Kept(b) = Append(PriorHistory(b), Len(b))
<1>1. PICK k : KeptOfFirst(b, k, Len(b)) /\ Kept(b) = k[Len(b)]
  BY KeptIsTheLoop
<1>2. Kept(b) \in Seq(Nat)
  BY <1>1 DEF KeptOfFirst
<1>3. Kept(b) # <<>> => Front(Kept(b)) \in Seq(Nat)
  BY <1>2 DEF Front
<1>4. PriorHistory(b) \in Seq(Nat)
  BY <1>2, <1>3 DEF PriorHistory
<1>5. ASSUME b # <<>>, b[Len(b)] = "user"
      PROVE  Kept(b) = Append(PriorHistory(b), Len(b))
  <2>1. Len(b) \in 1 .. Len(b)
    BY <1>5
  <2>2. PICK p \in Seq(Nat) : Kept(b) = Append(p, Len(b))
    BY <1>1, <1>5, <2>1 DEF KeptOfFirst
  <2>3. Kept(b) # <<>> /\ Last(Kept(b)) = Len(b) /\ Front(Kept(b)) = p
    BY <2>1, <2>2 DEF Last, Front
  <2> QED
    BY <1>5, <2>2, <2>3 DEF PriorHistory
<1> QED
  BY <1>2, <1>4, <1>5

------------------------------------------------------------------------------
\* A turn that the model has in hand was given its own messages.
RightTurn(a) ==
  at[a] = "running" =>
    /\ Last(heard[a]) = CurrentMessage(a)
    /\ a \in Session /\ prompt[a] # NoContext =>
         ToSet(heard[a]) = (1 .. said[a]) \ briefed[a]
    /\ a \in Request /\ body[a] # <<>> /\ body[a][Len(body[a])] = "user" =>
         heard[a] = Kept(body[a])

TurnInv ==
  /\ DOMAIN prompt = Actor /\ DOMAIN heard = Actor
  /\ \A a \in Actor : RightTurn(a)

\* What the others do leaves a turn alone.
LEMMA TurnStays ==
  ASSUME NEW a \in Actor, RightTurn(a),
         at'[a] = "running" =>
           /\ at[a] = "running" /\ prompt'[a] = prompt[a] /\ heard'[a] = heard[a]
           /\ a \in Session => said'[a] = said[a] /\ briefed'[a] = briefed[a]
           /\ a \in Request => body'[a] = body[a]
  PROVE  RightTurn(a)'
<1> SUFFICES ASSUME at'[a] = "running" PROVE RightTurn(a)'
  BY DEF RightTurn
<1>1. a \in Session \/ a \in Request
  BY DEF Actor
<1>2. CurrentMessage(a)' = CurrentMessage(a)
  <2>1. CASE a \in Session
    BY <2>1 DEF CurrentMessage
  <2>2. CASE a \notin Session
    <3>1. body'[a] = body[a]
      BY <1>1, <2>2
    <3> QED
      BY <2>2, <3>1 DEF CurrentMessage, UserMessages
  <2> QED
    BY <2>1, <2>2
<1> QED
  BY <1>2 DEF RightTurn

\* A step of one actor's, after which its turn is not with the model.
LEMMA OneMoves ==
  ASSUME TurnInv, NEW a \in Actor, at \in [Actor -> Place], NEW to, to # "running",
         at' = [at EXCEPT ![a] = to],
         UNCHANGED <<prompt, heard>>
           \/ (prompt' = [prompt EXCEPT ![a] = NoContext] /\ heard' = [heard EXCEPT ![a] = <<>>]),
         \A s \in Session \ {a} : said'[s] = said[s] /\ briefed'[s] = briefed[s],
         \A r \in Request \ {a} : body'[r] = body[r]
  PROVE  TurnInv'
<1>1. DOMAIN prompt' = Actor /\ DOMAIN heard' = Actor
  BY DEF TurnInv
<1>2. RightTurn(a)'
  BY DEF RightTurn
<1>3. ASSUME NEW b \in Actor \ {a} PROVE RightTurn(b)'
  <2>1. RightTurn(b) /\ at'[b] = at[b] /\ prompt'[b] = prompt[b] /\ heard'[b] = heard[b]
    BY <1>3 DEF TurnInv
  <2> QED
    BY <1>3, <2>1, TurnStays
<1> QED
  BY <1>1, <1>2, <1>3 DEF TurnInv

LEMMA BodiesAreMessages ==
  ASSUME ConversationTypeInv, NEW r \in Request
  PROVE  body[r] \in Seq({"system", "user", "assistant"})
<1>1. body[r] \in Body \/ body[r] = <<>>
  BY DEF ConversationTypeInv
<1>2. <<>> \in Seq({"system", "user", "assistant"})
  OBVIOUS
<1> QED
  BY <1>1, <1>2, BodiesAssumption

LEMMA RunModelIsRight ==
  ASSUME TurnInv, HistoryInv, ConversationTypeInv, NEW a \in Actor, RunModel(a)
  PROVE  TurnInv'
<1>1. /\ at[a] = "context" /\ at' = [at EXCEPT ![a] = "running"]
      /\ UNCHANGED <<said, briefed, body>>
      /\ prompt' = [prompt EXCEPT ![a] = PromptOf(a)]
      /\ heard' = [heard EXCEPT ![a] = MessagesFor(a)]
  BY DEF RunModel, Moves, GivesModel, perSession
<1>2. DOMAIN prompt' = Actor /\ DOMAIN heard' = Actor
  BY <1>1 DEF TurnInv
<1>3. ASSUME NEW b \in Actor \ {a} PROVE RightTurn(b)'
  <2>1. RightTurn(b) /\ at'[b] = at[b] /\ prompt'[b] = prompt[b] /\ heard'[b] = heard[b]
    BY <1>1, <1>3 DEF TurnInv, HistoryInv
  <2> QED
    BY <1>1, <1>3, <2>1, TurnStays
<1>4. heard'[a] = MessagesFor(a) /\ CurrentMessage(a)' = CurrentMessage(a)
  BY <1>1 DEF TurnInv, CurrentMessage, UserMessages
<1>5. CASE a \in Session
  <2>1. a \notin Request
    BY <1>5, ActorsAssumption
  <2>2. history[a] \in Seq(1 .. MaxSaid) /\ MessagesFor(a) = Append(history[a], CurrentMessage(a))
    BY <1>5 DEF MessagesFor, HistoryInv
  <2>3. Last(MessagesFor(a)) = CurrentMessage(a)
    BY <2>2 DEF Last
  <2>4. CurrentMessage(a) \in ToSet(history[a]) /\ CurrentMessage(a) \in 1 .. MaxSaid
    BY <1>1, <1>5, <2>2 DEF CurrentMessage, HistoryInv, ToSet
  <2>5. ToSet(MessagesFor(a)) = ToSet(history[a])
    <3> DEFINE S == 1 .. MaxSaid
    <3>1. history[a] \in Seq(S) /\ CurrentMessage(a) \in S
      BY <2>2, <2>4
    <3> HIDE DEF S
    <3>2. ToSet(Append(history[a], CurrentMessage(a))) = ToSet(history[a]) \cup {CurrentMessage(a)}
      BY <3>1, AppendedSet
    <3> QED
      BY <2>2, <2>4, <3>2
  <2>6. ToSet(history[a]) = (1 .. said[a]) \ briefed[a]
    BY <1>5 DEF HistoryInv
  <2>7. ToSet(heard'[a]) = (1 .. said'[a]) \ briefed'[a]
    BY <1>1, <1>4, <2>5, <2>6
  <2>8. RightTurn(a)'
    BY <1>4, <2>1, <2>3, <2>7 DEF RightTurn
  <2> QED
    BY <1>2, <1>3, <2>8 DEF TurnInv
<1>6. CASE a \notin Session
  <2>1. PICK b : b = body[a]
    OBVIOUS
  <2>2. a \in Request /\ b \in Seq({"system", "user", "assistant"})
    BY <1>6, <2>1, BodiesAreMessages DEF Actor
  <2>3. MessagesFor(a) = Append(PriorHistory(b), CurrentMessage(a))
    BY <1>6, <2>1 DEF MessagesFor
  <2>4. PriorHistory(b) \in Seq(Nat)
    BY <2>2, KeptEndsAsTheBody
  <2>5. Last(MessagesFor(a)) = CurrentMessage(a)
    BY <2>3, <2>4 DEF Last
  <2>6. ASSUME b # <<>>, b[Len(b)] = "user"
        PROVE  MessagesFor(a) = Kept(b)
    <3>1. Kept(b) = Append(PriorHistory(b), Len(b))
      BY <2>2, <2>6, KeptEndsAsTheBody
    <3>2. Len(b) \in UserMessages(b) /\ \A i \in UserMessages(b) : i \in Nat /\ i <= Len(b)
      BY <2>2, <2>6 DEF UserMessages
    <3>3. CurrentMessage(a) = CHOOSE i \in UserMessages(b) : \A j \in UserMessages(b) : j <= i
      BY <1>6, <2>1, <3>2 DEF CurrentMessage
    <3>4. CurrentMessage(a) = Len(b)
      BY <3>2, <3>3
    <3> QED
      BY <2>3, <3>1, <3>4
  <2>7. body'[a] = b
    BY <1>1, <2>1
  <2>8. RightTurn(a)'
    BY <1>4, <1>6, <2>5, <2>6, <2>7 DEF RightTurn
  <2> QED
    BY <1>2, <1>3, <2>8 DEF TurnInv
<1> QED
  BY <1>5, <1>6

LEMMA SayIsRight ==
  ASSUME TurnInv, HistoryInv, NEW s \in Session, Say(s)
  PROVE  TurnInv'
<1>1. /\ s \in Actor /\ s \notin Request
      /\ UNCHANGED <<briefed, body>> /\ said' = [said EXCEPT ![s] = said[s] + 1]
  BY ActorsAssumption DEF Say, Actor
<1>2. said'[s] = said[s] + 1 /\ \A r \in Session \ {s} : said'[r] = said[r]
  BY <1>1 DEF HistoryInv
<1>3. CASE at' = [at EXCEPT ![s] = "context"] /\ UNCHANGED toModel
  BY <1>1, <1>2, <1>3, OneMoves DEF HistoryInv, toModel
<1>4. CASE AskCoder(s)
  <2>1. /\ at' = [at EXCEPT ![s] = "running"]
        /\ prompt' = [prompt EXCEPT ![s] = NoContext]
        /\ heard' = [heard EXCEPT ![s] = <<said[s] + 1>>]
    BY <1>4 DEF AskCoder, Moves, GivesModel
  <2>2. DOMAIN prompt' = Actor /\ DOMAIN heard' = Actor
    BY <2>1 DEF TurnInv
  <2>3. prompt'[s] = NoContext /\ heard'[s] = <<said[s] + 1>>
    BY <1>1, <2>1 DEF TurnInv
  <2>4. Last(<<said[s] + 1>>) = said[s] + 1
    BY DEF Last
  <2>5. CurrentMessage(s)' = said[s] + 1
    BY <1>2 DEF CurrentMessage
  <2>6. RightTurn(s)'
    BY <1>1, <2>3, <2>4, <2>5 DEF RightTurn
  <2>7. ASSUME NEW b \in Actor \ {s} PROVE RightTurn(b)'
    <3>1. RightTurn(b) /\ at'[b] = at[b] /\ prompt'[b] = prompt[b] /\ heard'[b] = heard[b]
      BY <2>1, <2>7 DEF TurnInv, HistoryInv
    <3> QED
      BY <1>1, <1>2, <2>7, <3>1, TurnStays
  <2> QED
    BY <2>2, <2>6, <2>7 DEF TurnInv
<1> QED
  BY <1>3, <1>4 DEF Say, Moves

LEMMA TurnStep ==
  ASSUME TurnInv, HistoryInv, ConversationTypeInv, [ValetNext]_valetVars
  PROVE  TurnInv'
<1>t. /\ at \in [Actor -> Place]
      /\ Session \subseteq Actor /\ Request \subseteq Actor /\ Session \cap Request = {}
  BY ActorsAssumption DEF HistoryInv, Actor
<1>0. ASSUME UNCHANGED <<at, prompt, heard, said, briefed, body>> PROVE TurnInv'
  <2>1. ASSUME NEW a \in Actor PROVE RightTurn(a)'
    BY <1>0, TurnStays DEF TurnInv
  <2> QED
    BY <1>0, <2>1 DEF TurnInv
<1>1. CASE Housekeeping \/ UNCHANGED valetVars
  BY <1>0, <1>1 DEF Housekeeping, valetVars, conversationVars, perSession, toModel
<1>2. ASSUME NEW s \in Session, Connect(s) PROVE TurnInv'
  BY <1>t, <1>2, OneMoves DEF Connect, Moves, perSession, toModel
<1>3. ASSUME NEW r \in Request, Ask(r) PROVE TurnInv'
  <2>1. \A q \in Request \ {r} : body'[q] = body[q]
    BY <1>3 DEF Ask, ConversationTypeInv
  <2> QED
    BY <1>t, <1>3, <2>1, OneMoves DEF Ask, Moves, perSession, toModel
<1>4. ASSUME NEW a \in Actor, RunModel(a) PROVE TurnInv'
  BY <1>4, RunModelIsRight
<1>5. ASSUME NEW a \in Actor, NEW from, NEW to, to # "running", TurnEnds(a, from, to)
      PROVE  TurnInv'
  <2>1. /\ at' = [at EXCEPT ![a] = to] /\ UNCHANGED <<said, briefed>>
        /\ prompt' = [prompt EXCEPT ![a] = NoContext] /\ heard' = [heard EXCEPT ![a] = <<>>]
        /\ \A r \in Request \ {a} : body'[r] = body[r]
    BY <1>5 DEF TurnEnds, Moves, GivesModel, perSession
  <2> QED
    BY <1>t, <1>5, <2>1, OneMoves
<1>6. ASSUME NEW s \in Session, Say(s) PROVE TurnInv'
  BY <1>6, SayIsRight
<1>7. ASSUME NEW s \in Session, Brief(s) PROVE TurnInv'
  <2>1. at[s] = "idle" /\ UNCHANGED <<at, prompt, heard, said, body>>
    BY <1>7 DEF Brief, toModel
  <2>2. \A r \in Session \ {s} : briefed'[r] = briefed[r]
    BY <1>7 DEF Brief, WriteBrief, HistoryInv
  <2>3. ASSUME NEW a \in Actor PROVE RightTurn(a)'
    BY <2>1, <2>2, TurnStays DEF TurnInv
  <2> QED
    BY <2>1, <2>3 DEF TurnInv
<1>8. ASSUME NEW s \in Session, EndSession(s) PROVE TurnInv'
  BY <1>t, <1>8, OneMoves DEF EndSession, Moves, toModel
<1>9. CASE Forgotten
  <2>1. DOMAIN prompt' = Actor /\ DOMAIN heard' = Actor
    BY <1>9 DEF Forgotten
  <2>2. \A a \in Actor : at'[a] # "running"
    BY <1>t, <1>9 DEF Forgotten, Actor
  <2> QED
    BY <2>1, <2>2 DEF TurnInv, RightTurn
<1>10. CASE Turns
  BY <1>t, <1>4, <1>5, <1>6, <1>7, <1>8, <1>10
     DEF Turns, ConversationStep, AgentRaises, Answered, HangUp, Waiting
<1> QED
  BY <1>1, <1>2, <1>3, <1>9, <1>10 DEF ValetNext, Arrival, Crash, ServersEnd

\* For any number of sessions and requests, of any messages, in one planner:
\* the model of a turn hears that turn's messages and no others, whatever
\* briefs, crashes and lost connections came before.
THEOREM ModelAlwaysHearsOwnTurn == ValetSpec => []ModelHearsOwnTurn
<1>1. ValetInit => TurnInv
  BY DEF ValetInit, ConversationInit, TurnInv, RightTurn
<1>2. TurnInv /\ ConversationTypeInv => ModelHearsOwnTurn
  <2> SUFFICES ASSUME TurnInv, ConversationTypeInv, NEW a \in Actor, at[a] = "running"
               PROVE  /\ Last(heard[a]) = CurrentMessage(a)
                      /\ a \in Session /\ prompt[a] # NoContext =>
                           ToSet(heard[a]) = (1 .. said[a]) \ briefed[a]
                      /\ a \in Request /\ Last(<<"none">> \o body[a]) = "user" =>
                           heard[a] = Kept(body[a])
    BY DEF ModelHearsOwnTurn
  <2>1. RightTurn(a)
    BY DEF TurnInv
  <2>2. ASSUME a \in Request, Last(<<"none">> \o body[a]) = "user"
        PROVE  body[a] # <<>> /\ body[a][Len(body[a])] = "user"
    <3>1. body[a] \in Seq({"system", "user", "assistant"})
      BY <2>2, BodiesAreMessages
    <3>2. PICK b : b = body[a]
      OBVIOUS
    <3>3. /\ Len(<<"none">> \o b) = 1 + Len(b)
          /\ Last(<<"none">> \o b) = IF Len(b) = 0 THEN "none" ELSE b[Len(b)]
      BY <3>1, <3>2 DEF Last
    <3> QED
      BY <2>2, <3>1, <3>2, <3>3
  <2> QED
    BY <2>1, <2>2 DEF RightTurn
<1>3. ValetInit => ConversationTypeInv
  BY DEF ValetInit, ConversationInit, ConversationTypeInv
<1>4. ValetSpec => []ConversationTypeInv
  BY <1>3, ConversationTypeStep, PTL DEF ValetSpec
<1> QED
  BY <1>1, <1>2, <1>4, TurnStep, HistoriesAreWhole, PTL DEF ValetSpec
==============================================================================
