------------------------------ MODULE Dependents ------------------------------
(***************************************************************************)
(* DNAStore.get_dependents: the breadth-first search for every service     *)
(* that depends, directly or through others, on a given one.  One step is  *)
(* one turn of its while loop.                                             *)
(***************************************************************************)
EXTENDS Naturals, Sequences, FiniteSets

CONSTANTS
  Service,               \* ids of the services table
  DepType                \* a pair of services may have one row of each type

VARIABLES
  deps,                  \* the dependencies table, constant during the call
  start,                 \* the argument service_id
  visited, queue, result \* the locals

vars == <<deps, start, visited, queue, result>>

Dependency == [source : Service, target : Service, dep_type : DepType]

ASSUME DependentsAssumption == IsFiniteSet(Dependency)

Init ==
  /\ deps \in SUBSET Dependency
  /\ start \in Service
  /\ visited = {}
  /\ queue = <<start>>
  /\ result = << >>

Elements(seq) == {seq[i] : i \in DOMAIN seq}

\* SQL returns the rows of a join in an order of its own.
Orderings(S) ==
  {seq \in [1 .. Cardinality(S) -> S] : \A x \in S : \E i \in DOMAIN seq : seq[i] = x}

\* Mutant of SkipVisited: "continue" before the service leaves the queue.
SkipWithoutPop ==
  /\ queue # << >>
  /\ Head(queue) \in visited
  /\ UNCHANGED vars

SkipVisited ==
  /\ queue # << >>
  /\ Head(queue) \in visited
  /\ queue' = Tail(queue)
  /\ UNCHANGED <<deps, start, visited, result>>

\* Mutant of Unvisited: the check of visited is missing.
AllRows(current) == {d \in deps : d.target = current}

\* Mutant of Unvisited: the join follows the dependency the other way.
OutgoingRows(current) ==
  {d \in deps : d.source = current /\ d.source \notin visited}

\* The direct dependents of the service at the head of the queue that have
\* not been visited go into the result and the queue, once for each row.
Unvisited(current) == {d \in deps : d.target = current /\ d.source \notin visited \cup {current}}

Expand ==
  /\ queue # << >>
  /\ Head(queue) \notin visited
  /\ visited' = visited \cup {Head(queue)}
  /\ \E found \in Orderings(Unvisited(Head(queue))) :
       LET services == [i \in DOMAIN found |-> found[i].source]
       IN  /\ result' = result \o services
           /\ queue' = Tail(queue) \o services
  /\ UNCHANGED <<deps, start>>

Returned == queue = << >> /\ UNCHANGED vars

Next == SkipVisited \/ Expand \/ Returned

Spec == Init /\ [][Next]_vars
FairSpec == Spec /\ WF_vars(SkipVisited \/ Expand)

------------------------------------------------------------------------------
\* Type invariant.
TypeOK ==
  /\ deps \in SUBSET Dependency
  /\ start \in Service
  /\ visited \in SUBSET Service
  /\ queue \in Seq(Service)
  /\ result \in Seq(Service)

\* A set with a service has its dependents.
ClosedUnderDependents(S) == \A d \in deps : d.target \in S => d.source \in S

\* The service itself and everything that depends on it at any remove: what
\* every closed set around it contains.
DependentClosure ==
  {s \in Service : \A S \in SUBSET Service :
                     start \in S /\ ClosedUnderDependents(S) => s \in S}

\* What the loop maintains: nothing foreign is found, nothing found is lost,
\* and what is not yet expanded waits in the queue.
LoopInvariant ==
  /\ start \in visited \cup Elements(queue)
  /\ visited = {} => queue = <<start>>
  /\ visited # {} => start \in visited
  /\ visited \cup Elements(queue) \subseteq DependentClosure
  /\ \A d \in deps : d.target \in visited => d.source \in visited \cup Elements(queue)
  /\ Elements(result) = (visited \cup Elements(queue)) \ {start}

\* get_dependents' docstring, "find all services that transitively depend on
\* this service": when the loop ends the result holds exactly those, through
\* cycles and diamonds, and never the service itself.
FindsAllDependents ==
  queue = << >> => Elements(result) = DependentClosure \ {start}

\* The search ends on every graph, cyclic ones too.
SearchEnds == <>(queue = << >>)
==============================================================================
