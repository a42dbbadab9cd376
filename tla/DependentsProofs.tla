--------------------------- MODULE DependentsProofs ---------------------------
(***************************************************************************)
(* The search of get_dependents finds exactly the transitive dependents,   *)
(* for any set of services and any dependencies table, whatever the order  *)
(* in which SQL returns the rows.                                          *)
(***************************************************************************)
EXTENDS Dependents, SequenceTheorems, FiniteSetTheorems, TLAPS

LEMMA ConcatElements ==
  ASSUME NEW S, NEW s \in Seq(S), NEW t \in Seq(S)
  PROVE  Elements(s \o t) = Elements(s) \cup Elements(t)
<1>1. /\ DOMAIN s = 1 .. Len(s) /\ DOMAIN t = 1 .. Len(t)
      /\ Len(s) \in Nat /\ Len(t) \in Nat
      /\ DOMAIN (s \o t) = 1 .. Len(s) + Len(t)
      /\ \A i \in 1 .. Len(s) + Len(t) :
           (s \o t)[i] = IF i <= Len(s) THEN s[i] ELSE t[i - Len(s)]
  OBVIOUS
<1>2. ASSUME NEW i \in DOMAIN s PROVE s[i] \in Elements(s \o t)
  <2>1. i \in DOMAIN (s \o t) /\ (s \o t)[i] = s[i]
    BY <1>1, <1>2
  <2> QED
    BY <2>1 DEF Elements
<1>3. ASSUME NEW i \in DOMAIN t PROVE t[i] \in Elements(s \o t)
  <2>1. i + Len(s) \in DOMAIN (s \o t) /\ (s \o t)[i + Len(s)] = t[i]
    BY <1>1, <1>3
  <2> QED
    BY <2>1 DEF Elements
<1>4. ASSUME NEW i \in DOMAIN (s \o t) PROVE (s \o t)[i] \in Elements(s) \cup Elements(t)
  <2>1. CASE i <= Len(s)
    BY <1>1, <1>4, <2>1 DEF Elements
  <2>2. CASE ~(i <= Len(s))
    <3>1. i - Len(s) \in DOMAIN t /\ (s \o t)[i] = t[i - Len(s)]
      BY <1>1, <1>4, <2>2
    <3> QED
      BY <3>1 DEF Elements
  <2> QED
    BY <2>1, <2>2
<1> QED
  BY <1>2, <1>3, <1>4 DEF Elements

LEMMA HeadTailElements ==
  ASSUME NEW S, NEW s \in Seq(S), s # << >>
  PROVE  /\ Head(s) \in S /\ Tail(s) \in Seq(S)
         /\ Elements(s) = {Head(s)} \cup Elements(Tail(s))
<1>1. /\ Head(s) \in S /\ Tail(s) \in Seq(S) /\ Len(Tail(s)) = Len(s) - 1
      /\ \A i \in 1 .. Len(Tail(s)) : Tail(s)[i] = s[i + 1]
  BY HeadTailProperties
<1>2. /\ DOMAIN s = 1 .. Len(s) /\ Len(s) \in Nat \ {0} /\ Head(s) = s[1]
      /\ DOMAIN Tail(s) = 1 .. Len(s) - 1
  BY <1>1
<1>3. ASSUME NEW i \in DOMAIN s PROVE s[i] \in {Head(s)} \cup Elements(Tail(s))
  <2>1. CASE i = 1
    BY <1>2, <2>1
  <2>2. CASE i # 1
    <3>1. i - 1 \in DOMAIN Tail(s) /\ Tail(s)[i - 1] = s[i]
      BY <1>1, <1>2, <1>3, <2>2
    <3> QED
      BY <3>1 DEF Elements
  <2> QED
    BY <2>1, <2>2
<1>4. ASSUME NEW i \in DOMAIN Tail(s) PROVE Tail(s)[i] \in Elements(s)
  <2>1. i + 1 \in DOMAIN s /\ Tail(s)[i] = s[i + 1]
    BY <1>1, <1>2, <1>4
  <2> QED
    BY <2>1 DEF Elements
<1>5. Head(s) \in Elements(s)
  BY <1>2 DEF Elements
<1> QED
  BY <1>1, <1>3, <1>4, <1>5 DEF Elements

\* The closure is closed, and the least set that is.
LEMMA ClosureIsClosed ==
  TypeOK => /\ start \in DependentClosure
            /\ ClosedUnderDependents(DependentClosure)
BY DEF TypeOK, DependentClosure, ClosedUnderDependents, Dependency

LEMMA ClosureIsLeast ==
  ASSUME NEW S \in SUBSET Service, start \in S, ClosedUnderDependents(S)
  PROVE  DependentClosure \subseteq S
BY DEF DependentClosure

\* What one turn of the loop appends: the sources of the unvisited rows.
LEMMA FoundServices ==
  ASSUME TypeOK, NEW current \in Service, NEW found \in Orderings(Unvisited(current))
  PROVE  LET services == [i \in DOMAIN found |-> found[i].source]
         IN  /\ services \in Seq(Service)
             /\ Elements(services) = {d.source : d \in Unvisited(current)}
<1> DEFINE services == [i \in DOMAIN found |-> found[i].source]
<1>1. Unvisited(current) \subseteq Dependency
  BY DEF Unvisited, TypeOK
<1>2. Cardinality(Unvisited(current)) \in Nat
  BY <1>1, DependentsAssumption, FS_Subset, FS_CardinalityType
<1>3. /\ DOMAIN found = 1 .. Cardinality(Unvisited(current))
      /\ \A i \in DOMAIN found : found[i] \in Unvisited(current)
      /\ \A d \in Unvisited(current) : \E i \in DOMAIN found : found[i] = d
  BY DEF Orderings
<1>4. \A i \in DOMAIN found : found[i].source \in Service
  BY <1>1, <1>3 DEF Dependency
<1>5. services \in Seq(Service)
  BY <1>2, <1>3, <1>4
<1>6. Elements(services) = {d.source : d \in Unvisited(current)}
  BY <1>3 DEF Elements
<1> QED
  BY <1>5, <1>6

------------------------------------------------------------------------------
IInv == TypeOK /\ LoopInvariant

LEMMA InitEstablishes == Init => IInv
<1> SUFFICES ASSUME Init PROVE IInv
  OBVIOUS
<1>1. TypeOK
  BY DEF Init, TypeOK
<1>2. Elements(queue) = {start} /\ Elements(result) = {}
  BY DEF Init, Elements
<1>3. start \in DependentClosure
  BY <1>1, ClosureIsClosed
<1> QED
  BY <1>1, <1>2, <1>3 DEF Init, IInv, LoopInvariant

LEMMA SkipPreserves ==
  ASSUME IInv, SkipVisited
  PROVE  IInv'
<1>1. /\ Head(queue) \in Service /\ Tail(queue) \in Seq(Service)
      /\ Elements(queue) = {Head(queue)} \cup Elements(Tail(queue))
  BY HeadTailElements DEF IInv, TypeOK, SkipVisited
<1>2. visited \cup Elements(queue) = visited \cup Elements(queue')
  BY <1>1 DEF SkipVisited
<1>3. UNCHANGED <<deps, start, visited, result, DependentClosure, Elements(result)>>
  BY DEF SkipVisited, DependentClosure, ClosedUnderDependents, Elements
<1>4. TypeOK'
  BY <1>1 DEF IInv, TypeOK, SkipVisited
<1>5. Elements(queue)' = Elements(queue')
  BY DEF Elements
<1> QED
  BY <1>2, <1>3, <1>4, <1>5 DEF IInv, LoopInvariant, SkipVisited

LEMMA ExpandPreserves ==
  ASSUME IInv, Expand
  PROVE  IInv'
<1> DEFINE current == Head(queue)
           New == {d.source : d \in Unvisited(current)}
<1>1. /\ current \in Service /\ Tail(queue) \in Seq(Service)
      /\ Elements(queue) = {current} \cup Elements(Tail(queue))
  BY HeadTailElements DEF IInv, TypeOK, Expand
<1>2. PICK found \in Orderings(Unvisited(current)) :
        LET services == [i \in DOMAIN found |-> found[i].source]
        IN  /\ result' = result \o services
            /\ queue' = Tail(queue) \o services
  BY DEF Expand
<1> DEFINE services == [i \in DOMAIN found |-> found[i].source]
<1>3. services \in Seq(Service) /\ Elements(services) = New
  BY <1>1, FoundServices DEF IInv
<1>4. result' = result \o services /\ queue' = Tail(queue) \o services
  BY <1>2
<1> HIDE DEF services, New
<1>5. /\ Elements(queue)' = Elements(Tail(queue)) \cup New
      /\ Elements(result)' = Elements(result) \cup New
  <2>1. Elements(Tail(queue) \o services) = Elements(Tail(queue)) \cup New
    <3> DEFINE rest == Tail(queue)
    <3>1. rest \in Seq(Service) /\ services \in Seq(Service)
      BY <1>1, <1>3
    <3> HIDE DEF rest
    <3>2. Elements(rest \o services) = Elements(rest) \cup Elements(services)
      BY <3>1, ConcatElements
    <3> QED
      BY <1>3, <3>2 DEF rest
  <2>2. Elements(result \o services) = Elements(result) \cup New
    BY <1>3, ConcatElements DEF IInv, TypeOK
  <2> QED
    BY <1>4, <2>1, <2>2 DEF Elements
<1>6. /\ visited' = visited \cup {current} /\ current \notin visited
      /\ deps' = deps /\ start' = start
      /\ DependentClosure' = DependentClosure
  BY DEF Expand, DependentClosure, ClosedUnderDependents
<1>7. TypeOK'
  <2>1. result' \in Seq(Service) /\ queue' \in Seq(Service)
    BY <1>1, <1>3, <1>4 DEF IInv, TypeOK
  <2> QED
    BY <1>1, <1>6, <2>1 DEF IInv, TypeOK
<1>8. (visited \cup Elements(queue))' = visited \cup Elements(queue) \cup New
  BY <1>1, <1>5, <1>6
<1>9. start \in visited \cup {current}
  <2>1. CASE visited = {}
    <3>1. queue = <<start>>
      BY <2>1 DEF IInv, LoopInvariant
    <3> QED
      BY <3>1
  <2>2. CASE visited # {}
    BY <2>2 DEF IInv, LoopInvariant
  <2> QED
    BY <2>1, <2>2
<1>10. New \subseteq DependentClosure
  <2>1. current \in DependentClosure
    BY <1>1 DEF IInv, LoopInvariant
  <2> QED
    BY <2>1, ClosureIsClosed DEF New, IInv, ClosedUnderDependents, Unvisited
<1>11. start \notin New
  BY <1>9 DEF New, Unvisited
<1>12. ASSUME NEW d \in deps, d.target \in visited \cup {current}
       PROVE  d.source \in visited \cup Elements(queue) \cup New
  <2>1. CASE d.target \in visited
    BY <2>1 DEF IInv, LoopInvariant
  <2>2. CASE d.target = current
    BY <1>1, <2>2 DEF New, Unvisited
  <2> QED
    BY <1>12, <2>1, <2>2
<1>13. Elements(result)' = (visited \cup Elements(queue) \cup New) \ {start}
  BY <1>5, <1>11 DEF IInv, LoopInvariant
<1>14. LoopInvariant'
  <2>1. (visited \cup Elements(queue))' \subseteq DependentClosure'
    BY <1>6, <1>8, <1>10 DEF IInv, LoopInvariant
  <2>2. (\A d \in deps : d.target \in visited => d.source \in visited \cup Elements(queue))'
    BY <1>6, <1>8, <1>12
  <2>3. (Elements(result) = (visited \cup Elements(queue)) \ {start})'
    BY <1>6, <1>8, <1>13
  <2> QED
    BY <1>6, <1>9, <2>1, <2>2, <2>3 DEF LoopInvariant
<1> QED
  BY <1>7, <1>14 DEF IInv

LEMMA StepPreserves == IInv /\ [Next]_vars => IInv'
<1> SUFFICES ASSUME IInv, [Next]_vars PROVE IInv'
  OBVIOUS
<1>1. CASE Returned \/ UNCHANGED vars
  <2>1. UNCHANGED vars
    BY <1>1 DEF Returned
  <2>2. UNCHANGED <<DependentClosure, Elements(queue), Elements(result)>>
    BY <2>1 DEF vars, DependentClosure, ClosedUnderDependents, Elements
  <2> QED
    BY <2>1, <2>2 DEF vars, IInv, TypeOK, LoopInvariant
<1> QED
  BY <1>1, SkipPreserves, ExpandPreserves DEF Next

LEMMA InvariantHolds == Spec => []IInv
BY InitEstablishes, StepPreserves, PTL DEF Spec

\* What the loop of get_dependents maintains, on every dependencies table.
THEOREM LoopInvariantHolds == Spec => []LoopInvariant
BY InvariantHolds, PTL DEF IInv

\* When get_dependents returns it has found the transitive dependents and
\* nothing else (store.py:282-305).
THEOREM SearchIsCorrect == Spec => []FindsAllDependents
<1>1. IInv => FindsAllDependents
  <2> SUFFICES ASSUME IInv, queue = << >> PROVE Elements(result) = DependentClosure \ {start}
    BY DEF FindsAllDependents
  <2>1. Elements(queue) = {}
    BY DEF Elements
  <2>2. visited \in SUBSET Service /\ start \in visited /\ ClosedUnderDependents(visited)
    BY <2>1 DEF IInv, TypeOK, LoopInvariant, ClosedUnderDependents
  <2>3. visited = DependentClosure
    BY <2>1, <2>2, ClosureIsLeast DEF IInv, LoopInvariant
  <2> QED
    BY <2>1, <2>3 DEF IInv, LoopInvariant
<1> QED
  BY <1>1, InvariantHolds, PTL
==============================================================================
