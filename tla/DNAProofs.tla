--------------------------------- MODULE DNAProofs ----------------------------
(***************************************************************************)
(* Store and scanner, for any keys, values, probes and bounds.  The store: *)
(* types, one row for a key and an owner, no reference to a missing row,   *)
(* that None erases nothing but of a port, and that the log tells the      *)
(* history of each logged column.  The scanner: it uses the store as the   *)
(* store is meant to be used, so that what is proved of the store holds of *)
(* what it leaves in it; the store has what a scan that went through has   *)
(* found, but for the ports, and a scan that finds the same again changes  *)
(* nothing.                                                                *)
(***************************************************************************)
EXTENDS DNAScanner, FiniteSetTheorems, TLAPS

\* The tables are a function, which a domain alone does not say.
Tables == rows = [e \in Entity |-> rows[e]]

IInv == TypeOK /\ NoDuplicateRows /\ NoDanglingReferences /\ Tables

\* Nothing that was known of a row is forgotten.
Richer(old, new) ==
  /\ old.value # Null => new.value # Null
  /\ old.aside # Null => new.aside # Null

\* The row with this id is as it was, or is the upserted one.
OldOrNew(e, ownerTable, key, owner, i) ==
  \/ /\ i \in Ids(e)
     /\ rows'[e][i].key = rows[e][i].key
     /\ rows'[e][i].owner = rows[e][i].owner
     /\ e # "port" => Richer(rows[e][i], rows'[e][i])
  \/ /\ i \notin Ids(e)
     /\ Lookup(e, key, owner) = {}
     /\ i = last_id[e] + 1
     /\ rows'[e][i].key = key
     /\ rows'[e][i].owner = owner
     /\ owner \in Ids(ownerTable) \cup {Null}

\* What a row that is put into a table does to the table and the others.
LEMMA PutRow ==
  ASSUME TypeOK, NEW e \in Entity, NEW id \in Id, NEW row \in Row,
         rows' = [rows EXCEPT ![e] = WithRow(e, id, row)]
  PROVE  /\ DOMAIN rows' = Entity
         /\ \A d \in Entity \ {e} : rows'[d] = rows[d]
         /\ DOMAIN rows'[e] = Ids(e) \cup {id}
         /\ rows'[e] \in [Ids(e) \cup {id} -> Row]
         /\ rows'[e][id] = row
         /\ \A i \in Ids(e) \ {id} : rows'[e][i] = rows[e][i]
<1>1. /\ DOMAIN rows' = Entity /\ rows'[e] = WithRow(e, id, row)
      /\ \A d \in Entity \ {e} : rows'[d] = rows[d]
  BY DEF TypeOK
<1>2. rows[e] \in [Ids(e) -> Row]
  BY DEF TypeOK
<1> QED
  BY <1>1, <1>2 DEF WithRow, Ids

LEMMA LoggedIsSeen ==
  ASSUME NEW v \in MaybeValue
  PROVE  Logged(v) \in Observation /\ Logged(v).value = v /\ Logged(v).aside = Null
BY DEF Logged, Observation, MaybeAside

LEMMA AppendIsTyped ==
  ASSUME NEW S, NEW s \in Seq(S), NEW x \in S
  PROVE  Append(s, x) \in Seq(S)
OBVIOUS

LEMMA InsertPuts ==
  ASSUME TypeOK, NEW e \in Entity, NEW key \in Key, NEW owner \in Id \cup {Null},
         NEW seen \in Observation, Insert(e, key, owner, seen)
  PROVE  LET id == last_id[e] + 1
         IN  /\ id \in Id /\ id \notin Ids(e)
             /\ rows' = [rows EXCEPT ![e] =
                          WithRow(e, id, [key |-> key, owner |-> owner,
                                          value |-> seen.value, aside |-> seen.aside])]
             /\ last_id' = [last_id EXCEPT ![e] = id]
             /\ changes_log' \in Seq(ChangeEntry)
<1>1. last_id[e] + 1 \in Id /\ last_id[e] + 1 \notin Ids(e)
  BY DEF TypeOK, Insert
<1>2. Change(e, last_id[e] + 1, "added", Null, Null) \in ChangeEntry
  BY <1>1 DEF Change, ChangeEntry, MaybeValue
<1>3. changes_log' = Append(changes_log, Change(e, last_id[e] + 1, "added", Null, Null))
  BY DEF Insert, Record
<1>4. changes_log \in Seq(ChangeEntry)
  BY DEF TypeOK
<1>5. changes_log' \in Seq(ChangeEntry)
  BY <1>2, <1>3, <1>4, AppendIsTyped
<1> QED
  BY <1>1, <1>5 DEF Insert, UseId

\* The row that an update leaves.
After(e, id, seen) ==
  [key |-> rows[e][id].key, owner |-> rows[e][id].owner,
   value |-> Updated(e, rows[e][id].value, seen.value),
   aside |-> Updated(e, rows[e][id].aside, seen.aside)]

LEMMA AfterIsRow ==
  ASSUME NEW e, NEW id, rows[e][id] \in Row, NEW seen \in Observation
  PROVE  /\ After(e, id, seen) \in Row
         /\ After(e, id, seen).key = rows[e][id].key
         /\ After(e, id, seen).owner = rows[e][id].owner
         /\ After(e, id, seen).value = Updated(e, rows[e][id].value, seen.value)
         /\ After(e, id, seen).aside = Updated(e, rows[e][id].aside, seen.aside)
         /\ e # "port" => Richer(rows[e][id], After(e, id, seen))
<1>1. /\ Updated(e, rows[e][id].value, seen.value) \in MaybeValue
      /\ Updated(e, rows[e][id].aside, seen.aside) \in MaybeAside
  BY DEF Row, Observation, Updated, Coalesce
<1>2. After(e, id, seen) \in Row
  BY <1>1 DEF After, Row
<1> QED
  BY <1>2 DEF After, Richer, Updated, Coalesce

LEMMA UpdatePuts ==
  ASSUME TypeOK, NEW e \in Entity, NEW id \in Ids(e), NEW seen \in Observation,
         Update(e, id, seen)
  PROVE  /\ id \in Id
         /\ rows[e][id] \in Row
         /\ rows' = [rows EXCEPT ![e] = WithRow(e, id, After(e, id, seen))]
         /\ last_id' = last_id
         /\ changes_log' \in Seq(ChangeEntry)
<1>1. rows[e][id] \in Row /\ id \in Id
  <2>1. rows[e] \in [Ids(e) -> Row] /\ last_id[e] \in 0 .. MaxId /\ Ids(e) \subseteq 1 .. last_id[e]
    BY DEF TypeOK
  <2> QED
    BY <2>1, StoreAssumption DEF Id
<1>2. rows[e][id].value \in MaybeValue /\ seen.value \in MaybeValue
  BY <1>1 DEF Row, Observation
<1>3. Change(e, id, "modified", rows[e][id].value, seen.value) \in ChangeEntry
  BY <1>1, <1>2 DEF Change, ChangeEntry
<1>4. \/ changes_log' = changes_log
      \/ changes_log' = Append(changes_log, Change(e, id, "modified", rows[e][id].value, seen.value))
  BY DEF Update, Record
<1>5. changes_log' \in Seq(ChangeEntry)
  <2>1. changes_log \in Seq(ChangeEntry)
    BY DEF TypeOK
  <2> QED
    BY <1>3, <1>4, <2>1, AppendIsTyped
<1> QED
  BY <1>1, <1>5 DEF Update, After

\* An upsert changes one table, by one row, and leaves one with its key.
LEMMA UpsertChanges ==
  ASSUME TypeOK, NEW e \in Entity, NEW t \in Entity, NEW key \in Key,
         NEW owner \in Id \cup {Null}, NEW seen \in Observation, Upsert(e, t, key, owner, seen)
  PROVE  /\ TypeOK'
         /\ \A d \in Entity \ {e} : rows'[d] = rows[d]
         /\ Ids(e) \subseteq Ids(e)'
         /\ \A i \in Ids(e)' : OldOrNew(e, t, key, owner, i)
         /\ \E i \in Ids(e)' : rows'[e][i].key = key /\ rows'[e][i].owner = owner
<1>1. CASE Lookup(e, key, owner) = {} /\ (owner # Null => owner \in Ids(t)) /\ Insert(e, key, owner, seen)
  <2> DEFINE id == last_id[e] + 1
             row == [key |-> key, owner |-> owner, value |-> seen.value, aside |-> seen.aside]
  <2>1. /\ id \in Id /\ id \notin Ids(e) /\ rows' = [rows EXCEPT ![e] = WithRow(e, id, row)]
        /\ last_id' = [last_id EXCEPT ![e] = id] /\ changes_log' \in Seq(ChangeEntry)
    BY <1>1, InsertPuts
  <2>2. row \in Row
    BY DEF Row, Observation
  <2> HIDE DEF row
  <2>3. /\ DOMAIN rows' = Entity
        /\ \A d \in Entity \ {e} : rows'[d] = rows[d]
        /\ Ids(e)' = Ids(e) \cup {id}
        /\ rows'[e] \in [Ids(e) \cup {id} -> Row]
        /\ rows'[e][id] = row
        /\ \A i \in Ids(e) \ {id} : rows'[e][i] = rows[e][i]
    BY <2>1, <2>2, PutRow DEF Ids
  <2>4. /\ last_id' \in [Entity -> 0 .. MaxId] /\ last_id'[e] = id
        /\ \A d \in Entity \ {e} : last_id'[d] = last_id[d]
    BY <2>1, StoreAssumption DEF TypeOK, Id
  <2>5. Ids(e)' \subseteq 1 .. id
    BY <2>1, <2>3 DEF TypeOK, Id
  <2>6. \A d \in Entity : Ids(d)' \subseteq 1 .. last_id'[d] /\ rows'[d] \in [Ids(d)' -> Row]
    BY <2>3, <2>4, <2>5 DEF TypeOK, Ids
  <2>7. TypeOK'
    BY <2>1, <2>3, <2>4, <2>6 DEF TypeOK
  <2>8. rows'[e][id].key = key /\ rows'[e][id].owner = owner
    BY <2>3 DEF row
  <2> QED
    BY <1>1, <2>1, <2>3, <2>7, <2>8 DEF OldOrNew, Richer
<1>2. CASE \E id \in Lookup(e, key, owner) : Update(e, id, seen)
  <2>1. PICK id \in Ids(e) : /\ Update(e, id, seen)
                             /\ rows[e][id].key = key /\ rows[e][id].owner = owner
    BY <1>2 DEF Lookup
  <2> DEFINE row == After(e, id, seen)
  <2>2. /\ id \in Id /\ rows[e][id] \in Row /\ rows' = [rows EXCEPT ![e] = WithRow(e, id, row)]
        /\ last_id' = last_id /\ changes_log' \in Seq(ChangeEntry)
    BY <2>1, UpdatePuts
  <2>3. row \in Row
    BY <2>2, AfterIsRow
  <2>4. /\ row.key = rows[e][id].key /\ row.owner = rows[e][id].owner
        /\ e # "port" => Richer(rows[e][id], row)
    BY <2>2, AfterIsRow
  <2> HIDE DEF row
  <2>5. /\ DOMAIN rows' = Entity
        /\ \A d \in Entity \ {e} : rows'[d] = rows[d]
        /\ Ids(e)' = Ids(e)
        /\ rows'[e] \in [Ids(e) -> Row]
        /\ rows'[e][id] = row
        /\ \A i \in Ids(e) \ {id} : rows'[e][i] = rows[e][i]
    <3>1. Ids(e) \cup {id} = Ids(e)
      OBVIOUS
    <3>2. rows' = [rows EXCEPT ![e] = WithRow(e, id, row)] /\ id \in Id /\ row \in Row
      BY <2>2, <2>3
    <3>3. /\ DOMAIN rows' = Entity
          /\ \A d \in Entity \ {e} : rows'[d] = rows[d]
          /\ DOMAIN rows'[e] = Ids(e) \cup {id}
          /\ rows'[e] \in [Ids(e) \cup {id} -> Row]
          /\ rows'[e][id] = row
          /\ \A i \in Ids(e) \ {id} : rows'[e][i] = rows[e][i]
      BY <3>2, PutRow
    <3> QED
      BY <3>1, <3>3 DEF Ids
  <2>6. \A d \in Entity : Ids(d)' \subseteq 1 .. last_id'[d] /\ rows'[d] \in [Ids(d)' -> Row]
    BY <2>2, <2>5 DEF TypeOK, Ids
  <2>7. TypeOK'
    BY <2>2, <2>5, <2>6 DEF TypeOK
  <2> QED
    BY <2>1, <2>4, <2>5, <2>7 DEF OldOrNew, Richer
<1> QED
  BY <1>1, <1>2 DEF Upsert

------------------------------------------------------------------------------
LEMMA UpsertKeepsUnique ==
  ASSUME TypeOK, NoDuplicateRows, NEW e \in Entity, NEW t \in Entity, NEW key \in Key,
         NEW owner \in Id \cup {Null}, NEW seen \in Observation, Upsert(e, t, key, owner, seen)
  PROVE  NoDuplicateRows'
<1>1. \A d \in Entity \ {e} : rows'[d] = rows[d]
  BY UpsertChanges
<1>2. \A i \in Ids(e)' : OldOrNew(e, t, key, owner, i)
  BY UpsertChanges
<1>3. ASSUME NEW i \in Ids(e)', NEW j \in Ids(e)',
             rows'[e][i].key = rows'[e][j].key, rows'[e][i].owner = rows'[e][j].owner,
             rows'[e][i].owner # Null \/ e \in NullFindsNull
      PROVE  i = j
  <2>1. OldOrNew(e, t, key, owner, i) /\ OldOrNew(e, t, key, owner, j)
    BY <1>2
  <2>2. CASE i \in Ids(e) /\ j \in Ids(e)
    BY <1>3, <2>1, <2>2 DEF OldOrNew, NoDuplicateRows
  <2>3. CASE i \notin Ids(e) /\ j \notin Ids(e)
    BY <2>1, <2>3 DEF OldOrNew
  <2>4. CASE i \in Ids(e) /\ j \notin Ids(e)
    BY <1>3, <2>1, <2>4 DEF OldOrNew, Lookup
  <2>5. CASE i \notin Ids(e) /\ j \in Ids(e)
    BY <1>3, <2>1, <2>5 DEF OldOrNew, Lookup
  <2> QED
    BY <2>2, <2>3, <2>4, <2>5
<1> QED
  BY <1>1, <1>3 DEF NoDuplicateRows, Ids

\* An upsert leaves every id where it was, and the key and owner of its row;
\* what it adds belongs to a row that is there.
LEMMA UpsertKeepsReferences ==
  ASSUME TypeOK, NoDanglingReferences,
         NEW e \in Entity, NEW t \in Entity, NEW key \in Key,
         NEW owner \in Id \cup {Null}, NEW seen \in Observation, Upsert(e, t, key, owner, seen),
         e \in {"service", "network_interface"} => t = "node",
         e \in {"port", "config_file", "dependency"} => t = "service",
         e \in {"network_interface", "dependency"} => owner # Null,
         e = "dependency" => key[1] \in Ids("service")
  PROVE  NoDanglingReferences'
<1>1. /\ \A d \in Entity \ {e} : rows'[d] = rows[d] /\ Ids(d)' = Ids(d)
      /\ Ids(e) \subseteq Ids(e)'
      /\ \A i \in Ids(e)' : OldOrNew(e, t, key, owner, i)
  BY UpsertChanges DEF Ids
<1>2. \A d \in Entity : Ids(d) \subseteq Ids(d)'
  BY <1>1
<1>3. "node" \in Entity /\ "service" \in Entity
  BY DEF Entity
<1>4. \A i \in Ids("service")' : rows'["service"][i].owner \in Ids("node")' \cup {Null}
  BY <1>1, <1>2, <1>3 DEF NoDanglingReferences, OldOrNew
<1>5. \A i \in Ids("network_interface")' : rows'["network_interface"][i].owner \in Ids("node")'
  BY <1>1, <1>2, <1>3 DEF NoDanglingReferences, OldOrNew, Entity
<1>6. \A d \in {"port", "config_file"} :
        \A i \in Ids(d)' : rows'[d][i].owner \in Ids("service")' \cup {Null}
  BY <1>1, <1>2, <1>3 DEF NoDanglingReferences, OldOrNew, Entity
<1>7. \A i \in Ids("dependency")' :
        {rows'["dependency"][i].owner, rows'["dependency"][i].key[1]} \subseteq Ids("service")'
  BY <1>1, <1>2, <1>3 DEF NoDanglingReferences, OldOrNew, Entity
<1> QED
  BY <1>4, <1>5, <1>6, <1>7 DEF NoDanglingReferences

LEMMA UpsertKeepsIInv ==
  ASSUME IInv, NEW e \in Entity, NEW t \in Entity, NEW key \in Key,
         NEW owner \in Id \cup {Null}, NEW seen \in Observation, Upsert(e, t, key, owner, seen),
         e \in {"service", "network_interface"} => t = "node",
         e \in {"port", "config_file", "dependency"} => t = "service",
         e \in {"network_interface", "dependency"} => owner # Null,
         e = "dependency" => key[1] \in Ids("service")
  PROVE  IInv'
<1>1. Tables'
  <2>1. rows' = [rows EXCEPT ![e] = rows'[e]] /\ DOMAIN rows = Entity
    BY DEF Upsert, Insert, Update, IInv, TypeOK
  <2> QED
    BY <2>1 DEF Tables
<1> QED
  BY <1>1, UpsertChanges, UpsertKeepsUnique, UpsertKeepsReferences DEF IInv

LEMMA AddDependencyIsUpsert ==
  ASSUME NEW source, NEW target, NEW dep_type, AddDependency(source, target, dep_type),
         ~UNCHANGED vars
  PROVE  /\ Upsert("dependency", "service", <<target, dep_type>>, source, Logged(Null))
         /\ target \in Ids("service")
BY DEF AddDependency, Upsert

\* Removal takes rows away and leaves the others as they are.
LEMMA RemovalOnlyRemoves ==
  ASSUME TypeOK, MarkServicesRemoved
  PROVE  \A e \in Entity : /\ Ids(e)' \subseteq Ids(e)
                           /\ \A i \in Ids(e)' : rows'[e][i] = rows[e][i]
                           /\ rows'[e] \in [Ids(e)' -> Row]
<1> TAKE e \in Entity
<1>1. PICK orphans : rows'[e] = [i \in Ids(e) \ orphans |-> rows[e][i]]
  BY DEF MarkServicesRemoved, Without
<1>2. rows[e] \in [Ids(e) -> Row]
  BY DEF TypeOK
<1> QED
  BY <1>1, <1>2 DEF Ids

LEMMA RemovalKeepsIInv ==
  ASSUME IInv, MarkServicesRemoved
  PROVE  IInv'
<1>1. PICK gone \in (SUBSET Ids("service")) \ {{}} : \E order \in [1 .. Cardinality(gone) -> gone] :
        /\ \A i, j \in DOMAIN order : order[i] = order[j] => i = j
        /\ Len(changes_log) + Len(order) <= MaxLog
        /\ changes_log' = changes_log \o
             [i \in DOMAIN order |-> Change("service", order[i], "removed", Null, Null)]
        /\ rows' = [e \in Entity |-> Without(e, gone)]
        /\ UNCHANGED last_id
  BY DEF MarkServicesRemoved
<1>2. /\ DOMAIN rows' = Entity
      /\ \A e \in Entity : rows'[e] = Without(e, gone)
      /\ last_id' = last_id
  BY <1>1
<1>3. \A e \in Entity : /\ Ids(e)' \subseteq Ids(e)
                        /\ \A i \in Ids(e)' : rows'[e][i] = rows[e][i]
                        /\ rows'[e] \in [Ids(e)' -> Row]
  BY RemovalOnlyRemoves DEF IInv
<1>4. changes_log' \in Seq(ChangeEntry)
  <2>1. gone \subseteq 1 .. MaxId
    <3>1. Ids("service") \subseteq 1 .. last_id["service"] /\ last_id["service"] \in 0 .. MaxId
      BY DEF IInv, TypeOK, Entity
    <3> QED
      BY <3>1, StoreAssumption
  <2>2. Cardinality(gone) \in Nat
    <3>1. IsFiniteSet(1 .. MaxId)
      BY StoreAssumption, FS_Interval
    <3>2. IsFiniteSet(gone)
      BY <2>1, <3>1, FS_Subset
    <3> QED
      BY <3>2, FS_CardinalityType
  <2>3. PICK order \in [1 .. Cardinality(gone) -> gone] :
          changes_log' = changes_log \o
             [i \in DOMAIN order |-> Change("service", order[i], "removed", Null, Null)]
    BY <1>1
  <2> DEFINE entries == [i \in DOMAIN order |-> Change("service", order[i], "removed", Null, Null)]
  <2>4. \A i \in DOMAIN order : Change("service", order[i], "removed", Null, Null) \in ChangeEntry
    BY <2>1 DEF Change, ChangeEntry, Id, Entity, MaybeValue
  <2>5. entries \in Seq(ChangeEntry)
    BY <2>2, <2>4
  <2> QED
    BY <2>3, <2>5 DEF IInv, TypeOK
<1>5. TypeOK'
  BY <1>2, <1>3, <1>4 DEF IInv, TypeOK
<1>6. NoDuplicateRows'
  BY <1>3 DEF IInv, NoDuplicateRows
<1>7. NoDanglingReferences'
  <2>1. Ids("node")' = Ids("node") /\ Ids("service")' = Ids("service") \ gone
    BY <1>2 DEF Without, Ids, Entity
  <2>2. \A e \in {"port", "config_file"} : \A i \in Ids(e)' : rows[e][i].owner \notin gone
    BY <1>2 DEF Without, Ids, Entity
  <2>3. \A i \in Ids("dependency")' :
          rows["dependency"][i].owner \notin gone /\ rows["dependency"][i].key[1] \notin gone
    BY <1>2 DEF Without, Ids, Entity
  <2> QED
    BY <1>3, <2>1, <2>2, <2>3 DEF IInv, NoDanglingReferences, Entity
<1>8. Tables'
  BY <1>1 DEF Tables
<1> QED
  BY <1>5, <1>6, <1>7, <1>8 DEF IInv

LEMMA InitEstablishes == Init => IInv
BY StoreAssumption
   DEF Init, IInv, TypeOK, NoDuplicateRows, NoDanglingReferences, Tables, Ids, Entity

LEMMA StepPreserves ==
  ASSUME IInv, [Next]_vars
  PROVE  IInv'
<1> USE StoreAssumption, LoggedIsSeen DEF Entity, Key, Id
<1>1. ASSUME NEW hostname \in Hostname, NEW v \in MaybeValue, UpsertNode(hostname, v)
      PROVE  IInv'
  BY <1>1, UpsertKeepsIInv DEF UpsertNode
<1>2. ASSUME NEW key \in ServiceKey, NEW node_id \in Id \cup {Null}, NEW v \in MaybeValue,
             UpsertService(key, node_id, v)
      PROVE  IInv'
  BY <1>2, UpsertKeepsIInv DEF UpsertService
<1>3. ASSUME NEW key \in PortKey, NEW service_id \in Id \cup {Null}, NEW seen \in Observation,
             UpsertPort(key, service_id, seen)
      PROVE  IInv'
  BY <1>3, UpsertKeepsIInv DEF UpsertPort
<1>4. ASSUME NEW path \in Path, NEW service_id \in Id \cup {Null}, NEW seen \in Observation,
             UpsertConfigFile(path, service_id, seen)
      PROVE  IInv'
  BY <1>4, UpsertKeepsIInv DEF UpsertConfigFile
<1>5. ASSUME NEW name \in InterfaceName, NEW node_id \in Id, NEW v \in MaybeValue,
             UpsertNetworkInterface(name, node_id, v)
      PROVE  IInv'
  BY <1>5, UpsertKeepsIInv DEF UpsertNetworkInterface
<1>6. ASSUME NEW source \in Id, NEW target \in Id, NEW dep_type \in DepType,
             AddDependency(source, target, dep_type), ~UNCHANGED vars
      PROVE  IInv'
  <2>1. Null \in MaybeValue /\ <<target, dep_type>> \in Key /\ <<target, dep_type>>[1] = target
    BY DEF MaybeValue
  <2> QED
    BY <1>6, <2>1, AddDependencyIsUpsert, UpsertKeepsIInv
<1>7. CASE MarkServicesRemoved
  BY <1>7, RemovalKeepsIInv
<1>8. CASE UNCHANGED vars
  BY <1>8 DEF vars, IInv, TypeOK, NoDuplicateRows, NoDanglingReferences, Tables, Ids, Lookup
<1> QED
  BY <1>1, <1>2, <1>3, <1>4, <1>5, <1>6, <1>7, <1>8 DEF Next, Read

LEMMA InvariantHolds == Spec => []IInv
BY InitEstablishes, StepPreserves, PTL DEF Spec

\* The types of the store hold for any keys, values and bounds.
THEOREM StoreTypeOK == Spec => []TypeOK
BY InvariantHolds, PTL DEF IInv

\* After any sequence of the store's methods nothing is stored twice, but for
\* the ports and configuration files that no lookup finds because they have no
\* service.
THEOREM NeverDuplicateRows == Spec => []NoDuplicateRows
BY InvariantHolds, PTL DEF IInv

\* And no row refers to one that is gone, whatever was removed between.
THEOREM NeverDanglingReferences == Spec => []NoDanglingReferences
BY InvariantHolds, PTL DEF IInv

\* Of anything but a port, a poorer observation never erases what an earlier
\* one found (COALESCE), in a column whose changes are logged or another.
THEOREM KnownIsNeverForgotten == Spec => KnownStaysKnown
<1>1. ASSUME IInv, [Next]_vars
      PROVE  [\A e \in Entity \ {"port"} : \A i \in Ids(e) \cap DOMAIN rows'[e] :
                /\ rows[e][i].value # Null => rows'[e][i].value # Null
                /\ rows[e][i].aside # Null => rows'[e][i].aside # Null]_vars
  <2> DEFINE Kept == \A e \in Entity \ {"port"} : \A i \in Ids(e) \cap DOMAIN rows'[e] :
                       /\ rows[e][i].value # Null => rows'[e][i].value # Null
                       /\ rows[e][i].aside # Null => rows'[e][i].aside # Null
  <2>1. ASSUME NEW e \in Entity, NEW t \in Entity, NEW key \in Key,
               NEW owner \in Id \cup {Null}, NEW seen \in Observation, Upsert(e, t, key, owner, seen)
        PROVE  Kept
    <3>1. \A d \in Entity \ {e} : rows'[d] = rows[d]
      BY <1>1, <2>1, UpsertChanges DEF IInv
    <3>2. \A i \in Ids(e)' : OldOrNew(e, t, key, owner, i)
      BY <1>1, <2>1, UpsertChanges DEF IInv
    <3> QED
      BY <3>1, <3>2 DEF OldOrNew, Richer, Ids
  <2>2. ASSUME MarkServicesRemoved PROVE Kept
    BY <1>1, <2>2, RemovalOnlyRemoves DEF IInv, Ids
  <2>3. ASSUME UNCHANGED vars PROVE Kept
    BY <2>3 DEF vars
  <2>4. ASSUME NEW source \in Id, NEW target \in Id, NEW dep_type \in DepType,
               AddDependency(source, target, dep_type), ~UNCHANGED vars
        PROVE  Kept
    <3>1. Null \in MaybeValue /\ <<target, dep_type>> \in Key
      BY DEF MaybeValue, Key
    <3> QED
      BY <2>1, <2>4, <3>1, LoggedIsSeen, AddDependencyIsUpsert DEF Entity
  <2>5. Kept
    <3> USE LoggedIsSeen
    <3> HIDE DEF Kept
    <3>1. ASSUME NEW hostname \in Hostname, NEW v \in MaybeValue, UpsertNode(hostname, v)
          PROVE  Kept
      BY <2>1, <3>1 DEF UpsertNode, Entity, Key
    <3>2. ASSUME NEW key \in ServiceKey, NEW node_id \in Id \cup {Null},
                 NEW v \in MaybeValue, UpsertService(key, node_id, v)
          PROVE  Kept
      BY <2>1, <3>2 DEF UpsertService, Entity, Key
    <3>3. ASSUME NEW key \in PortKey, NEW service_id \in Id \cup {Null}, NEW seen \in Observation,
                 UpsertPort(key, service_id, seen)
          PROVE  Kept
      BY <2>1, <3>3 DEF UpsertPort, Entity, Key
    <3>4. ASSUME NEW path \in Path, NEW service_id \in Id \cup {Null}, NEW seen \in Observation,
                 UpsertConfigFile(path, service_id, seen)
          PROVE  Kept
      BY <2>1, <3>4 DEF UpsertConfigFile, Entity, Key
    <3>5. ASSUME NEW name \in InterfaceName, NEW node_id \in Id, NEW v \in MaybeValue,
                 UpsertNetworkInterface(name, node_id, v)
          PROVE  Kept
      BY <2>1, <3>5 DEF UpsertNetworkInterface, Entity, Key
    <3> QED
      BY <1>1, <2>2, <2>3, <2>4, <3>1, <3>2, <3>3, <3>4, <3>5 DEF Next, Read
  <2> QED
    BY <2>5
<1> QED
  BY <1>1, InvariantHolds, PTL DEF Spec, KnownStaysKnown

------------------------------------------------------------------------------
\* The change log.

\* The log tells only of rows that were inserted.
LoggedWereInserted ==
  \A k \in DOMAIN changes_log :
    changes_log[k].entity_id \in 1 .. last_id[changes_log[k].entity_type]

LogInv == IInv /\ LoggedWereInserted /\ LogTellsHistory

\* Every step is one of the store's methods, with arguments of its types.
LEMMA StepIsCall ==
  ASSUME [Next]_vars
  PROVE  \/ UNCHANGED vars
         \/ MarkServicesRemoved
         \/ \E e, t \in Entity, key \in Key, owner \in Id \cup {Null}, seen \in Observation :
              Upsert(e, t, key, owner, seen)
<1> DEFINE Call == \E e, t \in Entity, key \in Key, owner \in Id \cup {Null}, seen \in Observation :
                     Upsert(e, t, key, owner, seen)
<1>0. ASSUME NEW e \in Entity, NEW t \in Entity, NEW key \in Key,
             NEW owner \in Id \cup {Null}, NEW seen \in Observation, Upsert(e, t, key, owner, seen)
      PROVE  Call
  BY <1>0
<1>k. /\ Hostname \cup ServiceKey \cup PortKey \cup Path \cup InterfaceName
           \cup (Id \X DepType) \subseteq Key
      /\ Null \in MaybeValue
      /\ \A v \in MaybeValue : Logged(v) \in Observation
      /\ {"node", "service", "port", "config_file", "dependency", "network_interface"} = Entity
  BY LoggedIsSeen DEF Key, MaybeValue, Entity
<1> HIDE DEF Call
<1>1. ASSUME NEW hostname \in Hostname, NEW v \in MaybeValue, UpsertNode(hostname, v)
      PROVE  Call
  BY <1>0, <1>1, <1>k DEF UpsertNode
<1>2. ASSUME NEW key \in ServiceKey, NEW node_id \in Id \cup {Null}, NEW v \in MaybeValue,
             UpsertService(key, node_id, v)
      PROVE  Call
  BY <1>0, <1>2, <1>k DEF UpsertService
<1>3. ASSUME NEW key \in PortKey, NEW service_id \in Id \cup {Null}, NEW seen \in Observation,
             UpsertPort(key, service_id, seen)
      PROVE  Call
  BY <1>0, <1>3, <1>k DEF UpsertPort
<1>4. ASSUME NEW path \in Path, NEW service_id \in Id \cup {Null}, NEW seen \in Observation,
             UpsertConfigFile(path, service_id, seen)
      PROVE  Call
  BY <1>0, <1>4, <1>k DEF UpsertConfigFile
<1>5. ASSUME NEW name \in InterfaceName, NEW node_id \in Id, NEW v \in MaybeValue,
             UpsertNetworkInterface(name, node_id, v)
      PROVE  Call
  BY <1>0, <1>5, <1>k DEF UpsertNetworkInterface
<1>6. ASSUME NEW source \in Id, NEW target \in Id, NEW dep_type \in DepType,
             AddDependency(source, target, dep_type), ~UNCHANGED vars
      PROVE  Call
  <2>1. <<target, dep_type>> \in Key
    BY <1>k
  <2> QED
    BY <1>0, <1>6, <1>k, <2>1, AddDependencyIsUpsert
<1>7. Next => UNCHANGED vars \/ MarkServicesRemoved \/ Call
  BY <1>1, <1>2, <1>3, <1>4, <1>5, <1>6 DEF Next, Read
<1> QED
  BY <1>7 DEF Call

LEMMA LogAppended ==
  ASSUME TypeOK, NEW c \in ChangeEntry, changes_log' = Append(changes_log, c)
  PROVE  LET n == Len(changes_log) + 1
         IN  /\ n \in Nat /\ DOMAIN changes_log' = DOMAIN changes_log \cup {n}
             /\ \A k \in DOMAIN changes_log :
                  k \in Nat /\ k < n /\ changes_log'[k] = changes_log[k]
             /\ changes_log'[n] = c
<1>1. changes_log \in Seq(ChangeEntry)
  BY DEF TypeOK
<1> QED
  BY <1>1

\* What the log tells of a row is as it was, and so is the row.
LEMMA HistoryStays ==
  ASSUME NEW e \in Entity, NEW i, RowHistory(e, i),
         Entries(e, i)' = Entries(e, i),
         \A k \in Entries(e, i) : changes_log'[k] = changes_log[k],
         i \in Ids(e)' => i \in Ids(e) /\ rows'[e][i].value = rows[e][i].value,
         e = "service" => (i \in Ids(e)' <=> i \in Ids(e))
  PROVE  RowHistory(e, i)'
<1>1. Modified(e, i)' = Modified(e, i)
  BY DEF Modified
<1>2. Modified(e, i) \subseteq Entries(e, i)
  BY DEF Modified
<1> QED
  BY <1>1, <1>2 DEF RowHistory, IsFirst, IsLast

\* One more entry about a row: it is the last, and the first stays the first.
LEMMA HistoryGrows ==
  ASSUME NEW e \in Entity, NEW i, RowHistory(e, i), NEW n \in Nat,
         Entries(e, i)' = Entries(e, i) \cup {n},
         \A k \in Entries(e, i) : k \in Nat /\ k < n /\ changes_log'[k] = changes_log[k],
         \/ /\ changes_log'[n].change_type = "modified"
            /\ i \in Ids(e) /\ i \in Ids(e)'
            /\ changes_log'[n].old_value = rows[e][i].value
            /\ changes_log'[n].new_value = rows'[e][i].value
         \/ changes_log'[n].change_type = "removed" /\ i \notin Ids(e)'
  PROVE  RowHistory(e, i)'
<1> DEFINE told == Entries(e, i)
           changes == Modified(e, i)
<1>1. changes \subseteq told
  BY DEF Modified
<1>2. told # {}
  BY DEF RowHistory
<1>3. \A k \in told' : IsFirst(k, told') <=> k \in told /\ IsFirst(k, told)
  BY <1>2 DEF IsFirst
<1>4. \A k \in told' : IsLast(k, told') <=> k = n
  BY DEF IsLast
<1>5. \A k \in told' : changes_log'[k].change_type = "added" <=> IsFirst(k, told')
  <2>1. ~ IsFirst(n, told')
    BY <1>3
  <2> QED
    BY <1>3, <2>1 DEF RowHistory
<1>6. CASE /\ changes_log'[n].change_type = "modified"
           /\ i \in Ids(e) /\ i \in Ids(e)'
           /\ changes_log'[n].old_value = rows[e][i].value
           /\ changes_log'[n].new_value = rows'[e][i].value
  <2>1. changes' = changes \cup {n}
    BY <1>6 DEF Modified
  <2>2. \A k \in changes' : IsLast(k, changes') <=> k = n
    BY <1>1, <2>1 DEF IsLast
  <2>3. ASSUME NEW j \in changes', NEW k \in changes', j < k,
               \A m \in changes' : m <= j \/ k <= m
        PROVE  changes_log'[k].old_value = changes_log'[j].new_value
    <3>1. j \in changes
      BY <1>1, <2>1, <2>3
    <3>2. CASE k \in changes
      BY <1>1, <2>1, <2>3, <3>1, <3>2 DEF RowHistory
    <3>3. CASE k = n
      <4>1. IsLast(j, changes)
        BY <1>1, <2>1, <2>3, <3>3 DEF IsLast
      <4> QED
        BY <1>1, <1>6, <3>1, <3>3, <4>1 DEF RowHistory
    <3> QED
      BY <2>1, <3>2, <3>3
  <2> QED
    BY <1>2, <1>4, <1>5, <1>6, <2>2, <2>3 DEF RowHistory
<1>7. CASE changes_log'[n].change_type = "removed" /\ i \notin Ids(e)'
  <2>1. changes' = changes
    BY <1>7 DEF Modified
  <2>2. \A k \in changes : changes_log'[k] = changes_log[k]
    BY <1>1
  <2>3. \A j, k \in changes' :
          j < k /\ (\A m \in changes' : m <= j \/ k <= m) =>
            changes_log'[k].old_value = changes_log'[j].new_value
    BY <2>1, <2>2 DEF RowHistory
  <2>4. \A k \in told' :
          IsLast(k, told') => (changes_log'[k].change_type = "removed" <=> i \notin Ids(e)')
    BY <1>4, <1>7
  <2> QED
    BY <1>2, <1>5, <1>7, <2>3, <2>4 DEF RowHistory
<1> QED
  BY <1>6, <1>7

\* An appended entry is about one row.
LEMMA EntryIsAboutOne ==
  ASSUME TypeOK, NEW c \in ChangeEntry, changes_log' = Append(changes_log, c),
         NEW e \in Entity, NEW i
  PROVE  /\ c.entity_type = e /\ c.entity_id = i =>
              Entries(e, i)' = Entries(e, i) \cup {Len(changes_log) + 1}
         /\ ~(c.entity_type = e /\ c.entity_id = i) => Entries(e, i)' = Entries(e, i)
         /\ \A k \in Entries(e, i) : /\ k \in Nat /\ k < Len(changes_log) + 1
                                     /\ changes_log'[k] = changes_log[k]
<1> DEFINE n == Len(changes_log) + 1
<1>1. /\ n \in Nat /\ DOMAIN changes_log' = DOMAIN changes_log \cup {n}
      /\ \A k \in DOMAIN changes_log :
           k \in Nat /\ k < n /\ changes_log'[k] = changes_log[k]
      /\ changes_log'[n] = c
  BY LogAppended
<1> HIDE DEF n
<1>2. n \notin DOMAIN changes_log
  BY <1>1
<1>3. Entries(e, i)' = {k \in DOMAIN changes_log \cup {n} :
                          changes_log'[k].entity_type = e /\ changes_log'[k].entity_id = i}
  BY <1>1 DEF Entries
<1>4. c.entity_type = e /\ c.entity_id = i => Entries(e, i)' = Entries(e, i) \cup {n}
  BY <1>1, <1>3 DEF Entries
<1>5. ~(c.entity_type = e /\ c.entity_id = i) => Entries(e, i)' = Entries(e, i)
  BY <1>1, <1>3 DEF Entries
<1> QED
  BY <1>1, <1>4, <1>5 DEF Entries, n

\* The entries of every other row stay.
LEMMA OtherEntriesStay ==
  ASSUME TypeOK, NEW c \in ChangeEntry, changes_log' = Append(changes_log, c),
         NEW e \in Entity, NEW i, ~(c.entity_type = e /\ c.entity_id = i)
  PROVE  /\ Entries(e, i)' = Entries(e, i)
         /\ \A k \in Entries(e, i) : changes_log'[k] = changes_log[k]
BY EntryIsAboutOne

LEMMA InsertKeepsLog ==
  ASSUME LogInv, NEW e \in Entity, NEW key \in Key, NEW owner \in Id \cup {Null},
         NEW seen \in Observation, Insert(e, key, owner, seen)
  PROVE  LoggedWereInserted' /\ LogTellsHistory'
<1>0. PICK id : id = last_id[e] + 1
  OBVIOUS
<1> DEFINE n == Len(changes_log) + 1
           row == [key |-> key, owner |-> owner, value |-> seen.value, aside |-> seen.aside]
           c == Change(e, id, "added", Null, Null)
<1>t. TypeOK /\ last_id \in [Entity -> 0 .. MaxId] /\ MaxId \in Nat
  BY StoreAssumption DEF LogInv, IInv, TypeOK
<1>1. /\ id \in Id /\ id \notin Ids(e) /\ rows' = [rows EXCEPT ![e] = WithRow(e, id, row)]
      /\ last_id' = [last_id EXCEPT ![e] = id]
  BY <1>0, <1>t, InsertPuts
<1>2. row \in Row
  BY DEF Row, Observation
<1>3. c \in ChangeEntry
  BY <1>1 DEF Change, ChangeEntry, MaybeValue
<1>4. /\ c.entity_type = e /\ c.entity_id = id /\ c.change_type = "added"
  BY DEF Change
<1>5. changes_log' = Append(changes_log, c)
  BY <1>0 DEF Insert, Record
<1> HIDE DEF row, c
<1>6. /\ \A d \in Entity \ {e} : rows'[d] = rows[d]
      /\ Ids(e)' = Ids(e) \cup {id}
      /\ \A i \in Ids(e) \ {id} : rows'[e][i] = rows[e][i]
  BY <1>t, <1>1, <1>2, PutRow DEF Ids
<1>7. /\ last_id'[e] = id
      /\ \A d \in Entity \ {e} : last_id'[d] = last_id[d]
  BY <1>0, <1>t, <1>1
<1>8. /\ n \in Nat /\ DOMAIN changes_log' = DOMAIN changes_log \cup {n}
      /\ \A k \in DOMAIN changes_log :
           k \in Nat /\ k < n /\ changes_log'[k] = changes_log[k]
      /\ changes_log'[n] = c
  BY <1>t, <1>3, <1>5, LogAppended
<1>9. \A d \in Entity : last_id[d] \in Nat /\ 1 .. last_id[d] \subseteq 1 .. last_id'[d]
  BY <1>0, <1>t, <1>7
<1>10. \A k \in DOMAIN changes_log : changes_log[k].entity_type \in Entity
  <2>1. \A k \in DOMAIN changes_log : changes_log[k] \in ChangeEntry
    BY <1>t DEF TypeOK
  <2> QED
    BY <2>1 DEF ChangeEntry
<1>11. LoggedWereInserted'
  <2>1. id \in 1 .. last_id'[e]
    BY <1>0, <1>7, <1>9
  <2>2. \A k \in DOMAIN changes_log :
          changes_log'[k].entity_id \in 1 .. last_id'[changes_log'[k].entity_type]
    BY <1>8, <1>9, <1>10 DEF LogInv, LoggedWereInserted
  <2> QED
    BY <1>4, <1>8, <2>1, <2>2 DEF LoggedWereInserted
<1>12. RowHistory(e, id)'
  <2>1. Entries(e, id) = {}
    <3>1. \A k \in DOMAIN changes_log :
            changes_log[k].entity_type = e => changes_log[k].entity_id \in 1 .. last_id[e]
      BY DEF LogInv, LoggedWereInserted
    <3>2. id \notin 1 .. last_id[e]
      BY <1>0, <1>9
    <3> QED
      BY <3>1, <3>2 DEF Entries
  <2>2. Entries(e, id)' = {n}
    BY <1>t, <1>3, <1>4, <1>5, <2>1, EntryIsAboutOne
  <2>3. Modified(e, id)' = {}
    BY <1>4, <1>8, <2>2 DEF Modified
  <2>4. changes_log'[n].change_type = "added" /\ IsFirst(n, {n}) /\ id \in Ids(e)'
    BY <1>4, <1>6, <1>8 DEF IsFirst
  <2> HIDE DEF n
  <2> QED
    BY <2>2, <2>3, <2>4 DEF RowHistory
<1>13. ASSUME NEW d \in Entity, NEW i \in 1 .. last_id'[d], ~(d = e /\ i = id)
       PROVE  RowHistory(d, i)'
  <2>1. i \in 1 .. last_id[d]
    BY <1>0, <1>7, <1>9, <1>13
  <2>2. RowHistory(d, i)
    BY <2>1 DEF LogInv, LogTellsHistory
  <2>3. Entries(d, i)' = Entries(d, i)
        /\ \A k \in Entries(d, i) : changes_log'[k] = changes_log[k]
    <3>1. ~(c.entity_type = d /\ c.entity_id = i)
      BY <1>4, <1>13
    <3> QED
      BY <1>t, <1>3, <1>5, <3>1, OtherEntriesStay
  <2>4. (i \in Ids(d)' <=> i \in Ids(d)) /\ (i \in Ids(d) => rows'[d][i] = rows[d][i])
    BY <1>6, <1>13 DEF Ids
  <2> QED
    BY <2>2, <2>3, <2>4, HistoryStays
<1> QED
  BY <1>11, <1>12, <1>13 DEF LogTellsHistory

LEMMA UpdateKeepsLog ==
  ASSUME LogInv, NEW e \in Entity, NEW id \in Ids(e), NEW seen \in Observation, Update(e, id, seen)
  PROVE  LoggedWereInserted' /\ LogTellsHistory'
<1> DEFINE row == After(e, id, seen)
           c == Change(e, id, "modified", rows[e][id].value, seen.value)
<1>t. TypeOK
  BY DEF LogInv, IInv
<1>1. /\ id \in Id /\ rows[e][id] \in Row
      /\ rows' = [rows EXCEPT ![e] = WithRow(e, id, row)]
      /\ last_id' = last_id
  BY <1>t, UpdatePuts
<1>2. /\ row \in Row /\ row.value = Updated(e, rows[e][id].value, seen.value)
      /\ rows[e][id].value \in MaybeValue /\ seen.value \in MaybeValue
  BY <1>1, AfterIsRow DEF Row, Observation
<1>3. /\ c \in ChangeEntry
      /\ c.entity_type = e /\ c.entity_id = id /\ c.change_type = "modified"
      /\ c.old_value = rows[e][id].value /\ c.new_value = seen.value
  BY <1>1, <1>2 DEF Change, ChangeEntry
<1> DEFINE differs == Differs(e, rows[e][id].value, seen.value)
<1>4. \/ differs /\ changes_log' = Append(changes_log, c)
      \/ ~differs /\ changes_log' = changes_log
  BY DEF Update, Record
<1> HIDE DEF row, c
<1>5. /\ \A d \in Entity \ {e} : rows'[d] = rows[d]
      /\ Ids(e)' = Ids(e)
      /\ rows'[e][id] = row
      /\ \A i \in Ids(e) \ {id} : rows'[e][i] = rows[e][i]
  <2>1. Ids(e) \cup {id} = Ids(e)
    OBVIOUS
  <2>2. /\ DOMAIN rows' = Entity
        /\ \A d \in Entity \ {e} : rows'[d] = rows[d]
        /\ DOMAIN rows'[e] = Ids(e) \cup {id}
        /\ rows'[e] \in [Ids(e) \cup {id} -> Row]
        /\ rows'[e][id] = row
        /\ \A i \in Ids(e) \ {id} : rows'[e][i] = rows[e][i]
    <3>1. id \in Id /\ rows' = [rows EXCEPT ![e] = WithRow(e, id, row)] /\ row \in Row
      BY <1>1, <1>2
    <3> QED
      BY <1>t, <3>1, PutRow
  <2> QED
    BY <2>1, <2>2 DEF Ids
<1>6. id \in 1 .. last_id[e]
  BY <1>t DEF TypeOK
<1>7. CASE differs /\ changes_log' = Append(changes_log, c)
  <2> DEFINE n == Len(changes_log) + 1
  <2>1. /\ n \in Nat /\ DOMAIN changes_log' = DOMAIN changes_log \cup {n}
        /\ \A k \in DOMAIN changes_log : changes_log'[k] = changes_log[k]
        /\ changes_log'[n] = c
    BY <1>t, <1>3, <1>7, LogAppended
  <2> HIDE DEF n
  <2>2. LoggedWereInserted'
    BY <1>1, <1>3, <1>6, <2>1 DEF LogInv, LoggedWereInserted
  <2>3. row.value = seen.value
    BY <1>2, <1>7 DEF Differs, Updated, Coalesce
  <2>4. RowHistory(e, id)'
    <3>1. RowHistory(e, id)
      BY <1>6 DEF LogInv, LogTellsHistory
    <3>2. Entries(e, id)' = Entries(e, id) \cup {n}
      BY <1>t, <1>3, <1>7, EntryIsAboutOne DEF n
    <3>3. \A k \in Entries(e, id) : k \in Nat /\ k < n /\ changes_log'[k] = changes_log[k]
      BY <1>t, <1>3, <1>7, EntryIsAboutOne DEF n
    <3>4. /\ changes_log'[n].change_type = "modified" /\ id \in Ids(e) /\ id \in Ids(e)'
          /\ changes_log'[n].old_value = rows[e][id].value
          /\ changes_log'[n].new_value = rows'[e][id].value
      BY <1>3, <1>5, <2>1, <2>3
    <3> QED
      BY <2>1, <3>1, <3>2, <3>3, <3>4, HistoryGrows
  <2>5. ASSUME NEW d \in Entity, NEW i \in 1 .. last_id[d], ~(d = e /\ i = id)
        PROVE  RowHistory(d, i)'
    <3>1. RowHistory(d, i)
      BY DEF LogInv, LogTellsHistory
    <3>2. Entries(d, i)' = Entries(d, i)
          /\ \A k \in Entries(d, i) : changes_log'[k] = changes_log[k]
      <4>1. ~(c.entity_type = d /\ c.entity_id = i)
        BY <1>3, <2>5
      <4> QED
        BY <1>t, <1>3, <1>7, <4>1, OtherEntriesStay
    <3>3. (i \in Ids(d)' <=> i \in Ids(d)) /\ (i \in Ids(d) => rows'[d][i] = rows[d][i])
      BY <1>5, <2>5 DEF Ids
    <3> QED
      BY <3>1, <3>2, <3>3, HistoryStays
  <2> QED
    BY <1>1, <2>2, <2>4, <2>5 DEF LogTellsHistory
<1>8. CASE ~differs /\ changes_log' = changes_log
  <2>1. row.value = rows[e][id].value
    BY <1>2, <1>8 DEF Differs, Updated, Coalesce
  <2>2. LoggedWereInserted'
    BY <1>1, <1>8 DEF LogInv, LoggedWereInserted
  <2>3. ASSUME NEW d \in Entity, NEW i \in 1 .. last_id[d]
        PROVE  RowHistory(d, i)'
    <3>1. RowHistory(d, i)
      BY DEF LogInv, LogTellsHistory
    <3>2. Entries(d, i)' = Entries(d, i)
          /\ \A k \in Entries(d, i) : changes_log'[k] = changes_log[k]
      BY <1>8 DEF Entries
    <3>3. /\ i \in Ids(d)' <=> i \in Ids(d)
          /\ i \in Ids(d) => rows'[d][i].value = rows[d][i].value
      BY <1>5, <2>1 DEF Ids
    <3> QED
      BY <3>1, <3>2, <3>3, HistoryStays
  <2> QED
    BY <1>1, <2>2, <2>3 DEF LogTellsHistory
<1> QED
  BY <1>4, <1>7, <1>8

\* A removal logs each of the services that it takes away once: the order of
\* the entries is one to one.
LEMMA RemovalKeepsLog ==
  ASSUME LogInv, MarkServicesRemoved
  PROVE  LoggedWereInserted' /\ LogTellsHistory'
<1>t. IInv /\ TypeOK /\ changes_log \in Seq(ChangeEntry) /\ "service" \in Entity
  BY DEF LogInv, IInv, TypeOK, Entity
<1>0. PICK gone \in (SUBSET Ids("service")) \ {{}} : \E order \in [1 .. Cardinality(gone) -> gone] :
        /\ \A i, j \in DOMAIN order : order[i] = order[j] => i = j
        /\ changes_log' = changes_log \o
             [i \in DOMAIN order |-> Change("service", order[i], "removed", Null, Null)]
        /\ rows' = [e \in Entity |-> Without(e, gone)]
        /\ UNCHANGED last_id
  BY DEF MarkServicesRemoved
<1>1. PICK order \in [1 .. Cardinality(gone) -> gone] :
        /\ \A i, j \in DOMAIN order : order[i] = order[j] => i = j
        /\ changes_log' = changes_log \o
             [i \in DOMAIN order |-> Change("service", order[i], "removed", Null, Null)]
        /\ rows' = [e \in Entity |-> Without(e, gone)]
        /\ UNCHANGED last_id
  BY <1>0
<1>2. gone \subseteq 1 .. last_id["service"] /\ gone \subseteq Id
  <2>1. Ids("service") \subseteq 1 .. last_id["service"] /\ last_id["service"] \in 0 .. MaxId
    BY <1>t DEF TypeOK
  <2> QED
    BY <2>1, StoreAssumption DEF Id
<1>3. IsFiniteSet(gone) /\ Cardinality(gone) \in Nat
  <2>1. IsFiniteSet(Id)
    BY StoreAssumption, FS_Interval DEF Id
  <2>2. IsFiniteSet(gone)
    BY <1>2, <2>1, FS_Subset
  <2> QED
    BY <2>2, FS_CardinalityType
<1> DEFINE size == Cardinality(gone)
           last == Len(changes_log)
           entries == [k \in 1 .. size |-> Change("service", order[k], "removed", Null, Null)]
<1>4. \A i \in gone : \E k \in 1 .. size : order[k] = i
  <2>1. order \in Injection(1 .. size, gone)
    BY <1>1 DEF Injection, IsInjective
  <2>2. Cardinality(1 .. size) = size
    <3>1. size \in Int /\ 1 \in Int
      BY <1>3
    <3>2. Cardinality(1 .. size) = IF 1 > size THEN 0 ELSE size - 1 + 1
      BY <3>1, FS_Interval
    <3> QED
      BY <1>3, <3>2
  <2>3. order \in Surjection(1 .. size, gone)
    BY <1>3, <2>1, <2>2, FS_Injection
  <2> QED
    BY <2>3 DEF Surjection
<1>5. \A k \in 1 .. size : /\ entries[k] \in ChangeEntry
                           /\ entries[k].entity_type = "service"
                           /\ entries[k].entity_id = order[k]
                           /\ entries[k].change_type = "removed"
  BY <1>2 DEF Change, ChangeEntry, Entity, MaybeValue
<1>6. changes_log' = changes_log \o entries
  BY <1>1
<1> HIDE DEF entries
<1>7. entries \in Seq(ChangeEntry) /\ Len(entries) = size /\ size \in Nat /\ last \in Nat
  BY <1>3, <1>5, <1>t DEF entries
<1> HIDE DEF size
<1>8. /\ DOMAIN changes_log' = DOMAIN changes_log \cup {last + k : k \in 1 .. size}
      /\ \A k \in DOMAIN changes_log :
           k \in Nat /\ k <= last /\ changes_log'[k] = changes_log[k]
      /\ \A k \in 1 .. size : changes_log'[last + k] = entries[k]
  <2>1. DOMAIN changes_log = 1 .. last /\ Len(changes_log') = last + size
        /\ DOMAIN changes_log' = 1 .. last + size
    BY <1>6, <1>7, <1>t
  <2>2. \A k \in 1 .. last + size : k \notin 1 .. last => k - last \in 1 .. size /\ last + (k - last) = k
    BY <1>7
  <2>3. \A k \in 1 .. size : last + k \in 1 .. last + size
    BY <1>7
  <2>4. 1 .. last \subseteq 1 .. last + size
    BY <1>7
  <2>5. \A k \in 1 .. size : changes_log'[last + k] = entries[k]
    BY <1>6, <1>7, <1>t
  <2>6. \A k \in 1 .. last : changes_log'[k] = changes_log[k]
    BY <1>6, <1>7, <1>t
  <2>7. DOMAIN changes_log' = DOMAIN changes_log \cup {last + k : k \in 1 .. size}
    BY <2>1, <2>2, <2>3, <2>4
  <2>8. \A k \in 1 .. last : k \in Nat /\ k <= last
    BY <1>7
  <2> QED
    BY <2>1, <2>5, <2>6, <2>7, <2>8
<1>n. \A k \in 1 .. size : /\ last + k \notin DOMAIN changes_log
                           /\ changes_log'[last + k].entity_type = "service"
                           /\ changes_log'[last + k].entity_id = order[k]
                           /\ changes_log'[last + k].change_type = "removed"
  <2>1. \A k \in 1 .. size : last + k > last
    BY <1>7
  <2>2. \A k \in 1 .. size : last + k \notin DOMAIN changes_log
    BY <1>7, <1>8, <2>1
  <2> QED
    BY <1>5, <1>8, <2>2
<1> HIDE DEF last
<1>9. Ids("service")' = Ids("service") \ gone
  BY <1>1, <1>t DEF Ids, Without
<1>10. \A e \in Entity : /\ Ids(e)' \subseteq Ids(e)
                         /\ \A i \in Ids(e)' : rows'[e][i] = rows[e][i]
  BY <1>t, RemovalOnlyRemoves
<1>11. LoggedWereInserted'
  <2>1. \A k \in 1 .. size : order[k] \in 1 .. last_id["service"]
    BY <1>2 DEF size
  <2>2. \A k \in DOMAIN changes_log :
          changes_log'[k].entity_id \in 1 .. last_id'[changes_log'[k].entity_type]
    BY <1>1, <1>8 DEF LogInv, LoggedWereInserted
  <2>3. \A k \in 1 .. size :
          changes_log'[last + k].entity_id \in 1 .. last_id'[changes_log'[last + k].entity_type]
    BY <1>1, <1>n, <2>1
  <2>4. \A k \in DOMAIN changes_log' :
          k \in DOMAIN changes_log \/ \E m \in 1 .. size : k = last + m
    BY <1>8
  <2> QED
    BY <2>2, <2>3, <2>4 DEF LoggedWereInserted
<1>12. ASSUME NEW i \in gone
       PROVE  RowHistory("service", i)'
  <2>1. PICK k \in 1 .. size : order[k] = i
    BY <1>4, <1>12 DEF size
  <2>2. PICK n \in Nat : n = last + k
    BY <1>7
  <2>3. RowHistory("service", i)
    BY <1>2, <1>12, <1>t DEF LogInv, LogTellsHistory
  <2>4. \A m \in 1 .. size : order[m] = i => m = k
    BY <1>1, <2>1 DEF size
  <2>5. Entries("service", i)' = Entries("service", i) \cup {n}
    <3>1. \A m \in DOMAIN changes_log' :
            m \in Entries("service", i)' <=> m \in Entries("service", i) \cup {n}
      <4>1. ASSUME NEW m \in DOMAIN changes_log
            PROVE  m \in Entries("service", i)' <=> m \in Entries("service", i) \cup {n}
        <5>1. m # n
          BY <1>n, <2>1, <2>2
        <5> QED
          BY <1>8, <5>1 DEF Entries
      <4>2. ASSUME NEW k2 \in 1 .. size
            PROVE  last + k2 \in Entries("service", i)' <=>
                     last + k2 \in Entries("service", i) \cup {n}
        <5>1. last + k2 \notin Entries("service", i)
          BY <1>n DEF Entries
        <5>2. last + k2 = n <=> k2 = k
          BY <1>7, <2>1, <2>2
        <5>3. last + k2 \in Entries("service", i)' <=> order[k2] = i
          BY <1>8, <1>n DEF Entries
        <5> QED
          BY <2>1, <2>4, <5>1, <5>2, <5>3
      <4> QED
        BY <1>8, <4>1, <4>2
    <3>2. Entries("service", i)' \subseteq DOMAIN changes_log'
      BY DEF Entries
    <3>3. Entries("service", i) \cup {n} \subseteq DOMAIN changes_log'
      BY <1>8, <2>1, <2>2 DEF Entries
    <3> QED
      BY <3>1, <3>2, <3>3
  <2>6. \A m \in Entries("service", i) : m \in Nat /\ m < n /\ changes_log'[m] = changes_log[m]
    BY <1>7, <1>8, <2>1, <2>2 DEF Entries
  <2>7. changes_log'[n].change_type = "removed" /\ i \notin Ids("service")'
    BY <1>5, <1>8, <1>9, <1>12, <2>1, <2>2
  <2> QED
    BY <1>t, <2>2, <2>3, <2>5, <2>6, <2>7, HistoryGrows
<1>13. ASSUME NEW e \in Entity, NEW i \in 1 .. last_id[e], ~(e = "service" /\ i \in gone)
       PROVE  RowHistory(e, i)'
  <2>1. RowHistory(e, i)
    BY DEF LogInv, LogTellsHistory
  <2>2. \A k \in 1 .. size : order[k] \in gone
    BY DEF size
  <2>3. Entries(e, i)' = Entries(e, i)
    <3>1. \A m \in DOMAIN changes_log : m \in Entries(e, i)' <=> m \in Entries(e, i)
      BY <1>8 DEF Entries
    <3>2. \A k \in 1 .. size : last + k \notin Entries(e, i)' /\ last + k \notin Entries(e, i)
      BY <1>n, <1>13, <2>2 DEF Entries
    <3>3. Entries(e, i)' \subseteq DOMAIN changes_log'
      BY DEF Entries
    <3>4. Entries(e, i) \subseteq DOMAIN changes_log
      BY DEF Entries
    <3>5. \A m \in Entries(e, i)' : m \in DOMAIN changes_log
      BY <1>8, <3>2, <3>3
    <3>6. DOMAIN changes_log \subseteq DOMAIN changes_log'
      BY <1>8
    <3> QED
      BY <3>1, <3>4, <3>5, <3>6
  <2>4. \A k \in Entries(e, i) : changes_log'[k] = changes_log[k]
    BY <1>8 DEF Entries
  <2>5. /\ i \in Ids(e)' => i \in Ids(e) /\ rows'[e][i].value = rows[e][i].value
        /\ e = "service" => (i \in Ids(e)' <=> i \in Ids(e))
    BY <1>9, <1>10, <1>13
  <2> QED
    BY <2>1, <2>3, <2>4, <2>5, HistoryStays
<1> QED
  BY <1>1, <1>11, <1>12, <1>13 DEF LogTellsHistory

LEMMA StepKeepsLog ==
  ASSUME LogInv, [Next]_vars
  PROVE  LogInv'
<1>1. IInv'
  BY StepPreserves DEF LogInv
<1>2. CASE UNCHANGED vars
  BY <1>1, <1>2 DEF vars, LogInv, LoggedWereInserted, LogTellsHistory, RowHistory, Entries,
                    Modified, Ids
<1>3. CASE MarkServicesRemoved
  BY <1>1, <1>3, RemovalKeepsLog DEF LogInv
<1>4. ASSUME NEW e \in Entity, NEW t \in Entity, NEW key \in Key,
             NEW owner \in Id \cup {Null}, NEW seen \in Observation, Upsert(e, t, key, owner, seen)
      PROVE  LogInv'
  <2>1. CASE Insert(e, key, owner, seen)
    BY <1>1, <2>1, InsertKeepsLog DEF LogInv
  <2>2. ASSUME NEW id \in Lookup(e, key, owner), Update(e, id, seen) PROVE LogInv'
    BY <1>1, <2>2, UpdateKeepsLog DEF LogInv, Lookup
  <2> QED
    BY <1>4, <2>1, <2>2 DEF Upsert
<1> QED
  BY <1>2, <1>3, <1>4, StepIsCall

LEMMA LogHolds == Spec => []LogInv
<1>1. Init => LogInv
  BY InitEstablishes DEF Init, LogInv, LoggedWereInserted, LogTellsHistory, Entity
<1> QED
  BY <1>1, StepKeepsLog, PTL DEF Spec

\* The change log, which is written beside the rows, never disagrees with
\* them: for any sequence of calls it tells of each row one beginning, a
\* gapless chain of changes of its logged column up to the value stored, and for
\* a service its end.
THEOREM LogAlwaysTellsHistory == Spec => []LogTellsHistory
BY LogHolds, PTL DEF LogInv

-------------------------------------------------------------------------------
\* The scanner.

\* No scan stores a port, as the service that it asks for is the one of a port
\* that is stored.
PortsStayUnknown == Ids("port") = {}

ScannerIInv == IInv /\ ScannerTypeOK /\ PortsStayUnknown

\* An upsert leaves a row with its key and owner, whose id StoredId finds.
LEMMA UpsertStores ==
  ASSUME TypeOK, NEW e \in Entity, NEW t \in Entity, NEW key \in Key,
         NEW owner \in Id \cup {Null}, NEW v \in MaybeValue, Upsert(e, t, key, owner, Logged(v))
  PROVE  StoredId(e, key, owner) \in Id
<1>1. \E i \in DOMAIN rows'[e] : rows'[e][i].key = key /\ rows'[e][i].owner = owner
  BY UpsertChanges, LoggedIsSeen DEF Ids
<1>2. DOMAIN rows'[e] \subseteq Id
  <2>1. TypeOK'
    BY UpsertChanges, LoggedIsSeen
  <2>2. Ids(e)' \subseteq 1 .. last_id'[e] /\ last_id'[e] \in 0 .. MaxId
    BY <2>1 DEF TypeOK
  <2> QED
    BY <2>2, StoreAssumption DEF Id, Ids
<1> QED
  BY <1>1, <1>2 DEF StoredId

\* A turn takes the first item of a typed sequence and leaves the rest.
LEMMA TurnItem ==
  ASSUME NEW S, todo \in Seq(S), todo # << >>
  PROVE  Head(todo) \in S /\ Tail(todo) \in Seq(S)
OBVIOUS

LEMMA Empty == \A S : << >> \in Seq(S)
OBVIOUS

LEMMA EmptyResultIsTyped == EmptyResult \in ScanResult
BY Empty DEF EmptyResult, ScanResult

LEMMA StepNames ==
  {"sleeping", "dependencies"} \cup {Loops[k] : k \in DOMAIN Loops}
    = {"sleeping", "nodes", "services", "ports", "interfaces", "configs", "dependencies"}
BY DEF Loops

LEMMA InitScanner == ScannerInit => ScannerIInv
<1> SUFFICES ASSUME ScannerInit PROVE ScannerIInv
  OBVIOUS
<1>1. IInv
  BY InitEstablishes DEF ScannerInit
<1>2. PortsStayUnknown
  BY DEF ScannerInit, Init, PortsStayUnknown, Ids, Entity
<1>3. ScannerTypeOK
  BY DEF ScannerInit, ScannerTypeOK, TodoOK, ScanResult, EmptyResult, Loops
<1> QED
  BY <1>1, <1>2, <1>3 DEF ScannerIInv

\* A row that the scanner stores is a call of the store with arguments of its
\* types, and none of them stores a port.
LEMMA RowIsStoreStep ==
  ASSUME ScannerIInv, StoreRow
  PROVE  [Next]_vars /\ Ids("port")' = Ids("port")
<1> USE DEF ScannerIInv, ScannerTypeOK, TodoOK, Turn
<1>t. TypeOK
  BY DEF IInv
<1>k. /\ Hostname \cup ServiceKey \cup Path \cup InterfaceName \cup (Id \X DepType) \subseteq Key
      /\ Null \in MaybeValue /\ Null \in Id \cup {Null}
      /\ Entity \ {"port"} = {"node", "service", "config_file", "dependency", "network_interface"}
      /\ "port" \in Entity
  BY DEF Key, MaybeValue, Entity
<1>p. ASSUME NEW e \in Entity \ {"port"}, NEW t \in Entity, NEW key \in Key,
             NEW owner \in Id \cup {Null}, NEW v \in MaybeValue, Upsert(e, t, key, owner, Logged(v))
      PROVE  Ids("port")' = Ids("port")
  BY <1>t, <1>k, <1>p, UpsertChanges, LoggedIsSeen DEF Ids
<1>1. CASE StoreNode
  <2>1. Head(todo) \in Item(Hostname)
    BY <1>1, TurnItem DEF StoreNode
  <2>2. Head(todo).key \in Hostname /\ Head(todo).value \in MaybeValue
    BY <2>1 DEF Item
  <2>3. UpsertNode(Head(todo).key, Head(todo).value)
    BY <1>1 DEF StoreNode
  <2> QED
    BY <1>k, <1>p, <2>2, <2>3 DEF Next, UpsertNode
<1>2. CASE StoreService
  <2>1. Head(todo) \in Item(ServiceKey)
    BY <1>2, TurnItem DEF StoreService
  <2>2. Head(todo).key \in ServiceKey /\ Head(todo).value \in MaybeValue
    BY <2>1 DEF Item
  <2>3. UpsertService(Head(todo).key, first_node, Head(todo).value)
    BY <1>2 DEF StoreService, HomeOf
  <2> QED
    BY <1>k, <1>p, <2>2, <2>3 DEF Next, UpsertService
<1>3. CASE StorePort
  <2>1. ServicesByPort(NumberOf[Head(todo).key]) = {}
    BY DEF ServicesByPort, PortsStayUnknown
  <2> QED
    BY <1>3, <2>1 DEF StorePort, vars, Ids
<1>4. CASE StoreInterface
  <2>1. Head(todo) \in Item(InterfaceName)
    BY <1>4, TurnItem DEF StoreInterface
  <2>2. Head(todo).key \in InterfaceName /\ Head(todo).value \in MaybeValue
    BY <2>1 DEF Item
  <2>3. CASE first_node = Null
    BY <1>4, <2>3 DEF StoreInterface, HomeOf, vars, Ids
  <2>4. CASE first_node # Null
    <3>1. first_node \in Id /\ UpsertNetworkInterface(Head(todo).key, first_node, Head(todo).value)
      BY <1>4, <2>4 DEF StoreInterface, HomeOf
    <3> QED
      BY <1>k, <1>p, <2>2, <3>1 DEF Next, UpsertNetworkInterface
  <2> QED
    BY <2>3, <2>4
<1>5. CASE StoreConfigFile
  <2>1. Head(todo) \in ConfigItem
    BY <1>5, TurnItem DEF StoreConfigFile
  <2>2. Head(todo).key \in Path /\ Head(todo).owner \in Id /\ Head(todo).value \in MaybeValue
    BY <2>1 DEF ConfigItem
  <2>3. UpsertConfigFile(Head(todo).key, Head(todo).owner, Logged(Head(todo).value))
    BY <1>5 DEF StoreConfigFile
  <2> QED
    BY <1>k, <1>p, <2>2, <2>3, LoggedIsSeen DEF Next, UpsertConfigFile
<1>6. CASE StoreDependency
  <2> DEFINE d == Head(todo)
             map == service_name_map
  <2>1. d \in Name \X Name \X DepType
    BY <1>6, TurnItem DEF StoreDependency
  <2>2. d[3] \in DepType
    BY <2>1
  <2>3. CASE UNCHANGED vars
    BY <2>3 DEF vars, Ids
  <2>4. CASE ~UNCHANGED vars
    <3>1. {d[1], d[2]} \subseteq DOMAIN map /\ AddDependency(map[d[1]], map[d[2]], d[3])
      BY <1>6, <2>4 DEF StoreDependency
    <3>2. map[d[1]] \in Id /\ map[d[2]] \in Id
      BY <3>1
    <3> HIDE DEF d, map
    <3>3. Next
      BY <2>2, <3>1, <3>2 DEF Next
    <3>4. Upsert("dependency", "service", <<map[d[2]], d[3]>>, map[d[1]], Logged(Null))
      BY <2>4, <3>1, AddDependencyIsUpsert
    <3>5. <<map[d[2]], d[3]>> \in Key /\ map[d[1]] \in Id \cup {Null}
      BY <1>k, <2>2, <3>2
    <3>6. Ids("port")' = Ids("port")
      BY <1>k, <1>p, <3>4, <3>5
    <3> QED
      BY <3>3, <3>6
  <2> QED
    BY <2>3, <2>4
<1> QED
  BY <1>1, <1>2, <1>3, <1>4, <1>5, <1>6 DEF StoreRow

\* Every other step leaves the store alone.
LEMMA StepIsStoreStep ==
  ASSUME ScannerIInv, [ScannerNext]_scannerVars
  PROVE  [Next]_vars /\ PortsStayUnknown'
<1>1. CASE StoreRow
  BY <1>1, RowIsStoreStep DEF PortsStayUnknown, ScannerIInv
<1>2. CASE UNCHANGED vars
  BY <1>2 DEF vars, PortsStayUnknown, Ids, ScannerIInv
<1> QED
  BY <1>1, <1>2 DEF ScannerNext, scannerVars, Probe, NextLoop, ScanConfigs, InferDependencies,
                    EndScan, Interrupted, Sleep
------------------------------------------------------------------------------
\* A stored row leaves a typed rest of the loop, and typed ids behind it.
LEMMA RowTypes ==
  ASSUME ScannerIInv, StoreRow
  PROVE  ScannerTypeOK'
<1> USE DEF ScannerIInv, ScannerTypeOK
<1>1. TodoOK' /\ UNCHANGED <<result, configs_left>>
  <2>1. PICK loop \in {"nodes", "services", "ports", "interfaces", "configs", "dependencies"} :
          Turn(loop)
    BY DEF StoreRow, StoreNode, StoreService, StorePort, StoreInterface, StoreConfigFile,
           StoreDependency
  <2>2. /\ step' = step /\ todo' = Tail(todo) /\ todo # << >> /\ step = loop
        /\ UNCHANGED <<result, configs_left>>
    BY <2>1 DEF Turn
  <2>3. TodoOK'
    BY <2>2, TurnItem DEF TodoOK
  <2> QED
    BY <2>2, <2>3
<1>2. CASE StoreNode
  <2>1. Head(todo) \in Item(Hostname)
    BY <1>2, TurnItem DEF StoreNode, Turn, TodoOK
  <2>2. Head(todo).key \in Key /\ Head(todo).value \in MaybeValue
    BY <2>1 DEF Item, Key
  <2>3. StoredId("node", Head(todo).key, Null) \in Id
    BY <1>2, <2>2, UpsertStores DEF StoreNode, UpsertNode, IInv, Entity
  <2> QED
    BY <1>1, <1>2, <2>3 DEF StoreNode
<1>3. CASE StoreService
  <2>1. Head(todo) \in Item(ServiceKey)
    BY <1>3, TurnItem DEF StoreService, Turn, TodoOK
  <2>2. Head(todo).key \in ServiceKey /\ Head(todo).key \in Key /\ Head(todo).value \in MaybeValue
    BY <2>1 DEF Item, Key
  <2>3. StoredId("service", Head(todo).key, HomeOf) \in Id
    BY <1>3, <2>2, UpsertStores DEF StoreService, UpsertService, HomeOf, IInv, Entity
  <2>4. NameOf[Head(todo).key] \in Name
    BY <2>2, ScannerAssumption
  <2>5. DOMAIN service_name_map' = DOMAIN service_name_map \cup {NameOf[Head(todo).key]}
    BY <1>3 DEF StoreService
  <2>6. \A n \in DOMAIN service_name_map' : service_name_map'[n] \in Id
    BY <1>3, <2>3 DEF StoreService
  <2>7. first_node' = first_node
    BY <1>3 DEF StoreService
  <2> QED
    BY <1>1, <2>4, <2>5, <2>6, <2>7
<1>4. CASE StorePort \/ StoreInterface \/ StoreConfigFile \/ StoreDependency
  <2>1. UNCHANGED <<first_node, service_name_map>>
    BY <1>4 DEF StorePort, StoreInterface, StoreConfigFile, StoreDependency
  <2> QED
    BY <1>1, <2>1
<1> QED
  BY <1>2, <1>3, <1>4 DEF StoreRow

LEMMA ProbeTypes ==
  ASSUME ScannerIInv, Probe
  PROVE  ScannerTypeOK'
<1>1. PICK n \in NodesFound, s \in ServicesFound, p \in PortsFound, i \in InterfacesFound :
        /\ result' = [EmptyResult EXCEPT !.nodes = n, !.services = s, !.ports = p,
                                         !.network_interfaces = i]
        /\ todo' = n
  BY DEF Probe
<1>2. n \in Seq(Item(Hostname))
  BY ScannerAssumption DEF NodesFound
<1>3. s \in Seq(Item(ServiceKey))
  <2>1. /\ K8sServices \subseteq Seq(Item(ServiceKey))
        /\ SystemdServices \subseteq Seq(Item(ServiceKey))
        /\ DockerServices \subseteq Seq(Item(ServiceKey))
    BY ScannerAssumption
  <2>2. PICK k \in IfPresent(HasKubectl, K8sServices),
             u \in SystemdServices,
             d \in IfPresent(HasDocker, DockerServices) : s = k \o u \o d
    BY DEF ServicesFound
  <2>3. /\ k \in Seq(Item(ServiceKey)) /\ u \in Seq(Item(ServiceKey))
        /\ d \in Seq(Item(ServiceKey))
    BY <2>1, <2>2, Empty DEF IfPresent
  <2> QED
    BY <2>2, <2>3
<1>4. p \in Seq(PortItem)
  <2>1. PICK t \in TcpPorts, u \in UdpPorts : p = t \o u
    BY DEF PortsFound
  <2>2. t \in Seq(PortItem) /\ u \in Seq(PortItem)
    BY ScannerAssumption
  <2> QED
    BY <2>1, <2>2
<1>5. i \in Seq(Item(InterfaceName))
  BY ScannerAssumption, Empty DEF InterfacesFound
<1>6. result' \in ScanResult
  <2>1. result' = [nodes |-> n, services |-> s, ports |-> p, network_interfaces |-> i,
                   config_files |-> << >>]
    BY <1>1 DEF EmptyResult
  <2> QED
    BY <1>2, <1>3, <1>4, <1>5, <2>1, Empty DEF ScanResult
<1>7. TodoOK'
  BY <1>1, <1>2 DEF Probe, TodoOK, Loops
<1>8. first_node' = Null /\ service_name_map' = << >> /\ configs_left' = {}
  BY DEF Probe
<1> QED
  BY <1>6, <1>7, <1>8 DEF ScannerTypeOK

LEMMA NextLoopTypes ==
  ASSUME ScannerIInv, NextLoop
  PROVE  ScannerTypeOK'
<1> USE DEF ScannerIInv, ScannerTypeOK
<1>1. UNCHANGED <<result, first_node, service_name_map>>
  BY DEF NextLoop
<1>2. /\ result.services \in Seq(Item(ServiceKey)) /\ result.ports \in Seq(PortItem)
      /\ result.network_interfaces \in Seq(Item(InterfaceName))
  BY DEF ScanResult
<1>3. \/ step' = "services" /\ todo' = result.services
      \/ step' = "ports" /\ todo' = result.ports
      \/ step' = "interfaces" /\ todo' = result.network_interfaces
      \/ step' = "configs" /\ todo' = << >>
  BY DEF NextLoop, Loops
<1>4. TodoOK'
  BY <1>2, <1>3, StepNames, Empty DEF TodoOK
<1>5. configs_left' \subseteq DOMAIN service_name_map
  BY DEF NextLoop
<1> QED
  BY <1>1, <1>4, <1>5

LEMMA ScanConfigsTypes ==
  ASSUME ScannerIInv, ScanConfigs
  PROVE  ScannerTypeOK'
<1> USE DEF ScannerIInv, ScannerTypeOK
<1> DEFINE FilesOf(found, id) ==
             [k \in DOMAIN found |->
                [key |-> found[k].key, owner |-> id, value |-> found[k].value]]
<1>0. PICK n \in configs_left : \E found \in ConfigsOf[n] :
        /\ todo' = FilesOf(found, service_name_map[n])
        /\ configs_left' = configs_left \ {n}
        /\ result' = [result EXCEPT !.config_files = @ \o FilesOf(found, service_name_map[n])]
  BY DEF ScanConfigs
<1>1. PICK found \in ConfigsOf[n] :
        /\ todo' = FilesOf(found, service_name_map[n])
        /\ configs_left' = configs_left \ {n}
        /\ result' = [result EXCEPT !.config_files = @ \o FilesOf(found, service_name_map[n])]
  BY <1>0
<1> DEFINE files == FilesOf(found, service_name_map[n])
<1>2. service_name_map[n] \in Id /\ found \in Seq(Item(Path))
  BY ScannerAssumption
<1>3. files \in Seq(ConfigItem)
  <2>1. DOMAIN found = 1 .. Len(found) /\ Len(found) \in Nat
    BY <1>2
  <2>2. \A k \in DOMAIN found : found[k].key \in Path /\ found[k].value \in MaybeValue
    <3>1. \A k \in DOMAIN found : found[k] \in Item(Path)
      BY <1>2
    <3> QED
      BY <3>1 DEF Item
  <2>3. \A k \in 1 .. Len(found) : files[k] \in ConfigItem
    BY <1>2, <2>1, <2>2 DEF ConfigItem
  <2>4. files \in [1 .. Len(found) -> ConfigItem]
    BY <2>1, <2>3
  <2> QED
    BY <2>1, <2>4
<1>4. todo' = files /\ configs_left' \subseteq configs_left
  BY <1>1
<1>5. result' \in ScanResult
  <2> HIDE DEF files
  <2>1. result.config_files \o files \in Seq(ConfigItem)
    BY <1>3 DEF ScanResult
  <2>2. result' = [result EXCEPT !.config_files = result.config_files \o files]
    BY <1>1 DEF files
  <2> QED
    BY <2>1, <2>2 DEF ScanResult
<1>6. step' = step /\ step = "configs" /\ UNCHANGED <<first_node, service_name_map>>
  BY DEF ScanConfigs
<1> HIDE DEF files
<1>7. TodoOK'
  BY <1>3, <1>4, <1>6 DEF TodoOK
<1> QED
  BY <1>4, <1>5, <1>6, <1>7

LEMMA ScannerStepPreserves ==
  ASSUME ScannerIInv, [ScannerNext]_scannerVars
  PROVE  ScannerIInv'
<1>1. [Next]_vars /\ PortsStayUnknown'
  BY StepIsStoreStep
<1>2. IInv'
  BY <1>1, StepPreserves DEF ScannerIInv
<1>3. ScannerTypeOK'
  <2>1. CASE StoreRow
    BY <2>1, RowTypes
  <2>2. CASE Probe
    BY <2>2, ProbeTypes
  <2>3. CASE NextLoop
    BY <2>3, NextLoopTypes
  <2>4. CASE ScanConfigs
    BY <2>4, ScanConfigsTypes
  <2>5. CASE InferDependencies
    BY <2>5, ScannerAssumption
       DEF InferDependencies, ScannerIInv, ScannerTypeOK, TodoOK, Loops
  <2>6. CASE EndScan \/ Interrupted
    BY <2>6, EmptyResultIsTyped, StepNames
       DEF EndScan, Interrupted, Forget, ScannerTypeOK, TodoOK
  <2>7. CASE UNCHANGED scannerVars
    BY <2>7 DEF scannerVars, scan, ScannerIInv, ScannerTypeOK, TodoOK
  <2> QED
    BY <2>1, <2>2, <2>3, <2>4, <2>5, <2>6, <2>7 DEF ScannerNext, Sleep
<1> QED
  BY <1>1, <1>2, <1>3 DEF ScannerIInv

LEMMA ScannerInvariantHolds == ScannerSpec => []ScannerIInv
BY InitScanner, ScannerStepPreserves, PTL DEF ScannerSpec

\* The types of the scanner's state, whatever its probes find.
THEOREM ScannerAlwaysTypeOK == ScannerSpec => []ScannerTypeOK
BY ScannerInvariantHolds, PTL DEF ScannerIInv

\* The scanner only does to the store what the store's methods allow with
\* arguments of their types, so all that is proved of the store holds of what
\* any number of scans, whole or cut off, leave behind.
THEOREM ScannerIsAStore == ScannerSpec => Spec
<1>1. ScannerInit => Init
  BY DEF ScannerInit
<1>2. ScannerIInv /\ [ScannerNext]_scannerVars => [Next]_vars
  BY StepIsStoreStep
<1> QED
  BY <1>1, <1>2, ScannerInvariantHolds, PTL DEF ScannerSpec, Spec

\* In particular no scan stores a thing twice, leaves a row without its owner,
\* or a change that the log does not tell.
THEOREM ScansLeaveTheStoreSound ==
  ScannerSpec => [](NoDuplicateRows /\ NoDanglingReferences /\ LogTellsHistory)
BY ScannerIsAStore, NeverDuplicateRows, NeverDanglingReferences, LogAlwaysTellsHistory, PTL

\* And no port is ever stored, whatever is found and for however long, though
\* scan_once is to reconcile what it finds with the store (scanner.py:101) and
\* to associate ports with services (scanner.py:148).
THEOREM PortsNeverKnown == ScannerSpec => []PortsStayUnknown
BY ScannerInvariantHolds, PTL DEF ScannerIInv
------------------------------------------------------------------------------
\* What a scan has done so far.

\* A row, by what an upsert looks it up with.
RowAt(e, i, key, owner) ==
  i \in Ids(e) /\ rows[e][i].key = key /\ rows[e][i].owner = owner

\* The loops that come after one.
Later(loop) ==
  CASE loop = "nodes" -> {"services", "ports", "interfaces", "configs", "dependencies"}
    [] loop = "services" -> {"ports", "interfaces", "configs", "dependencies"}
    [] loop = "interfaces" -> {"configs", "dependencies"}
    [] loop = "configs" -> {"dependencies"}
    [] loop = "dependencies" -> {}

\* How much of its list a loop has been through.
Done(loop, list) ==
  IF step = loop THEN 1 .. (Len(list) - Len(todo))
  ELSE IF step \in Later(loop) THEN DOMAIN list
  ELSE {}

\* todo is the rest of the loop's list.
RestOf(list) ==
  /\ Len(todo) <= Len(list)
  /\ \A j \in DOMAIN todo : todo[j] = list[Len(list) - Len(todo) + j]

TodoIsRest ==
  /\ step = "nodes" => RestOf(result.nodes)
  /\ step = "services" => RestOf(result.services)
  /\ step = "interfaces" => RestOf(result.network_interfaces)
  /\ step = "configs" => RestOf(result.config_files)
  /\ step = "dependencies" => RestOf(KnownDeps)

\* What was found does not contradict itself.
ResultAgrees ==
  /\ result.nodes # << >>
  /\ Agree(result.nodes) /\ Agree(result.services) /\ Agree(result.network_interfaces)
  /\ \A i, j \in DOMAIN result.config_files :
       LET f == result.config_files[i]
           g == result.config_files[j]
       IN  f.key = g.key /\ f.owner = g.owner /\ Null \notin {f.value, g.value} =>
             f.value = g.value

\* The home of all that does not know its node is the first node's row.
HomeIsFirst ==
  IF first_node = Null THEN step = "nodes" /\ todo = result.nodes
  ELSE RowAt("node", first_node, result.nodes[1].key, Null)

\* What the loops have been through is in the store.
StoredSoFar ==
  /\ \A k \in Done("nodes", result.nodes) : HasRow("node", result.nodes[k], Null)
  /\ \A k \in Done("services", result.services) :
       HasRow("service", result.services[k], first_node)
  /\ \A k \in Done("interfaces", result.network_interfaces) :
       HasRow("network_interface", result.network_interfaces[k], first_node)
  /\ \A k \in Done("configs", result.config_files) :
       HasRow("config_file", result.config_files[k], result.config_files[k].owner)

\* The last service of a name among some.
LastNamed(list, ks, n, k) ==
  /\ k \in ks /\ NameOf[list[k].key] = n
  /\ \A j \in ks : NameOf[list[j].key] = n => j <= k

\* The map leads a name to the row of the last service that has it.
MapIsLast ==
  LET ks == Done("services", result.services)
  IN  /\ DOMAIN service_name_map = {NameOf[result.services[k].key] : k \in ks}
      /\ \A n \in DOMAIN service_name_map :
           \E k \in ks :
             /\ LastNamed(result.services, ks, n, k)
             /\ RowAt("service", service_name_map[n], result.services[k].key, first_node)

\* The files found so far are those of the names that were looked up.
FilesHaveOwners ==
  /\ step \notin {"configs", "dependencies"} => result.config_files = << >>
  /\ step # "configs" => configs_left = {}
  /\ \A k \in DOMAIN result.config_files :
       \E n \in DOMAIN service_name_map \ configs_left :
         result.config_files[k].owner = service_name_map[n]

DependenciesSoFar ==
  \A k \in Done("dependencies", KnownDeps) :
    LET d == KnownDeps[k]
        map == service_name_map
    IN  {d[1], d[2]} \subseteq DOMAIN map /\ map[d[1]] # map[d[2]] =>
          \E i \in Ids("dependency") :
            RowAt("dependency", i, <<map[d[2]], d[3]>>, map[d[1]])

Progress ==
  step # "sleeping" =>
    /\ TodoIsRest /\ ResultAgrees /\ HomeIsFirst /\ StoredSoFar
    /\ MapIsLast /\ FilesHaveOwners /\ DependenciesSoFar

\* The store holds a result: with a home for it, and between the rows of the
\* last services of two names the dependencies that are known of them.
HoldsFrom(r, home) ==
  /\ RowAt("node", home, r.nodes[1].key, Null)
  /\ \A k \in DOMAIN r.services : HasRow("service", r.services[k], home)
  /\ \A k \in DOMAIN r.network_interfaces :
       HasRow("network_interface", r.network_interfaces[k], home)
  /\ \A k \in DOMAIN KnownDeps :
       LET d == KnownDeps[k]
           ks == DOMAIN r.services
       IN  d[1] # d[2] /\ {d[1], d[2]} \subseteq {NameOf[r.services[j].key] : j \in ks} =>
             \E a, b \in ks : \E s, t \in Ids("service") : \E i \in Ids("dependency") :
               /\ LastNamed(r.services, ks, d[1], a) /\ LastNamed(r.services, ks, d[2], b)
               /\ RowAt("service", s, r.services[a].key, home)
               /\ RowAt("service", t, r.services[b].key, home)
               /\ RowAt("dependency", i, <<t, d[3]>>, s)

Holds(r) ==
  /\ \A k \in DOMAIN r.nodes : HasRow("node", r.nodes[k], Null)
  /\ \E home \in Ids("node") : HoldsFrom(r, home)
  /\ \A k \in DOMAIN r.config_files :
       HasRow("config_file", r.config_files[k], r.config_files[k].owner)

\* While the settled result stands, the store holds it, and the scan that runs
\* has found the same.
Standing ==
  \A r \in {settled} \ {NoResult} :
    /\ r \in ScanResult
    /\ Holds(r)
    /\ step # "sleeping" =>
         /\ result.nodes = r.nodes /\ result.services = r.services
         /\ result.network_interfaces = r.network_interfaces
         /\ Elements(result.config_files) \subseteq Elements(r.config_files)

ScanInv == ScannerIInv /\ Progress /\ Standing

\* What an upsert does to the rows: none goes or changes its key or owner, only
\* the one that is looked up changes its value, and it gets the value given.
LEMMA UpsertRows ==
  ASSUME TypeOK, NEW e \in Entity \ {"port"}, NEW t \in Entity, NEW key \in Key,
         NEW owner \in Id \cup {Null}, NEW v \in MaybeValue, Upsert(e, t, key, owner, Logged(v))
  PROVE  /\ \A d \in Entity \ {e} : rows'[d] = rows[d]
         /\ \A i \in Ids(e) :
              /\ i \in DOMAIN rows'[e]
              /\ rows'[e][i].key = rows[e][i].key /\ rows'[e][i].owner = rows[e][i].owner
              /\ \/ rows'[e][i].value = rows[e][i].value
                 \/ /\ v # Null /\ rows'[e][i].value = v
                    /\ rows[e][i].key = key /\ rows[e][i].owner = owner
         /\ \E i \in DOMAIN rows'[e] :
              /\ rows'[e][i].key = key /\ rows'[e][i].owner = owner
              /\ v # Null => rows'[e][i].value = v
<1>0. Logged(v) \in Observation /\ Logged(v).value = v
  BY LoggedIsSeen
<1>1. \A d \in Entity \ {e} : rows'[d] = rows[d]
  BY <1>0, UpsertChanges
<1>2. CASE Insert(e, key, owner, Logged(v))
  <2> DEFINE row == [key |-> key, owner |-> owner,
                     value |-> Logged(v).value, aside |-> Logged(v).aside]
  <2>1. PICK id \in Id : id \notin Ids(e) /\ rows' = [rows EXCEPT ![e] = WithRow(e, id, row)]
    BY <1>0, <1>2, InsertPuts
  <2>2. row \in Row /\ row.key = key /\ row.owner = owner /\ row.value = v
    BY <1>0 DEF Row, Observation
  <2> HIDE DEF row
  <2>3. /\ DOMAIN rows' = Entity
        /\ \A d \in Entity \ {e} : rows'[d] = rows[d]
        /\ DOMAIN rows'[e] = Ids(e) \cup {id}
        /\ rows'[e] \in [Ids(e) \cup {id} -> Row]
        /\ rows'[e][id] = row
        /\ \A i \in Ids(e) \ {id} : rows'[e][i] = rows[e][i]
    BY <2>1, <2>2, PutRow
  <2> QED
    BY <1>1, <2>1, <2>2, <2>3
<1>3. ASSUME NEW id \in Lookup(e, key, owner), Update(e, id, Logged(v))
      PROVE  /\ \A i \in Ids(e) :
                  /\ i \in DOMAIN rows'[e]
                  /\ rows'[e][i].key = rows[e][i].key /\ rows'[e][i].owner = rows[e][i].owner
                  /\ \/ rows'[e][i].value = rows[e][i].value
                     \/ /\ v # Null /\ rows'[e][i].value = v
                        /\ rows[e][i].key = key /\ rows[e][i].owner = owner
             /\ \E i \in DOMAIN rows'[e] :
                  /\ rows'[e][i].key = key /\ rows'[e][i].owner = owner
                  /\ v # Null => rows'[e][i].value = v
  <2> DEFINE row == After(e, id, Logged(v))
  <2>1. id \in Ids(e) /\ rows[e][id].key = key /\ rows[e][id].owner = owner
    BY DEF Lookup
  <2>2. id \in Id /\ rows[e][id] \in Row /\ rows' = [rows EXCEPT ![e] = WithRow(e, id, row)]
    BY <1>0, <1>3, <2>1, UpdatePuts
  <2>3. row \in Row
    BY <1>0, <2>2, AfterIsRow
  <2>4. /\ row.key = rows[e][id].key /\ row.owner = rows[e][id].owner
        /\ row.value = Coalesce(rows[e][id].value, v)
    BY <1>0, <2>2, AfterIsRow DEF Updated
  <2> HIDE DEF row
  <2>5. /\ DOMAIN rows' = Entity
        /\ \A d \in Entity \ {e} : rows'[d] = rows[d]
        /\ DOMAIN rows'[e] = Ids(e) \cup {id}
        /\ rows'[e] \in [Ids(e) \cup {id} -> Row]
        /\ rows'[e][id] = row
        /\ \A i \in Ids(e) \ {id} : rows'[e][i] = rows[e][i]
    <3>1. id \in Id /\ rows' = [rows EXCEPT ![e] = WithRow(e, id, row)] /\ row \in Row
      BY <2>2, <2>3
    <3> QED
      BY <3>1, PutRow
  <2> QED
    BY <2>1, <2>4, <2>5 DEF Coalesce
<1> QED
  BY <1>1, <1>2, <1>3 DEF Upsert

LEMMA UpsertKeepsRow ==
  ASSUME TypeOK, NEW e \in Entity \ {"port"}, NEW t \in Entity, NEW key \in Key,
         NEW owner \in Id \cup {Null}, NEW v \in MaybeValue, Upsert(e, t, key, owner, Logged(v)),
         NEW d \in Entity, NEW i, NEW k, NEW o, RowAt(d, i, k, o)
  PROVE  RowAt(d, i, k, o)'
<1>1. CASE d # e
  BY <1>1, UpsertRows DEF RowAt, Ids
<1>2. CASE d = e
  <2>1. \A j \in Ids(e) : /\ j \in DOMAIN rows'[e]
                          /\ rows'[e][j].key = rows[e][j].key
                          /\ rows'[e][j].owner = rows[e][j].owner
    BY UpsertRows
  <2> QED
    BY <1>2, <2>1 DEF RowAt, Ids
<1> QED
  BY <1>1, <1>2

\* A row keeps what an item says of it, unless another item says otherwise.
LEMMA UpsertKeepsItem ==
  ASSUME TypeOK, NEW e \in Entity \ {"port"}, NEW t \in Entity, NEW key \in Key,
         NEW owner \in Id \cup {Null}, NEW v \in MaybeValue, Upsert(e, t, key, owner, Logged(v)),
         NEW d \in Entity, NEW item, NEW o, HasRow(d, item, o),
         d = e /\ item.key = key /\ o = owner /\ Null \notin {item.value, v} => item.value = v
  PROVE  HasRow(d, item, o)'
<1>1. CASE d # e
  BY <1>1, UpsertRows DEF HasRow, Ids
<1>2. CASE d = e
  <2>1. \A j \in Ids(e) :
          /\ j \in DOMAIN rows'[e]
          /\ rows'[e][j].key = rows[e][j].key /\ rows'[e][j].owner = rows[e][j].owner
          /\ \/ rows'[e][j].value = rows[e][j].value
             \/ /\ v # Null /\ rows'[e][j].value = v
                /\ rows[e][j].key = key /\ rows[e][j].owner = owner
    BY UpsertRows
  <2> QED
    BY <1>2, <2>1 DEF HasRow, Ids
<1> QED
  BY <1>1, <1>2

LEMMA UpsertStoresItem ==
  ASSUME TypeOK, NEW e \in Entity \ {"port"}, NEW t \in Entity, NEW owner \in Id \cup {Null},
         NEW item, item.key \in Key, item.value \in MaybeValue,
         Upsert(e, t, item.key, owner, Logged(item.value))
  PROVE  HasRow(e, item, owner)'
<1>1. \E i \in DOMAIN rows'[e] :
        /\ rows'[e][i].key = item.key /\ rows'[e][i].owner = owner
        /\ item.value # Null => rows'[e][i].value = item.value
  BY UpsertRows
<1> QED
  BY <1>1 DEF HasRow, Ids

\* StoredId is the id of the row that was upserted.
LEMMA StoredIdIsRow ==
  ASSUME TypeOK, NEW e \in Entity \ {"port"}, NEW t \in Entity, NEW key \in Key,
         NEW owner \in Id \cup {Null}, NEW v \in MaybeValue, Upsert(e, t, key, owner, Logged(v)),
         NEW id, id = StoredId(e, key, owner)
  PROVE  RowAt(e, id, key, owner)'
<1>1. \E i \in DOMAIN rows'[e] : rows'[e][i].key = key /\ rows'[e][i].owner = owner
  BY UpsertRows
<1> QED
  BY <1>1 DEF StoredId, RowAt, Ids

\* What the store has already, and as it has it, it neither stores nor logs.
LEMMA UpsertOfKnown ==
  ASSUME IInv, NEW e \in Entity \ {"port"}, NEW t \in Entity, NEW owner \in Id \cup {Null},
         NEW item, item.key \in Key, item.value \in MaybeValue,
         Upsert(e, t, item.key, owner, Logged(item.value)), HasRow(e, item, owner),
         owner # Null \/ e \in NullFindsNull
  PROVE  UNCHANGED vars
<1>1. PICK i \in Ids(e) : /\ rows[e][i].key = item.key /\ rows[e][i].owner = owner
                          /\ item.value # Null => rows[e][i].value = item.value
  BY DEF HasRow
<1>2. \A j \in Lookup(e, item.key, owner) : j = i
  BY <1>1 DEF Lookup, IInv, NoDuplicateRows
<1>3. i \in Lookup(e, item.key, owner)
  BY <1>1 DEF Lookup
<1>0. Logged(item.value).value = item.value /\ Logged(item.value).aside = Null
  BY LoggedIsSeen
<1>4. Update(e, i, Logged(item.value))
  BY <1>2, <1>3 DEF Upsert
<1>5. /\ Updated(e, rows[e][i].value, Logged(item.value).value) = rows[e][i].value
      /\ Updated(e, rows[e][i].aside, Logged(item.value).aside) = rows[e][i].aside
      /\ ~Differs(e, rows[e][i].value, Logged(item.value).value)
  BY <1>0, <1>1 DEF Updated, Coalesce, Differs
<1>6. UNCHANGED <<changes_log, last_id>>
  BY <1>4, <1>5 DEF Update
<1>7. rows[e] \in [Ids(e) -> Row] /\ rows = [d \in Entity |-> rows[d]]
  BY DEF IInv, TypeOK, Tables
<1> DEFINE row == [key |-> rows[e][i].key, owner |-> rows[e][i].owner,
                   value |-> rows[e][i].value, aside |-> rows[e][i].aside]
<1>8. row = rows[e][i]
  BY <1>7 DEF Row
<1>9. rows' = [rows EXCEPT ![e] = WithRow(e, i, row)]
  BY <1>4, <1>5 DEF Update
<1>10. WithRow(e, i, row) = rows[e]
  <2> HIDE DEF row
  <2>1. Ids(e) \cup {i} = Ids(e)
    OBVIOUS
  <2>2. WithRow(e, i, row) = [j \in Ids(e) |-> rows[e][j]]
    BY <1>8, <2>1 DEF WithRow
  <2> QED
    BY <1>7, <2>2
<1>11. rows' = rows
  BY <1>7, <1>9, <1>10
<1> QED
  BY <1>6, <1>11 DEF vars

------------------------------------------------------------------------------
\* Each row that is stored is an upsert of the next item.

LEMMA NodeCall ==
  ASSUME ScannerIInv, StoreNode, NEW item, item = Head(todo)
  PROVE  /\ item \in Item(Hostname) /\ item.key \in Key /\ item.value \in MaybeValue
         /\ Upsert("node", "node", item.key, Null, Logged(item.value))
<1>1. Head(todo) \in Item(Hostname)
  BY TurnItem DEF StoreNode, Turn, ScannerIInv, ScannerTypeOK, TodoOK
<1> QED
  BY <1>1 DEF Item, Key, StoreNode, UpsertNode

LEMMA ServiceCall ==
  ASSUME ScannerIInv, StoreService, NEW item, item = Head(todo)
  PROVE  /\ item \in Item(ServiceKey) /\ item.key \in Key /\ item.value \in MaybeValue
         /\ Upsert("service", "node", item.key, first_node, Logged(item.value))
<1>1. Head(todo) \in Item(ServiceKey)
  BY TurnItem DEF StoreService, Turn, ScannerIInv, ScannerTypeOK, TodoOK
<1> QED
  BY <1>1 DEF Item, Key, StoreService, UpsertService, HomeOf

LEMMA PortCall ==
  ASSUME ScannerIInv, StorePort
  PROVE  UNCHANGED vars
<1>1. ServicesByPort(NumberOf[Head(todo).key]) = {}
  BY DEF ServicesByPort, PortsStayUnknown, ScannerIInv
<1> QED
  BY <1>1 DEF StorePort

LEMMA InterfaceCall ==
  ASSUME ScannerIInv, StoreInterface, first_node # Null, NEW item, item = Head(todo)
  PROVE  /\ item \in Item(InterfaceName) /\ item.key \in Key /\ item.value \in MaybeValue
         /\ Upsert("network_interface", "node", item.key, first_node, Logged(item.value))
<1>1. Head(todo) \in Item(InterfaceName)
  BY TurnItem DEF StoreInterface, Turn, ScannerIInv, ScannerTypeOK, TodoOK
<1> QED
  BY <1>1 DEF Item, Key, StoreInterface, UpsertNetworkInterface, HomeOf

LEMMA FileCall ==
  ASSUME ScannerIInv, StoreConfigFile, NEW file, file = Head(todo)
  PROVE  /\ file \in ConfigItem /\ file.key \in Key /\ file.value \in MaybeValue
         /\ file.owner \in Id
         /\ Upsert("config_file", "service", file.key, file.owner, Logged(file.value))
<1>1. Head(todo) \in ConfigItem
  BY TurnItem DEF StoreConfigFile, Turn, ScannerIInv, ScannerTypeOK, TodoOK
<1> QED
  BY <1>1 DEF ConfigItem, Key, StoreConfigFile, UpsertConfigFile

\* The dependency between two services of the map, if they are two.
LEMMA DependencyCall ==
  ASSUME ScannerIInv, StoreDependency, NEW d, d = Head(todo),
         NEW map, map = service_name_map
  PROVE  /\ d \in Name \X Name \X DepType
         /\ IF {d[1], d[2]} \subseteq DOMAIN map /\ map[d[1]] # map[d[2]]
            THEN /\ map[d[1]] \in Id /\ map[d[2]] \in Id /\ <<map[d[2]], d[3]>> \in Key
                 /\ AddDependency(map[d[1]], map[d[2]], d[3])
            ELSE UNCHANGED vars
<1>1. d \in Name \X Name \X DepType
  BY TurnItem DEF StoreDependency, Turn, ScannerIInv, ScannerTypeOK, TodoOK
<1>2. d[3] \in DepType
  BY <1>1
<1>3. \A n \in DOMAIN map : map[n] \in Id
  BY DEF ScannerIInv, ScannerTypeOK
<1>4. IF {d[1], d[2]} \subseteq DOMAIN map /\ map[d[1]] # map[d[2]]
      THEN AddDependency(map[d[1]], map[d[2]], d[3])
      ELSE UNCHANGED vars
  BY DEF StoreDependency
<1>5. ASSUME {d[1], d[2]} \subseteq DOMAIN map
      PROVE  map[d[1]] \in Id /\ map[d[2]] \in Id /\ <<map[d[2]], d[3]>> \in Key
  <2>1. map[d[1]] \in Id /\ map[d[2]] \in Id
    BY <1>3, <1>5
  <2> QED
    BY <1>2, <2>1 DEF Key
<1> QED
  BY <1>1, <1>4, <1>5

\* No row that a scan has found or made moves while it goes on.
LEMMA RowsStay ==
  ASSUME ScannerIInv, HomeIsFirst, StoreRow,
         NEW e \in Entity, NEW i, NEW key, NEW owner, RowAt(e, i, key, owner)
  PROVE  RowAt(e, i, key, owner)'
<1>t. TypeOK /\ Null \in Id \cup {Null} /\ first_node \in Id \cup {Null} /\ Null \in MaybeValue
      /\ {"node", "service", "network_interface", "config_file", "dependency"}
           \subseteq Entity \ {"port"}
  BY DEF ScannerIInv, ScannerTypeOK, IInv, Entity, MaybeValue
<1>0. CASE UNCHANGED vars
  BY <1>0 DEF vars, RowAt, Ids
<1>1. CASE StoreNode
  <2>1. PICK item : item = Head(todo)
    OBVIOUS
  <2> QED
    BY <1>1, <1>t, <2>1, NodeCall, UpsertKeepsRow
<1>2. CASE StoreService
  <2>1. PICK item : item = Head(todo)
    OBVIOUS
  <2> QED
    BY <1>2, <1>t, <2>1, ServiceCall, UpsertKeepsRow
<1>3. CASE StorePort
  BY <1>0, <1>3, PortCall
<1>4. CASE StoreInterface
  <2>1. PICK item : item = Head(todo)
    OBVIOUS
  <2>2. first_node # Null
    BY <1>4 DEF StoreInterface, Turn, HomeIsFirst
  <2> QED
    BY <1>4, <1>t, <2>1, <2>2, InterfaceCall, UpsertKeepsRow
<1>5. CASE StoreConfigFile
  <2>1. PICK item : item = Head(todo)
    OBVIOUS
  <2> QED
    BY <1>5, <1>t, <2>1, FileCall, UpsertKeepsRow
<1>6. CASE StoreDependency /\ ~UNCHANGED vars
  <2>1. PICK d, map : d = Head(todo) /\ map = service_name_map
    OBVIOUS
  <2>2. /\ map[d[1]] \in Id /\ <<map[d[2]], d[3]>> \in Key
        /\ AddDependency(map[d[1]], map[d[2]], d[3])
    BY <1>6, <2>1, DependencyCall
  <2>3. Upsert("dependency", "service", <<map[d[2]], d[3]>>, map[d[1]], Logged(Null))
    BY <1>6, <2>2, AddDependencyIsUpsert
  <2> QED
    BY <1>t, <2>2, <2>3, UpsertKeepsRow
<1> QED
  BY <1>0, <1>1, <1>2, <1>3, <1>4, <1>5, <1>6 DEF StoreRow

\* A turn has been through one more of the list.
LEMMA TurnDone ==
  ASSUME NEW loop, Turn(loop), NEW S, NEW list \in Seq(S), todo \in Seq(S), RestOf(list),
         NEW n, n = Len(list) - Len(todo) + 1
  PROVE  /\ n \in DOMAIN list /\ Head(todo) = list[n]
         /\ RestOf(list)'
         /\ Done(loop, list)' = Done(loop, list) \cup {n}
         /\ Done(loop, list) \subseteq DOMAIN list
         /\ \A k \in Done(loop, list) : k < n
<1>1. /\ todo # << >> /\ todo' = Tail(todo) /\ step' = step /\ step = loop
  BY DEF Turn
<1>2. /\ Len(todo) \in Nat /\ Len(todo) > 0 /\ Len(list) \in Nat /\ Len(todo) <= Len(list)
      /\ DOMAIN todo = 1 .. Len(todo) /\ DOMAIN list = 1 .. Len(list)
  BY <1>1 DEF RestOf
<1>3. n \in DOMAIN list /\ n - 1 = Len(list) - Len(todo) /\ n \in Nat /\ n - 1 \in Nat
  BY <1>2
<1>4. Head(todo) = list[n]
  <2>1. Head(todo) = todo[1] /\ 1 \in DOMAIN todo
    BY <1>1, <1>2
  <2> QED
    BY <1>2, <2>1 DEF RestOf
<1>5. Len(todo') = Len(todo) - 1 /\ Len(list) - Len(todo') = n
  BY <1>1, <1>2
<1>6. RestOf(list)'
  <2>1. DOMAIN todo' = 1 .. Len(todo) - 1 /\ \A j \in DOMAIN todo' : todo'[j] = todo[j + 1]
    BY <1>1, <1>2
  <2>2. ASSUME NEW j \in DOMAIN todo'
        PROVE  /\ j + 1 \in DOMAIN todo
               /\ Len(list) - Len(todo) + (j + 1) = Len(list) - Len(todo') + j
    <3>1. j \in Nat /\ 1 <= j /\ j <= Len(todo) - 1
      BY <1>2, <2>1
    <3>2. j + 1 \in 1 .. Len(todo)
      BY <1>2, <3>1
    <3> QED
      BY <1>2, <1>5, <3>1, <3>2
  <2> QED
    BY <1>2, <1>5, <2>1, <2>2 DEF RestOf
<1>7. Done(loop, list) = 1 .. n - 1 /\ Done(loop, list)' = 1 .. n
  BY <1>1, <1>3, <1>5 DEF Done
<1>8. 1 .. n = (1 .. n - 1) \cup {n} /\ 1 .. n - 1 \subseteq DOMAIN list
      /\ \A k \in 1 .. n - 1 : k < n
  BY <1>2, <1>3
<1> QED
  BY <1>3, <1>4, <1>6, <1>7, <1>8

LEMMA OthersDone ==
  ASSUME NEW loop, Turn(loop), NEW other, other # loop, NEW list
  PROVE  Done(other, list)' = Done(other, list)
BY DEF Done, Turn

------------------------------------------------------------------------------
\* While the settled result stands no row that is stored changes anything.

LEMMA RowsAreOne ==
  ASSUME NoDuplicateRows, NEW e \in Entity, NEW i, NEW j, NEW key, NEW owner,
         owner # Null \/ e \in NullFindsNull,
         RowAt(e, i, key, owner), RowAt(e, j, key, owner)
  PROVE  i = j
BY DEF NoDuplicateRows, RowAt

LEMMA SettledIsQuiet ==
  ASSUME ScanInv, settled # NoResult, StoreRow
  PROVE  UNCHANGED vars
<1>t. /\ ScannerIInv /\ IInv /\ NoDuplicateRows /\ result \in ScanResult
      /\ first_node \in Id \cup {Null} /\ Null \in Id \cup {Null}
      /\ {"node", "service", "network_interface", "config_file", "dependency"}
           \subseteq Entity \ {"port"}
  BY DEF ScanInv, ScannerIInv, ScannerTypeOK, IInv, Entity
<1>s. /\ step # "sleeping" /\ Holds(settled)
      /\ result.nodes = settled.nodes /\ result.services = settled.services
      /\ result.network_interfaces = settled.network_interfaces
      /\ Elements(result.config_files) \subseteq Elements(settled.config_files)
  <2>1. step # "sleeping"
    BY DEF StoreRow, StoreNode, StoreService, StorePort, StoreInterface, StoreConfigFile,
           StoreDependency, Turn
  <2> QED
    BY <2>1 DEF ScanInv, Standing
<1>p. TodoIsRest /\ HomeIsFirst /\ MapIsLast
  BY <1>s DEF ScanInv, Progress
<1>h. ASSUME first_node # Null
      PROVE  HoldsFrom(settled, first_node)
  <2>1. PICK home \in Ids("node") : HoldsFrom(settled, home)
    BY <1>s DEF Holds
  <2>2. RowAt("node", home, settled.nodes[1].key, Null)
    BY <2>1 DEF HoldsFrom
  <2>3. RowAt("node", first_node, settled.nodes[1].key, Null)
    BY <1>h, <1>p, <1>s DEF HomeIsFirst
  <2>4. home = first_node
    BY <1>t, <2>2, <2>3, RowsAreOne DEF NullFindsNull
  <2> QED
    BY <2>1, <2>4
<1>1. CASE StoreNode
  <2>1. PICK item, n : item = Head(todo) /\ n = Len(result.nodes) - Len(todo) + 1
    OBVIOUS
  <2>2. Turn("nodes") /\ step = "nodes"
    BY <1>1 DEF StoreNode, Turn
  <2>3. todo \in Seq(Item(Hostname)) /\ result.nodes \in Seq(Item(Hostname))
    BY <1>t, <2>2 DEF ScannerIInv, ScannerTypeOK, TodoOK, ScanResult
  <2>4. n \in DOMAIN settled.nodes /\ item = settled.nodes[n]
    BY <1>p, <1>s, <2>1, <2>2, <2>3, TurnDone DEF TodoIsRest
  <2>5. HasRow("node", item, Null)
    BY <1>s, <2>4 DEF Holds
  <2> QED
    BY <1>1, <1>t, <2>1, <2>5, NodeCall, UpsertOfKnown DEF NullFindsNull
<1>2. CASE StoreService
  <2>1. PICK item, n : item = Head(todo) /\ n = Len(result.services) - Len(todo) + 1
    OBVIOUS
  <2>2. Turn("services") /\ step = "services" /\ first_node # Null
    BY <1>2, <1>p DEF StoreService, Turn, HomeIsFirst
  <2>3. todo \in Seq(Item(ServiceKey)) /\ result.services \in Seq(Item(ServiceKey))
    BY <1>t, <2>2 DEF ScannerIInv, ScannerTypeOK, TodoOK, ScanResult
  <2>4. n \in DOMAIN settled.services /\ item = settled.services[n]
    BY <1>p, <1>s, <2>1, <2>2, <2>3, TurnDone DEF TodoIsRest
  <2>5. HasRow("service", item, first_node)
    BY <1>h, <2>2, <2>4 DEF HoldsFrom
  <2> QED
    BY <1>2, <1>t, <2>1, <2>5, ServiceCall, UpsertOfKnown DEF NullFindsNull
<1>3. CASE StorePort
  BY <1>3, <1>t, PortCall
<1>4. CASE StoreInterface
  <2>1. PICK item, n : item = Head(todo) /\ n = Len(result.network_interfaces) - Len(todo) + 1
    OBVIOUS
  <2>2. Turn("interfaces") /\ step = "interfaces" /\ first_node # Null
    BY <1>4, <1>p DEF StoreInterface, Turn, HomeIsFirst
  <2>3. /\ todo \in Seq(Item(InterfaceName))
        /\ result.network_interfaces \in Seq(Item(InterfaceName))
    BY <1>t, <2>2 DEF ScannerIInv, ScannerTypeOK, TodoOK, ScanResult
  <2>4. n \in DOMAIN settled.network_interfaces /\ item = settled.network_interfaces[n]
    BY <1>p, <1>s, <2>1, <2>2, <2>3, TurnDone DEF TodoIsRest
  <2>5. HasRow("network_interface", item, first_node)
    BY <1>h, <2>2, <2>4 DEF HoldsFrom
  <2> QED
    BY <1>4, <1>t, <2>1, <2>2, <2>5, InterfaceCall, UpsertOfKnown
<1>5. CASE StoreConfigFile
  <2>1. PICK file, n : file = Head(todo) /\ n = Len(result.config_files) - Len(todo) + 1
    OBVIOUS
  <2>2. Turn("configs") /\ step = "configs"
    BY <1>5 DEF StoreConfigFile, Turn
  <2>3. todo \in Seq(ConfigItem) /\ result.config_files \in Seq(ConfigItem)
    BY <1>t, <2>2 DEF ScannerIInv, ScannerTypeOK, TodoOK, ScanResult
  <2>4. n \in DOMAIN result.config_files /\ file = result.config_files[n]
    BY <1>p, <2>1, <2>2, <2>3, TurnDone DEF TodoIsRest
  <2>5. file \in Elements(settled.config_files)
    BY <1>s, <2>4 DEF Elements
  <2>6. HasRow("config_file", file, file.owner)
    BY <1>s, <2>5 DEF Holds, Elements
  <2>7. /\ file.key \in Key /\ file.value \in MaybeValue /\ file.owner \in Id
        /\ Upsert("config_file", "service", file.key, file.owner, Logged(file.value))
    BY <1>5, <1>t, <2>1, FileCall
  <2>8. file.owner \in Id \cup {Null} /\ file.owner # Null
    BY <2>7, StoreAssumption DEF Id
  <2> QED
    BY <1>t, <2>6, <2>7, <2>8, UpsertOfKnown
<1>6. CASE StoreDependency
  <2>1. PICK d, map, n : d = Head(todo) /\ map = service_name_map /\ n = Len(KnownDeps) - Len(todo) + 1
    OBVIOUS
  <2>2. Turn("dependencies") /\ step = "dependencies" /\ first_node # Null
    BY <1>6, <1>p DEF StoreDependency, Turn, HomeIsFirst
  <2>3. todo \in Seq(Name \X Name \X DepType) /\ KnownDeps \in Seq(Name \X Name \X DepType)
    BY <1>t, <2>2, ScannerAssumption DEF ScannerIInv, ScannerTypeOK, TodoOK
  <2>4. n \in DOMAIN KnownDeps /\ d = KnownDeps[n]
    BY <1>p, <2>1, <2>2, <2>3, TurnDone DEF TodoIsRest
  <2>5. CASE ~({d[1], d[2]} \subseteq DOMAIN map /\ map[d[1]] # map[d[2]])
    BY <1>6, <1>t, <2>1, <2>5, DependencyCall
  <2>6. CASE {d[1], d[2]} \subseteq DOMAIN map /\ map[d[1]] # map[d[2]]
    <3> DEFINE ks == DOMAIN settled.services
    <3>1. Done("services", result.services) = ks
      BY <1>s, <2>2 DEF Done, Later
    <3>2. /\ DOMAIN map = {NameOf[settled.services[k].key] : k \in ks}
          /\ \A m \in DOMAIN map :
               \E k \in ks :
                 /\ LastNamed(settled.services, ks, m, k)
                 /\ RowAt("service", map[m], settled.services[k].key, first_node)
      BY <1>p, <1>s, <2>1, <3>1 DEF MapIsLast
    <3>3. d[1] # d[2]
      BY <2>6
    <3>4. PICK a, b \in ks : \E s, t \in Ids("service") : \E i \in Ids("dependency") :
            /\ LastNamed(settled.services, ks, d[1], a)
            /\ LastNamed(settled.services, ks, d[2], b)
            /\ RowAt("service", s, settled.services[a].key, first_node)
            /\ RowAt("service", t, settled.services[b].key, first_node)
            /\ RowAt("dependency", i, <<t, d[3]>>, s)
      BY <1>h, <2>2, <2>4, <2>6, <3>2, <3>3 DEF HoldsFrom
    <3>5. PICK s, t \in Ids("service"), i \in Ids("dependency") :
            /\ LastNamed(settled.services, ks, d[1], a)
            /\ LastNamed(settled.services, ks, d[2], b)
            /\ RowAt("service", s, settled.services[a].key, first_node)
            /\ RowAt("service", t, settled.services[b].key, first_node)
            /\ RowAt("dependency", i, <<t, d[3]>>, s)
      BY <3>4
    <3>n. ks \subseteq Nat
      BY <1>s, <1>t DEF ScanResult
    <3>6. map[d[1]] = s
      <4>1. PICK k \in ks : /\ LastNamed(settled.services, ks, d[1], k)
                            /\ RowAt("service", map[d[1]], settled.services[k].key, first_node)
        BY <2>6, <3>2
      <4>2. k = a
        BY <3>5, <3>n, <4>1 DEF LastNamed
      <4> QED
        BY <1>t, <3>5, <4>1, <4>2, RowsAreOne DEF NullFindsNull
    <3>7. map[d[2]] = t
      <4>1. PICK k \in ks : /\ LastNamed(settled.services, ks, d[2], k)
                            /\ RowAt("service", map[d[2]], settled.services[k].key, first_node)
        BY <2>6, <3>2
      <4>2. k = b
        BY <3>5, <3>n, <4>1 DEF LastNamed
      <4> QED
        BY <1>t, <3>5, <4>1, <4>2, RowsAreOne DEF NullFindsNull
    <3>8. AddDependency(map[d[1]], map[d[2]], d[3]) /\ map[d[1]] # Null
      BY <1>6, <1>t, <2>1, <2>6, DependencyCall, StoreAssumption DEF Id
    <3>9. i \in Lookup("dependency", <<map[d[2]], d[3]>>, map[d[1]])
      BY <3>5, <3>6, <3>7, <3>8 DEF RowAt, Lookup
    <3> QED
      BY <3>8, <3>9 DEF AddDependency
  <2> QED
    BY <2>5, <2>6
<1> QED
  BY <1>1, <1>2, <1>3, <1>4, <1>5, <1>6 DEF StoreRow

------------------------------------------------------------------------------
\* A stored row carries the progress of the scan on.

LEMMA OtherTable ==
  ASSUME NEW d, rows'[d] = rows[d], NEW item, NEW o, HasRow(d, item, o)
  PROVE  HasRow(d, item, o)'
BY DEF HasRow, Ids

\* One more of a list that does not contradict itself is stored, and what was
\* stored of it stays.
LEMMA ListStored ==
  ASSUME TypeOK, NEW e \in Entity \ {"port"}, NEW t \in Entity, NEW owner \in Id \cup {Null},
         NEW list, NEW done \in SUBSET DOMAIN list, NEW n \in DOMAIN list, Agree(list),
         list[n].key \in Key, list[n].value \in MaybeValue,
         Upsert(e, t, list[n].key, owner, Logged(list[n].value)),
         \A k \in done : HasRow(e, list[k], owner)
  PROVE  \A k \in done \cup {n} : HasRow(e, list[k], owner)'
<1>1. HasRow(e, list[n], owner)'
  BY UpsertStoresItem
<1>2. ASSUME NEW k \in done
      PROVE  HasRow(e, list[k], owner)'
  <2>1. list[k].key = list[n].key /\ Null \notin {list[k].value, list[n].value} =>
          list[k].value = list[n].value
    BY DEF Agree
  <2> QED
    BY <2>1, UpsertKeepsItem
<1> QED
  BY <1>1, <1>2

\* What has to be shown of the next map.
LEMMA NextMapIsLast ==
  ASSUME NEW list, NEW ks, NEW map, NEW home,
         list = result'.services, ks = Done("services", result.services)',
         map = service_name_map', home = first_node',
         DOMAIN map = {NameOf[list[k].key] : k \in ks},
         \A n \in DOMAIN map : \E k \in ks :
           LastNamed(list, ks, n, k) /\ RowAt("service", map[n], list[k].key, home)'
  PROVE  MapIsLast'
<1>1. ASSUME NEW n \in DOMAIN map
      PROVE  \E k \in ks :
               /\ LastNamed(list, ks, n, k)
               /\ map[n] \in Ids("service")'
               /\ rows'["service"][map[n]].key = list[k].key
               /\ rows'["service"][map[n]].owner = home
  BY DEF RowAt
<1>2. DOMAIN service_name_map' =
        {NameOf[result'.services[k].key] : k \in Done("services", result.services)'}
  OBVIOUS
<1>3. ASSUME NEW n \in DOMAIN service_name_map'
      PROVE  \E k \in Done("services", result.services)' :
               /\ LastNamed(result'.services, Done("services", result.services)', n, k)
               /\ service_name_map'[n] \in Ids("service")'
               /\ rows'["service"][service_name_map'[n]].key = result'.services[k].key
               /\ rows'["service"][service_name_map'[n]].owner = first_node'
  BY <1>1
<1> QED
  BY <1>2, <1>3 DEF MapIsLast, RowAt

\* The map stays what it is while rows and services stay.
LEMMA MapStays ==
  ASSUME MapIsLast, rows' = rows, result'.services = result.services,
         UNCHANGED <<first_node, service_name_map>>,
         Done("services", result.services)' = Done("services", result.services)
  PROVE  MapIsLast'
<1>1. PICK list, ks, map, home :
        /\ list = result.services /\ ks = Done("services", result.services)
        /\ map = service_name_map /\ home = first_node
  OBVIOUS
<1>2. DOMAIN map = {NameOf[list[k].key] : k \in ks}
  BY <1>1 DEF MapIsLast
<1>3. ASSUME NEW n \in DOMAIN map
      PROVE  \E k \in ks :
               LastNamed(list, ks, n, k) /\ RowAt("service", map[n], list[k].key, home)'
  <2>1. PICK k \in ks :
          LastNamed(list, ks, n, k) /\ RowAt("service", map[n], list[k].key, home)
    BY <1>1 DEF MapIsLast
  <2>2. RowAt("service", map[n], list[k].key, home)'
    BY <2>1 DEF RowAt, Ids
  <2> QED
    BY <2>1, <2>2
<1>4. /\ list = result'.services /\ ks = Done("services", result.services)'
      /\ map = service_name_map' /\ home = first_node'
  BY <1>1
<1> QED
  BY <1>2, <1>3, <1>4, NextMapIsLast

LEMMA NodeProgress ==
  ASSUME ScannerIInv, Progress, StoreNode
  PROVE  Progress'
<1>1. /\ Turn("nodes") /\ step = "nodes" /\ step' = "nodes" /\ todo # << >> /\ todo' = Tail(todo)
      /\ result' = result /\ configs_left' = configs_left
      /\ service_name_map' = service_name_map
  BY DEF StoreNode, Turn
<1>p. /\ TodoIsRest /\ ResultAgrees /\ HomeIsFirst /\ StoredSoFar
      /\ MapIsLast /\ FilesHaveOwners /\ DependenciesSoFar
  BY <1>1 DEF Progress
<1>t. /\ TypeOK /\ Null \in Id \cup {Null} /\ "node" \in Entity \ {"port"}
      /\ todo \in Seq(Item(Hostname)) /\ result.nodes \in Seq(Item(Hostname))
  BY <1>1 DEF ScannerIInv, ScannerTypeOK, TodoOK, ScanResult, IInv, Entity
<1>2. PICK list, item, n : /\ list = result.nodes /\ item = Head(todo)
                           /\ n = Len(list) - Len(todo) + 1
  OBVIOUS
<1>3. /\ item.key \in Key /\ item.value \in MaybeValue
      /\ Upsert("node", "node", item.key, Null, Logged(item.value))
  BY <1>2, NodeCall
<1>4. /\ n \in DOMAIN list /\ item = list[n] /\ RestOf(list)'
      /\ Done("nodes", list)' = Done("nodes", list) \cup {n}
      /\ Done("nodes", list) \subseteq DOMAIN list
  BY <1>1, <1>2, <1>p, <1>t, TurnDone DEF TodoIsRest
<1>5. \A k \in Done("nodes", list)' : HasRow("node", list[k], Null)'
  <2>0. PICK done : done = Done("nodes", list)
    OBVIOUS
  <2>1. done \in SUBSET DOMAIN list /\ \A k \in done : HasRow("node", list[k], Null)
    BY <1>2, <1>4, <1>p, <2>0 DEF StoredSoFar
  <2>2. Agree(list)
    BY <1>2, <1>p DEF ResultAgrees
  <2>3. /\ list[n].key \in Key /\ list[n].value \in MaybeValue
        /\ Upsert("node", "node", list[n].key, Null, Logged(list[n].value))
    BY <1>3, <1>4
  <2>4. \A k \in done \cup {n} : HasRow("node", list[k], Null)'
    BY <1>4, <1>t, <2>1, <2>2, <2>3, ListStored
  <2> QED
    BY <1>4, <2>0, <2>4
<1>6. TodoIsRest'
  BY <1>1, <1>2, <1>4 DEF TodoIsRest, RestOf
<1>7. ResultAgrees'
  BY <1>1, <1>p DEF ResultAgrees, Agree
<1>8. HomeIsFirst'
  <2>1. CASE first_node = Null
    <3>1. item.key = result.nodes[1].key
      BY <1>1, <1>2, <1>p, <1>t, <2>1 DEF HomeIsFirst
    <3>2. PICK id : id = StoredId("node", item.key, Null)
      OBVIOUS
    <3>3. RowAt("node", id, item.key, Null)'
      BY <1>3, <1>t, <3>2, StoredIdIsRow
    <3>4. first_node' = id
      BY <1>2, <2>1, <3>2 DEF StoreNode
    <3>5. first_node' # Null
      <4>1. StoredId("node", item.key, Null) \in Id
        BY <1>3, <1>t, UpsertStores
      <4> QED
        BY <3>2, <3>4, <4>1, StoreAssumption DEF Id
    <3> QED
      BY <1>1, <3>1, <3>3, <3>4, <3>5 DEF HomeIsFirst, RowAt, Ids
  <2>2. CASE first_node # Null
    <3>1. PICK id, key : id = first_node /\ key = result.nodes[1].key
      OBVIOUS
    <3>2. RowAt("node", id, key, Null)
      BY <1>p, <2>2, <3>1 DEF HomeIsFirst
    <3>3. RowAt("node", id, key, Null)'
      BY <1>p, <1>t, <3>2, RowsStay DEF StoreRow
    <3>4. first_node' = id
      BY <2>2, <3>1 DEF StoreNode
    <3> QED
      BY <1>1, <2>2, <3>1, <3>3, <3>4 DEF HomeIsFirst, RowAt, Ids
  <2> QED
    BY <2>1, <2>2
<1>9. StoredSoFar'
  <2>1. \A k \in Done("nodes", result.nodes)' : HasRow("node", result.nodes[k], Null)'
    BY <1>1, <1>2, <1>5 DEF HasRow, Done, Ids
  <2>2. /\ Done("services", result.services)' = {}
        /\ Done("interfaces", result.network_interfaces)' = {}
        /\ Done("configs", result.config_files)' = {}
    BY <1>1 DEF Done, Later
  <2> QED
    BY <2>1, <2>2 DEF StoredSoFar
<1>10. MapIsLast'
  <2>1. Done("services", result.services) = {} /\ Done("services", result.services)' = {}
    BY <1>1 DEF Done, Later
  <2>2. DOMAIN service_name_map = {}
    BY <1>p, <2>1 DEF MapIsLast
  <2> QED
    BY <1>1, <2>1, <2>2 DEF MapIsLast
<1>11. FilesHaveOwners'
  BY <1>1, <1>p DEF FilesHaveOwners
<1>12. DependenciesSoFar'
  <2>1. Done("dependencies", KnownDeps)' = {}
    BY <1>1 DEF Done, Later
  <2> QED
    BY <2>1 DEF DependenciesSoFar
<1> QED
  BY <1>6, <1>7, <1>8, <1>9, <1>10, <1>11, <1>12 DEF Progress

LEMMA ServiceProgress ==
  ASSUME ScannerIInv, Progress, StoreService
  PROVE  Progress'
<1>1. /\ Turn("services") /\ step = "services" /\ step' = "services" /\ todo' = Tail(todo)
      /\ result' = result /\ configs_left' = configs_left /\ first_node' = first_node
  BY DEF StoreService, Turn
<1>p. /\ TodoIsRest /\ ResultAgrees /\ HomeIsFirst /\ StoredSoFar
      /\ MapIsLast /\ FilesHaveOwners /\ DependenciesSoFar
  BY <1>1 DEF Progress
<1>t. /\ TypeOK /\ {"node", "service"} \subseteq Entity \ {"port"}
      /\ todo \in Seq(Item(ServiceKey)) /\ result.services \in Seq(Item(ServiceKey))
      /\ first_node \in Id /\ first_node # Null
  BY <1>1, <1>p DEF ScannerIInv, ScannerTypeOK, TodoOK, ScanResult, IInv, Entity, HomeIsFirst
<1>2. PICK list, item, n, home : /\ list = result.services /\ item = Head(todo)
                                 /\ n = Len(list) - Len(todo) + 1 /\ home = first_node
  OBVIOUS
<1>3. /\ item.key \in Key /\ item.value \in MaybeValue /\ home \in Id \cup {Null}
      /\ Upsert("service", "node", item.key, home, Logged(item.value))
  BY <1>2, <1>t, ServiceCall
<1>4. /\ n \in DOMAIN list /\ item = list[n] /\ RestOf(list)'
      /\ Done("services", list)' = Done("services", list) \cup {n}
      /\ Done("services", list) \subseteq DOMAIN list
      /\ \A k \in Done("services", list) : k < n
  BY <1>1, <1>2, <1>p, <1>t, TurnDone DEF TodoIsRest
<1> DEFINE done == Done("services", list)
<1>5. \A k \in done \cup {n} : HasRow("service", list[k], home)'
  <2>1. \A k \in done : HasRow("service", list[k], home)
    BY <1>2, <1>p DEF StoredSoFar
  <2>2. Agree(list)
    BY <1>2, <1>p DEF ResultAgrees
  <2>3. /\ list[n].key \in Key /\ list[n].value \in MaybeValue /\ home \in Id \cup {Null}
        /\ Upsert("service", "node", list[n].key, home, Logged(list[n].value))
    BY <1>3, <1>4
  <2>4. done \in SUBSET DOMAIN list
    BY <1>4
  <2> HIDE DEF done
  <2> QED
    BY <1>4, <1>t, <2>1, <2>2, <2>3, <2>4, ListStored
<1>6. TodoIsRest'
  BY <1>1, <1>2, <1>4 DEF TodoIsRest, RestOf
<1>7. ResultAgrees'
  BY <1>1, <1>p DEF ResultAgrees, Agree
<1>8. HomeIsFirst'
  <2>1. PICK key : key = result.nodes[1].key
    OBVIOUS
  <2>2. RowAt("node", home, key, Null)
    BY <1>2, <1>p, <1>t, <2>1 DEF HomeIsFirst
  <2>3. RowAt("node", home, key, Null)'
    BY <1>p, <1>t, <2>2, RowsStay DEF StoreRow
  <2> QED
    BY <1>1, <1>2, <1>t, <2>1, <2>3 DEF HomeIsFirst, RowAt, Ids
<1>9. StoredSoFar'
  <2>1. PICK nodes : nodes = result.nodes
    OBVIOUS
  <2>2. \A k \in Done("nodes", nodes) : HasRow("node", nodes[k], Null)'
    <3>1. rows'["node"] = rows["node"]
      <4>1. \A d \in Entity \ {"service"} : rows'[d] = rows[d]
        BY <1>3, <1>t, UpsertRows
      <4> QED
        BY <1>t, <4>1
    <3> QED
      BY <1>p, <2>1, <3>1, OtherTable DEF StoredSoFar
  <2>3. Done("nodes", nodes)' = Done("nodes", nodes)
    BY <1>1, OthersDone
  <2>4. \A k \in Done("nodes", result.nodes)' : HasRow("node", result.nodes[k], Null)'
    BY <1>1, <2>1, <2>2, <2>3 DEF HasRow, Done, Ids
  <2>5. \A k \in Done("services", result.services)' :
          HasRow("service", result.services[k], first_node)'
    BY <1>1, <1>2, <1>4, <1>5 DEF HasRow, Done, Ids
  <2>6. /\ Done("interfaces", result.network_interfaces)' = {}
        /\ Done("configs", result.config_files)' = {}
    BY <1>1 DEF Done, Later
  <2> QED
    BY <2>4, <2>5, <2>6 DEF StoredSoFar
<1>10. MapIsLast'
  <2>1. PICK map, map2, id : /\ map = service_name_map /\ map2 = service_name_map'
                             /\ id = StoredId("service", item.key, home)
    OBVIOUS
  <2>2. PICK name : name = NameOf[item.key]
    OBVIOUS
  <2>3. map2 = [m \in DOMAIN map \cup {name} |-> IF m = name THEN id ELSE map[m]]
    BY <1>2, <2>1, <2>2 DEF StoreService, HomeOf
  <2>4. /\ DOMAIN map = {NameOf[list[k].key] : k \in done}
        /\ \A m \in DOMAIN map :
             \E k \in done : /\ LastNamed(list, done, m, k)
                             /\ RowAt("service", map[m], list[k].key, home)
    BY <1>2, <1>p, <2>1 DEF MapIsLast
  <2>5. DOMAIN map2 = {NameOf[list[k].key] : k \in done \cup {n}}
    BY <1>4, <2>2, <2>3, <2>4
  <2>6. ASSUME NEW m \in DOMAIN map2
        PROVE  \E k \in done \cup {n} : /\ LastNamed(list, done \cup {n}, m, k)
                                        /\ RowAt("service", map2[m], list[k].key, home)'
    <3>1. CASE m = name
      <4>1. RowAt("service", id, item.key, home)'
        BY <1>3, <1>t, <2>1, StoredIdIsRow
      <4>2. LastNamed(list, done \cup {n}, m, n)
        <5>1. n \in Nat /\ \A k \in done : k \in Nat
          BY <1>2, <1>4, <1>t
        <5> QED
          BY <1>4, <2>2, <3>1, <5>1 DEF LastNamed
      <4> QED
        BY <1>4, <2>3, <3>1, <4>1, <4>2
    <3>2. CASE m # name
      <4>1. m \in DOMAIN map /\ map2[m] = map[m]
        BY <2>3, <3>2
      <4>2. PICK k \in done : /\ LastNamed(list, done, m, k)
                              /\ RowAt("service", map[m], list[k].key, home)
        BY <2>4, <4>1
      <4>3. LastNamed(list, done \cup {n}, m, k)
        BY <1>4, <2>2, <3>2, <4>2 DEF LastNamed
      <4>4. PICK i : i = map[m]
        OBVIOUS
      <4>5. RowAt("service", i, list[k].key, home)'
        BY <1>p, <1>t, <4>2, <4>4, RowsStay DEF StoreRow
      <4> QED
        BY <4>1, <4>3, <4>4, <4>5
    <3> QED
      BY <3>1, <3>2
  <2>7. Done("services", result.services)' = done \cup {n}
    BY <1>1, <1>2, <1>4 DEF Done
  <2> HIDE DEF done
  <2>8. PICK ks : ks = done \cup {n}
    OBVIOUS
  <2>9. list = result'.services /\ map2 = service_name_map' /\ home = first_node'
    BY <1>1, <1>2, <2>1
  <2>10. ks = Done("services", result.services)'
    BY <2>7, <2>8
  <2>11. DOMAIN map2 = {NameOf[list[k].key] : k \in ks}
    BY <2>5, <2>8
  <2>12. \A m \in DOMAIN map2 : \E k \in ks :
           LastNamed(list, ks, m, k) /\ RowAt("service", map2[m], list[k].key, home)'
    BY <2>6, <2>8
  <2> QED
    BY <2>9, <2>10, <2>11, <2>12, NextMapIsLast
<1>11. FilesHaveOwners'
  BY <1>1, <1>p DEF FilesHaveOwners
<1>12. DependenciesSoFar'
  <2>1. Done("dependencies", KnownDeps)' = {}
    BY <1>1 DEF Done, Later
  <2> QED
    BY <2>1 DEF DependenciesSoFar
<1> QED
  BY <1>6, <1>7, <1>8, <1>9, <1>10, <1>11, <1>12 DEF Progress

\* The loops after the services leave the map and the home as they are.
LEMMA LateRowKeeps ==
  ASSUME ScannerIInv, Progress, StorePort \/ StoreInterface \/ StoreConfigFile \/ StoreDependency
  PROVE  /\ ResultAgrees' /\ HomeIsFirst' /\ MapIsLast' /\ FilesHaveOwners'
         /\ step # "dependencies" => DependenciesSoFar'
<1>1. PICK loop \in {"ports", "interfaces", "configs", "dependencies"} : Turn(loop)
  BY DEF StorePort, StoreInterface, StoreConfigFile, StoreDependency
<1>2. /\ step = loop /\ step' = step /\ result' = result /\ configs_left' = configs_left
      /\ UNCHANGED <<first_node, service_name_map>>
  BY <1>1 DEF Turn, StorePort, StoreInterface, StoreConfigFile, StoreDependency
<1>p. ResultAgrees /\ HomeIsFirst /\ MapIsLast /\ FilesHaveOwners
  BY <1>2 DEF Progress
<1>t. first_node # Null /\ "node" \in Entity /\ "service" \in Entity
  BY <1>1, <1>2, <1>p DEF HomeIsFirst, Entity
<1>r. ASSUME NEW e \in Entity, NEW i, NEW key, NEW owner, RowAt(e, i, key, owner)
      PROVE  RowAt(e, i, key, owner)'
  BY <1>p, <1>r, RowsStay DEF StoreRow
<1>3. ResultAgrees'
  BY <1>2, <1>p DEF ResultAgrees, Agree
<1>4. PICK home, map, list, key :
        /\ home = first_node /\ map = service_name_map
        /\ list = result.services /\ key = result.nodes[1].key
  OBVIOUS
<1>5. HomeIsFirst'
  <2>1. RowAt("node", home, key, Null)
    BY <1>4, <1>p, <1>t DEF HomeIsFirst
  <2>2. RowAt("node", home, key, Null)'
    BY <1>r, <1>t, <2>1
  <2> QED
    BY <1>2, <1>4, <1>t, <2>2 DEF HomeIsFirst, RowAt, Ids
<1>6. MapIsLast'
  <2>1. PICK ks : ks = Done("services", list)
    OBVIOUS
  <2>2. /\ DOMAIN map = {NameOf[list[k].key] : k \in ks}
        /\ \A n \in DOMAIN map : \E k \in ks : /\ LastNamed(list, ks, n, k)
                                               /\ RowAt("service", map[n], list[k].key, home)
    BY <1>4, <1>p, <2>1 DEF MapIsLast
  <2>3. \A n \in DOMAIN map : \E k \in ks : /\ LastNamed(list, ks, n, k)
                                            /\ RowAt("service", map[n], list[k].key, home)'
    <3> TAKE n \in DOMAIN map
    <3>1. PICK k \in ks : /\ LastNamed(list, ks, n, k)
                          /\ RowAt("service", map[n], list[k].key, home)
      BY <2>2
    <3>2. RowAt("service", map[n], list[k].key, home)'
      BY <1>r, <1>t, <3>1
    <3> QED
      BY <3>1, <3>2
  <2>4. Done("services", list)' = ks
    BY <1>1, <2>1, OthersDone
  <2>5. Done("services", result.services)' = ks
    BY <1>2, <1>4, <2>4 DEF Done
  <2> QED
    BY <1>2, <1>4, <2>1, <2>2, <2>3, <2>5, NextMapIsLast
<1>7. FilesHaveOwners'
  BY <1>2, <1>p DEF FilesHaveOwners
<1>8. ASSUME step # "dependencies"
      PROVE  DependenciesSoFar'
  <2>1. Done("dependencies", KnownDeps)' = {}
    BY <1>2, <1>8 DEF Done, Later
  <2> QED
    BY <2>1 DEF DependenciesSoFar
<1> QED
  BY <1>3, <1>5, <1>6, <1>7, <1>8

\* What an earlier loop stored in a table that this one leaves alone stays.
LEMMA ListStays ==
  ASSUME NEW loop, Turn(loop), NEW earlier, earlier # loop, NEW e, rows'[e] = rows[e],
         NEW list, NEW owner, \A k \in Done(earlier, list) : HasRow(e, list[k], owner)
  PROVE  \A k \in Done(earlier, list)' : HasRow(e, list[k], owner)'
BY OthersDone, OtherTable

LEMMA NodesAndServicesStay ==
  ASSUME Progress, NEW loop, Turn(loop), loop \notin {"nodes", "services", "sleeping"},
         rows'["node"] = rows["node"], rows'["service"] = rows["service"],
         first_node' = first_node
  PROVE  /\ \A k \in Done("nodes", result.nodes)' : HasRow("node", result.nodes[k], Null)'
         /\ \A k \in Done("services", result.services)' :
              HasRow("service", result.services[k], first_node)'
<1>1. StoredSoFar /\ result' = result
  BY DEF Turn, Progress
<1>2. PICK nodes, services, home :
        nodes = result.nodes /\ services = result.services /\ home = first_node
  OBVIOUS
<1>3. \A k \in Done("nodes", nodes)' : HasRow("node", nodes[k], Null)'
  BY <1>1, <1>2, ListStays DEF StoredSoFar
<1>4. \A k \in Done("services", services)' : HasRow("service", services[k], home)'
  BY <1>1, <1>2, ListStays DEF StoredSoFar
<1>5. \A k \in Done("nodes", result.nodes)' : HasRow("node", result.nodes[k], Null)'
  BY <1>1, <1>2, <1>3 DEF HasRow, Done, Ids
<1>6. \A k \in Done("services", result.services)' :
        HasRow("service", result.services[k], first_node)'
  BY <1>1, <1>2, <1>4 DEF HasRow, Done, Ids
<1> QED
  BY <1>5, <1>6

LEMMA InterfacesStay ==
  ASSUME Progress, NEW loop, Turn(loop), loop \notin {"interfaces", "sleeping"},
         rows'["network_interface"] = rows["network_interface"], first_node' = first_node
  PROVE  \A k \in Done("interfaces", result.network_interfaces)' :
           HasRow("network_interface", result.network_interfaces[k], first_node)'
<1>1. StoredSoFar /\ result' = result
  BY DEF Turn, Progress
<1>2. PICK list, home : list = result.network_interfaces /\ home = first_node
  OBVIOUS
<1>3. \A k \in Done("interfaces", list)' : HasRow("network_interface", list[k], home)'
  BY <1>1, <1>2, ListStays DEF StoredSoFar
<1> QED
  BY <1>1, <1>2, <1>3 DEF HasRow, Done, Ids

LEMMA FilesStay ==
  ASSUME Progress, NEW loop, Turn(loop), loop \notin {"configs", "sleeping"},
         rows'["config_file"] = rows["config_file"]
  PROVE  \A k \in Done("configs", result.config_files)' :
           HasRow("config_file", result.config_files[k], result.config_files[k].owner)'
<1>1. StoredSoFar /\ result' = result
  BY DEF Turn, Progress
<1>2. PICK list : list = result.config_files
  OBVIOUS
<1>3. \A k \in Done("configs", list)' : HasRow("config_file", list[k], list[k].owner)'
  BY <1>1, <1>2, OthersDone, OtherTable DEF StoredSoFar
<1> QED
  BY <1>1, <1>2, <1>3 DEF HasRow, Done, Ids

LEMMA PortProgress ==
  ASSUME ScannerIInv, Progress, StorePort
  PROVE  Progress'
<1>1. Turn("ports") /\ step' = "ports" /\ step = "ports" /\ first_node' = first_node
  BY DEF StorePort, Turn
<1>2. rows' = rows
  BY PortCall DEF vars
<1>3. TodoIsRest'
  BY <1>1 DEF TodoIsRest
<1>4. StoredSoFar'
  BY <1>1, <1>2, NodesAndServicesStay, InterfacesStay, FilesStay DEF StoredSoFar
<1> QED
  BY <1>1, <1>3, <1>4, LateRowKeeps DEF Progress

LEMMA InterfaceProgress ==
  ASSUME ScannerIInv, Progress, StoreInterface
  PROVE  Progress'
<1>1. /\ Turn("interfaces") /\ step = "interfaces" /\ step' = "interfaces"
      /\ todo' = Tail(todo) /\ result' = result /\ first_node' = first_node
  BY DEF StoreInterface, Turn
<1>p. TodoIsRest /\ ResultAgrees /\ HomeIsFirst /\ StoredSoFar
  BY <1>1 DEF Progress
<1>t. /\ TypeOK /\ {"network_interface", "node"} \subseteq Entity \ {"port"}
      /\ {"node", "service", "config_file"} \subseteq Entity \ {"network_interface"}
      /\ todo \in Seq(Item(InterfaceName))
      /\ result.network_interfaces \in Seq(Item(InterfaceName))
      /\ first_node \in Id /\ first_node # Null
  BY <1>1, <1>p DEF ScannerIInv, ScannerTypeOK, TodoOK, ScanResult, IInv, Entity, HomeIsFirst
<1>2. PICK list, item, n, home : /\ list = result.network_interfaces /\ item = Head(todo)
                                 /\ n = Len(list) - Len(todo) + 1 /\ home = first_node
  OBVIOUS
<1>3. /\ item.key \in Key /\ item.value \in MaybeValue /\ home \in Id \cup {Null}
      /\ Upsert("network_interface", "node", item.key, home, Logged(item.value))
  BY <1>2, <1>t, InterfaceCall
<1>4. /\ n \in DOMAIN list /\ item = list[n] /\ RestOf(list)'
      /\ Done("interfaces", list)' = Done("interfaces", list) \cup {n}
      /\ Done("interfaces", list) \subseteq DOMAIN list
  BY <1>1, <1>2, <1>p, <1>t, TurnDone DEF TodoIsRest
<1>5. \A k \in Done("interfaces", list)' : HasRow("network_interface", list[k], home)'
  <2>1. \A k \in Done("interfaces", list) : HasRow("network_interface", list[k], home)
    BY <1>2, <1>p DEF StoredSoFar
  <2>2. Agree(list)
    BY <1>2, <1>p DEF ResultAgrees
  <2> QED
    BY <1>3, <1>4, <1>t, <2>1, <2>2, ListStored, SMTT(20)
<1>6. TodoIsRest'
  BY <1>1, <1>2, <1>4 DEF TodoIsRest, RestOf
<1>7. \A d \in Entity \ {"network_interface"} : rows'[d] = rows[d]
  BY <1>3, <1>t, UpsertRows
<1>8. StoredSoFar'
  <2>1. /\ rows'["node"] = rows["node"] /\ rows'["service"] = rows["service"]
        /\ rows'["config_file"] = rows["config_file"]
    BY <1>7, <1>t
  <2>2. \A k \in Done("interfaces", result.network_interfaces)' :
          HasRow("network_interface", result.network_interfaces[k], first_node)'
    BY <1>1, <1>2, <1>5 DEF HasRow, Done, Ids
  <2> QED
    BY <1>1, <2>1, <2>2, NodesAndServicesStay, FilesStay DEF StoredSoFar
<1> QED
  BY <1>1, <1>6, <1>8, LateRowKeeps DEF Progress

LEMMA FileProgress ==
  ASSUME ScannerIInv, Progress, StoreConfigFile
  PROVE  Progress'
<1>1. /\ Turn("configs") /\ step = "configs" /\ step' = "configs"
      /\ todo' = Tail(todo) /\ result' = result /\ first_node' = first_node
  BY DEF StoreConfigFile, Turn
<1>p. TodoIsRest /\ ResultAgrees /\ StoredSoFar
  BY <1>1 DEF Progress
<1>t. /\ TypeOK /\ {"config_file", "service"} \subseteq Entity \ {"port"}
      /\ {"node", "service", "network_interface"} \subseteq Entity \ {"config_file"}
      /\ todo \in Seq(ConfigItem) /\ result.config_files \in Seq(ConfigItem)
  BY <1>1 DEF ScannerIInv, ScannerTypeOK, TodoOK, ScanResult, IInv, Entity
<1>2. PICK list, file, n : /\ list = result.config_files /\ file = Head(todo)
                           /\ n = Len(list) - Len(todo) + 1
  OBVIOUS
<1>3. /\ file.key \in Key /\ file.value \in MaybeValue /\ file.owner \in Id \cup {Null}
      /\ Upsert("config_file", "service", file.key, file.owner, Logged(file.value))
  BY <1>2, FileCall
<1>4. /\ n \in DOMAIN list /\ file = list[n] /\ RestOf(list)'
      /\ Done("configs", list)' = Done("configs", list) \cup {n}
      /\ Done("configs", list) \subseteq DOMAIN list
  BY <1>1, <1>2, <1>p, <1>t, TurnDone DEF TodoIsRest
<1>5. \A k \in Done("configs", list)' : HasRow("config_file", list[k], list[k].owner)'
  <2>1. HasRow("config_file", list[n], list[n].owner)'
    BY <1>3, <1>4, <1>t, UpsertStoresItem
  <2>2. ASSUME NEW k \in Done("configs", list)
        PROVE  HasRow("config_file", list[k], list[k].owner)'
    <3>1. HasRow("config_file", list[k], list[k].owner)
      BY <1>2, <1>p DEF StoredSoFar
    <3>2. list[k].key = file.key /\ list[k].owner = file.owner
            /\ Null \notin {list[k].value, file.value} => list[k].value = file.value
      BY <1>2, <1>4, <1>p DEF ResultAgrees
    <3> QED
      BY <1>3, <1>t, <3>1, <3>2, UpsertKeepsItem, SMTT(20)
  <2> QED
    BY <1>4, <2>1, <2>2
<1>6. TodoIsRest'
  BY <1>1, <1>2, <1>4 DEF TodoIsRest, RestOf
<1>7. \A d \in Entity \ {"config_file"} : rows'[d] = rows[d]
  BY <1>3, <1>t, UpsertRows
<1>8. StoredSoFar'
  <2>1. /\ rows'["node"] = rows["node"] /\ rows'["service"] = rows["service"]
        /\ rows'["network_interface"] = rows["network_interface"]
    BY <1>7, <1>t
  <2>2. \A k \in Done("configs", result.config_files)' :
          HasRow("config_file", result.config_files[k], result.config_files[k].owner)'
    BY <1>1, <1>2, <1>5 DEF HasRow, Done, Ids
  <2> QED
    BY <1>1, <2>1, <2>2, NodesAndServicesStay, InterfacesStay DEF StoredSoFar
<1> QED
  BY <1>1, <1>6, <1>8, LateRowKeeps DEF Progress

LEMMA DependencyProgress ==
  ASSUME ScannerIInv, Progress, StoreDependency
  PROVE  Progress'
<1>1. /\ Turn("dependencies") /\ step = "dependencies" /\ step' = "dependencies"
      /\ todo' = Tail(todo) /\ result' = result
      /\ first_node' = first_node /\ service_name_map' = service_name_map
  BY DEF StoreDependency, Turn
<1>p. TodoIsRest /\ HomeIsFirst /\ DependenciesSoFar
  BY <1>1 DEF Progress
<1>t. /\ TypeOK /\ {"dependency", "service"} \subseteq Entity \ {"port"} /\ Null \in MaybeValue
      /\ {"node", "service", "network_interface", "config_file"} \subseteq Entity \ {"dependency"}
      /\ todo \in Seq(Name \X Name \X DepType)
  BY <1>1 DEF ScannerIInv, ScannerTypeOK, TodoOK, IInv, Entity, MaybeValue
<1>2. PICK d, map, n : /\ d = Head(todo) /\ map = service_name_map
                       /\ n = Len(KnownDeps) - Len(todo) + 1
  OBVIOUS
<1>3. IF {d[1], d[2]} \subseteq DOMAIN map /\ map[d[1]] # map[d[2]]
      THEN /\ map[d[1]] \in Id /\ map[d[2]] \in Id /\ <<map[d[2]], d[3]>> \in Key
           /\ AddDependency(map[d[1]], map[d[2]], d[3])
      ELSE UNCHANGED vars
  BY <1>2, DependencyCall
<1>4. /\ n \in DOMAIN KnownDeps /\ d = KnownDeps[n] /\ RestOf(KnownDeps)'
      /\ Done("dependencies", KnownDeps)' = Done("dependencies", KnownDeps) \cup {n}
  BY <1>1, <1>2, <1>p, <1>t, ScannerAssumption, TurnDone DEF TodoIsRest
<1>5. TodoIsRest'
  BY <1>1, <1>4 DEF TodoIsRest
<1>6. /\ \A e \in Entity \ {"dependency"} : rows'[e] = rows[e]
      /\ {d[1], d[2]} \subseteq DOMAIN map /\ map[d[1]] # map[d[2]] =>
           \E i : RowAt("dependency", i, <<map[d[2]], d[3]>>, map[d[1]])'
  <2>1. CASE UNCHANGED vars
    <3>1. rows' = rows
      BY <2>1 DEF vars
    <3>2. ASSUME {d[1], d[2]} \subseteq DOMAIN map, map[d[1]] # map[d[2]]
          PROVE  \E i : RowAt("dependency", i, <<map[d[2]], d[3]>>, map[d[1]])
      <4>1. AddDependency(map[d[1]], map[d[2]], d[3])
        BY <1>3, <3>2
      <4>2. last_id' = last_id
        BY <2>1 DEF vars
      <4>3. last_id \in [Entity -> 0 .. MaxId] /\ last_id["dependency"] \in Nat
        BY <1>t, StoreAssumption DEF TypeOK
      <4>4. Lookup("dependency", <<map[d[2]], d[3]>>, map[d[1]]) # {}
        <5>1. ASSUME Insert("dependency", <<map[d[2]], d[3]>>, map[d[1]], Logged(Null))
              PROVE  FALSE
          <6>1. last_id'["dependency"] = last_id["dependency"] + 1
            BY <1>t, <4>3, <5>1 DEF Insert, UseId
          <6> QED
            BY <4>2, <4>3, <6>1
        <5> QED
          BY <4>1, <5>1 DEF AddDependency
      <4> QED
        BY <4>4 DEF Lookup, RowAt
    <3> QED
      BY <3>1, <3>2 DEF RowAt, Ids
  <2>2. CASE ~UNCHANGED vars
    <3>0. PICK key, owner : key = <<map[d[2]], d[3]>> /\ owner = map[d[1]]
      OBVIOUS
    <3>1. /\ owner \in Id \cup {Null} /\ key \in Key
          /\ AddDependency(map[d[1]], map[d[2]], d[3])
      BY <1>3, <2>2, <3>0
    <3>2. Upsert("dependency", "service", key, owner, Logged(Null))
      BY <2>2, <3>0, <3>1, AddDependencyIsUpsert
    <3>3. \A e \in Entity \ {"dependency"} : rows'[e] = rows[e]
      BY <1>t, <3>1, <3>2, UpsertRows
    <3>4. \E i \in DOMAIN rows'["dependency"] :
            rows'["dependency"][i].key = key /\ rows'["dependency"][i].owner = owner
      BY <1>t, <3>1, <3>2, UpsertRows
    <3> QED
      BY <3>0, <3>3, <3>4 DEF RowAt, Ids
  <2> QED
    BY <2>1, <2>2
<1>7. StoredSoFar'
  <2>1. /\ rows'["node"] = rows["node"] /\ rows'["service"] = rows["service"]
        /\ rows'["network_interface"] = rows["network_interface"]
        /\ rows'["config_file"] = rows["config_file"]
    BY <1>6, <1>t
  <2> QED
    BY <1>1, <2>1, NodesAndServicesStay, InterfacesStay, FilesStay DEF StoredSoFar
<1>8. DependenciesSoFar'
  <2>1. ASSUME NEW k \in Done("dependencies", KnownDeps) \cup {n}, NEW c, c = KnownDeps[k],
               {c[1], c[2]} \subseteq DOMAIN map, map[c[1]] # map[c[2]]
        PROVE  \E i : RowAt("dependency", i, <<map[c[2]], c[3]>>, map[c[1]])'
    <3>1. CASE k = n
      BY <1>4, <1>6, <2>1, <3>1
    <3>2. CASE k \in Done("dependencies", KnownDeps)
      <4>1. PICK i : RowAt("dependency", i, <<map[c[2]], c[3]>>, map[c[1]])
        BY <1>2, <1>p, <2>1, <3>2 DEF DependenciesSoFar
      <4> QED
        BY <1>p, <1>t, <4>1, RowsStay DEF StoreRow
    <3> QED
      BY <3>1, <3>2
  <2> QED
    BY <1>1, <1>2, <1>4, <2>1 DEF DependenciesSoFar, RowAt, Ids
<1> QED
  BY <1>1, <1>5, <1>7, <1>8, LateRowKeeps DEF Progress

LEMMA RowProgress ==
  ASSUME ScannerIInv, Progress, StoreRow
  PROVE  Progress'
BY NodeProgress, ServiceProgress, PortProgress, InterfaceProgress, FileProgress,
   DependencyProgress DEF StoreRow

------------------------------------------------------------------------------
\* The steps between the rows.

LEMMA ProbeProgress ==
  ASSUME Probe
  PROVE  Progress'
<1>1. PICK n \in NodesFound, s \in ServicesFound, p \in PortsFound, i \in InterfacesFound :
        /\ result' = [EmptyResult EXCEPT !.nodes = n, !.services = s, !.ports = p,
                                         !.network_interfaces = i]
        /\ todo' = n
  BY DEF Probe
<1>2. /\ result'.nodes = n /\ result'.services = s /\ result'.network_interfaces = i
      /\ result'.config_files = << >>
  BY <1>1 DEF EmptyResult
<1>3. /\ step' = "nodes" /\ first_node' = Null /\ service_name_map' = << >>
      /\ configs_left' = {}
  BY DEF Probe
<1>4. n # << >> /\ n \in Seq(Item(Hostname))
  BY ScannerAssumption DEF NodesFound
<1>5. Len(n) \in Nat /\ DOMAIN n = 1 .. Len(n)
  BY <1>4
<1>6. TodoIsRest'
  <2>1. \A j \in DOMAIN n : n[j] = n[Len(n) - Len(n) + j]
    BY <1>5
  <2> QED
    BY <1>1, <1>2, <1>3, <1>5, <2>1 DEF TodoIsRest, RestOf
<1>7. ResultAgrees'
  <2>1. Agree(n) /\ Agree(s) /\ Agree(i)
    BY ListingAssumption
  <2> QED
    BY <1>2, <1>4, <2>1 DEF ResultAgrees, Agree
<1>8. HomeIsFirst'
  BY <1>1, <1>2, <1>3 DEF HomeIsFirst
<1>9. /\ Done("nodes", result.nodes)' = {} /\ Done("services", result.services)' = {}
      /\ Done("interfaces", result.network_interfaces)' = {}
      /\ Done("configs", result.config_files)' = {}
      /\ Done("dependencies", KnownDeps)' = {}
  <2>1. Len(n) - Len(n) = 0 /\ 1 .. 0 = {}
    BY <1>5
  <2> QED
    BY <1>1, <1>2, <1>3, <2>1 DEF Done, Later
<1>10. StoredSoFar' /\ DependenciesSoFar'
  BY <1>9 DEF StoredSoFar, DependenciesSoFar
<1>11. MapIsLast'
  BY <1>3, <1>9 DEF MapIsLast
<1>12. FilesHaveOwners'
  BY <1>2, <1>3 DEF FilesHaveOwners
<1> QED
  BY <1>6, <1>7, <1>8, <1>10, <1>11, <1>12 DEF Progress

\* At the end of its list a loop is done, and the next has not begun.
LEMMA NextLoopDone ==
  ASSUME ScannerIInv, Progress, NextLoop
  PROVE  /\ Done("nodes", result.nodes)' = Done("nodes", result.nodes)
         /\ Done("services", result.services)' = Done("services", result.services)
         /\ Done("interfaces", result.network_interfaces)'
              = Done("interfaces", result.network_interfaces)
         /\ Done("configs", result.config_files)' = Done("configs", result.config_files)
         /\ Done("dependencies", KnownDeps)' = Done("dependencies", KnownDeps)
<1>1. /\ result' = result /\ Len(todo) = 0
      /\ \/ step = "nodes" /\ step' = "services" /\ todo' = result.services
         \/ step = "services" /\ step' = "ports"
         \/ step = "ports" /\ step' = "interfaces" /\ todo' = result.network_interfaces
         \/ step = "interfaces" /\ step' = "configs" /\ todo' = << >>
  BY DEF NextLoop, Loops
<1>2. /\ result.nodes \in Seq(Item(Hostname)) /\ result.services \in Seq(Item(ServiceKey))
      /\ result.network_interfaces \in Seq(Item(InterfaceName))
  BY DEF ScannerIInv, ScannerTypeOK, ScanResult
<1>3. ASSUME NEW S, NEW list \in Seq(S)
      PROVE  1 .. Len(list) - 0 = DOMAIN list /\ 1 .. Len(list) - Len(list) = {}
  OBVIOUS
<1>4. Done("nodes", result.nodes)' = Done("nodes", result.nodes)
  BY <1>1, <1>2, <1>3 DEF Done, Later
<1>5. Done("services", result.services)' = Done("services", result.services)
  BY <1>1, <1>2, <1>3 DEF Done, Later
<1>6. Done("interfaces", result.network_interfaces)'
        = Done("interfaces", result.network_interfaces)
  BY <1>1, <1>2, <1>3 DEF Done, Later
<1>7. Done("configs", result.config_files)' = Done("configs", result.config_files)
  <2>1. result.config_files = << >> /\ DOMAIN << >> = {} /\ Len(<< >>) = 0
    BY <1>1 DEF Progress, FilesHaveOwners
  <2> QED
    BY <1>1, <2>1 DEF Done, Later
<1>8. Done("dependencies", KnownDeps)' = Done("dependencies", KnownDeps)
  BY <1>1 DEF Done, Later
<1> QED
  BY <1>4, <1>5, <1>6, <1>7, <1>8

LEMMA NextLoopProgress ==
  ASSUME ScannerIInv, Progress, NextLoop
  PROVE  Progress'
<1>1. /\ result' = result /\ rows' = rows /\ todo = << >>
      /\ UNCHANGED <<first_node, service_name_map>>
      /\ \/ step = "nodes" /\ step' = "services" /\ todo' = result.services
         \/ step = "services" /\ step' = "ports"
         \/ step = "ports" /\ step' = "interfaces" /\ todo' = result.network_interfaces
         \/ step = "interfaces" /\ step' = "configs" /\ todo' = << >>
      /\ step' # "configs" => configs_left' = {}
      /\ step' = "configs" => configs_left' = DOMAIN service_name_map
  BY DEF NextLoop, Loops, vars
<1>p. /\ ResultAgrees /\ HomeIsFirst /\ StoredSoFar /\ MapIsLast /\ FilesHaveOwners
      /\ DependenciesSoFar
  BY <1>1 DEF Progress
<1>2. TodoIsRest'
  <2>1. ASSUME NEW S, NEW list \in Seq(S)
        PROVE  \A j \in DOMAIN list : list[j] = list[Len(list) - Len(list) + j]
    OBVIOUS
  <2>2. /\ result.services \in Seq(Item(ServiceKey))
        /\ result.network_interfaces \in Seq(Item(InterfaceName))
    BY DEF ScannerIInv, ScannerTypeOK, ScanResult
  <2>3. Len(result.services) <= Len(result.services)
        /\ Len(result.network_interfaces) <= Len(result.network_interfaces)
    BY <2>2
  <2>4. step' = "configs" => result.config_files = << >>
    BY <1>1, <1>p DEF FilesHaveOwners
  <2>5. Len(<< >>) <= Len(<< >>) /\ DOMAIN << >> = {}
    OBVIOUS
  <2> QED
    BY <1>1, <2>1, <2>2, <2>3, <2>4, <2>5 DEF TodoIsRest, RestOf
<1>3. ResultAgrees'
  BY <1>1, <1>p DEF ResultAgrees, Agree
<1>4. HomeIsFirst'
  <2>1. first_node # Null
    BY <1>1, <1>p DEF HomeIsFirst, ResultAgrees
  <2> QED
    BY <1>1, <1>p, <2>1 DEF HomeIsFirst, RowAt, Ids
<1>5. StoredSoFar'
  BY <1>1, <1>p, NextLoopDone DEF StoredSoFar, HasRow, Ids
<1>6. MapIsLast'
  BY <1>1, <1>p, NextLoopDone, MapStays
<1>7. FilesHaveOwners'
  BY <1>1, <1>p DEF FilesHaveOwners
<1>8. DependenciesSoFar'
  BY <1>1, <1>p, NextLoopDone DEF DependenciesSoFar, RowAt, Ids
<1> QED
  BY <1>2, <1>3, <1>4, <1>5, <1>6, <1>7, <1>8 DEF Progress

\* The files of one name are new ones: no other name has its id.
LEMMA ScanConfigsProgress ==
  ASSUME ScannerIInv, Progress, ScanConfigs
  PROVE  Progress'
<1>1. /\ step = "configs" /\ step' = "configs" /\ todo = << >> /\ rows' = rows
      /\ UNCHANGED <<first_node, service_name_map>>
  BY DEF ScanConfigs, vars
<1>p. /\ ResultAgrees /\ HomeIsFirst /\ StoredSoFar /\ MapIsLast /\ FilesHaveOwners
      /\ DependenciesSoFar
  BY <1>1 DEF Progress
<1> DEFINE FilesOf(found, id) ==
             [k \in DOMAIN found |->
                [key |-> found[k].key, owner |-> id, value |-> found[k].value]]
<1>2. PICK n \in configs_left : \E found \in ConfigsOf[n] :
        /\ todo' = FilesOf(found, service_name_map[n])
        /\ configs_left' = configs_left \ {n}
        /\ result' = [result EXCEPT !.config_files = @ \o FilesOf(found, service_name_map[n])]
  BY DEF ScanConfigs
<1>3. PICK found \in ConfigsOf[n] :
        /\ todo' = FilesOf(found, service_name_map[n])
        /\ configs_left' = configs_left \ {n}
        /\ result' = [result EXCEPT !.config_files = @ \o FilesOf(found, service_name_map[n])]
  BY <1>2
<1>4. PICK id, old, files, list :
        /\ id = service_name_map[n] /\ old = result.config_files
        /\ files = FilesOf(found, id) /\ list = old \o files
  OBVIOUS
<1>t. /\ n \in Name /\ n \in DOMAIN service_name_map
      /\ result \in ScanResult /\ old \in Seq(ConfigItem)
      /\ found \in Seq(Item(Path))
  BY <1>4, ScannerAssumption DEF ScannerIInv, ScannerTypeOK, ScanResult
<1>5. /\ todo' = files /\ configs_left' = configs_left \ {n}
      /\ result'.config_files = list
      /\ result'.nodes = result.nodes /\ result'.services = result.services
      /\ result'.network_interfaces = result.network_interfaces
  BY <1>3, <1>4, <1>t DEF ScanResult
<1>6. /\ DOMAIN files = DOMAIN found
      /\ \A k \in DOMAIN files : /\ files[k].key = found[k].key /\ files[k].owner = id
                                 /\ files[k].value = found[k].value
  BY <1>4
<1>7. files \in Seq({files[k] : k \in DOMAIN files}) /\ Len(files) = Len(found)
  <2>1. DOMAIN found = 1 .. Len(found) /\ Len(found) \in Nat
    BY <1>t
  <2>2. files \in [1 .. Len(found) -> {files[k] : k \in DOMAIN files}]
    BY <1>4, <2>1
  <2> QED
    BY <2>1, <2>2
<1> HIDE DEF FilesOf
<1>8. /\ Len(old) \in Nat /\ Len(files) \in Nat /\ Len(list) = Len(old) + Len(files)
      /\ DOMAIN old = 1 .. Len(old) /\ DOMAIN files = 1 .. Len(files)
      /\ DOMAIN list = 1 .. Len(old) + Len(files)
      /\ \A k \in DOMAIN old : list[k] = old[k]
      /\ \A k \in DOMAIN files : list[Len(old) + k] = files[k]
  <2>1. PICK S, T : old \in Seq(S) /\ files \in Seq(T) /\ list = old \o files
    BY <1>4, <1>7, <1>t
  <2>2. /\ Len(old) \in Nat /\ DOMAIN old = 1 .. Len(old)
        /\ Len(files) \in Nat /\ DOMAIN files = 1 .. Len(files)
    BY <2>1
  <2>3. Len(list) = Len(old) + Len(files) /\ DOMAIN list = 1 .. Len(old) + Len(files)
    BY <2>1, <2>2
  <2>4. ASSUME NEW k \in DOMAIN old PROVE list[k] = old[k]
    BY <2>1, <2>2, <2>4
  <2>5. ASSUME NEW k \in DOMAIN files PROVE list[Len(old) + k] = files[k]
    BY <2>1, <2>2, <2>5
  <2> QED
    BY <2>2, <2>3, <2>4, <2>5
<1>9. \A i \in DOMAIN list :
        i \in DOMAIN old \/ \E k \in DOMAIN files : i = Len(old) + k
  <2>1. ASSUME NEW i \in DOMAIN list, i \notin DOMAIN old
        PROVE  i - Len(old) \in DOMAIN files /\ i = Len(old) + (i - Len(old))
    BY <1>8, <2>1
  <2> QED
    BY <2>1
<1>10. \A k \in DOMAIN old : old[k].owner # id
  <2> TAKE k \in DOMAIN old
  <2>1. PICK m \in DOMAIN service_name_map \ configs_left : old[k].owner = service_name_map[m]
    BY <1>4, <1>p DEF FilesHaveOwners
  <2>2. m # n
    OBVIOUS
  <2>3. PICK a : /\ NameOf[result.services[a].key] = m
                 /\ rows["service"][service_name_map[m]].key = result.services[a].key
    BY <1>p DEF MapIsLast, LastNamed, RowAt
  <2>4. PICK b : /\ NameOf[result.services[b].key] = n
                 /\ rows["service"][service_name_map[n]].key = result.services[b].key
    BY <1>p, <1>t DEF MapIsLast, LastNamed, RowAt
  <2> QED
    BY <1>4, <2>1, <2>2, <2>3, <2>4
<1>11. TodoIsRest'
  <2>1. RestOf(list)'
    <3>1. Len(list) - Len(files) = Len(old) /\ Len(files) <= Len(list)
      BY <1>8
    <3> QED
      BY <1>5, <1>8, <3>1 DEF RestOf
  <2> QED
    BY <1>1, <1>5, <2>1 DEF TodoIsRest, RestOf
<1>12. ResultAgrees'
  <2>1. ASSUME NEW i \in DOMAIN list, NEW j \in DOMAIN list,
               list[i].key = list[j].key, list[i].owner = list[j].owner,
               Null \notin {list[i].value, list[j].value}
        PROVE  list[i].value = list[j].value
    <3>1. CASE i \in DOMAIN old /\ j \in DOMAIN old
      BY <1>4, <1>8, <1>p, <2>1, <3>1 DEF ResultAgrees
    <3>2. ASSUME NEW k \in DOMAIN files, i = Len(old) + k, NEW m \in DOMAIN files, j = Len(old) + m
          PROVE  list[i].value = list[j].value
      <4>1. Agree(found)
        BY <1>t, ListingAssumption
      <4> QED
        BY <1>6, <1>8, <2>1, <3>2, <4>1 DEF Agree
    <3>3. ASSUME i \in DOMAIN old, NEW m \in DOMAIN files, j = Len(old) + m
          PROVE  FALSE
      BY <1>6, <1>8, <1>10, <2>1, <3>3
    <3>4. ASSUME j \in DOMAIN old, NEW k \in DOMAIN files, i = Len(old) + k
          PROVE  FALSE
      BY <1>6, <1>8, <1>10, <2>1, <3>4
    <3> QED
      BY <1>9, <3>1, <3>2, <3>3, <3>4
  <2> QED
    BY <1>5, <1>p, <2>1 DEF ResultAgrees, Agree
<1>13. HomeIsFirst'
  BY <1>1, <1>5, <1>p DEF HomeIsFirst, RowAt, Ids
<1>14. /\ Done("nodes", result.nodes)' = Done("nodes", result.nodes)
       /\ Done("services", result.services)' = Done("services", result.services)
       /\ Done("interfaces", result.network_interfaces)'
            = Done("interfaces", result.network_interfaces)
       /\ Done("dependencies", KnownDeps)' = Done("dependencies", KnownDeps)
  BY <1>1, <1>5 DEF Done, Later
<1>15. StoredSoFar'
  <2>1. Done("configs", result.config_files)' = DOMAIN old
    <3>1. Len(list) - Len(files) = Len(old)
      BY <1>8
    <3> QED
      BY <1>1, <1>5, <1>8, <3>1 DEF Done
  <2>2. Done("configs", result.config_files) = DOMAIN old
    <3>1. Len(old) - Len(<< >>) = Len(old)
      BY <1>8
    <3> QED
      BY <1>1, <1>4, <1>8, <3>1 DEF Done
  <2>3. \A k \in DOMAIN old : HasRow("config_file", list[k], list[k].owner)
    BY <1>4, <1>8, <1>p, <2>2 DEF StoredSoFar
  <2>4. \A k \in Done("configs", result.config_files)' :
          HasRow("config_file", result.config_files[k], result.config_files[k].owner)'
    BY <1>1, <1>5, <2>1, <2>3 DEF HasRow, Ids
  <2> QED
    BY <1>1, <1>5, <1>14, <1>p, <2>4 DEF StoredSoFar, HasRow, Ids
<1>16. MapIsLast'
  BY <1>1, <1>5, <1>14, <1>p, MapStays
<1>17. FilesHaveOwners'
  <2>1. ASSUME NEW i \in DOMAIN list
        PROVE  \E m \in DOMAIN service_name_map \ configs_left' : list[i].owner = service_name_map[m]
    <3>1. CASE i \in DOMAIN old
      BY <1>4, <1>5, <1>8, <1>p, <3>1 DEF FilesHaveOwners
    <3>2. CASE \E k \in DOMAIN files : i = Len(old) + k
      <4>1. list[i].owner = service_name_map[n]
        BY <1>4, <1>6, <1>8, <3>2
      <4> QED
        BY <1>5, <1>t, <4>1
    <3> QED
      BY <1>9, <3>1, <3>2
  <2> QED
    BY <1>1, <1>5, <2>1 DEF FilesHaveOwners
<1>18. DependenciesSoFar'
  BY <1>1, <1>14, <1>p DEF DependenciesSoFar, RowAt, Ids
<1> QED
  BY <1>11, <1>12, <1>13, <1>15, <1>16, <1>17, <1>18 DEF Progress

LEMMA InferDependenciesProgress ==
  ASSUME ScannerIInv, Progress, InferDependencies
  PROVE  Progress'
<1>1. /\ step = "configs" /\ step' = "dependencies" /\ todo = << >> /\ todo' = KnownDeps
      /\ rows' = rows /\ configs_left = {}
      /\ UNCHANGED <<result, first_node, service_name_map, configs_left>>
  BY DEF InferDependencies, vars
<1>p. /\ ResultAgrees /\ HomeIsFirst /\ StoredSoFar /\ MapIsLast /\ FilesHaveOwners
  BY <1>1 DEF Progress
<1>2. Len(KnownDeps) \in Nat /\ DOMAIN KnownDeps = 1 .. Len(KnownDeps)
  BY ScannerAssumption
<1>3. TodoIsRest'
  <2>1. \A j \in DOMAIN KnownDeps : KnownDeps[j] = KnownDeps[Len(KnownDeps) - Len(KnownDeps) + j]
    BY <1>2
  <2> QED
    BY <1>1, <1>2, <2>1 DEF TodoIsRest, RestOf
<1>4. ResultAgrees'
  BY <1>1, <1>p DEF ResultAgrees, Agree
<1>5. HomeIsFirst'
  BY <1>1, <1>p DEF HomeIsFirst, RowAt, Ids
<1>6. /\ Done("nodes", result.nodes)' = Done("nodes", result.nodes)
      /\ Done("services", result.services)' = Done("services", result.services)
      /\ Done("interfaces", result.network_interfaces)'
           = Done("interfaces", result.network_interfaces)
  BY <1>1 DEF Done, Later
<1>7. Done("configs", result.config_files)' = Done("configs", result.config_files)
  <2>1. result.config_files \in Seq(ConfigItem)
    BY DEF ScannerIInv, ScannerTypeOK, ScanResult
  <2>2. 1 .. Len(result.config_files) - Len(<< >>) = DOMAIN result.config_files
    BY <2>1
  <2> QED
    BY <1>1, <2>2 DEF Done, Later
<1>8. Done("dependencies", KnownDeps)' = {}
  <2>1. 1 .. Len(KnownDeps) - Len(KnownDeps) = {}
    BY <1>2
  <2> QED
    BY <1>1, <2>1 DEF Done
<1>9. StoredSoFar'
  BY <1>1, <1>6, <1>7, <1>p DEF StoredSoFar, HasRow, Ids
<1>10. MapIsLast'
  BY <1>1, <1>6, <1>p, MapStays
<1>11. FilesHaveOwners'
  BY <1>1, <1>p DEF FilesHaveOwners
<1>12. DependenciesSoFar'
  BY <1>8 DEF DependenciesSoFar
<1> QED
  BY <1>3, <1>4, <1>5, <1>9, <1>10, <1>11, <1>12 DEF Progress

------------------------------------------------------------------------------
\* A scan that has gone through leaves what it found in the store.
LEMMA EndHolds ==
  ASSUME ScannerIInv, Progress, step = "dependencies", todo = << >>
  PROVE  Holds(result)
<1>p. /\ ResultAgrees /\ HomeIsFirst /\ StoredSoFar /\ MapIsLast /\ DependenciesSoFar
  BY DEF Progress
<1>1. /\ Done("nodes", result.nodes) = DOMAIN result.nodes
      /\ Done("services", result.services) = DOMAIN result.services
      /\ Done("interfaces", result.network_interfaces) = DOMAIN result.network_interfaces
      /\ Done("configs", result.config_files) = DOMAIN result.config_files
  BY DEF Done, Later
<1>2. Done("dependencies", KnownDeps) = DOMAIN KnownDeps
  BY ScannerAssumption DEF Done
<1>3. RowAt("node", first_node, result.nodes[1].key, Null)
  BY <1>p DEF HomeIsFirst
<1> DEFINE ks == DOMAIN result.services
           map == service_name_map
<1>4. /\ DOMAIN map = {NameOf[result.services[k].key] : k \in ks}
      /\ \A n \in DOMAIN map :
           \E k \in ks : /\ LastNamed(result.services, ks, n, k)
                         /\ RowAt("service", map[n], result.services[k].key, first_node)
  BY <1>1, <1>p DEF MapIsLast
<1>5. ASSUME NEW k \in DOMAIN KnownDeps, NEW d, d = KnownDeps[k], d[1] # d[2],
             {d[1], d[2]} \subseteq {NameOf[result.services[j].key] : j \in ks}
      PROVE  \E a, b \in ks : \E s, t \in Ids("service") : \E i \in Ids("dependency") :
               /\ LastNamed(result.services, ks, d[1], a)
               /\ LastNamed(result.services, ks, d[2], b)
               /\ RowAt("service", s, result.services[a].key, first_node)
               /\ RowAt("service", t, result.services[b].key, first_node)
               /\ RowAt("dependency", i, <<t, d[3]>>, s)
  <2>1. d[1] \in DOMAIN map /\ d[2] \in DOMAIN map
    BY <1>4, <1>5
  <2>2. PICK a \in ks : /\ LastNamed(result.services, ks, d[1], a)
                        /\ RowAt("service", map[d[1]], result.services[a].key, first_node)
    BY <1>4, <2>1
  <2>3. PICK b \in ks : /\ LastNamed(result.services, ks, d[2], b)
                        /\ RowAt("service", map[d[2]], result.services[b].key, first_node)
    BY <1>4, <2>1
  <2>4. map[d[1]] # map[d[2]]
    BY <1>5, <2>2, <2>3 DEF LastNamed, RowAt
  <2>5. PICK i \in Ids("dependency") : RowAt("dependency", i, <<map[d[2]], d[3]>>, map[d[1]])
    BY <1>2, <1>5, <1>p, <2>1, <2>4 DEF DependenciesSoFar
  <2>6. map[d[1]] \in Ids("service") /\ map[d[2]] \in Ids("service")
    BY <2>2, <2>3 DEF RowAt
  <2> QED
    BY <2>2, <2>3, <2>5, <2>6
<1>6. HoldsFrom(result, first_node)
  BY <1>1, <1>3, <1>5, <1>p DEF HoldsFrom, StoredSoFar
<1>7. first_node \in Ids("node")
  BY <1>3 DEF RowAt
<1> QED
  BY <1>1, <1>6, <1>7, <1>p DEF Holds, StoredSoFar

LEMMA HeldStaysHeld ==
  ASSUME NEW r, Holds(r), rows' = rows
  PROVE  Holds(r)'
<1>1. ASSUME NEW e, NEW item, NEW owner, HasRow(e, item, owner)
      PROVE  HasRow(e, item, owner)'
  BY <1>1 DEF HasRow, Ids
<1>2. ASSUME NEW e, NEW i, NEW key, NEW owner, RowAt(e, i, key, owner)
      PROVE  RowAt(e, i, key, owner)'
  BY <1>2 DEF RowAt, Ids
<1>3. \A e : Ids(e)' = Ids(e)
  BY DEF Ids
<1>4. ASSUME NEW home, HoldsFrom(r, home)
      PROVE  HoldsFrom(r, home)'
  <2>1. ASSUME NEW k \in DOMAIN KnownDeps, NEW d, d = KnownDeps[k], NEW ks, ks = DOMAIN r.services,
               d[1] # d[2], {d[1], d[2]} \subseteq {NameOf[r.services[j].key] : j \in ks}
        PROVE  \E a, b \in ks : \E s, t \in Ids("service")' : \E i \in Ids("dependency")' :
                 /\ LastNamed(r.services, ks, d[1], a) /\ LastNamed(r.services, ks, d[2], b)
                 /\ RowAt("service", s, r.services[a].key, home)'
                 /\ RowAt("service", t, r.services[b].key, home)'
                 /\ RowAt("dependency", i, <<t, d[3]>>, s)'
    <3>1. PICK a \in ks, b \in ks, s \in Ids("service"), t \in Ids("service"),
               i \in Ids("dependency") :
            /\ LastNamed(r.services, ks, d[1], a) /\ LastNamed(r.services, ks, d[2], b)
            /\ RowAt("service", s, r.services[a].key, home)
            /\ RowAt("service", t, r.services[b].key, home)
            /\ RowAt("dependency", i, <<t, d[3]>>, s)
      BY <1>4, <2>1 DEF HoldsFrom
    <3>2. /\ RowAt("service", s, r.services[a].key, home)'
          /\ RowAt("service", t, r.services[b].key, home)'
          /\ RowAt("dependency", i, <<t, d[3]>>, s)'
      BY <1>2, <3>1
    <3>3. /\ s \in Ids("service")' /\ t \in Ids("service")' /\ i \in Ids("dependency")'
      BY <1>3
    <3> QED
      BY <3>1, <3>2, <3>3
  <2>2. RowAt("node", home, r.nodes[1].key, Null)'
    BY <1>2, <1>4 DEF HoldsFrom
  <2>3. /\ \A k \in DOMAIN r.services : HasRow("service", r.services[k], home)'
        /\ \A k \in DOMAIN r.network_interfaces :
             HasRow("network_interface", r.network_interfaces[k], home)'
    BY <1>1, <1>4 DEF HoldsFrom
  <2> QED
    BY <2>1, <2>2, <2>3 DEF HoldsFrom
<1>5. PICK home \in Ids("node") : HoldsFrom(r, home)
  BY DEF Holds
<1>6. home \in Ids("node")' /\ HoldsFrom(r, home)'
  BY <1>3, <1>4, <1>5
<1>7. /\ \A k \in DOMAIN r.nodes : HasRow("node", r.nodes[k], Null)'
      /\ \A k \in DOMAIN r.config_files :
           HasRow("config_file", r.config_files[k], r.config_files[k].owner)'
  BY <1>1 DEF Holds
<1> QED
  BY <1>6, <1>7 DEF Holds

LEMMA StepKeepsStanding ==
  ASSUME ScanInv, [ScannerNext]_scannerVars
  PROVE  Standing'
<1> SUFFICES ASSUME NEW r, r = settled', r # NoResult
             PROVE  /\ r \in ScanResult
                    /\ Holds(r)'
                    /\ step' # "sleeping" =>
                         /\ result'.nodes = r.nodes /\ result'.services = r.services
                         /\ result'.network_interfaces = r.network_interfaces
                         /\ Elements(result.config_files)' \subseteq Elements(r.config_files)
  BY DEF Standing, Elements
<1>t. ScannerIInv /\ result \in ScanResult
  BY DEF ScanInv, ScannerIInv, ScannerTypeOK
<1>s. ASSUME settled = r, rows' = rows
      PROVE  /\ r \in ScanResult /\ Holds(r)'
             /\ step # "sleeping" =>
                  /\ result.nodes = r.nodes /\ result.services = r.services
                  /\ result.network_interfaces = r.network_interfaces
                  /\ Elements(result.config_files) \subseteq Elements(r.config_files)
  <2>1. r \in {settled} \ {NoResult}
    BY <1>s
  <2>2. /\ r \in ScanResult /\ Holds(r)
        /\ step # "sleeping" =>
             /\ result.nodes = r.nodes /\ result.services = r.services
             /\ result.network_interfaces = r.network_interfaces
             /\ Elements(result.config_files) \subseteq Elements(r.config_files)
    BY <2>1 DEF ScanInv, Standing
  <2> QED
    BY <1>s, <2>2, HeldStaysHeld
<1>1. CASE StoreRow
  <2>1. settled = r /\ result' = result /\ step' = step
    BY <1>1 DEF StoreRow, StoreNode, StoreService, StorePort, StoreInterface, StoreConfigFile,
                StoreDependency, Turn
  <2>2. rows' = rows
    BY <1>1, <2>1, SettledIsQuiet DEF vars
  <2> QED
    BY <1>s, <2>1, <2>2 DEF Elements
<1>2. CASE Probe
  <2>1. PICK n \in NodesFound, s \in ServicesFound, p \in PortsFound, i \in InterfacesFound :
          /\ result' = [EmptyResult EXCEPT !.nodes = n, !.services = s, !.ports = p,
                                           !.network_interfaces = i]
          /\ todo' = n
          /\ Unsettle(settled # NoResult /\ [settled EXCEPT !.config_files = << >>] # result')
    BY <1>2, Zenon DEF Probe
  <2>2. rows' = rows /\ result'.config_files = << >>
    BY <1>2, <2>1 DEF Probe, EmptyResult, vars
  <2>3. settled = r /\ [r EXCEPT !.config_files = << >>] = result'
    BY <2>1 DEF Unsettle
  <2>4. r \in ScanResult /\ Holds(r)'
    BY <1>s, <2>2, <2>3
  <2>5. /\ result'.nodes = r.nodes /\ result'.services = r.services
        /\ result'.network_interfaces = r.network_interfaces
    BY <2>3, <2>4 DEF ScanResult
  <2>6. Elements(result.config_files)' = {}
    BY <2>2 DEF Elements
  <2> QED
    BY <2>4, <2>5, <2>6
<1>3. CASE NextLoop \/ InferDependencies
  <2>1. settled = r /\ result' = result /\ rows' = rows /\ step # "sleeping"
    BY <1>3 DEF NextLoop, InferDependencies, vars, Loops
  <2> QED
    BY <1>s, <2>1 DEF Elements
<1>4. CASE ScanConfigs
  <2> DEFINE FilesOf(found, id) ==
               [k \in DOMAIN found |->
                  [key |-> found[k].key, owner |-> id, value |-> found[k].value]]
  <2>1. PICK n \in configs_left : \E found \in ConfigsOf[n] :
          /\ result' = [result EXCEPT !.config_files = @ \o FilesOf(found, service_name_map[n])]
          /\ Unsettle(settled # NoResult /\
               {f \in Elements(settled.config_files) : f.owner = service_name_map[n]}
                 # Elements(FilesOf(found, service_name_map[n])))
    BY <1>4 DEF ScanConfigs
  <2>2. PICK found \in ConfigsOf[n] :
          /\ result' = [result EXCEPT !.config_files = @ \o FilesOf(found, service_name_map[n])]
          /\ Unsettle(settled # NoResult /\
               {f \in Elements(settled.config_files) : f.owner = service_name_map[n]}
                 # Elements(FilesOf(found, service_name_map[n])))
    BY <2>1
  <2>3. PICK files, old : files = FilesOf(found, service_name_map[n]) /\ old = result.config_files
    OBVIOUS
  <2>4. found \in Seq(Item(Path)) /\ old \in Seq(ConfigItem)
    BY <1>t, <2>3, ScannerAssumption DEF ScannerIInv, ScannerTypeOK, ScanResult
  <2>5. files \in Seq({files[k] : k \in DOMAIN files})
    <3>1. DOMAIN found = 1 .. Len(found) /\ Len(found) \in Nat
      BY <2>4
    <3>2. files \in [1 .. Len(found) -> {files[k] : k \in DOMAIN files}]
      BY <2>3, <3>1
    <3> QED
      BY <3>1, <3>2
  <2>6. /\ result'.config_files = old \o files
        /\ result'.nodes = result.nodes /\ result'.services = result.services
        /\ result'.network_interfaces = result.network_interfaces
    BY <1>t, <2>2, <2>3 DEF ScanResult
  <2>7. settled = r /\ Elements(files) \subseteq Elements(r.config_files)
    BY <2>2, <2>3 DEF Unsettle
  <2> HIDE DEF FilesOf
  <2>8. Elements(old \o files) \subseteq Elements(old) \cup Elements(files)
    <3>1. /\ Len(old) \in Nat /\ Len(files) \in Nat
          /\ DOMAIN old = 1 .. Len(old) /\ DOMAIN files = 1 .. Len(files)
          /\ DOMAIN (old \o files) = 1 .. Len(old) + Len(files)
      BY <2>4, <2>5
    <3>2. ASSUME NEW i \in DOMAIN (old \o files)
          PROVE  (old \o files)[i] \in Elements(old) \cup Elements(files)
      <4>1. CASE i \in DOMAIN old
        <5>1. (old \o files)[i] = old[i]
          BY <2>4, <2>5, <4>1
        <5> QED
          BY <4>1, <5>1 DEF Elements
      <4>2. CASE i \notin DOMAIN old
        <5>1. (old \o files)[i] = files[i - Len(old)] /\ i - Len(old) \in DOMAIN files
          BY <2>4, <2>5, <3>1, <4>2
        <5> QED
          BY <5>1 DEF Elements
      <4> QED
        BY <4>1, <4>2
    <3> QED
      BY <3>2 DEF Elements
  <2>9. /\ step # "sleeping" /\ step' = step /\ rows' = rows
    BY <1>4 DEF ScanConfigs, vars
  <2>10. /\ r \in ScanResult /\ Holds(r)'
         /\ result.nodes = r.nodes /\ result.services = r.services
         /\ result.network_interfaces = r.network_interfaces
         /\ Elements(old) \subseteq Elements(r.config_files)
    BY <1>s, <2>3, <2>7, <2>9
  <2>11. Elements(old \o files) \subseteq Elements(r.config_files)
    BY <2>7, <2>8, <2>10
  <2>12. Elements(result.config_files)' = Elements(old \o files)
    BY <2>6 DEF Elements
  <2> QED
    BY <2>6, <2>10, <2>11, <2>12
<1>5. CASE EndScan
  <2>1. r = result /\ step' = "sleeping" /\ rows' = rows
    BY <1>5 DEF EndScan, Forget, vars
  <2>2. step = "dependencies" /\ todo = << >>
    BY <1>5 DEF EndScan
  <2>3. Holds(r)
    BY <1>t, <2>1, <2>2, EndHolds DEF ScanInv
  <2> QED
    BY <1>t, <2>1, <2>3, HeldStaysHeld
<1>6. CASE Interrupted
  <2>1. settled = r /\ step' = "sleeping" /\ rows' = rows
    BY <1>6 DEF Interrupted, Forget, vars
  <2> QED
    BY <1>s, <2>1
<1>7. CASE UNCHANGED scannerVars
  <2>1. settled = r /\ step' = step /\ rows' = rows /\ result' = result
    BY <1>7 DEF scannerVars, scan, vars
  <2> QED
    BY <1>s, <2>1 DEF Elements
<1> QED
  BY <1>1, <1>2, <1>3, <1>4, <1>5, <1>6, <1>7 DEF ScannerNext, Sleep

LEMMA StepKeepsProgress ==
  ASSUME ScanInv, [ScannerNext]_scannerVars
  PROVE  Progress'
<1>i. ScannerIInv /\ Progress
  BY DEF ScanInv
<1>1. CASE EndScan \/ Interrupted
  BY <1>1 DEF EndScan, Interrupted, Forget, Progress
<1>2. CASE UNCHANGED scannerVars
  <2>1. UNCHANGED <<rows, step, todo, result, first_node, service_name_map, configs_left>>
    BY <1>2 DEF scannerVars, scan, vars
  <2>2. TodoIsRest' = TodoIsRest
    BY <2>1 DEF TodoIsRest, RestOf
  <2>3. ResultAgrees' = ResultAgrees
    BY <2>1 DEF ResultAgrees, Agree
  <2>4. HomeIsFirst' = HomeIsFirst
    BY <2>1 DEF HomeIsFirst, RowAt, Ids
  <2>5. StoredSoFar' = StoredSoFar
    BY <2>1 DEF StoredSoFar, Done, HasRow, Ids
  <2>6. MapIsLast' = MapIsLast
    BY <2>1 DEF MapIsLast, Done, LastNamed, RowAt, Ids
  <2>7. FilesHaveOwners' = FilesHaveOwners
    BY <2>1 DEF FilesHaveOwners
  <2>8. DependenciesSoFar' = DependenciesSoFar
    BY <2>1 DEF DependenciesSoFar, Done, RowAt, Ids
  <2> QED
    BY <1>i, <2>1, <2>2, <2>3, <2>4, <2>5, <2>6, <2>7, <2>8 DEF Progress
<1> QED
  BY <1>i, <1>1, <1>2, RowProgress, ProbeProgress, NextLoopProgress, ScanConfigsProgress,
     InferDependenciesProgress DEF ScannerNext, Sleep

LEMMA ScanHolds == ScannerSpec => []ScanInv
<1>1. ScannerInit => ScanInv
  <2> SUFFICES ASSUME ScannerInit PROVE ScanInv
    OBVIOUS
  <2>1. step = "sleeping" /\ settled = NoResult
    BY DEF ScannerInit
  <2>2. Progress /\ Standing
    BY <2>1 DEF Progress, Standing
  <2> QED
    BY <2>2, InitScanner DEF ScanInv
<1>2. ScanInv /\ [ScannerNext]_scannerVars => ScanInv'
  BY ScannerStepPreserves, StepKeepsProgress, StepKeepsStanding DEF ScanInv
<1> QED
  BY <1>1, <1>2, PTL DEF ScannerSpec

\* However often scans are interrupted and the process starts again, the store
\* has all that the last scan that went through found, as long as no later one
\* finds other things: nodes, services and interfaces under the first node,
\* config files under their services, and the dependencies known between them.
THEOREM StoreAlwaysHoldsResult == ScannerSpec => []StoreHoldsResult
<1>1. ScanInv => StoreHoldsResult
  <2> SUFFICES ASSUME ScanInv, NEW r, r = settled, r # NoResult
               PROVE  StoreHoldsResult
    BY DEF StoreHoldsResult
  <2>1. r \in {settled} \ {NoResult}
    OBVIOUS
  <2>2. Holds(r)
    BY <2>1 DEF ScanInv, Standing
  <2>3. PICK home \in Ids("node") : HoldsFrom(r, home)
    BY <2>2 DEF Holds
  <2>4. ASSUME NEW k \in DOMAIN KnownDeps, NEW d, d = KnownDeps[k], d[1] # d[2],
               {d[1], d[2]} \subseteq {NameOf[r.services[j].key] : j \in DOMAIN r.services}
        PROVE  \E i \in Ids("dependency") :
                 /\ rows["dependency"][i].owner \in Named(d[1])
                 /\ rows["dependency"][i].key[1] \in Named(d[2])
                 /\ rows["dependency"][i].key[2] = d[3]
    <3>1. PICK a \in DOMAIN r.services, b \in DOMAIN r.services,
               s \in Ids("service"), t \in Ids("service"), i \in Ids("dependency") :
            /\ LastNamed(r.services, DOMAIN r.services, d[1], a)
            /\ LastNamed(r.services, DOMAIN r.services, d[2], b)
            /\ RowAt("service", s, r.services[a].key, home)
            /\ RowAt("service", t, r.services[b].key, home)
            /\ RowAt("dependency", i, <<t, d[3]>>, s)
      BY <2>3, <2>4 DEF HoldsFrom
    <3>2. s \in Named(d[1]) /\ t \in Named(d[2])
      BY <3>1 DEF LastNamed, RowAt, Named
    <3> QED
      BY <3>1, <3>2 DEF RowAt
  <2>5. /\ rows["node"][home].key = r.nodes[1].key
        /\ \A k \in DOMAIN r.services : HasRow("service", r.services[k], home)
        /\ \A k \in DOMAIN r.network_interfaces :
             HasRow("network_interface", r.network_interfaces[k], home)
    BY <2>3 DEF HoldsFrom, RowAt
  <2>6. /\ \A k \in DOMAIN r.nodes : HasRow("node", r.nodes[k], Null)
        /\ \A k \in DOMAIN r.config_files :
             HasRow("config_file", r.config_files[k], r.config_files[k].owner)
    BY <2>2 DEF Holds
  <2> QED
    BY <2>3, <2>4, <2>5, <2>6 DEF StoreHoldsResult
<1> QED
  BY <1>1, ScanHolds, PTL

\* A scan that finds what the store has already taken in logs no change, up to
\* wherever it is interrupted.
THEOREM RescansAreQuiet == ScannerSpec => RescanIsQuiet
<1>1. ScanInv /\ [ScannerNext]_scannerVars =>
        [settled # NoResult /\ settled' = settled => changes_log' = changes_log]_scannerVars
  <2> SUFFICES ASSUME ScanInv, [ScannerNext]_scannerVars, settled # NoResult
               PROVE  changes_log' = changes_log
    OBVIOUS
  <2>1. CASE StoreRow
    BY <2>1, SettledIsQuiet DEF vars
  <2>2. CASE ~StoreRow
    BY <2>2 DEF ScannerNext, Probe, NextLoop, ScanConfigs, InferDependencies, EndScan,
                Interrupted, Sleep, scannerVars, vars
  <2> QED
    BY <2>1, <2>2
<1> QED
  BY <1>1, ScanHolds, PTL DEF ScannerSpec, RescanIsQuiet
==============================================================================
