------------------------------- MODULE DNAStore -------------------------------
(***************************************************************************)
(* silicon_valet/dna/store.py over the schema of dna/schema.py: six tables *)
(* of infrastructure facts and the log of their changes.  The store's      *)
(* methods are synchronous and each is one transaction, so each is one     *)
(* action; what is hard is what a sequence of them leaves behind.          *)
(*                                                                         *)
(* A row is its lookup key, its owner (the row of another table it belongs *)
(* to), a value that stands for each of its columns whose changes are      *)
(* logged, and one aside, for the column whose changes are not: a port's   *)
(* bind_address, a configuration file's last_modified.  Null is SQL NULL   *)
(* and the Python None.  The timestamps last_seen and last_scanned, which  *)
(* every upsert sets, are left out.                                        *)
(***************************************************************************)
EXTENDS Naturals, Sequences, FiniteSets

CONSTANTS
  Hostname,              \* keys of nodes
  ServiceKey,            \* (name, type, namespace) of services
  PortKey,               \* (port, protocol) of ports
  Path,                  \* keys of config_files
  InterfaceName,         \* keys of network_interfaces
  DepType,               \* dep_type of dependencies
  Value,                 \* the values of a column whose changes are logged
  Aside,                 \* those of one whose changes are not
  Null,
  MaxId,                 \* bound: rows ever inserted into one table
  MaxLog                 \* bound: entries of changes_log

ASSUME StoreAssumption ==
  /\ Null \notin Value \cup Aside \cup (1 .. MaxId)
  /\ MaxId \in Nat
  /\ MaxLog \in Nat

VARIABLES
  rows,                  \* [Entity -> a function from the ids present to rows]
  last_id,               \* [Entity -> AUTOINCREMENT's counter]
  changes_log            \* the changes_log table in the order of its ids

vars == <<rows, last_id, changes_log>>

Entity == {"node", "service", "port", "config_file", "dependency", "network_interface"}
Id == 1 .. MaxId
MaybeValue == Value \cup {Null}
MaybeAside == Aside \cup {Null}

Key == Hostname \cup ServiceKey \cup PortKey \cup Path \cup InterfaceName
         \cup (Id \X DepType)

\* What an upsert is given for a row's columns.
Observation == [value : MaybeValue, aside : MaybeAside]

Row == [key : Key, owner : Id \cup {Null}, value : MaybeValue, aside : MaybeAside]

ChangeEntry ==
  [entity_type : Entity, entity_id : Id, change_type : {"added", "modified", "removed"},
   old_value : MaybeValue, new_value : MaybeValue]

Change(e, i, type, old, new) ==
  [entity_type |-> e, entity_id |-> i, change_type |-> type,
   old_value |-> old, new_value |-> new]

\* init_schema on a new database.
Init ==
  /\ rows = [e \in Entity |-> << >>]
  /\ last_id = [e \in Entity |-> 0]
  /\ changes_log = << >>

Ids(e) == DOMAIN rows[e]

------------------------------------------------------------------------------
\* Mutant of Lookup: NULL is compared as SQL compares it, never equal.
LookupPlainNull(e, key, owner) ==
  {i \in Ids(e) : rows[e][i].key = key /\ owner # Null /\ rows[e][i].owner = owner}

\* Nodes have no owner, and services compare node_id and namespace under
\* COALESCE, so that NULL finds NULL.  The other tables compare plainly: a port
\* or configuration file without a service is never found.
NullFindsNull == {"node", "service"}

\* The rows an upsert finds.
Lookup(e, key, owner) ==
  {i \in Ids(e) : /\ rows[e][i].key = key
                  /\ rows[e][i].owner = owner
                  /\ owner # Null \/ e \in NullFindsNull}

\* A table with one row put in.
WithRow(e, id, row) == [i \in Ids(e) \cup {id} |-> IF i = id THEN row ELSE rows[e][i]]

Record(entry) ==
  /\ Len(changes_log) < MaxLog
  /\ changes_log' = Append(changes_log, entry)

\* Mutant of UseId: ids are not used up.
ReuseId(e, id) == last_id' = last_id

UseId(e, id) == last_id' = [last_id EXCEPT ![e] = id]

\* INSERT: the next AUTOINCREMENT id, and an "added" entry.
Insert(e, key, owner, seen) ==
  LET id == last_id[e] + 1
  IN  /\ id \in Id
      /\ rows' = [rows EXCEPT ![e] =
                    WithRow(e, id, [key |-> key, owner |-> owner,
                                    value |-> seen.value, aside |-> seen.aside])]
      /\ UseId(e, id)
      /\ Record(Change(e, id, "added", Null, Null))

\* Mutant of Coalesce: None overwrites.
Overwrite(old, new) == new

\* COALESCE(?, column): what is not known now stays as it was.
Coalesce(old, new) == IF new = Null THEN old ELSE new

\* UPDATE of a column: a port's columns are set to what is given, those of the
\* other tables under COALESCE.
Updated(e, old, new) == IF e = "port" THEN new ELSE Coalesce(old, new)

\* Mutant of Differs: whatever is observed is logged.
LogsEvery(e, old, new) == new # Null

\* Mutant of Differs: only the first value of a column is logged.
FirstValueOnly(e, old, new) == new # Null /\ old = Null

\* Is the change of the logged column logged?  Where None is kept out by
\* COALESCE it is no change.
Differs(e, old, new) == new # old /\ (e = "port" \/ new # Null)

\* UPDATE, with an entry for a value that changes, and none for the aside.
Update(e, id, seen) ==
  LET old == rows[e][id]
  IN  /\ rows' = [rows EXCEPT ![e] =
                    WithRow(e, id, [key |-> old.key, owner |-> old.owner,
                                    value |-> Updated(e, old.value, seen.value),
                                    aside |-> Updated(e, old.aside, seen.aside)])]
      /\ IF Differs(e, old.value, seen.value)
         THEN Record(Change(e, id, "modified", old.value, seen.value))
         ELSE changes_log' = changes_log
      /\ UNCHANGED last_id

\* One upsert.  When the owner does not exist the foreign key rejects the
\* INSERT, the method raises and nothing changes: no step.
Upsert(e, ownerTable, key, owner, seen) ==
  \/ /\ Lookup(e, key, owner) = {}
     /\ owner # Null => owner \in Ids(ownerTable)
     /\ Insert(e, key, owner, seen)
  \/ \E id \in Lookup(e, key, owner) : Update(e, id, seen)

\* Nodes, services and interfaces have no aside: all their columns are logged.
Logged(v) == [value |-> v, aside |-> Null]

UpsertNode(hostname, v) == Upsert("node", "node", hostname, Null, Logged(v))

UpsertService(key, node_id, v) == Upsert("service", "node", key, node_id, Logged(v))

\* state and bind_address.
UpsertPort(key, service_id, seen) == Upsert("port", "service", key, service_id, seen)

\* hash_sha256 and last_modified.
UpsertConfigFile(path, service_id, seen) ==
  Upsert("config_file", "service", path, service_id, seen)

UpsertNetworkInterface(name, node_id, v) ==
  Upsert("network_interface", "node", name, node_id, Logged(v))

\* A dependency belongs to its source; its target is part of its key.  An
\* existing one is left as it is.
AddDependency(source, target, dep_type) ==
  \/ /\ Lookup("dependency", <<target, dep_type>>, source) = {}
     /\ {source, target} \subseteq Ids("service")
     /\ Insert("dependency", <<target, dep_type>>, source, Logged(Null))
  \/ /\ Lookup("dependency", <<target, dep_type>>, source) # {}
     /\ UNCHANGED vars

\* Mutant of Without: the schema does not cascade.
WithoutCascade(e, gone) ==
  [i \in (IF e = "service" THEN Ids(e) \ gone ELSE Ids(e)) |-> rows[e][i]]

\* ON DELETE CASCADE of the tables that reference services.
Without(e, gone) ==
  LET orphans == IF e = "service" THEN gone
                 ELSE IF e \in {"port", "config_file"}
                 THEN {i \in Ids(e) : rows[e][i].owner \in gone}
                 ELSE IF e = "dependency"
                 THEN {i \in Ids(e) : rows[e][i].owner \in gone \/ rows[e][i].key[1] \in gone}
                 ELSE {}
  IN  [i \in Ids(e) \ orphans |-> rows[e][i]]

\* mark_services_removed: one "removed" entry for each service that is not
\* active, in the order of a SELECT that asks for none.
MarkServicesRemoved ==
  \E gone \in (SUBSET Ids("service")) \ {{}} : \E order \in [1 .. Cardinality(gone) -> gone] :
    /\ \A i, j \in DOMAIN order : order[i] = order[j] => i = j
    /\ Len(changes_log) + Len(order) <= MaxLog
    /\ changes_log' = changes_log \o
         [i \in DOMAIN order |-> Change("service", order[i], "removed", Null, Null)]
    /\ rows' = [e \in Entity |-> Without(e, gone)]
    /\ UNCHANGED last_id

\* The get_ and search_ methods and the context summary change nothing.
Read == UNCHANGED vars

\* Ports and configuration files may be without a service (models.py:55, 72).
Next ==
  \/ \E hostname \in Hostname, v \in MaybeValue : UpsertNode(hostname, v)
  \/ \E key \in ServiceKey, node_id \in Id \cup {Null}, v \in MaybeValue :
        UpsertService(key, node_id, v)
  \/ \E key \in PortKey, service_id \in Id \cup {Null}, seen \in Observation :
        UpsertPort(key, service_id, seen)
  \/ \E path \in Path, service_id \in Id \cup {Null}, seen \in Observation :
        UpsertConfigFile(path, service_id, seen)
  \/ \E name \in InterfaceName, node_id \in Id, v \in MaybeValue :
        UpsertNetworkInterface(name, node_id, v)
  \/ \E source, target \in Id, dep_type \in DepType : AddDependency(source, target, dep_type)
  \/ MarkServicesRemoved
  \/ Read

Spec == Init /\ [][Next]_vars

------------------------------------------------------------------------------
\* Type invariant.
TypeOK ==
  /\ DOMAIN rows = Entity
  /\ \A e \in Entity : Ids(e) \subseteq 1 .. last_id[e] /\ rows[e] \in [Ids(e) -> Row]
  /\ last_id \in [Entity -> 0 .. MaxId]
  /\ changes_log \in Seq(ChangeEntry)

\* Whatever was upserted and removed, no two rows of a table have the same
\* lookup key and owner, but for ports and configuration files without a
\* service: those the lookup never finds (store.py:167, 205), so that each
\* upsert of one stores another row.  Of services without a node neither this
\* nor the schema's UNIQUE, to which NULLs are distinct, would keep two apart:
\* that they are stored once is the COALESCE of their lookup.
NoDuplicateRows ==
  \A e \in Entity : \A i, j \in Ids(e) :
    /\ rows[e][i].key = rows[e][j].key
    /\ rows[e][i].owner = rows[e][j].owner
    /\ rows[e][i].owner # Null \/ e \in NullFindsNull
    => i = j

\* After any mixture of upserts and removals no row refers to a missing one,
\* a dependency at neither of its ends.
NoDanglingReferences ==
  /\ \A i \in Ids("service") : rows["service"][i].owner \in Ids("node") \cup {Null}
  /\ \A i \in Ids("network_interface") : rows["network_interface"][i].owner \in Ids("node")
  /\ \A e \in {"port", "config_file"} :
       \A i \in Ids(e) : rows[e][i].owner \in Ids("service") \cup {Null}
  /\ \A i \in Ids("dependency") :
       {rows["dependency"][i].owner, rows["dependency"][i].key[1]} \subseteq Ids("service")

\* Where the log tells of one row.
Entries(e, i) ==
  {k \in DOMAIN changes_log : changes_log[k].entity_type = e /\ changes_log[k].entity_id = i}

Modified(e, i) == {k \in Entries(e, i) : changes_log[k].change_type = "modified"}

IsFirst(k, entries) == \A j \in entries : k <= j
IsLast(k, entries) == \A j \in entries : j <= k

\* The log tells the history of each logged column: it begins with the row's
\* only "added"; each "modified" starts from the value the previous one ended
\* with, and the last one ended with the value stored now; a service is gone
\* exactly when its history ends with "removed".  Of bind_address and
\* last_modified it tells nothing, as no change of theirs is logged.
RowHistory(e, i) ==
  /\ Entries(e, i) # {}
  /\ \A k \in Entries(e, i) : changes_log[k].change_type = "added" <=> IsFirst(k, Entries(e, i))
  /\ \A j, k \in Modified(e, i) :
       j < k /\ (\A m \in Modified(e, i) : m <= j \/ k <= m) =>
         changes_log[k].old_value = changes_log[j].new_value
  /\ i \in Ids(e) =>
       \A k \in Modified(e, i) :
         IsLast(k, Modified(e, i)) => rows[e][i].value = changes_log[k].new_value
  /\ e = "service" =>
       \A k \in Entries(e, i) :
         IsLast(k, Entries(e, i)) => (changes_log[k].change_type = "removed" <=> i \notin Ids(e))

LogTellsHistory == \A e \in Entity : \A i \in 1 .. last_id[e] : RowHistory(e, i)

\* A later, poorer observation (None) never erases what was known, the columns
\* that are not logged included.  Ports are left out: upsert_port sets both of
\* its columns to whatever it is given (store.py:184).
KnownStaysKnown ==
  [][\A e \in Entity \ {"port"} : \A i \in Ids(e) \cap DOMAIN rows'[e] :
       /\ rows[e][i].value # Null => rows'[e][i].value # Null
       /\ rows[e][i].aside # Null => rows'[e][i].aside # Null]_vars
==============================================================================
