------------------------------ MODULE DNAScanner ------------------------------
(***************************************************************************)
(* silicon_valet/dna/scanner.py: run_forever and scan_once over the store. *)
(* The probes are read by one task and all that they return is persisted   *)
(* row by row, each row in a transaction of its own, so a scan may end     *)
(* after any row: a probe or the store raises and run_forever goes on, or  *)
(* the process is killed and starts again.                                 *)
(*                                                                         *)
(* What a probe found is a sequence of items: a key of a table, a value,   *)
(* and the owner where the probe knows it.  What probes may find, in one   *)
(* scan or another, is given by constants: a probe that fails, times out   *)
(* or whose output cannot be parsed finds nothing, or a part.              *)
(***************************************************************************)
EXTENDS DNAStore

CONSTANTS
  HasKubectl, HasDocker, \* config.capabilities
  KubeNodes,             \* what kubectl get nodes may find
  LocalNodes,            \* what _scan_local_node may find
  K8sServices, SystemdServices, DockerServices,
  TcpPorts, UdpPorts, Interfaces,
  Name, NameOf,          \* [ServiceKey -> Name]: a service's name
  ConfigsOf,             \* [Name -> what _scan_config_files may find]
  NumberOf,              \* [PortKey -> port number]
  KnownDeps,             \* <<source, target, dep_type>> that known_deps matches
  MaxScans               \* bound: scans begun

Item(keys) == [key : keys, value : MaybeValue]
PortItem == [key : PortKey, value : Value, aside : Aside]  \* state, bind_address

ASSUME ScannerAssumption ==
  /\ HasKubectl \in BOOLEAN /\ HasDocker \in BOOLEAN
  /\ KubeNodes \subseteq Seq(Item(Hostname)) /\ KubeNodes # {}
  /\ LocalNodes \subseteq Seq(Item(Hostname)) \ {<< >>} /\ LocalNodes # {}
  /\ \A s \in {K8sServices, SystemdServices, DockerServices} :
       s \subseteq Seq(Item(ServiceKey)) /\ s # {}
  /\ \A p \in {TcpPorts, UdpPorts} : p \subseteq Seq(PortItem) /\ p # {}
  /\ Interfaces \subseteq Seq(Item(InterfaceName)) /\ Interfaces # {}
  /\ NameOf \in [ServiceKey -> Name]
  /\ \A n \in Name : ConfigsOf[n] \subseteq Seq(Item(Path)) /\ ConfigsOf[n] # {}
  /\ KnownDeps \in Seq(Name \X Name \X DepType)
  /\ MaxScans \in Nat

VARIABLES
  step,                  \* where in scan_once the scanner is
  todo,                  \* what the current loop of scan_once has left
  result,                \* the ScanResult of this scan
  first_node,            \* the first id in node_map, or Null
  service_name_map,      \* [names seen -> service id]
  configs_left,          \* the names whose config files are still to be scanned
  settled,               \* ghost: the result the store has taken in, or NoResult
  scans                  \* scans begun

scan == <<step, todo, result, first_node, service_name_map, configs_left>>
scannerVars == <<vars, scan, settled, scans>>

EmptyResult ==
  [nodes |-> << >>, services |-> << >>, ports |-> << >>,
   network_interfaces |-> << >>, config_files |-> << >>]
NoResult == [none |-> TRUE]

ScannerInit ==
  /\ Init
  /\ step = "sleeping"
  /\ todo = << >>
  /\ result = EmptyResult
  /\ first_node = Null
  /\ service_name_map = << >>
  /\ configs_left = {}
  /\ settled = NoResult
  /\ scans = 0

------------------------------------------------------------------------------
\* The probes.  kubectl's nodes if it lists any, else the local one.
NodesFound ==
  IF HasKubectl
  THEN (KubeNodes \ {<< >>}) \cup (IF << >> \in KubeNodes THEN LocalNodes ELSE {})
  ELSE LocalNodes

\* What is not installed is not probed.
IfPresent(tool, found) == IF tool THEN found ELSE {<< >>}

\* Kubernetes, systemd and Docker, in this order.
ServicesFound ==
  {k \o s \o d : k \in IfPresent(HasKubectl, K8sServices),
                 s \in SystemdServices,
                 d \in IfPresent(HasDocker, DockerServices)}

\* ss for tcp, then for udp; the one may fail and the other not.
PortsFound == {t \o u : t \in TcpPorts, u \in UdpPorts}

\* ip's interfaces but the loopback, or none if it fails or is not understood.
InterfacesFound == Interfaces \cup {<< >>}

\* One listing does not say two things of one key: kubectl, systemctl, docker,
\* ip and find name each thing once, pods and deployments differ in type, and
\* the paths searched for one service do not overlap.  (ss does not: a port may
\* be bound twice.)
Agree(list) ==
  \A i, j \in DOMAIN list :
    list[i].key = list[j].key /\ Null \notin {list[i].value, list[j].value} =>
      list[i].value = list[j].value

ASSUME ListingAssumption ==
  /\ \A list \in NodesFound \cup ServicesFound \cup InterfacesFound : Agree(list)
  /\ \A n \in Name : \A list \in ConfigsOf[n] : Agree(list)

Elements(list) == {list[k] : k \in DOMAIN list}

\* The ghost: this scan does not find what the store has taken in.
Unsettle(different) == settled' = IF different THEN NoResult ELSE settled

\* Begins a scan: scan_once awaits its probes and has persisted nothing yet.
Probe ==
  /\ step = "sleeping"
  /\ scans < MaxScans
  /\ scans' = scans + 1
  /\ \E n \in NodesFound, s \in ServicesFound, p \in PortsFound, i \in InterfacesFound :
       /\ result' = [EmptyResult EXCEPT !.nodes = n, !.services = s, !.ports = p,
                                        !.network_interfaces = i]
       /\ todo' = n
       /\ Unsettle(settled # NoResult /\ [settled EXCEPT !.config_files = << >>] # result')
  /\ step' = "nodes"
  /\ first_node' = Null
  /\ service_name_map' = << >>
  /\ configs_left' = {}
  /\ UNCHANGED vars

------------------------------------------------------------------------------
\* The loops of scan_once, in their order.
Loops == <<"nodes", "services", "ports", "interfaces", "configs">>

NextLoop ==
  /\ todo = << >>
  /\ \E k \in 1 .. Len(Loops) - 1 :
       /\ step = Loops[k]
       /\ step' = Loops[k + 1]
       /\ todo' = CASE step' = "services" -> result.services
                    [] step' = "ports" -> result.ports
                    [] step' = "interfaces" -> result.network_interfaces
                    [] step' = "configs" -> << >>
       /\ configs_left' = IF step' = "configs" THEN DOMAIN service_name_map ELSE {}
  /\ UNCHANGED <<vars, result, first_node, service_name_map, settled, scans>>

\* One turn of a loop takes one item.
Turn(loop) ==
  /\ step = loop
  /\ todo # << >>
  /\ todo' = Tail(todo)
  /\ UNCHANGED <<step, result, configs_left, settled, scans>>

\* Mutant of StoredId: the key is taken for the id.
StoredKey(e, key, owner) == key

\* The id of a row that an upsert has just found or made.
StoredId(e, key, owner) ==
  CHOOSE i \in DOMAIN rows'[e] : rows'[e][i].key = key /\ rows'[e][i].owner = owner

StoreNode ==
  /\ Turn("nodes")
  /\ UpsertNode(Head(todo).key, Head(todo).value)
  /\ first_node' = IF first_node = Null THEN StoredId("node", Head(todo).key, Null)
                                        ELSE first_node
  /\ UNCHANGED service_name_map

\* Mutant of HomeOf: services stay without a node, as the probes made them.
HomeUnknown == Null

\* A service or interface whose node the probe does not know goes to the first.
HomeOf == first_node

\* A later service of the same name takes the name over.
StoreService ==
  /\ Turn("services")
  /\ UpsertService(Head(todo).key, HomeOf, Head(todo).value)
  /\ service_name_map' =
       [n \in DOMAIN service_name_map \cup {NameOf[Head(todo).key]} |->
          IF n = NameOf[Head(todo).key] THEN StoredId("service", Head(todo).key, HomeOf)
                                        ELSE service_name_map[n]]
  /\ UNCHANGED first_node

\* get_service_by_port, for any of the rows LIMIT 1 may pick.  The join passes
\* over ports without a service.
ServicesByPort(number) ==
  {rows["port"][i].owner : i \in {j \in Ids("port") : NumberOf[rows["port"][j].key] = number}}
    \ {Null}

\* A port whose service is not known is not stored.
StorePort ==
  /\ Turn("ports")
  /\ LET port == Head(todo)
         services == ServicesByPort(NumberOf[port.key])
     IN  IF services = {} THEN UNCHANGED vars
         ELSE \E s \in services : UpsertPort(port.key, s, [value |-> port.value, aside |-> port.aside])
  /\ UNCHANGED <<first_node, service_name_map>>

StoreInterface ==
  /\ Turn("interfaces")
  /\ IF HomeOf = Null THEN UNCHANGED vars
     ELSE UpsertNetworkInterface(Head(todo).key, HomeOf, Head(todo).value)
  /\ UNCHANGED <<first_node, service_name_map>>

\* _scan_config_files of one name, in any order of the names.
ScanConfigs ==
  /\ step = "configs"
  /\ todo = << >>
  /\ \E n \in configs_left : \E found \in ConfigsOf[n] :
       LET id == service_name_map[n]
           files == [k \in DOMAIN found |->
                       [key |-> found[k].key, owner |-> id, value |-> found[k].value]]
       IN  /\ todo' = files
           /\ configs_left' = configs_left \ {n}
           /\ result' = [result EXCEPT !.config_files = @ \o files]
           /\ Unsettle(settled # NoResult /\
                {f \in Elements(settled.config_files) : f.owner = id} # Elements(files))
  /\ UNCHANGED <<vars, step, first_node, service_name_map, scans>>

\* The scanner hashes the file and leaves last_modified out.
StoreConfigFile ==
  /\ Turn("configs")
  /\ UpsertConfigFile(Head(todo).key, Head(todo).owner, Logged(Head(todo).value))
  /\ UNCHANGED <<first_node, service_name_map>>

InferDependencies ==
  /\ step = "configs" /\ todo = << >> /\ configs_left = {}
  /\ step' = "dependencies"
  /\ todo' = KnownDeps
  /\ UNCHANGED <<vars, result, first_node, service_name_map, configs_left, settled, scans>>

\* _infer_dependencies: between two services of this scan.
StoreDependency ==
  /\ Turn("dependencies")
  /\ LET d == Head(todo)
         map == service_name_map
     IN  IF {d[1], d[2]} \subseteq DOMAIN map /\ map[d[1]] # map[d[2]]
         THEN AddDependency(map[d[1]], map[d[2]], d[3])
         ELSE UNCHANGED vars
  /\ UNCHANGED <<first_node, service_name_map>>

\* What a scan holds in memory is gone.
Forget ==
  /\ step' = "sleeping"
  /\ todo' = << >>
  /\ result' = EmptyResult
  /\ first_node' = Null
  /\ service_name_map' = << >>
  /\ configs_left' = {}

EndScan ==
  /\ step = "dependencies" /\ todo = << >>
  /\ settled' = result
  /\ Forget
  /\ UNCHANGED <<vars, scans>>

\* A probe or the store raises and run_forever logs it and sleeps, or the
\* process is killed: the rows stored so far stay.
Interrupted ==
  /\ step # "sleeping"
  /\ Forget
  /\ UNCHANGED <<vars, settled, scans>>

\* asyncio.sleep(interval).
Sleep == step = "sleeping" /\ UNCHANGED scannerVars

StoreRow ==
  \/ StoreNode \/ StoreService \/ StorePort \/ StoreInterface
  \/ StoreConfigFile \/ StoreDependency

ScannerNext ==
  \/ Probe \/ NextLoop \/ StoreRow \/ ScanConfigs \/ InferDependencies
  \/ EndScan \/ Interrupted \/ Sleep

ScannerSpec == ScannerInit /\ [][ScannerNext]_scannerVars

------------------------------------------------------------------------------
\* Type invariant of the scanner's own state: each loop gets the items of its
\* table.
ConfigItem == [key : Path, owner : Id, value : MaybeValue]

ScanResult ==
  [nodes : Seq(Item(Hostname)), services : Seq(Item(ServiceKey)), ports : Seq(PortItem),
   network_interfaces : Seq(Item(InterfaceName)), config_files : Seq(ConfigItem)]

TodoOK ==
  /\ step \in {"sleeping", "dependencies"} \cup {Loops[k] : k \in DOMAIN Loops}
  /\ step = "nodes" => todo \in Seq(Item(Hostname))
  /\ step = "services" => todo \in Seq(Item(ServiceKey))
  /\ step = "ports" => todo \in Seq(PortItem)
  /\ step = "interfaces" => todo \in Seq(Item(InterfaceName))
  /\ step = "configs" => todo \in Seq(ConfigItem)
  /\ step = "dependencies" => todo \in Seq(Name \X Name \X DepType)

ScannerTypeOK ==
  /\ TodoOK
  /\ result \in ScanResult
  /\ first_node \in Id \cup {Null}
  /\ DOMAIN service_name_map \subseteq Name
  /\ \A n \in DOMAIN service_name_map : service_name_map[n] \in Id
  /\ configs_left \subseteq DOMAIN service_name_map

HasRow(e, item, owner) ==
  \E i \in Ids(e) : /\ rows[e][i].key = item.key
                    /\ rows[e][i].owner = owner
                    /\ item.value # Null => rows[e][i].value = item.value

Named(n) == {i \in Ids("service") : NameOf[rows["service"][i].key] = n}

\* scan_once promises to "reconcile with the store" (scanner.py:101): once a
\* scan has gone through, the store has what it found, whatever earlier scans
\* found and wherever they or a later scan of the same things were cut off.
StoreHoldsResult ==
  settled # NoResult =>
    /\ \A k \in DOMAIN settled.nodes : HasRow("node", settled.nodes[k], Null)
    /\ \E home \in Ids("node") :
         /\ rows["node"][home].key = settled.nodes[1].key
         /\ \A k \in DOMAIN settled.services : HasRow("service", settled.services[k], home)
         /\ \A k \in DOMAIN settled.network_interfaces :
              HasRow("network_interface", settled.network_interfaces[k], home)
    /\ \A k \in DOMAIN settled.config_files :
         HasRow("config_file", settled.config_files[k], settled.config_files[k].owner)
    /\ \A k \in DOMAIN KnownDeps :
         LET d == KnownDeps[k]
             seen == {NameOf[settled.services[j].key] : j \in DOMAIN settled.services}
         IN  d[1] # d[2] /\ {d[1], d[2]} \subseteq seen =>
               \E i \in Ids("dependency") :
                 /\ rows["dependency"][i].owner \in Named(d[1])
                 /\ rows["dependency"][i].key[1] \in Named(d[2])
                 /\ rows["dependency"][i].key[2] = d[3]

\* The recent changes shown to the model (get_context_summary) are changes: a
\* scan that finds what the store has already taken in logs nothing, however
\* far it gets.
RescanIsQuiet ==
  [][settled # NoResult /\ settled' = settled => changes_log' = changes_log]_scannerVars
==============================================================================
