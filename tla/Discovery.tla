------------------------------- MODULE Discovery -------------------------------
(***************************************************************************)
(* Registration of service instances: the handlers of discovery_server.go, *)
(* ServiceManager in discovery_core.go, Service and Cluster of             *)
(* discovery_model.go, and kvDiscoveryStorage over the two key-value       *)
(* stores of server/storage/kv.go.  A request is a sequence of steps; only *)
(* createServiceIfAbsent and removeInstance hold ServiceManager.lock.      *)
(*                                                                         *)
(* Services and clusters are pointers: numbers into the sequences in which *)
(* they were made.  badger runs without SyncWrites, so a crash leaves what *)
(* was on disk at some moment since the last sync.                         *)
(*                                                                         *)
(* Premises: DiscoverySdkAPI.core, ServiceManager.lessHolder and the       *)
(* memory store with a hook of each kind are in place (core and lessHolder *)
(* are assigned nowhere, the memory store's init panics on using a         *)
(* function as a map key, and without a hook its Write panics).            *)
(* ZeroMapUsable is as in ClusterManager: with the vendored pole-rpc it is *)
(* FALSE, and every registration ends at the Put of its cluster.           *)
(***************************************************************************)
EXTENDS Integers, Sequences

CONSTANTS
  Requests,
  Namespaces, ServiceNames, ClusterNames, Addrs,
  ZeroMapUsable,
  MaxCrashes       \* bound: crashes of the server

ASSUME DiscoveryAssumption == ZeroMapUsable \in BOOLEAN /\ MaxCrashes \in Nat

VARIABLES
  services,   \* ServiceManager.services: 0, or the number of the service
  clusters,   \* Service.Clusters of each service made: 0, or the number of ...
  objects,    \* ... a cluster: its type and its repository
  recent,     \* what was on disk since the last sync; the last is what is now
  memory,     \* the keys of the memory store
  leases,     \* the keys of Lessor.lessRep
  pc, req,    \* where each request is, and what it asks for
  service,    \* the service it works on
  cluster,    \* the cluster it works on
  answers,    \* what was sent to its sink
  crashes

tables == <<services, clusters, objects, leases>>
stores == <<recent, memory>>
locals == <<service, cluster>>
vars == <<tables, stores, pc, req, locals, answers, crashes>>

-----------------------------------------------------------------------------
Register ==
  [ns : Namespaces, name : ServiceNames, clu : ClusterNames, addr : Addrs,
   ephemeral : BOOLEAN, heartbeat : BOOLEAN]
NoRequest == [op |-> "none"]

\* Keys of the stores.  ParseServiceName and ParseInstanceKey leave the
\* namespace out.
ServiceKey(n) == <<"service", n>>
ClusterListKey(n) == <<"clusterList", n>>
InstanceKey(q) == <<"instance", q.name, q.clu, q.addr>>

Instance(q) == [key |-> InstanceKey(q), ephemeral |-> q.ephemeral]

disk == recent[Len(recent)]

Init ==
  /\ services = [s \in Namespaces \X ServiceNames |-> 0]
  /\ clusters = <<>>
  /\ objects = <<>>
  /\ recent = <<{}>>
  /\ memory = {}
  /\ leases = {}
  /\ pc = [r \in Requests |-> "idle"]
  /\ req = [r \in Requests |-> NoRequest]
  /\ service = [r \in Requests |-> 0]
  /\ cluster = [r \in Requests |-> 0]
  /\ answers = [r \in Requests |-> <<>>]
  /\ crashes = 0

Goto(r, label) == pc' = [pc EXCEPT ![r] = label]

Answer(r, code) ==
  /\ answers' = [answers EXCEPT ![r] = Append(@, code)]
  /\ Goto(r, "done")

WriteDisk(keys) == recent' = Append(recent, disk \cup keys)

-----------------------------------------------------------------------------
Begin(r) ==
  /\ pc[r] = "idle"
  /\ \E q \in Register, first \in {"create", "remove"} :
       req' = [req EXCEPT ![r] = q] /\ Goto(r, first)
  /\ UNCHANGED <<tables, stores, locals, answers, crashes>>

\* A body that does not decode is answered, and then handled all the same: the
\* handlers do not return, and the request without an instance panics.
Malformed(r) ==
  /\ pc[r] = "idle"
  /\ answers' = [answers EXCEPT ![r] = Append(@, "malformed")]
  /\ Goto(r, "panicked")
  /\ UNCHANGED <<tables, stores, req, locals, crashes>>

\* The write lock, and the look at the map under it.
NoReader == \A r \in Requests : pc[r] # "removing"
NeverExists(q) == FALSE
Exists(q) == services[<<q.ns, q.name>>] # 0

\* createServiceIfAbsent.  SaveService writes the service and the list of its
\* clusters in one batch.
FindService(r) ==
  /\ pc[r] = "create"
  /\ NoReader
  /\ Exists(req[r])
  /\ service' = [service EXCEPT ![r] = services[<<req[r].ns, req[r].name>>]]
  /\ Goto(r, "get")
  /\ UNCHANGED <<tables, stores, req, cluster, answers, crashes>>

NewService(r) ==
  /\ clusters' = Append(clusters, [c \in ClusterNames |-> 0])
  /\ services' = [services EXCEPT ![<<req[r].ns, req[r].name>>] = Len(clusters')]
  /\ service' = [service EXCEPT ![r] = Len(clusters')]
  /\ Goto(r, "get")
  /\ UNCHANGED <<objects, leases, memory, req, cluster, crashes>>

CreateService(r) ==
  /\ pc[r] = "create"
  /\ NoReader
  /\ ~Exists(req[r])
  /\ WriteDisk({ServiceKey(req[r].name), ClusterListKey(req[r].name)})
  /\ NewService(r)
  /\ UNCHANGED answers

KeepUnsaved(r) == NewService(r) /\ UNCHANGED <<recent, answers>>
OnUnsavedService(r) ==
  /\ Answer(r, "error")
  /\ UNCHANGED <<tables, stores, req, locals, crashes>>

CreateServiceFails(r) ==
  /\ pc[r] = "create"
  /\ NoReader
  /\ ~Exists(req[r])
  /\ OnUnsavedService(r)

-----------------------------------------------------------------------------
\* storeInstanceInfo looks for the cluster under its qualified name and stores
\* it under the plain one.  Unless the plain name of one cluster is the
\* qualified name of another, none is ever found: its check of the cluster's
\* type is one of a cluster just made for the instance, and the new cluster
\* replaces the one that was there.
PutCluster(r) ==
  [clusters EXCEPT ![service[r]][req[r].clu] = Len(objects) + 1]

storeInstanceInfo(r) ==
  /\ pc[r] = "get"
  /\ IF ZeroMapUsable
     THEN /\ objects' = Append(objects, [ephemeral |-> req[r].ephemeral,
                                         repository |-> {}])
          /\ clusters' = PutCluster(r)
          /\ Goto(r, "save")
     ELSE Goto(r, "panicked") /\ UNCHANGED <<objects, clusters>>
  /\ UNCHANGED <<services, leases, stores, req, locals, answers, crashes>>

\* SaveInstance: ephemeral instances go to the memory store.
InMemory(q) == q.ephemeral
Save(q) ==
  IF InMemory(q)
  THEN memory' = memory \cup {InstanceKey(q)} /\ UNCHANGED recent
  ELSE WriteDisk({InstanceKey(q)}) /\ UNCHANGED memory

SaveInstance(r) ==
  /\ pc[r] = "save"
  /\ Save(req[r])
  /\ Goto(r, "add")
  /\ UNCHANGED <<tables, req, locals, answers, crashes>>

\* The callback with an error.
OnUnsavedInstance(r) == Answer(r, "error")

SaveInstanceFails(r) ==
  /\ pc[r] = "save"
  /\ OnUnsavedInstance(r)
  /\ UNCHANGED <<tables, stores, req, locals, crashes>>

\* Service.addInstance takes the cluster now stored under the plain name, which
\* a registration in between may have replaced ...
addInstance(r) ==
  /\ pc[r] = "add"
  /\ LET c == clusters[service[r]][req[r].clu] IN
     /\ cluster' = [cluster EXCEPT ![r] = c]
     /\ Goto(r, IF c = 0 THEN "panicked" ELSE "put")
  /\ UNCHANGED <<tables, stores, req, service, answers, crashes>>

Without(rep, key) == {i \in rep : i.key # key}

\* ... and puts the instance into it.  The lease is granted and the request
\* answered; nothing else reads either.
PutInstance(r) ==
  /\ pc[r] = "put"
  /\ objects' = [objects EXCEPT ![cluster[r]].repository =
       Without(@, InstanceKey(req[r])) \cup {Instance(req[r])}]
  /\ leases' = IF req[r].heartbeat THEN leases \cup {InstanceKey(req[r])} ELSE leases
  /\ Answer(r, "ok")
  /\ UNCHANGED <<services, clusters, stores, req, locals, crashes>>

-----------------------------------------------------------------------------
\* removeInstance, under the read lock: a missing namespace or service is
\* answered, a missing cluster is a nil that the type assertion panics on.
removeInstance(r) ==
  /\ pc[r] = "remove"
  /\ LET q == req[r]
         s == services[<<q.ns, q.name>>]
     IN  IF s = 0
         THEN Answer(r, "error") /\ UNCHANGED cluster
         ELSE /\ cluster' = [cluster EXCEPT ![r] = clusters[s][q.clu]]
              /\ Goto(r, IF clusters[s][q.clu] = 0 THEN "panicked" ELSE "removing")
              /\ UNCHANGED answers
  /\ UNCHANGED <<tables, stores, req, service, crashes>>

RemoveFromCluster(r) ==
  /\ pc[r] = "removing"
  /\ objects' = [objects EXCEPT ![cluster[r]].repository = Without(@, InstanceKey(req[r]))]
  /\ Answer(r, "ok")
  /\ UNCHANGED <<services, clusters, leases, stores, req, locals, crashes>>

-----------------------------------------------------------------------------
\* badger's background work: the oldest state can no longer come back.
Sync ==
  /\ Len(recent) > 1
  /\ recent' = Tail(recent)
  /\ UNCHANGED <<tables, memory, pc, req, locals, answers, crashes>>

\* A crash of the server.  Nothing is read back when it starts again.
Crash ==
  /\ crashes < MaxCrashes
  /\ crashes' = crashes + 1
  /\ \E i \in DOMAIN recent : recent' = <<recent[i]>>
  /\ services' = [s \in Namespaces \X ServiceNames |-> 0]
  /\ clusters' = <<>>
  /\ objects' = <<>>
  /\ memory' = {}
  /\ leases' = {}
  /\ pc' = [r \in Requests |-> IF pc[r] = "idle" THEN "idle" ELSE "gone"]
  /\ service' = [r \in Requests |-> 0]
  /\ cluster' = [r \in Requests |-> 0]
  /\ UNCHANGED <<req, answers>>

RequestStep(r) ==
  \/ FindService(r) \/ CreateService(r) \/ CreateServiceFails(r)
  \/ storeInstanceInfo(r)
  \/ SaveInstance(r) \/ SaveInstanceFails(r)
  \/ addInstance(r) \/ PutInstance(r)
  \/ removeInstance(r) \/ RemoveFromCluster(r)

Next ==
  \/ \E r \in Requests : Begin(r) \/ Malformed(r) \/ RequestStep(r)
  \/ Sync
  \/ Crash

Spec == Init /\ [][Next]_vars

\* A request that has been taken up is worked on; the mutex is fair.
FairSpec == Spec /\ \A r \in Requests : WF_vars(RequestStep(r))

-----------------------------------------------------------------------------
\* Whatever a crash leaves on disk has the service of each of its instances:
\* createServiceIfAbsent writes it first, once per life of the server.
InstanceHasService ==
  \A i \in DOMAIN recent : \A q \in Register :
    InstanceKey(q) \in recent[i] => ServiceKey(q.name) \in recent[i]

\* Registrations of one service, however they interleave, work on one Service.
Registering == {"get", "save", "add", "put"}
OneService ==
  \A r \in Requests :
    pc[r] \in Registering => service[r] = services[<<req[r].ns, req[r].name>>]

-----------------------------------------------------------------------------
\* docs/discovery/discovery_mode.md: the instances of a cluster are either all
\* persistent or all ephemeral.
ClusterUniform ==
  \A c \in DOMAIN objects : \A i, j \in objects[c].repository : i.ephemeral = j.ephemeral
=============================================================================
