-------------------------- MODULE DiscoveryStorage --------------------------
(***************************************************************************)
(* kvDiscoveryStorage of server/discovery/discovery_storage.go over its    *)
(* two stores: badger on disk, and the memory store (KvStorage, here with  *)
(* the hooks it needs, so that each of its operations is one step).        *)
(* Discovery uses SaveService, SaveInstance and their callbacks; this      *)
(* module has every operation, called by anyone in any order.              *)
(*                                                                         *)
(* badger is external: a WriteBatch and a transaction take effect as one,  *)
(* a read transaction reads one state, and without SyncWrites a crash      *)
(* leaves what was on disk at some moment since the last sync.  A call     *)
(* that fails to encode its argument or that the store refuses has no      *)
(* effect and hands the error to its callback; it is not a step.           *)
(***************************************************************************)
EXTENDS Naturals, Sequences, FiniteSets

CONSTANTS
  Services, Clusters, Instances,
  Readers,       \* callers of ReadService
  MaxVersion,    \* bound: calls that write or delete
  MaxCrashes     \* bound: crashes

ASSUME DiscoveryStorageAssumption == MaxVersion \in Nat /\ MaxCrashes \in Nat

VARIABLES
  recent,      \* what was on disk since the last sync; the last is what is now
  memory,      \* the memory store: instances
  version,     \* number of the last call; what it writes carries the number
  names,       \* the clusters that the list written by each call holds
  query,       \* of each reader: place, and what it has filled in
  crashes,
  kinds,       \* history: how each instance was passed, by its kind or in a
               \* batch led by one of the other kind
  removed      \* history: instances whose last call was RemoveInstance

dsVars == <<recent, memory, version, names, query, crashes, kinds, removed>>
history == <<kinds, removed>>

-----------------------------------------------------------------------------
ServiceKey(s) == <<"service", s>>
ParseServiceClusterList(s) == <<"list", s>>
ClusterKey(c) == <<"cluster", c>>
InstanceKey(i) == <<"instance", i>>
DiskKeys ==
  {ServiceKey(s) : s \in Services} \cup {ParseServiceClusterList(s) : s \in Services}
    \cup {ClusterKey(c) : c \in Clusters} \cup {InstanceKey(i) : i \in Instances}

disk == recent[Len(recent)]
NoQuery == [at |-> "idle", service |-> 0, list |-> 0]

DsInit ==
  /\ recent = <<[k \in DiskKeys |-> 0]>>
  /\ memory = [i \in Instances |-> 0]
  /\ version = 0
  /\ names = <<>>
  /\ query = [r \in Readers |-> NoQuery]
  /\ crashes = 0
  /\ kinds = [i \in Instances |-> {}]
  /\ removed = {}

Onto(state, keys, v) == [k \in DOMAIN state |-> IF k \in keys THEN v ELSE state[k]]

\* badger: Write and WriteBatch, Delete and DeleteBatch, Read and ReadBatch.
\* A read fails when a key is missing.  A batch is taken to fit into one
\* transaction of badger, which splits a larger one.
WriteDisk(keys) == recent' = Append(recent, Onto(disk, keys, version + 1)) /\ UNCHANGED memory
DeleteDisk(keys) == recent' = Append(recent, Onto(disk, keys, 0)) /\ UNCHANGED memory
Readable(keys) == \A k \in keys : disk[k] # 0

Call(cs) ==
  /\ version < MaxVersion
  /\ version' = version + 1
  /\ names' = Append(names, cs)
  /\ UNCHANGED <<query, crashes>>

-----------------------------------------------------------------------------
\* The service and the list of its clusters, in one batch.
SaveInTurn(s) ==
  /\ recent' = recent \o <<Onto(disk, {ParseServiceClusterList(s)}, version + 1),
       Onto(disk, {ServiceKey(s), ParseServiceClusterList(s)}, version + 1)>>
  /\ UNCHANGED memory
SaveTogether(s) == WriteDisk({ServiceKey(s), ParseServiceClusterList(s)})

SaveService(s, cs) ==
  /\ Call(cs)
  /\ SaveTogether(s)
  /\ UNCHANGED history

\* Services alone, without their lists.
BatchUpdateService(ss) ==
  /\ Call({})
  /\ WriteDisk({ServiceKey(s) : s \in ss})
  /\ UNCHANGED history

\* The service alone: its list, clusters and instances stay.
RemoveService(s) ==
  /\ Call({})
  /\ DeleteDisk({ServiceKey(s)})
  /\ UNCHANGED history

BatchUpdateCluster(cs) ==
  /\ Call({})
  /\ WriteDisk({ClusterKey(c) : c \in cs})
  /\ UNCHANGED history

SaveCluster(c) == BatchUpdateCluster({c})

RemoveCluster(c) ==
  /\ Call({})
  /\ DeleteDisk({ClusterKey(c)})
  /\ UNCHANGED history

\* All go to the store of the first.
BatchUpdateInstance(first, kind) ==
  /\ Call({})
  /\ IF kind[first]
     THEN memory' = Onto(memory, DOMAIN kind, version + 1) /\ UNCHANGED recent
     ELSE WriteDisk({InstanceKey(i) : i \in DOMAIN kind})
  /\ kinds' = [i \in Instances |->
       kinds[i] \cup (IF i \in DOMAIN kind THEN {kind[i], kind[first]} ELSE {})]
  /\ removed' = removed \ DOMAIN kind

SaveInstance(i, ephemeral) == BatchUpdateInstance(i, [j \in {i} |-> ephemeral])

FromDisk(i, ephemeral) == DeleteDisk({InstanceKey(i)})
FromItsStore(i, ephemeral) ==
  IF ephemeral
  THEN memory' = Onto(memory, {i}, 0) /\ UNCHANGED recent
  ELSE DeleteDisk({InstanceKey(i)})

RemoveInstance(i, ephemeral) ==
  /\ Call({})
  /\ FromItsStore(i, ephemeral)
  /\ kinds' = [kinds EXCEPT ![i] = @ \cup {ephemeral}]
  /\ removed' = removed \cup {i}

-----------------------------------------------------------------------------
\* ReadService.  The service and its list are one read; the query keeps the
\* service when what follows fails.
ReadPair(r, s) ==
  /\ query[r].at = "idle"
  /\ Readable({ServiceKey(s), ParseServiceClusterList(s)})
  /\ query' = [query EXCEPT ![r] =
       [at |-> "clusters", service |-> disk[ServiceKey(s)],
        list |-> disk[ParseServiceClusterList(s)]]]
  /\ UNCHANGED <<recent, memory, version, names, crashes, history>>

ReadPairFails(r, s) ==
  /\ query[r].at = "idle"
  /\ ~Readable({ServiceKey(s), ParseServiceClusterList(s)})
  /\ query' = [query EXCEPT ![r].at = "failed"]
  /\ UNCHANGED <<recent, memory, version, names, crashes, history>>

\* The clusters of the list are a second read.  Each must be there, and an
\* empty list is read as one cluster without a name, which badger refuses.
ReadClusters(r) ==
  /\ query[r].at = "clusters"
  /\ LET cs == names[query[r].list] IN
       query' = [query EXCEPT ![r].at =
         IF cs # {} /\ Readable({ClusterKey(c) : c \in cs}) THEN "found" ELSE "failed"]
  /\ UNCHANGED <<recent, memory, version, names, crashes, history>>

-----------------------------------------------------------------------------
DsSync ==
  /\ Len(recent) > 1
  /\ recent' = Tail(recent)
  /\ UNCHANGED <<memory, version, names, query, crashes, history>>

DsCrash ==
  /\ crashes < MaxCrashes
  /\ crashes' = crashes + 1
  /\ \E j \in DOMAIN recent : recent' = <<recent[j]>>
  /\ memory' = [i \in Instances |-> 0]
  /\ query' = [r \in Readers |-> NoQuery]
  /\ removed' = {}
  /\ UNCHANGED <<version, names, kinds>>

DsNext ==
  \/ \E s \in Services : RemoveService(s) \/ \E cs \in SUBSET Clusters : SaveService(s, cs)
  \/ \E ss \in SUBSET Services \ {{}} : BatchUpdateService(ss)
  \/ \E cs \in SUBSET Clusters \ {{}} : BatchUpdateCluster(cs)
  \/ \E c \in Clusters : SaveCluster(c) \/ RemoveCluster(c)
  \/ \E is \in SUBSET Instances \ {{}} : \E first \in is, kind \in [is -> BOOLEAN] :
       BatchUpdateInstance(first, kind)
  \/ \E i \in Instances, e \in BOOLEAN : SaveInstance(i, e) \/ RemoveInstance(i, e)
  \/ \E r \in Readers : ReadClusters(r) \/ \E s \in Services : ReadPair(r, s) \/ ReadPairFails(r, s)
  \/ DsSync \/ DsCrash

DsSpec == DsInit /\ [][DsNext]_dsVars

-----------------------------------------------------------------------------
(* Properties *)

\* discovery_storage.go:74, 118-127: on disk, after any crash, and in what
\* ReadService has read, the list of a service's clusters is never newer than
\* the service: SaveService writes both as one and ReadService reads both at
\* one moment.
ListNotNewer ==
  /\ \A j \in DOMAIN recent, s \in Services :
       recent[j][ServiceKey(s)] # 0 =>
         recent[j][ParseServiceClusterList(s)] <= recent[j][ServiceKey(s)]
  /\ \A r \in Readers : query[r].list <= query[r].service

\* discovery_storage.go:214, 236, 257: an instance that has been removed is in
\* neither store until it is saved again, provided that it was always passed
\* with one kind, and never in a batch led by an instance of the other.
RemovedIsGone ==
  \A i \in removed : (\E k \in BOOLEAN : kinds[i] = {k}) =>
    memory[i] = 0 /\ disk[InstanceKey(i)] = 0
=============================================================================
