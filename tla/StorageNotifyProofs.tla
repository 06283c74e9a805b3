------------------------ MODULE StorageNotifyProofs -------------------------
(***************************************************************************)
(* Two independent parts: the discovery storage, for any services,         *)
(* clusters, instances and readers and any number of calls and crashes;    *)
(* and what a registration with the notify center leaves, for any topics,  *)
(* subscribers and callers.                                                *)
(***************************************************************************)
EXTENDS DiscoveryStorage, NotifyCenter, TLAPS

(* Sequences. *)

(* A sequence is a function on the numbers up to its length.                  *)
LEMMA LenProperties ==
  ASSUME NEW Elt, NEW seq \in Seq(Elt)
  PROVE  Len(seq) \in Nat /\ DOMAIN seq = 1 .. Len(seq) /\ seq \in [1 .. Len(seq) -> Elt]
OBVIOUS

(* The elements of a sequence over a set are in the set.                      *)
LEMMA ElementOfSeq ==
  ASSUME NEW Elt, NEW seq \in Seq(Elt), NEW i \in 1 .. Len(seq)
  PROVE  seq[i] \in Elt
OBVIOUS

(* The empty sequence, and the length of any other.                           *)
LEMMA EmptySeq ==
  ASSUME NEW Elt
  PROVE  /\ <<>> \in Seq(Elt) /\ Len(<<>>) = 0
         /\ \A seq \in Seq(Elt) : seq # <<>> => Len(seq) \in Nat \ {0}
OBVIOUS

(* A function on the first n numbers is a sequence.                           *)
LEMMA IsASeq ==
  ASSUME NEW Elt, NEW n \in Nat, NEW e(_), \A i \in 1 .. n : e(i) \in Elt
  PROVE  [i \in 1 .. n |-> e(i)] \in Seq(Elt)
OBVIOUS

(* Append makes the sequence longer by its last element.                      *)
LEMMA AppendProperties ==
  ASSUME NEW Elt, NEW seq \in Seq(Elt), NEW e \in Elt
  PROVE  /\ Append(seq, e) \in Seq(Elt) /\ Append(seq, e) # <<>>
         /\ Len(Append(seq, e)) = Len(seq) + 1
         /\ \A i \in 1 .. Len(seq) : Append(seq, e)[i] = seq[i]
         /\ Append(seq, e)[Len(seq) + 1] = e
OBVIOUS

(* Tail drops the first element.                                              *)
LEMMA HeadTailProperties ==
  ASSUME NEW Elt, NEW seq \in Seq(Elt), seq # <<>>
  PROVE  /\ Head(seq) \in Elt /\ Tail(seq) \in Seq(Elt) /\ Len(Tail(seq)) = Len(seq) - 1
         /\ \A i \in 1 .. Len(Tail(seq)) : Tail(seq)[i] = seq[i + 1]
OBVIOUS

(* The elements of a concatenation.                                           *)
LEMMA ConcatProperties ==
  ASSUME NEW Elt, NEW s \in Seq(Elt), NEW t \in Seq(Elt)
  PROVE  /\ s \o t \in Seq(Elt) /\ Len(s \o t) = Len(s) + Len(t)
         /\ \A i \in 1 .. Len(s) + Len(t) :
              (s \o t)[i] = IF i <= Len(s) THEN s[i] ELSE t[i - Len(s)]
OBVIOUS

-----------------------------------------------------------------------------
(* The discovery storage. *)

(* A state the disk may be in when the last call is the v-th and instances    *)
(* were passed as ks says: no value is newer than the last call, no list of   *)
(* clusters newer than its service, and an instance is there only if it was   *)
(* passed as a persistent one, or behind a persistent one.                    *)
Sound(d, v, ks) ==
  /\ d \in [DiskKeys -> Nat]
  /\ \A k \in DiskKeys : d[k] <= v
  /\ \A s \in Services :
       d[ServiceKey(s)] # 0 => d[ParseServiceClusterList(s)] <= d[ServiceKey(s)]
  /\ \A i \in Instances : d[InstanceKey(i)] # 0 => FALSE \in ks[i]

QueryType == [at : {"idle", "clusters", "found", "failed"}, service : Nat, list : Nat]

DsInv ==
  /\ version \in Nat
  /\ recent \in Seq([DiskKeys -> Nat]) /\ recent # <<>>
  /\ \A j \in 1 .. Len(recent) : Sound(recent[j], version, kinds)
  /\ memory \in [Instances -> Nat]
  /\ kinds \in [Instances -> SUBSET BOOLEAN]
  /\ removed \subseteq Instances
  /\ \A i \in Instances : memory[i] # 0 => TRUE \in kinds[i]
  /\ \A i \in removed : (\E e : kinds[i] = {e}) => memory[i] = 0 /\ disk[InstanceKey(i)] = 0
  /\ query \in [Readers -> QueryType]
  /\ \A r \in Readers : query[r].list <= query[r].service

(* The keys of the four kinds of record are different.                        *)
LEMMA KeysDiffer ==
  /\ \A s, t \in Services : ServiceKey(s) # ParseServiceClusterList(t)
  /\ \A s \in Services, c \in Clusters : ServiceKey(s) # ClusterKey(c)
       /\ ParseServiceClusterList(s) # ClusterKey(c)
  /\ \A s \in Services, i \in Instances : ServiceKey(s) # InstanceKey(i)
       /\ ParseServiceClusterList(s) # InstanceKey(i)
  /\ \A c \in Clusters, i \in Instances : ClusterKey(c) # InstanceKey(i)
  /\ \A s, t \in Services : ServiceKey(s) = ServiceKey(t) => s = t
  /\ \A s, t \in Services :
       ParseServiceClusterList(s) = ParseServiceClusterList(t) => s = t
  /\ \A i, j \in Instances : InstanceKey(i) = InstanceKey(j) => i = j
  /\ \A s \in Services : ServiceKey(s) \in DiskKeys /\ ParseServiceClusterList(s) \in DiskKeys
  /\ \A i \in Instances : InstanceKey(i) \in DiskKeys
BY Zenon DEF ServiceKey, ParseServiceClusterList, ClusterKey, InstanceKey, DiskKeys

(* The invariant holds for an empty disk.                                     *)
LEMMA DsInitially == DsInit => DsInv
<1> SUFFICES ASSUME DsInit PROVE DsInv
  OBVIOUS
<1> DEFINE d == [k \in DiskKeys |-> 0]
<1>1. d \in [DiskKeys -> Nat] /\ \A k \in DiskKeys : d[k] = 0
  OBVIOUS
<1>2. recent = <<d>> /\ version = 0 /\ kinds = [i \in Instances |-> {}]
  BY Zenon DEF DsInit
<1> HIDE DEF d
<1>3. Sound(d, version, kinds)
  BY <1>1, <1>2, KeysDiffer DEF Sound
<1>4. recent \in Seq([DiskKeys -> Nat]) /\ recent # <<>> /\ Len(recent) = 1 /\ recent[1] = d
  BY <1>1, <1>2
<1>5. \A j \in 1 .. Len(recent) : Sound(recent[j], version, kinds)
  BY <1>3, <1>4
<1>6. memory \in [Instances -> Nat] /\ \A i \in Instances : memory[i] = 0
  BY Zenon DEF DsInit
<1>7. query \in [Readers -> QueryType] /\ \A r \in Readers : query[r].list <= query[r].service
  BY DEF DsInit, QueryType, NoQuery
<1>8. kinds \in [Instances -> SUBSET BOOLEAN] /\ removed = {} /\ version \in Nat
  BY Zenon DEF DsInit
<1> QED
  BY <1>4, <1>5, <1>6, <1>7, <1>8, Zenon DEF DsInv
(* A write leaves a sound state if it writes a list only with its service and *)
(* an instance only as a persistent one.                                      *)
LEMMA WriteSound ==
  ASSUME NEW d, NEW v \in Nat, NEW ks, NEW ls, NEW keys \in SUBSET DiskKeys,
         Sound(d, v, ks),
         \A i \in Instances : ks[i] \subseteq ls[i],
         \A s \in Services : ParseServiceClusterList(s) \in keys => ServiceKey(s) \in keys,
         \A i \in Instances : InstanceKey(i) \in keys => FALSE \in ls[i]
  PROVE  Sound(Onto(d, keys, v + 1), v + 1, ls)
<1> DEFINE e == Onto(d, keys, v + 1)
<1>1. d \in [DiskKeys -> Nat] /\ \A k \in DiskKeys : d[k] <= v
  BY Zenon DEF Sound
<1>2. e \in [DiskKeys -> Nat] /\ \A k \in DiskKeys : e[k] = IF k \in keys THEN v + 1 ELSE d[k]
  BY <1>1 DEF Onto
<1> HIDE DEF e
<1>3. \A k \in DiskKeys : e[k] <= v + 1
  BY <1>1, <1>2
<1>4. ASSUME NEW s \in Services, e[ServiceKey(s)] # 0
      PROVE  e[ParseServiceClusterList(s)] <= e[ServiceKey(s)]
  <2>1. ServiceKey(s) \in DiskKeys /\ ParseServiceClusterList(s) \in DiskKeys
    BY KeysDiffer, Zenon
  <2>2. CASE ServiceKey(s) \in keys
    BY <1>2, <1>3, <2>1, <2>2, Zenon
  <2>3. CASE ServiceKey(s) \notin keys
    BY <1>2, <1>4, <2>1, <2>3, Zenon DEF Sound
  <2> QED BY <2>2, <2>3, Zenon
<1>5. \A i \in Instances : e[InstanceKey(i)] # 0 => FALSE \in ls[i]
  BY <1>2, KeysDiffer, Zenon DEF Sound
<1> QED
  BY <1>2, <1>3, <1>4, <1>5, Zenon DEF Sound, e

(* So does a deletion that leaves the lists alone.                            *)
LEMMA DeleteSound ==
  ASSUME NEW d, NEW v \in Nat, NEW ks, NEW ls, NEW keys \in SUBSET DiskKeys,
         Sound(d, v, ks),
         \A i \in Instances : ks[i] \subseteq ls[i],
         \A s \in Services : ParseServiceClusterList(s) \notin keys
  PROVE  Sound(Onto(d, keys, 0), v + 1, ls)
<1> DEFINE e == Onto(d, keys, 0)
<1>1. d \in [DiskKeys -> Nat] /\ \A k \in DiskKeys : d[k] <= v
  BY Zenon DEF Sound
<1>2. e \in [DiskKeys -> Nat] /\ \A k \in DiskKeys : e[k] = IF k \in keys THEN 0 ELSE d[k]
  BY <1>1, Zenon DEF Onto
<1> HIDE DEF e
<1>3. \A k \in DiskKeys : e[k] <= v + 1
  BY <1>1, <1>2
<1>4. \A s \in Services : e[ServiceKey(s)] # 0 => e[ParseServiceClusterList(s)] <= e[ServiceKey(s)]
  BY <1>2, KeysDiffer, Zenon DEF Sound
<1>5. \A i \in Instances : e[InstanceKey(i)] # 0 => FALSE \in ls[i]
  BY <1>2, KeysDiffer, Zenon DEF Sound
<1> QED
  BY <1>2, <1>3, <1>4, <1>5, Zenon DEF Sound, e

(* A sound state stays sound as calls are counted.                            *)
LEMMA LaterSound ==
  ASSUME NEW d, NEW v \in Nat, NEW ks, NEW ls, Sound(d, v, ks),
         \A i \in Instances : ks[i] \subseteq ls[i]
  PROVE  Sound(d, v + 1, ls)
<1>1. d \in [DiskKeys -> Nat] /\ \A k \in DiskKeys : d[k] <= v + 1
  BY DEF Sound
<1>2. \A i \in Instances : d[InstanceKey(i)] # 0 => FALSE \in ls[i]
  BY Zenon DEF Sound
<1> QED
  BY <1>1, <1>2, Zenon DEF Sound

(* The disk as a call leaves it: the states since the last sync and, if the   *)
(* call writes to it, one more.                                               *)
LEMMA CallSound ==
  ASSUME DsInv, NEW cs, Call(cs),
         \A i \in Instances : kinds[i] \subseteq kinds'[i],
         \/ recent' = recent
         \/ \E d : recent' = Append(recent, d) /\ Sound(d, version + 1, kinds')
  PROVE  /\ version' \in Nat
         /\ recent' \in Seq([DiskKeys -> Nat]) /\ recent' # <<>>
         /\ \A j \in 1 .. Len(recent') : Sound(recent'[j], version', kinds')
         /\ recent' = recent => disk' = disk
         /\ \A d : recent' = Append(recent, d) => disk' = d
<1>1. version \in Nat /\ version' = version + 1
  BY Zenon DEF DsInv, Call
<1>2. \A j \in 1 .. Len(recent) : Sound(recent[j], version', kinds')
  BY <1>1, LaterSound, Zenon DEF DsInv
<1>3. CASE recent' = recent
  <2>1. \A d : recent # Append(recent, d)
    <3>1. \A d : Len(Append(recent, d)) = Len(recent) + 1
      BY DEF DsInv
    <3>2. Len(recent) \in Nat
      BY DEF DsInv
    <3> QED BY <3>1, <3>2
  <2> QED BY <1>1, <1>2, <1>3, <2>1 DEF DsInv, disk
<1>4. CASE \E d : recent' = Append(recent, d) /\ Sound(d, version + 1, kinds')
  <2>1. PICK d : recent' = Append(recent, d) /\ Sound(d, version + 1, kinds')
    BY <1>4, Zenon
  <2>2. d \in [DiskKeys -> Nat]
    BY <2>1, Zenon DEF Sound
  <2>3. /\ recent' \in Seq([DiskKeys -> Nat])
        /\ Len(recent') = Len(recent) + 1
        /\ \A j \in 1 .. Len(recent) : recent'[j] = recent[j]
        /\ recent'[Len(recent')] = d
        /\ Len(recent) \in Nat
    BY <2>1, <2>2, AppendProperties DEF DsInv
  <2>4. \A j \in 1 .. Len(recent') : Sound(recent'[j], version', kinds')
    BY <1>1, <1>2, <2>1, <2>3
  <2>5. disk' = d
    BY <2>3, Zenon DEF disk
  <2>6. \A e : recent' = Append(recent, e) => e = d
    <3> SUFFICES ASSUME NEW e, recent' = Append(recent, e) PROVE e = d
      OBVIOUS
    <3>1. Append(recent, e)[Len(recent) + 1] = e
      BY <2>3 DEF DsInv
    <3> QED BY <2>3, <3>1, Zenon
  <2>7. recent' # recent /\ recent' # <<>>
    BY <2>3
  <2>8. version' \in Nat
    BY <1>1
  <2>9. \A e : recent' = Append(recent, e) => disk' = e
    BY <2>5, <2>6, Zenon
  <2> QED BY <2>3, <2>4, <2>7, <2>8, <2>9, ZenonT(30)
<1> QED BY <1>3, <1>4, Zenon
(* The invariant speaks of the state that is on disk now.                     *)
LEMMA DiskSound == DsInv => Sound(disk, version, kinds) /\ disk \in [DiskKeys -> Nat]
<1> SUFFICES ASSUME DsInv PROVE Sound(disk, version, kinds) /\ disk \in [DiskKeys -> Nat]
  OBVIOUS
<1>1. Len(recent) \in 1 .. Len(recent)
  BY EmptySeq DEF DsInv
<1> QED BY <1>1, Zenon DEF DsInv, disk, Sound

(* A call that writes or deletes no instance keeps the invariant.             *)
LEMMA NoInstanceKeeps ==
  ASSUME DsInv, NEW cs, Call(cs), UNCHANGED <<memory, kinds, removed>>, NEW d,
         recent' = Append(recent, d), Sound(d, version + 1, kinds),
         \A i \in Instances : d[InstanceKey(i)] = disk[InstanceKey(i)]
  PROVE  DsInv'
<1>1. /\ version' \in Nat
      /\ recent' \in Seq([DiskKeys -> Nat]) /\ recent' # <<>>
      /\ \A j \in 1 .. Len(recent') : Sound(recent'[j], version', kinds')
      /\ disk' = d
  BY CallSound, Zenon
<1>2. UNCHANGED <<memory, kinds, removed, query>>
  BY Zenon DEF Call
<1>3. \A i \in removed : (\E e : kinds[i] = {e}) => memory[i] = 0 /\ disk'[InstanceKey(i)] = 0
  BY <1>1, Zenon DEF DsInv
<1> QED
  BY <1>1, <1>2, <1>3, Zenon DEF DsInv

(* SaveService writes the list with its service, the other calls for services *)
(* and clusters write and delete no list.                                     *)
LEMMA ServicesKeep ==
  ASSUME DsInv,
         \/ \E s \in Services : RemoveService(s) \/ \E cs \in SUBSET Clusters : SaveService(s, cs)
         \/ \E ss \in SUBSET Services : BatchUpdateService(ss)
         \/ \E cs \in SUBSET Clusters : BatchUpdateCluster(cs)
         \/ \E c \in Clusters : RemoveCluster(c)
  PROVE  DsInv'
<1>1. version \in Nat /\ Sound(disk, version, kinds) /\ disk \in [DiskKeys -> Nat]
  BY DiskSound, ZenonT(30) DEF DsInv
<1>2. \A i \in Instances : kinds[i] \subseteq kinds[i]
  OBVIOUS
<1>3. ASSUME NEW keys \in SUBSET DiskKeys, NEW cs, Call(cs), UNCHANGED <<kinds, removed>>,
             \A i \in Instances : InstanceKey(i) \notin keys,
             \/ /\ WriteDisk(keys)
                /\ \A s \in Services :
                     ParseServiceClusterList(s) \in keys => ServiceKey(s) \in keys
             \/ /\ DeleteDisk(keys)
                /\ \A s \in Services : ParseServiceClusterList(s) \notin keys
      PROVE  DsInv'
  <2>1. \A v \in Nat, i \in Instances :
          Onto(disk, keys, v)[InstanceKey(i)] = disk[InstanceKey(i)]
    BY <1>1, <1>3, KeysDiffer, Zenon DEF Onto
  <2>2. CASE WriteDisk(keys) /\ \A s \in Services :
               ParseServiceClusterList(s) \in keys => ServiceKey(s) \in keys
    <3>1. Sound(Onto(disk, keys, version + 1), version + 1, kinds)
      BY <1>1, <1>2, <1>3, <2>2, WriteSound, ZenonT(30)
    <3>2. recent' = Append(recent, Onto(disk, keys, version + 1)) /\ UNCHANGED memory
      BY <2>2, Zenon DEF WriteDisk
    <3>3. \A i \in Instances : Onto(disk, keys, version + 1)[InstanceKey(i)] = disk[InstanceKey(i)]
      BY <1>1, <2>1, SMTT(30)
    <3> QED BY <1>3, <3>1, <3>2, <3>3, NoInstanceKeeps, ZenonT(30)
  <2>3. CASE DeleteDisk(keys) /\ \A s \in Services : ParseServiceClusterList(s) \notin keys
    <3>1. Sound(Onto(disk, keys, 0), version + 1, kinds)
      BY <1>1, <1>2, <1>3, <2>3, DeleteSound, Zenon
    <3>2. recent' = Append(recent, Onto(disk, keys, 0)) /\ UNCHANGED memory
      BY <2>3, Zenon DEF DeleteDisk
    <3>3. \A i \in Instances : Onto(disk, keys, 0)[InstanceKey(i)] = disk[InstanceKey(i)]
      BY <1>1, <2>1, Zenon
    <3> QED BY <1>3, <3>1, <3>2, <3>3, NoInstanceKeeps, Zenon
  <2> QED BY <1>3, <2>2, <2>3, Zenon
<1>4. ASSUME NEW s \in Services, RemoveService(s) PROVE DsInv'
  <2>1. {ServiceKey(s)} \in SUBSET DiskKeys
    BY KeysDiffer, Zenon
  <2> QED BY <1>3, <1>4, <2>1, KeysDiffer, Zenon DEF RemoveService, history
<1>5. ASSUME NEW s \in Services, NEW cs \in SUBSET Clusters, SaveService(s, cs) PROVE DsInv'
  <2> DEFINE keys == {ServiceKey(s), ParseServiceClusterList(s)}
  <2>1. keys \in SUBSET DiskKeys
    BY KeysDiffer, Zenon
  <2>2. \A t \in Services : ParseServiceClusterList(t) \in keys => ServiceKey(t) \in keys
    BY KeysDiffer, Zenon
  <2>3. \A i \in Instances : InstanceKey(i) \notin keys
    BY KeysDiffer, Zenon
  <2>4. WriteDisk(keys) /\ Call(cs) /\ UNCHANGED <<kinds, removed>>
    BY <1>5, Zenon DEF SaveService, SaveTogether, history
  <2> HIDE DEF keys
  <2> QED BY <1>3, <2>1, <2>2, <2>3, <2>4, Zenon
<1>6. ASSUME NEW ss \in SUBSET Services, BatchUpdateService(ss) PROVE DsInv'
  <2> DEFINE keys == {ServiceKey(s) : s \in ss}
  <2>1. keys \in SUBSET DiskKeys
    BY KeysDiffer, Zenon
  <2>2. \A t \in Services : ParseServiceClusterList(t) \notin keys
    BY KeysDiffer, Zenon
  <2>3. \A i \in Instances : InstanceKey(i) \notin keys
    BY KeysDiffer, Zenon
  <2>4. WriteDisk(keys) /\ Call({}) /\ UNCHANGED <<kinds, removed>>
    BY <1>6, Zenon DEF BatchUpdateService, history
  <2> HIDE DEF keys
  <2> QED BY <1>3, <2>1, <2>2, <2>3, <2>4, Zenon
<1>7. ASSUME NEW cs \in SUBSET Clusters, BatchUpdateCluster(cs) PROVE DsInv'
  <2> DEFINE keys == {ClusterKey(c) : c \in cs}
  <2>1. keys \in SUBSET DiskKeys
    BY Zenon DEF DiskKeys
  <2>2. \A t \in Services : ParseServiceClusterList(t) \notin keys
    BY KeysDiffer, Zenon
  <2>3. \A i \in Instances : InstanceKey(i) \notin keys
    BY KeysDiffer, Zenon
  <2>4. WriteDisk(keys) /\ Call({}) /\ UNCHANGED <<kinds, removed>>
    BY <1>7, Zenon DEF BatchUpdateCluster, history
  <2> HIDE DEF keys
  <2> QED BY <1>3, <2>1, <2>2, <2>3, <2>4, Zenon
<1>8. ASSUME NEW c \in Clusters, RemoveCluster(c) PROVE DsInv'
  <2>1. {ClusterKey(c)} \in SUBSET DiskKeys
    BY Zenon DEF DiskKeys
  <2> QED BY <1>3, <1>8, <2>1, KeysDiffer, Zenon DEF RemoveCluster, history
<1> QED BY <1>4, <1>5, <1>6, <1>7, <1>8, Zenon
(* Saving instances, all in the store of the first.                           *)
LEMMA UpdateInstancesKeep ==
  ASSUME DsInv, NEW is \in SUBSET Instances, NEW first \in is, NEW kind \in [is -> BOOLEAN],
         BatchUpdateInstance(first, kind)
  PROVE  DsInv'
<1> DEFINE keys == {InstanceKey(i) : i \in is}
<1>1. version \in Nat /\ Sound(disk, version, kinds) /\ disk \in [DiskKeys -> Nat]
  BY DiskSound, Zenon DEF DsInv
<1>2. DOMAIN kind = is /\ \A i \in is : kind[i] \in BOOLEAN
  OBVIOUS
<1>3. /\ kinds' = [i \in Instances |->
           kinds[i] \cup (IF i \in is THEN {kind[i], kind[first]} ELSE {})]
      /\ removed' = removed \ is
      /\ Call({})
      /\ UNCHANGED query
  BY <1>2, Zenon DEF BatchUpdateInstance, Call
<1>4. /\ kinds' \in [Instances -> SUBSET BOOLEAN]
      /\ \A i \in Instances : kinds[i] \subseteq kinds'[i]
      /\ \A i \in is : kind[first] \in kinds'[i]
      /\ \A i \in Instances \ is : kinds'[i] = kinds[i]
  <2>1. kinds \in [Instances -> SUBSET BOOLEAN]
    BY Zenon DEF DsInv
  <2> QED BY <1>2, <1>3, <2>1, Zenon
<1>5. CASE kind[first]
  <2>1. /\ memory' = [i \in Instances |-> IF i \in is THEN version + 1 ELSE memory[i]]
        /\ recent' = recent
    BY <1>2, <1>5, Zenon DEF BatchUpdateInstance, Onto, DsInv
  <2>2. /\ version' \in Nat
        /\ recent' \in Seq([DiskKeys -> Nat]) /\ recent' # <<>>
        /\ \A j \in 1 .. Len(recent') : Sound(recent'[j], version', kinds')
        /\ disk' = disk
    BY <1>3, <1>4, <2>1, CallSound, Zenon
  <2>3. memory' \in [Instances -> Nat] /\ \A i \in Instances \ is : memory'[i] = memory[i]
    BY <1>1, <2>1 DEF DsInv
  <2>4. kind[first] = TRUE
    BY <1>2, <1>5, Zenon
  <2>5. \A i \in Instances : memory'[i] # 0 => TRUE \in kinds'[i]
    BY <1>4, <2>3, <2>4, Zenon DEF DsInv
  <2>6. ASSUME NEW i \in removed', \E e : kinds'[i] = {e}
        PROVE  memory'[i] = 0 /\ disk'[InstanceKey(i)] = 0
    <3>1. i \in removed /\ i \in Instances \ is
      BY <1>3, <2>6, Zenon DEF DsInv
    <3>2. \E e : kinds[i] = {e}
      BY <1>4, <2>6, <3>1, Zenon
    <3> QED BY <3>1, <3>2, <2>2, <2>3, ZenonT(30) DEF DsInv
  <2> QED
    BY <1>3, <1>4, <2>2, <2>3, <2>5, <2>6, ZenonT(30) DEF DsInv
<1>6. CASE ~kind[first]
  <2>1. recent' = Append(recent, Onto(disk, keys, version + 1)) /\ memory' = memory
    BY <1>2, <1>6, Zenon DEF BatchUpdateInstance, WriteDisk
  <2>2. keys \in SUBSET DiskKeys /\ \A s \in Services : ParseServiceClusterList(s) \notin keys
    BY KeysDiffer
  <2>3. \A i \in Instances : InstanceKey(i) \in keys <=> i \in is
    BY KeysDiffer, Zenon
  <2> HIDE DEF keys
  <2>4. \A i \in is : FALSE \in kinds'[i]
    BY <1>2, <1>4, <1>6, Zenon
  <2>5. Sound(Onto(disk, keys, version + 1), version + 1, kinds')
    BY <1>1, <1>4, <2>2, <2>3, <2>4, WriteSound, Zenon
  <2>6. /\ version' \in Nat
        /\ recent' \in Seq([DiskKeys -> Nat]) /\ recent' # <<>>
        /\ \A j \in 1 .. Len(recent') : Sound(recent'[j], version', kinds')
        /\ disk' = Onto(disk, keys, version + 1)
    BY <1>3, <1>4, <2>1, <2>5, CallSound, Zenon
  <2>7. \A i \in Instances \ is : disk'[InstanceKey(i)] = disk[InstanceKey(i)]
    BY <1>1, <2>3, <2>6, KeysDiffer, Zenon DEF Onto
  <2>8. \A i \in Instances : memory'[i] # 0 => TRUE \in kinds'[i]
    BY <1>4, <2>1, Zenon DEF DsInv
  <2>9. ASSUME NEW i \in removed', \E e : kinds'[i] = {e}
        PROVE  memory'[i] = 0 /\ disk'[InstanceKey(i)] = 0
    <3>1. i \in removed /\ i \in Instances \ is
      BY <1>3, <2>9, Zenon DEF DsInv
    <3>2. \E e : kinds[i] = {e}
      BY <1>4, <2>9, <3>1, Zenon
    <3> QED BY <3>1, <3>2, <2>1, <2>7, Zenon DEF DsInv
  <2> QED
    BY <1>3, <1>4, <2>1, <2>6, <2>8, <2>9, ZenonT(30) DEF DsInv
<1> QED BY <1>5, <1>6, Zenon

(* Removing one from the store its kind names.                                *)
LEMMA RemoveInstanceKeeps ==
  ASSUME DsInv, NEW i \in Instances, NEW ephemeral \in BOOLEAN, RemoveInstance(i, ephemeral)
  PROVE  DsInv'
<1> DEFINE keys == {InstanceKey(i)}
<1>1. version \in Nat /\ Sound(disk, version, kinds) /\ disk \in [DiskKeys -> Nat]
  BY DiskSound, Zenon DEF DsInv
<1>2. /\ kinds' = [kinds EXCEPT ![i] = @ \cup {ephemeral}]
      /\ removed' = removed \cup {i}
      /\ Call({})
      /\ UNCHANGED query
  BY Zenon DEF RemoveInstance, Call
<1>3. /\ kinds' \in [Instances -> SUBSET BOOLEAN]
      /\ \A j \in Instances : kinds[j] \subseteq kinds'[j]
      /\ ephemeral \in kinds'[i]
      /\ \A j \in Instances \ {i} : kinds'[j] = kinds[j]
  BY <1>2, Zenon DEF DsInv
<1>4. CASE ephemeral
  <2>1. /\ memory' = [j \in Instances |-> IF j = i THEN 0 ELSE memory[j]]
        /\ recent' = recent
    BY <1>4, Zenon DEF RemoveInstance, FromItsStore, Onto, DsInv
  <2>2. /\ version' \in Nat
        /\ recent' \in Seq([DiskKeys -> Nat]) /\ recent' # <<>>
        /\ \A j \in 1 .. Len(recent') : Sound(recent'[j], version', kinds')
        /\ disk' = disk
    BY <1>2, <1>3, <2>1, CallSound, Zenon
  <2>3. /\ memory' \in [Instances -> Nat]
        /\ memory'[i] = 0
        /\ \A j \in Instances \ {i} : memory'[j] = memory[j]
    BY <2>1, Zenon DEF DsInv
  <2>4. \A j \in Instances : memory'[j] # 0 => TRUE \in kinds'[j]
    BY <1>3, <2>3, Zenon DEF DsInv
  <2>5. (\E e : kinds'[i] = {e}) => disk'[InstanceKey(i)] = 0
    <3> SUFFICES ASSUME NEW e, kinds'[i] = {e}, disk[InstanceKey(i)] # 0 PROVE FALSE
      BY <2>2, Zenon
    <3>1. FALSE \in kinds[i]
      BY <1>1, Zenon DEF Sound
    <3>2. FALSE \in kinds'[i] /\ TRUE \in kinds'[i]
      BY <1>3, <1>4, <3>1, Zenon
    <3> QED BY <3>2, Zenon
  <2>6. \A j \in removed' : (\E e : kinds'[j] = {e}) => memory'[j] = 0 /\ disk'[InstanceKey(j)] = 0
    BY <1>2, <1>3, <2>2, <2>3, <2>5, ZenonT(30) DEF DsInv
  <2> QED
    BY <1>2, <1>3, <2>2, <2>3, <2>4, <2>6, Zenon DEF DsInv
<1>5. CASE ~ephemeral
  <2>1. recent' = Append(recent, Onto(disk, keys, 0)) /\ memory' = memory
    BY <1>5, Zenon DEF RemoveInstance, FromItsStore, DeleteDisk
  <2>2. keys \in SUBSET DiskKeys /\ \A s \in Services : ParseServiceClusterList(s) \notin keys
    BY KeysDiffer, Zenon
  <2>3. \A j \in Instances : InstanceKey(j) \in keys <=> j = i
    BY KeysDiffer, Zenon
  <2> HIDE DEF keys
  <2>4. Sound(Onto(disk, keys, 0), version + 1, kinds')
    BY <1>1, <1>3, <2>2, DeleteSound, Zenon
  <2>5. /\ version' \in Nat
        /\ recent' \in Seq([DiskKeys -> Nat]) /\ recent' # <<>>
        /\ \A j \in 1 .. Len(recent') : Sound(recent'[j], version', kinds')
        /\ disk' = Onto(disk, keys, 0)
    BY <1>2, <1>3, <2>1, <2>4, CallSound, Zenon
  <2>6. /\ disk'[InstanceKey(i)] = 0
        /\ \A j \in Instances \ {i} : disk'[InstanceKey(j)] = disk[InstanceKey(j)]
    BY <1>1, <2>3, <2>5, KeysDiffer, Zenon DEF Onto
  <2>7. (\E e : kinds'[i] = {e}) => memory'[i] = 0
    <3> SUFFICES ASSUME NEW e, kinds'[i] = {e}, memory[i] # 0 PROVE FALSE
      BY <2>1, Zenon
    <3>1. TRUE \in kinds[i]
      BY Zenon DEF DsInv
    <3>2. FALSE \in kinds'[i] /\ TRUE \in kinds'[i]
      BY <1>3, <1>5, <3>1, Zenon
    <3> QED BY <3>2, Zenon
  <2>8. \A j \in Instances : memory'[j] # 0 => TRUE \in kinds'[j]
    BY <1>3, <2>1, Zenon DEF DsInv
  <2>9. \A j \in removed' : (\E e : kinds'[j] = {e}) => memory'[j] = 0 /\ disk'[InstanceKey(j)] = 0
    BY <1>2, <1>3, <2>1, <2>6, <2>7, ZenonT(30) DEF DsInv
  <2> QED
    BY <1>2, <1>3, <2>1, <2>5, <2>8, <2>9, Zenon DEF DsInv
<1> QED BY <1>4, <1>5, Zenon

(* A reader fills its query from one state of the disk.                       *)
LEMMA ReadKeeps ==
  ASSUME DsInv, NEW r \in Readers,
         ReadClusters(r) \/ \E s \in Services : ReadPair(r, s) \/ ReadPairFails(r, s)
  PROVE  DsInv'
<1>1. UNCHANGED <<recent, memory, version, kinds, removed>>
  BY Zenon DEF ReadClusters, ReadPair, ReadPairFails, history
<1>2. /\ query' \in [Readers -> QueryType]
      /\ \A q \in Readers : query'[q].list <= query'[q].service
  <2>1. CASE ReadClusters(r)
    <3>1. PICK at \in {"found", "failed"} : query' = [query EXCEPT ![r].at = at]
      BY <2>1, Zenon DEF ReadClusters
    <3> QED BY <3>1 DEF DsInv, QueryType
  <2>2. ASSUME NEW s \in Services, ReadPair(r, s)
        PROVE  <1>2!1 /\ <1>2!2
    <3> DEFINE service == disk[ServiceKey(s)]
               list == disk[ParseServiceClusterList(s)]
    <3>1. disk \in [DiskKeys -> Nat] /\ Sound(disk, version, kinds)
      BY DiskSound, Zenon
    <3>2. service \in Nat /\ list \in Nat /\ (service # 0 => list <= service)
      BY <3>1, KeysDiffer, Zenon DEF Sound
    <3>3. service # 0
      BY <2>2, Zenon DEF ReadPair, Readable
    <3>4. query' = [query EXCEPT ![r] = [at |-> "clusters", service |-> service, list |-> list]]
      BY <2>2, Zenon DEF ReadPair
    <3> HIDE DEF service, list
    <3> QED BY <3>2, <3>3, <3>4, Zenon DEF DsInv, QueryType
  <2>3. ASSUME NEW s \in Services, ReadPairFails(r, s)
        PROVE  <1>2!1 /\ <1>2!2
    BY <2>3, Zenon DEF ReadPairFails, DsInv, QueryType
  <2> QED BY <2>1, <2>2, <2>3, Zenon
<1>3. disk' = disk
  BY <1>1, Zenon DEF disk
<1> QED
  BY <1>1, <1>2, <1>3, Zenon DEF DsInv

(* A sync drops the oldest state of the disk.                                 *)
LEMMA SyncKeeps ==
  ASSUME DsInv, DsSync
  PROVE  DsInv'
<1>1. /\ recent' = Tail(recent) /\ Len(recent) > 1
      /\ UNCHANGED <<memory, version, query, kinds, removed>>
  BY Zenon DEF DsSync, history
<1>2. /\ recent' \in Seq([DiskKeys -> Nat])
      /\ Len(recent') = Len(recent) - 1 /\ Len(recent) \in Nat
      /\ \A j \in 1 .. Len(recent') : recent'[j] = recent[j + 1]
  BY <1>1, HeadTailProperties DEF DsInv
<1>3. disk' = disk
  BY <1>1, <1>2 DEF disk
<1>4. recent' # <<>>
  <2>1. Len(recent') # 0
    <3> DEFINE n == Len(recent)
               m == Len(recent')
    <3>1. n \in Nat /\ n > 1 /\ m = n - 1
      BY <1>1, <1>2, Zenon
    <3> HIDE DEF n, m
    <3>2. m # 0
      BY <3>1
    <3> QED BY <3>2, Zenon DEF m
  <2>2. Len(<<>>) = 0
    OBVIOUS
  <2> QED BY <2>1, <2>2, Zenon
<1>5. ASSUME NEW j \in 1 .. Len(recent') PROVE Sound(recent'[j], version, kinds)
  <2>1. j + 1 \in 1 .. Len(recent) /\ recent'[j] = recent[j + 1]
    BY <1>2
  <2> QED BY <2>1, Zenon DEF DsInv
<1> QED
  BY <1>1, <1>2, <1>3, <1>4, <1>5, Zenon DEF DsInv

(* A crash leaves one of the states since the last sync.                      *)
LEMMA CrashKeeps ==
  ASSUME DsInv, DsCrash
  PROVE  DsInv'
<1>1. PICK j \in DOMAIN recent : recent' = <<recent[j]>>
  BY Zenon DEF DsCrash
<1>2. /\ memory' = [i \in Instances |-> 0]
      /\ query' = [r \in Readers |-> NoQuery]
      /\ removed' = {}
      /\ UNCHANGED <<version, kinds>>
  BY Zenon DEF DsCrash
<1>3. recent[j] \in [DiskKeys -> Nat] /\ Sound(recent[j], version, kinds)
  BY <1>1, SMTT(30) DEF DsInv
<1>4. /\ recent' \in Seq([DiskKeys -> Nat]) /\ recent' # <<>>
      /\ \A k \in 1 .. Len(recent') : recent'[k] = recent[j]
  BY <1>1, <1>3
<1>5. /\ memory' \in [Instances -> Nat] /\ \A i \in Instances : memory'[i] = 0
      /\ query' \in [Readers -> QueryType]
      /\ \A r \in Readers : query'[r].list <= query'[r].service
  BY <1>2 DEF NoQuery, QueryType
<1> QED
  BY <1>2, <1>3, <1>4, <1>5, Zenon DEF DsInv

(* DsInv is an invariant of the storage.                                      *)
LEMMA DsInductive == DsSpec => []DsInv
<1>1. DsInit => DsInv
  BY DsInitially, Zenon
<1>2. DsInv /\ [DsNext]_dsVars => DsInv'
  <2> SUFFICES ASSUME DsInv, [DsNext]_dsVars PROVE DsInv'
    OBVIOUS
  <2>1. CASE UNCHANGED dsVars
    <3>1. disk' = disk
      BY <2>1, Zenon DEF disk, dsVars
    <3> QED BY <2>1, <3>1, Zenon DEF dsVars, DsInv
  <2>2. ASSUME NEW is \in SUBSET Instances, NEW first \in is, NEW kind \in [is -> BOOLEAN],
               BatchUpdateInstance(first, kind)
        PROVE  DsInv'
    BY <2>2, UpdateInstancesKeep, Zenon
  <2>3. ASSUME NEW i \in Instances, NEW e \in BOOLEAN, SaveInstance(i, e) PROVE DsInv'
    <3>1. [j \in {i} |-> e] \in [{i} -> BOOLEAN] /\ {i} \in SUBSET Instances /\ i \in {i}
      OBVIOUS
    <3> QED BY <2>3, <3>1, UpdateInstancesKeep, Zenon DEF SaveInstance
  <2>4. ASSUME NEW c \in Clusters, SaveCluster(c) PROVE DsInv'
    <3>1. {c} \in SUBSET Clusters
      OBVIOUS
    <3> QED BY <2>4, <3>1, ServicesKeep, Zenon DEF SaveCluster
  <2>5. CASE DsNext
    BY <2>2, <2>3, <2>4, <2>5, ServicesKeep, RemoveInstanceKeeps, ReadKeeps, SyncKeeps, CrashKeeps, Zenon
    DEF DsNext
  <2> QED BY <2>1, <2>5, Zenon
<1> QED BY <1>1, <1>2, PTL DEF DsSpec

(* SaveService, ReadService (discovery_storage.go:74, 118-127): on disk, after *)
(* any crash, and in what ReadService has read, no list of clusters is newer  *)
(* than its service.                                                          *)
THEOREM ListFollowsService == DsSpec => []ListNotNewer
<1>1. ASSUME DsInv PROVE ListNotNewer
  <2>1. DOMAIN recent = 1 .. Len(recent)
    BY <1>1 DEF DsInv
  <2>2. \A j \in DOMAIN recent, s \in Services :
          recent[j][ServiceKey(s)] # 0 =>
            recent[j][ParseServiceClusterList(s)] <= recent[j][ServiceKey(s)]
    BY <1>1, <2>1, Zenon DEF DsInv, Sound
  <2> QED BY <1>1, <2>2, Zenon DEF DsInv, ListNotNewer
<1> QED BY <1>1, DsInductive, PTL

(* RemoveInstance (discovery_storage.go:257): a removed instance is in neither *)
(* store until it is saved again, if it was always passed with one kind and   *)
(* never behind an instance of the other.                                     *)
THEOREM RemovalIsComplete == DsSpec => []RemovedIsGone
<1>1. ASSUME DsInv PROVE RemovedIsGone
  <2> SUFFICES ASSUME NEW i \in removed, NEW k \in BOOLEAN, kinds[i] = {k}
               PROVE  memory[i] = 0 /\ disk[InstanceKey(i)] = 0
    BY Zenon DEF RemovedIsGone
  <2> QED BY <1>1, Zenon DEF DsInv
<1> QED BY <1>1, DsInductive, PTL

-----------------------------------------------------------------------------
(* The notify center. *)

(* The calls in progress: one that publishes, and one that visits publishers. *)
Stops == {"fast", "share"} \X AllTopics
Publishing == [op : {"publish"}, topic : AllTopics, wait : BOOLEAN]
Visiting == [op : {"register", "deregister"}, sub : Subscribers, todo : Seq(Stops) \ {<<>>}]

CallInv == call \in [Callers -> {Idle} \cup Publishing \cup Visiting]

(* What a registration visits is a non-empty sequence of topics.              *)
LEMMA VisitProperties ==
  ASSUME NEW ts \in Seq(AllTopics), ts # <<>>, NEW where \in {"fast", "share"}
  PROVE  Visit(where, ts) \in Seq(Stops) \ {<<>>}
<1>1. Len(ts) \in Nat /\ \A i \in 1 .. Len(ts) : ts[i] \in AllTopics
  BY LenProperties, ElementOfSeq, Zenon
<1>2. Len(ts) # 0
  BY EmptySeq, Zenon
<1>3. Visit(where, ts) \in [1 .. Len(ts) -> Stops]
  BY <1>1, Zenon DEF Visit, Stops
<1>4. Visit(where, ts) \in Seq(Stops) /\ Len(Visit(where, ts)) = Len(ts)
  BY <1>1, <1>3, IsASeq DEF Visit
<1> QED
  BY <1>1, <1>2, <1>4, Zenon

(* A registration visits at least one publisher.                              *)
LEMMA RegisterStepsProperties ==
  ASSUME NEW s \in Subscribers
  PROVE  /\ RegisterSteps(s) \in Seq(Stops) \ {<<>>}
         /\ Visit("share", SubscribeTypes[s]) \in Seq(Stops) \ {<<>>}
<1> DEFINE ts == SubscribeTypes[s]
<1>1. ts \in Seq(AllTopics) /\ ts # <<>>
  BY NotifyCenterAssumption, Zenon
<1> HIDE DEF ts
<1>2. Visit("fast", ts) \in Seq(Stops) \ {<<>>} /\ Visit("share", ts) \in Seq(Stops) \ {<<>>}
  BY <1>1, VisitProperties, Zenon
<1>3. Visit("fast", ts) \o Visit("share", ts) \in Seq(Stops) \ {<<>>}
  <2> DEFINE f == Visit("fast", ts)
             h == Visit("share", ts)
  <2>1. f \in Seq(Stops) /\ h \in Seq(Stops) /\ f # <<>>
    BY <1>2, Zenon
  <2> HIDE DEF f, h
  <2>2. f \o h \in Seq(Stops) /\ Len(f \o h) = Len(f) + Len(h)
    BY <2>1, ConcatProperties, Zenon
  <2>3. Len(f) \in Nat /\ Len(h) \in Nat /\ Len(f) # 0
    BY <2>1, LenProperties, EmptySeq, Zenon
  <2>4. Len(f \o h) # 0
    BY <2>2, <2>3
  <2>5. f \o h # <<>>
    BY <2>4
  <2> QED BY <2>2, <2>5, Zenon DEF f, h
<1>4. RegisterSteps(s) \in {Visit("fast", ts), Visit("share", ts), Visit("fast", ts) \o Visit("share", ts)}
  BY Zenon DEF RegisterSteps, ts
<1> QED
  BY <1>2, <1>3, <1>4, Zenon DEF ts

(* The rest of the visits of a call that goes on.                             *)
LEMMA TailVisits ==
  ASSUME NEW v \in Visiting, Len(v.todo) # 1
  PROVE  [v EXCEPT !.todo = Tail(@)] \in Visiting
<1>1. v.todo \in Seq(Stops) /\ v.todo # <<>>
  BY Zenon DEF Visiting
<1>2. Tail(v.todo) \in Seq(Stops) /\ Len(Tail(v.todo)) = Len(v.todo) - 1
  BY <1>1, HeadTailProperties, Zenon
<1>3. Len(v.todo) \in Nat
  BY <1>1, LenProperties, Zenon
<1>4. Tail(v.todo) # <<>>
  <2>1. Len(Tail(v.todo)) # 0
    BY <1>2, <1>3
  <2> QED BY <1>2, <2>1, EmptySeq, Zenon
<1> QED
  BY <1>2, <1>4, Zenon DEF Visiting

(* No call is in progress initially.                                          *)
LEMMA CallsInitially == Init => CallInv
BY Zenon DEF Init, CallInv

(* A caller is left with what it had, with nothing, or with the rest of its   *)
(* visits.                                                                    *)
LEMMA CallsKeep == CallInv /\ [Next]_vars => CallInv'
<1> SUFFICES ASSUME CallInv, [Next]_vars PROVE CallInv'
  OBVIOUS
<1>1. ASSUME NEW c \in Callers, NEW op \in Publishing \cup Visiting, Begin(c, op) PROVE CallInv'
  BY <1>1, Zenon DEF Begin, CallInv
<1>2. ASSUME NEW c \in Callers, NEW outcome, Return(c, outcome) PROVE CallInv'
  BY <1>2, Zenon DEF Return, CallInv
<1>3. ASSUME NEW c \in Callers, call[c].op \in {"register", "deregister"}, Advance(c) PROVE CallInv'
  <2>1. call[c] \in Visiting
    BY <1>3 DEF CallInv, Idle, Publishing
  <2>2. CASE Len(call[c].todo) = 1
    BY <1>3, <2>2, <1>2, Zenon DEF Advance, ReturnAbout
  <2>3. CASE Len(call[c].todo) # 1
    <3>5. [call[c] EXCEPT !.todo = Tail(@)] \in Visiting
      BY <2>1, <2>3, TailVisits, Zenon
    <3>6. call' = [call EXCEPT ![c] = [call[c] EXCEPT !.todo = Tail(@)]]
      BY <1>3, <2>3, Zenon DEF Advance
    <3> QED BY <3>5, <3>6, Zenon DEF CallInv
  <2> QED BY <2>2, <2>3, Zenon
<1>4. ASSUME UNCHANGED call PROVE CallInv'
  BY <1>4, Zenon DEF CallInv
<1>5. ASSUME NEW c \in Callers, BeginCall(c) PROVE CallInv'
  <2>1. CASE UNCHANGED call
    BY <2>1, <1>4, Zenon
  <2>2. CASE \E op \in Publishing \cup Visiting : Begin(c, op)
    BY <2>2, <1>1, Zenon
  <2>3. ASSUME NEW u \in AllTopics, NEW w \in BOOLEAN
        PROVE  [op |-> "publish", topic |-> u, wait |-> w] \in Publishing
    BY Zenon DEF Publishing
  <2>4. ASSUME NEW s \in Subscribers
        PROVE  /\ [op |-> "register", sub |-> s, todo |-> RegisterSteps(s)] \in Visiting
               /\ [op |-> "deregister", sub |-> s, todo |-> Visit("share", SubscribeTypes[s])] \in Visiting
    BY RegisterStepsProperties, Zenon DEF Visiting
  <2> QED
    BY <1>5, <2>1, <2>2, <2>3, <2>4, Zenon DEF BeginCall, RegisterFastPublisher, RegisterSharePublisher,
       PublishFast, PublishSlow, RegisterSubscriber, DeregisterSubscriber, Shutdown, BeginAndEnd,
       BeginAbout, AllTopics
<1>6. ASSUME NEW c \in Callers, Continue(c) \/ CtxDone(c) PROVE CallInv'
  <2>1. CASE \E outcome : Return(c, outcome)
    BY <2>1, <1>2, Zenon
  <2>2. CASE call[c].op \in {"register", "deregister"} /\ Advance(c)
    BY <2>2, <1>3, Zenon
  <2> QED
    BY <1>6, <2>1, <2>2, Zenon DEF Continue, CtxDone, SendFast, SendSlow, SendOnClosed, RegisterFast,
       RegisterShare, DeregisterShare, OnMissing, ReturnAbout
<1> QED
  BY <1>4, <1>5, <1>6, Zenon DEF Next, FastHandler, ShareHandler, Tick, callVars, vars

-----------------------------------------------------------------------------
\* The topics of a subscriber, and where the events of a topic are delivered.
TopicsOf(s) == {SubscribeTypes[s][i] : i \in DOMAIN SubscribeTypes[s]}
RightStop(u) == IF IsFast(u) THEN <<"fast", u>> ELSE <<"share", u>>

\* A stop is among those a call has still to visit.
Ahead(todo, stop) == \E j \in 1 .. Len(todo) : todo[j] = stop

SlowItems == [id : Nat, topic : AllTopics]

\* Of the shared publisher: OnEvent runs for a listener of the topic in hand, a
\* topic without a set has no listener, and listeners have asked for the topic.
ListenersSound ==
  /\ listeners \in [AllTopics -> SUBSET Subscribers]
  /\ slowQueue \in Seq(SlowItems)
  /\ slowSent \in Nat
  /\ callee # {} => slowHandler = "notifying" /\ callee \subseteq listeners[slowEvent.topic]
  /\ slowHandler = "notifying" => slowEvent.topic \in AllTopics
  /\ \A u \in AllTopics \ topics : listeners[u] = {}
  /\ \A u \in AllTopics : \A s \in listeners[u] : u \in TopicsOf(s)

\* A call about a subscriber.
About(op) == op.op \in {"register", "deregister"}

\* A registration has put the subscriber in each of the right places that are
\* behind it; a deregistration has left it in none that is behind it.
RegisterSound(s, todo) == \A u \in TopicsOf(s) : DeliversTo(u, s) \/ Ahead(todo, RightStop(u))
DeregisterSound(s, todo) == \A u \in AllTopics : s \in listeners[u] => Ahead(todo, <<"share", u>>)

AboutSound(c) ==
  About(call[c]) =>
    /\ settled[call[c].sub] = "unknown"
    /\ \A j \in 1 .. Len(call[c].todo) : call[c].todo[j][2] \in TopicsOf(call[c].sub)
    /\ alone[c] =>
         /\ \A d \in Callers \ {c} : About(call[d]) => call[d].sub # call[c].sub
         /\ call[c].op = "register" => RegisterSound(call[c].sub, call[c].todo)
         /\ call[c].op = "deregister" => DeregisterSound(call[c].sub, call[c].todo)

SettledSound(s) ==
  /\ settled[s] = "register" => \A u \in TopicsOf(s) : DeliversTo(u, s)
  /\ settled[s] = "deregister" => \A u \in AllTopics : s \notin listeners[u]

HistoryTyped ==
  /\ subscribers \in [FastTopics -> SUBSET Subscribers]
  /\ alone \in [Callers -> BOOLEAN]
  /\ settled \in [Subscribers -> {"unknown", "register", "deregister"}]

CentreInv ==
  /\ CallInv /\ HistoryTyped /\ ListenersSound
  /\ \A c \in Callers : AboutSound(c)
  /\ \A s \in Subscribers : SettledSound(s)

(* Nothing is registered at first.                                            *)
LEMMA CentreInitially == Init => CentreInv
<1> SUFFICES ASSUME Init PROVE CentreInv
  OBVIOUS
<1>1. CallInv
  BY CallsInitially, Zenon
<1>2. HistoryTyped
  BY Zenon DEF Init, P!Init, HistoryTyped
<1>3. ListenersSound
  BY DEF Init, S!SlowInit, ListenersSound
<1>4. ASSUME NEW c \in Callers PROVE AboutSound(c)
  BY DEF Init, Idle, AboutSound, About
<1>5. ASSUME NEW s \in Subscribers PROVE SettledSound(s)
  BY Zenon DEF Init, SettledSound
<1> QED
  BY <1>1, <1>2, <1>3, <1>4, <1>5, Zenon DEF CentreInv

-----------------------------------------------------------------------------
(* The topics of a subscriber are topics.                                     *)
LEMMA TopicFacts ==
  ASSUME NEW s \in Subscribers
  PROVE  TopicsOf(s) \subseteq AllTopics
<1>1. SubscribeTypes[s] \in Seq(AllTopics)
  BY NotifyCenterAssumption, Zenon
<1>2. \A i \in DOMAIN SubscribeTypes[s] : SubscribeTypes[s][i] \in AllTopics
  BY <1>1, LenProperties, ElementOfSeq, Zenon
<1> QED
  BY <1>2, Zenon DEF TopicsOf

(* A visit to some topics stops at each of them, and nowhere else.            *)
LEMMA VisitStops ==
  ASSUME NEW s \in Subscribers, NEW where \in {"fast", "share"}
  PROVE  /\ Visit(where, SubscribeTypes[s]) \in Seq(Stops)
         /\ \A u \in TopicsOf(s) : Ahead(Visit(where, SubscribeTypes[s]), <<where, u>>)
         /\ \A j \in 1 .. Len(Visit(where, SubscribeTypes[s])) :
              Visit(where, SubscribeTypes[s])[j][2] \in TopicsOf(s)
<1> DEFINE ts == SubscribeTypes[s]
           v == Visit(where, ts)
<1>1. ts \in Seq(AllTopics) /\ ts # <<>>
  BY NotifyCenterAssumption, Zenon
<1>2. Len(ts) \in Nat /\ DOMAIN ts = 1 .. Len(ts)
  BY <1>1, LenProperties, Zenon
<1>3. v \in Seq(Stops)
  BY <1>1, VisitProperties, Zenon
<1>4. DOMAIN v = 1 .. Len(v) /\ DOMAIN v = 1 .. Len(ts)
  BY <1>3, LenProperties, Zenon DEF Visit
<1>5. \A j \in 1 .. Len(v) : v[j] = <<where, ts[j]>> /\ ts[j] \in TopicsOf(s)
  BY <1>2, <1>4, Zenon DEF Visit, TopicsOf
<1>6. \A u \in TopicsOf(s) : Ahead(v, <<where, u>>)
  BY <1>2, <1>4, <1>5, Zenon DEF TopicsOf, Ahead
<1>7. \A j \in 1 .. Len(v) : v[j][2] \in TopicsOf(s)
  <2> HIDE DEF v, ts
  <2> QED BY <1>5
<1> QED
  BY <1>3, <1>6, <1>7, Zenon

(* A registration goes to the right place for each topic.                     *)
LEMMA RegisterStops ==
  ASSUME NEW s \in Subscribers
  PROVE  /\ \A u \in TopicsOf(s) : Ahead(RegisterSteps(s), RightStop(u))
         /\ \A j \in 1 .. Len(RegisterSteps(s)) : RegisterSteps(s)[j][2] \in TopicsOf(s)
<1>1. PICK f, h : f = Visit("fast", SubscribeTypes[s]) /\ h = Visit("share", SubscribeTypes[s])
  BY Zenon
<1>2. /\ f \in Seq(Stops) /\ h \in Seq(Stops)
      /\ \A u \in TopicsOf(s) : Ahead(f, <<"fast", u>>) /\ Ahead(h, <<"share", u>>)
      /\ \A j \in 1 .. Len(f) : f[j][2] \in TopicsOf(s)
      /\ \A j \in 1 .. Len(h) : h[j][2] \in TopicsOf(s)
  BY <1>1, VisitStops, Zenon
<1>3. CASE s \in Single
  <2>1. Len(SubscribeTypes[s]) = 1 /\ SubscribeTypes[s] \in Seq(AllTopics)
    BY <1>3, NotifyCenterAssumption, Zenon
  <2>2. DOMAIN SubscribeTypes[s] = {1}
    BY <2>1
  <2>3. TopicsOf(s) = {SubscribeTypes[s][1]}
    BY <2>2, Zenon DEF TopicsOf
  <2>4. CASE IsFast(SubscribeTypes[s][1])
    <3>1. RegisterSteps(s) = f
      BY <1>1, <1>3, <2>4, Zenon DEF RegisterSteps
    <3> QED BY <1>2, <2>3, <2>4, <3>1, Zenon DEF RightStop
  <2>5. CASE ~IsFast(SubscribeTypes[s][1])
    <3>1. RegisterSteps(s) = h
      BY <1>1, <1>3, <2>5, Zenon DEF RegisterSteps
    <3> QED BY <1>2, <2>3, <2>5, <3>1, Zenon DEF RightStop
  <2> QED BY <2>4, <2>5, Zenon
<1>4. CASE s \notin Single
  <2>1. RegisterSteps(s) = f \o h
    BY <1>1, <1>4, Zenon DEF RegisterSteps
  <2>2. /\ Len(f \o h) = Len(f) + Len(h) /\ Len(f) \in Nat /\ Len(h) \in Nat
        /\ \A i \in 1 .. Len(f) + Len(h) : (f \o h)[i] = IF i <= Len(f) THEN f[i] ELSE h[i - Len(f)]
    BY <1>2, ConcatProperties, LenProperties, Zenon
  <2>3. PICK m, n : m = Len(f) /\ n = Len(h)
    BY Zenon
  <2>4. /\ \A i \in 1 .. m : i \in 1 .. m + n /\ i <= m
        /\ \A i \in 1 .. n : m + i \in 1 .. m + n /\ ~(m + i <= m) /\ (m + i) - m = i
        /\ \A i \in 1 .. m + n : (i <= m => i \in 1 .. m) /\ (~(i <= m) => i - m \in 1 .. n)
    BY <2>2, <2>3
  <2>5. /\ \A i \in 1 .. m : (f \o h)[i] = f[i]
        /\ \A i \in 1 .. n : (f \o h)[m + i] = h[i]
    BY <2>2, <2>3, <2>4, ZenonT(30)
  <2>6. \A x : Ahead(f, x) \/ Ahead(h, x) => Ahead(f \o h, x)
    <3> SUFFICES ASSUME NEW x, Ahead(f, x) \/ Ahead(h, x) PROVE \E j \in 1 .. m + n : (f \o h)[j] = x
      BY <2>2, <2>3, Zenon DEF Ahead
    <3>1. CASE Ahead(f, x)
      <4>1. PICK i \in 1 .. m : f[i] = x
        BY <2>3, <3>1, Zenon DEF Ahead
      <4> QED BY <2>4, <2>5, <4>1, Zenon
    <3>2. CASE Ahead(h, x)
      <4>1. PICK i \in 1 .. n : h[i] = x
        BY <2>3, <3>2, Zenon DEF Ahead
      <4>2. m + i \in 1 .. m + n /\ (f \o h)[m + i] = x
        BY <2>4, <2>5, <4>1, Zenon
      <4> QED BY <4>2, Zenon
    <3> QED BY <3>1, <3>2, Zenon
  <2>7. \A j \in 1 .. m + n : (f \o h)[j][2] \in TopicsOf(s)
    BY <1>2, <2>2, <2>3, <2>4, Zenon
  <2> QED BY <1>2, <2>1, <2>2, <2>3, <2>6, <2>7, Zenon DEF RightStop
<1> QED
  BY <1>3, <1>4, Zenon

(* The stops ahead are the next one and those behind it.                      *)
LEMMA AheadFacts ==
  ASSUME NEW todo \in Seq(Stops), todo # <<>>
  PROVE  /\ \A x : Ahead(todo, x) => x = Head(todo) \/ (Len(todo) # 1 /\ Ahead(Tail(todo), x))
         /\ \A j \in 1 .. Len(Tail(todo)) : j + 1 \in 1 .. Len(todo) /\ Tail(todo)[j] = todo[j + 1]
         /\ Head(todo) = todo[1] /\ 1 \in 1 .. Len(todo) /\ Head(todo) \in Stops
<1>1. /\ Head(todo) = todo[1] /\ Head(todo) \in Stops /\ Len(todo) \in Nat /\ Len(todo) # 0
      /\ Len(Tail(todo)) = Len(todo) - 1
      /\ \A j \in 1 .. Len(Tail(todo)) : Tail(todo)[j] = todo[j + 1]
  <2>1. Head(todo) \in Stops /\ Tail(todo) \in Seq(Stops) /\ Len(todo) \in Nat /\ Len(todo) # 0
    BY HeadTailProperties, LenProperties, EmptySeq, Zenon
  <2>2. Head(todo) = todo[1] /\ Len(Tail(todo)) = Len(todo) - 1
          /\ \A j \in 1 .. Len(Tail(todo)) : Tail(todo)[j] = todo[j + 1]
    BY HeadTailProperties, <2>1
  <2> QED BY <2>1, <2>2, Zenon
<1>2. PICK n : n = Len(todo)
  BY Zenon
<1>3. /\ \A j \in 1 .. n - 1 : j + 1 \in 1 .. n
      /\ \A j \in 1 .. n : j = 1 \/ (n # 1 /\ j - 1 \in 1 .. n - 1 /\ (j - 1) + 1 = j)
      /\ 1 \in 1 .. n
  BY <1>1, <1>2
<1>4. Len(Tail(todo)) = n - 1
  BY <1>1, <1>2, Zenon
<1>5. ASSUME NEW x, Ahead(todo, x)
      PROVE  x = Head(todo) \/ (Len(todo) # 1 /\ Ahead(Tail(todo), x))
  <2>1. PICK j \in 1 .. n : todo[j] = x
    BY <1>2, <1>5, Zenon DEF Ahead
  <2>2. CASE j = 1
    BY <1>1, <2>1, <2>2, Zenon
  <2>3. CASE j # 1
    <3>1. n # 1 /\ j - 1 \in 1 .. n - 1 /\ (j - 1) + 1 = j
      BY <1>3, <2>3, Zenon
    <3>2. Tail(todo)[j - 1] = todo[(j - 1) + 1]
      BY <1>1, <1>4, <3>1, Zenon
    <3>3. Tail(todo)[j - 1] = x
      BY <2>1, <3>1, <3>2, Zenon
    <3>4. Ahead(Tail(todo), x)
      BY <1>4, <3>1, <3>3, Zenon DEF Ahead
    <3> QED BY <1>2, <3>1, <3>4, Zenon
  <2> QED BY <2>2, <2>3, Zenon
<1> QED
  BY <1>1, <1>2, <1>3, <1>4, <1>5, Zenon

(* What is known of a call about a subscriber.                                *)
LEMMA AboutFacts ==
  ASSUME CentreInv, NEW c \in Callers, About(call[c])
  PROVE  /\ call[c] \in Visiting /\ call[c].sub \in Subscribers
         /\ call[c].todo \in Seq(Stops) /\ call[c].todo # <<>>
         /\ Head(call[c].todo) \in Stops
         /\ Head(call[c].todo)[2] \in TopicsOf(call[c].sub)
<1>1. call[c] \in Visiting
  BY DEF CentreInv, CallInv, Idle, Publishing, About
<1>2. call[c].sub \in Subscribers /\ call[c].todo \in Seq(Stops) /\ call[c].todo # <<>>
  BY <1>1, Zenon DEF Visiting
<1>3. /\ Head(call[c].todo) \in Stops /\ Head(call[c].todo) = call[c].todo[1]
      /\ 1 \in 1 .. Len(call[c].todo)
  BY <1>2, AheadFacts, Zenon
<1>4. Head(call[c].todo)[2] \in TopicsOf(call[c].sub)
  BY <1>3, Zenon DEF CentreInv, AboutSound
<1> QED
  BY <1>1, <1>2, <1>3, <1>4, Zenon

-----------------------------------------------------------------------------
(* The handler and the senders of the shared publisher touch no list, and     *)
(* OnEvent runs for listeners.                                                *)
LEMMA ShareQuiet ==
  ASSUME ListenersSound,
         S!SlowHandlerStep \/ S!SlowShutdown \/ (\E u \in AllTopics : S!SendSlow(u))
           \/ UNCHANGED shareVars
  PROVE  ListenersSound' /\ UNCHANGED <<topics, listeners>>
<1> USE DEF ListenersSound, S!listVars
<1>1. CASE S!ReceiveSlow
  <2>1. /\ slowHandler = "waiting" /\ slowQueue # <<>> /\ slowQueue' = Tail(slowQueue)
        /\ slowHandler' = "notifying" => slowEvent' = Head(slowQueue)
        /\ UNCHANGED <<topics, listeners, callee, slowSent>>
    BY <1>1, Zenon DEF S!ReceiveSlow
  <2>2. Head(slowQueue) \in SlowItems /\ Tail(slowQueue) \in Seq(SlowItems)
    BY <2>1, HeadTailProperties, Zenon
  <2>3. callee = {}
    BY <2>1, Zenon
  <2>4. Head(slowQueue).topic \in AllTopics
    BY <2>2, Zenon DEF SlowItems
  <2> QED BY <2>1, <2>2, <2>3, <2>4, Zenon
<1>2. ASSUME NEW s \in Subscribers, S!BeginOnEvent(s)
      PROVE  ListenersSound' /\ UNCHANGED <<topics, listeners>>
  BY <1>2, Zenon DEF S!BeginOnEvent, S!Listed
<1>3. CASE S!ReceiveClosed
  <2>1. /\ slowHandler = "waiting" /\ slowHandler' = "dead"
        /\ UNCHANGED <<topics, listeners, slowQueue, slowSent, callee>>
    BY <1>3, Zenon DEF S!ReceiveClosed
  <2> QED BY <2>1, Zenon
<1>4. CASE S!EndOnEvent \/ S!PanicOnEvent
  <2>1. /\ callee' = {}
        /\ slowHandler' = "notifying" => slowHandler = "notifying" /\ slowEvent' = slowEvent
        /\ UNCHANGED <<topics, listeners, slowQueue, slowSent>>
    BY <1>4, Zenon DEF S!EndOnEvent, S!PanicOnEvent
  <2> QED BY <2>1, Zenon
<1>5. CASE S!EndRange
  <2>1. /\ callee' = {} /\ slowHandler' = "waiting"
        /\ UNCHANGED <<topics, listeners, slowQueue, slowSent>>
    BY <1>5, Zenon DEF S!EndRange
  <2> QED BY <2>1, Zenon
<1>6. CASE S!SlowShutdown \/ UNCHANGED shareVars
  BY <1>6, Zenon DEF S!SlowShutdown, shareVars
<1>7. ASSUME NEW u \in AllTopics, S!SendSlow(u)
      PROVE  ListenersSound' /\ UNCHANGED <<topics, listeners>>
  <2>1. PICK e : e = [id |-> slowSent + 1, topic |-> u]
    BY Zenon
  <2>2. slowSent + 1 \in Nat
    OBVIOUS
  <2>3. e \in SlowItems
    BY <2>1, <2>2, Zenon DEF SlowItems
  <2>4. /\ slowQueue' = Append(slowQueue, e) /\ slowSent' = slowSent + 1
        /\ UNCHANGED <<topics, listeners, slowHandler, slowEvent, callee>>
    BY <1>7, <2>1, Zenon DEF S!SendSlow
  <2>5. slowQueue' \in Seq(SlowItems)
    BY <2>3, <2>4, AppendProperties, Zenon
  <2> QED BY <2>2, <2>4, <2>5, Zenon
<1> QED
  BY <1>1, <1>2, <1>3, <1>4, <1>5, <1>6, <1>7, Zenon DEF S!SlowHandlerStep

(* A listener is added for a topic it has asked for.                          *)
LEMMA AddSound ==
  ASSUME ListenersSound, NEW s \in Subscribers, NEW u \in TopicsOf(s), S!AddListener(u, s)
  PROVE  /\ ListenersSound' /\ s \in listeners'[u]
         /\ \A v \in AllTopics : listeners[v] \subseteq listeners'[v]
         /\ \A r \in Subscribers \ {s} : \A v \in AllTopics : r \in listeners'[v] <=> r \in listeners[v]
<1>1. /\ topics' = topics \cup {u} /\ listeners' = [listeners EXCEPT ![u] = listeners[u] \cup {s}]
      /\ UNCHANGED <<slowQueue, slowHandler, slowEvent, callee, slowSent>>
  BY Zenon DEF S!AddListener
<1>2. u \in AllTopics /\ listeners \in [AllTopics -> SUBSET Subscribers]
  BY TopicFacts, Zenon DEF ListenersSound
<1>3. /\ listeners' \in [AllTopics -> SUBSET Subscribers]
      /\ \A v \in AllTopics : listeners'[v] = IF v = u THEN listeners[v] \cup {s} ELSE listeners[v]
  BY <1>1, <1>2, Zenon
<1>4. ListenersSound'
  BY <1>1, <1>3, Zenon DEF ListenersSound
<1> QED
  BY <1>2, <1>3, <1>4, Zenon

(* A listener is removed while no Range over its topic is under way.          *)
LEMMA RemoveSound ==
  ASSUME ListenersSound, NEW s \in Subscribers, NEW u \in AllTopics, S!RemoveListener(u, s)
  PROVE  /\ ListenersSound' /\ s \notin listeners'[u]
         /\ \A v \in AllTopics : listeners'[v] \subseteq listeners[v]
         /\ \A r \in Subscribers \ {s} : \A v \in AllTopics : r \in listeners'[v] <=> r \in listeners[v]
<1>1. /\ listeners' = [listeners EXCEPT ![u] = listeners[u] \ {s}] /\ S!SetFree(u)
      /\ UNCHANGED <<topics, slowQueue, slowHandler, slowEvent, callee, slowSent>>
  BY Zenon DEF S!RemoveListener
<1>2. listeners \in [AllTopics -> SUBSET Subscribers]
  BY Zenon DEF ListenersSound
<1>3. /\ listeners' \in [AllTopics -> SUBSET Subscribers]
      /\ \A v \in AllTopics : listeners'[v] = IF v = u THEN listeners[v] \ {s} ELSE listeners[v]
  BY <1>1, <1>2, Zenon
<1>4. callee # {} => slowEvent.topic # u /\ slowEvent.topic \in AllTopics
  BY <1>1, Zenon DEF ListenersSound, S!SetFree
<1>5. ListenersSound'
  BY <1>1, <1>3, <1>4, Zenon DEF ListenersSound
<1> QED
  BY <1>3, <1>5, Zenon

-----------------------------------------------------------------------------
\* A step leaves a subscriber where it is.
SameFor(s) ==
  /\ \A u \in FastTopics : s \in subscribers'[u] <=> s \in subscribers[u]
  /\ \A u \in AllTopics : s \in listeners'[u] <=> s \in listeners[u]

(* Then the events of a topic reach it as before.                             *)
LEMMA SameDelivery ==
  ASSUME NEW s \in Subscribers, SameFor(s), NEW u \in AllTopics
  PROVE  DeliversTo(u, s)' <=> DeliversTo(u, s)
BY Zenon DEF SameFor, DeliversTo, IsFast

(* A call that no step is taken for stays sound while its subscriber is left  *)
(* alone, or it is known not to be alone.                                     *)
LEMMA FrameCall ==
  ASSUME CentreInv, NEW d \in Callers, call'[d] = call[d],
         About(call[d]) =>
           /\ settled'[call[d].sub] = "unknown"
           /\ alone'[d] =>
                /\ alone[d] /\ SameFor(call[d].sub)
                /\ \A e \in Callers \ {d} : About(call'[e]) => call'[e].sub # call[d].sub
  PROVE  AboutSound(d)'
<1> SUFFICES ASSUME About(call[d]) PROVE AboutSound(d)'
  BY Zenon DEF AboutSound
<1>1. PICK s, todo, op : s = call[d].sub /\ todo = call[d].todo /\ op = call[d].op
  BY Zenon
<1>2. s \in Subscribers
  BY <1>1, AboutFacts, Zenon DEF CentreInv
<1>3. AboutSound(d)
  BY Zenon DEF CentreInv
<1>4. ASSUME alone'[d], op = "register" PROVE RegisterSound(s, todo)'
  <2>1. RegisterSound(s, todo) /\ SameFor(s)
    BY <1>1, <1>3, <1>4, Zenon DEF AboutSound
  <2>2. TopicsOf(s) \subseteq AllTopics
    BY <1>2, TopicFacts, Zenon
  <2> QED BY <1>2, <2>1, <2>2, SameDelivery, Zenon DEF RegisterSound
<1>5. ASSUME alone'[d], op = "deregister" PROVE DeregisterSound(s, todo)'
  <2>1. DeregisterSound(s, todo) /\ SameFor(s)
    BY <1>1, <1>3, <1>5, Zenon DEF AboutSound
  <2> QED BY <2>1, Zenon DEF DeregisterSound, SameFor
<1> QED
  BY <1>1, <1>3, <1>4, <1>5, Zenon DEF AboutSound

(* What is settled of a subscriber holds while it is left alone.              *)
LEMMA FrameSettled ==
  ASSUME CentreInv, NEW s \in Subscribers, settled'[s] \in {settled[s], "unknown"},
         settled'[s] # "unknown" => SameFor(s)
  PROVE  SettledSound(s)'
<1>1. SettledSound(s) /\ TopicsOf(s) \subseteq AllTopics
  BY TopicFacts, Zenon DEF CentreInv
<1>2. CASE settled'[s] = "unknown"
  BY <1>2 DEF SettledSound
<1>3. CASE settled'[s] # "unknown"
  <2>1. settled'[s] = settled[s] /\ SameFor(s)
    BY <1>3, Zenon
  <2>2. settled[s] = "register" => \A u \in TopicsOf(s) : DeliversTo(u, s)'
    BY <1>1, <2>1, SameDelivery, Zenon DEF SettledSound
  <2>3. settled[s] = "deregister" => \A u \in AllTopics : s \notin listeners'[u]
    BY <1>1, <2>1, Zenon DEF SettledSound, SameFor
  <2> QED BY <2>1, <2>2, <2>3, Zenon DEF SettledSound
<1> QED
  BY <1>2, <1>3, Zenon

(* A step that is about no subscriber, on whosever part.                      *)
LEMMA QuietKeeps ==
  ASSUME CentreInv, CallInv', ListenersSound', UNCHANGED <<subscribers, listeners, alone, settled>>,
         \A d \in Callers : call'[d] = call[d] \/ ~About(call'[d])
  PROVE  CentreInv'
<1>1. \A s \in Subscribers : SameFor(s)
  BY Zenon DEF SameFor
<1>2. HistoryTyped'
  BY Zenon DEF CentreInv, HistoryTyped
<1>3. ASSUME NEW d \in Callers PROVE AboutSound(d)'
  <2>1. CASE ~About(call'[d])
    BY <2>1, Zenon DEF AboutSound
  <2>2. CASE call'[d] = call[d] /\ About(call[d])
    <3>1. AboutSound(d) /\ call[d].sub \in Subscribers
      BY <2>2, AboutFacts, Zenon DEF CentreInv
    <3>2. settled'[call[d].sub] = "unknown"
      BY <2>2, <3>1, Zenon DEF AboutSound
    <3>3. alone'[d] => alone[d] /\ SameFor(call[d].sub)
      BY <1>1, <3>1, Zenon
    <3>4. ASSUME alone'[d], NEW e \in Callers \ {d}, About(call'[e])
          PROVE  call'[e].sub # call[d].sub
      BY <2>2, <3>1, <3>4, Zenon DEF AboutSound
    <3> QED BY <2>2, <3>2, <3>3, <3>4, FrameCall, Zenon
  <2> QED BY <2>1, <2>2, Zenon
<1>4. ASSUME NEW s \in Subscribers PROVE SettledSound(s)'
  BY <1>1, FrameSettled, Zenon
<1> QED
  BY <1>2, <1>3, <1>4, Zenon DEF CentreInv

(* A call about a subscriber begins.                                          *)
LEMMA BeginAboutKeeps ==
  ASSUME CentreInv, CallInv', NEW c \in Callers, NEW s \in Subscribers, NEW op \in Visiting,
         BeginAbout(c, s, op), UNCHANGED <<pubVars, shareVars>>, op.sub = s,
         \A j \in 1 .. Len(op.todo) : op.todo[j][2] \in TopicsOf(s),
         op.op = "register" => RegisterSound(s, op.todo),
         op.op = "deregister" => DeregisterSound(s, op.todo)
  PROVE  CentreInv'
<1>1. /\ call' = [call EXCEPT ![c] = op]
      /\ alone' = [d \in Callers |-> IF d \in Busy(s) THEN FALSE
                                     ELSE IF d = c THEN Busy(s) = {} ELSE alone[d]]
      /\ settled' = [settled EXCEPT ![s] = "unknown"]
      /\ call[c] = Idle
  BY Zenon DEF BeginAbout, Begin
<1>2. UNCHANGED <<subscribers, listeners>> /\ ListenersSound'
  <2>1. UNCHANGED subscribers
    BY Zenon DEF pubVars
  <2> QED BY <2>1, ShareQuiet, Zenon DEF CentreInv
<1>3. \A r \in Subscribers : SameFor(r)
  BY <1>2, Zenon DEF SameFor
<1>4. /\ call \in [Callers -> {Idle} \cup Publishing \cup Visiting]
      /\ alone \in [Callers -> BOOLEAN]
      /\ settled \in [Subscribers -> {"unknown", "register", "deregister"}]
  BY Zenon DEF CentreInv, CallInv, HistoryTyped
<1>5. call'[c] = op /\ \A d \in Callers \ {c} : call'[d] = call[d]
  BY <1>1, <1>4, Zenon
<1>6. settled'[s] = "unknown" /\ \A r \in Subscribers \ {s} : settled'[r] = settled[r]
  BY <1>1, <1>4, Zenon
<1>7. HistoryTyped'
  <2>1. settled' \in [Subscribers -> {"unknown", "register", "deregister"}]
    BY <1>1, <1>4, Zenon
  <2>2. alone' \in [Callers -> BOOLEAN]
    BY <1>1, <1>4, Zenon
  <2> QED BY <1>2, <2>1, <2>2, Zenon DEF CentreInv, HistoryTyped
<1>8. \A d \in Callers : d \in Busy(s) <=> About(call[d]) /\ call[d].sub = s
  BY Zenon DEF Busy, About
<1>9. AboutSound(c)'
  <2>1. ASSUME alone'[c], NEW d \in Callers \ {c}, About(call'[d]) PROVE call'[d].sub # s
    <3>1. Busy(s) = {}
      BY <1>1, <2>1, Zenon
    <3> QED BY <1>5, <1>8, <2>1, <3>1, Zenon
  <2>2. op.op = "register" => RegisterSound(s, op.todo)'
    BY <1>2, Zenon DEF RegisterSound, DeliversTo
  <2>3. op.op = "deregister" => DeregisterSound(s, op.todo)'
    BY <1>2, Zenon DEF DeregisterSound
  <2> QED BY <1>5, <1>6, <2>1, <2>2, <2>3, Zenon DEF AboutSound
<1>10. ASSUME NEW d \in Callers \ {c} PROVE AboutSound(d)'
  <2>1. CASE ~About(call[d])
    BY <1>5, <2>1, Zenon DEF AboutSound
  <2>2. CASE About(call[d])
    <3>1. AboutSound(d) /\ call[d].sub \in Subscribers /\ call'[d] = call[d]
      BY <1>5, <2>2, AboutFacts, Zenon DEF CentreInv
    <3>2. settled'[call[d].sub] = "unknown"
      BY <1>6, <2>2, <3>1, Zenon DEF AboutSound
    <3>3. alone'[d] => alone[d] /\ call[d].sub # s
      BY <1>1, <1>8, <2>2, Zenon
    <3>4. ASSUME alone'[d], NEW e \in Callers \ {d}, About(call'[e])
          PROVE  call'[e].sub # call[d].sub
      <4>1. CASE e = c
        BY <1>5, <3>3, <3>4, <4>1, Zenon
      <4>2. CASE e # c
        BY <1>5, <2>2, <3>1, <3>3, <3>4, <4>2, Zenon DEF AboutSound
      <4> QED BY <4>1, <4>2, Zenon
    <3> QED BY <1>3, <3>1, <3>2, <3>3, <3>4, FrameCall, Zenon
  <2> QED BY <2>1, <2>2, Zenon
<1>11. ASSUME NEW r \in Subscribers PROVE SettledSound(r)'
  BY <1>3, <1>6, FrameSettled, Zenon
<1> QED
  BY <1>2, <1>7, <1>9, <1>10, <1>11, Zenon DEF CentreInv

-----------------------------------------------------------------------------
\* Caller c has visited its next stop, and left all other subscribers alone.
Visited(c) ==
  \A s \in Subscribers, stop \in Stops : s = call[c].sub /\ stop = Head(call[c].todo) =>
    /\ \A r \in Subscribers \ {s} : SameFor(r)
    /\ call[c].op = "register" =>
         \A u \in TopicsOf(s) : /\ DeliversTo(u, s) => DeliversTo(u, s)'
                                /\ stop = RightStop(u) => DeliversTo(u, s)'
    /\ call[c].op = "deregister" =>
         \A u \in AllTopics : /\ s \in listeners'[u] => s \in listeners[u]
                              /\ stop = <<"share", u>> => s \notin listeners'[u]

(* The other callers, and what is settled of other subscribers.               *)
LEMMA OthersKeep ==
  ASSUME CentreInv, NEW c \in Callers, About(call[c]),
         \A r \in Subscribers \ {call[c].sub} : SameFor(r),
         alone' = alone, \A d \in Callers \ {c} : call'[d] = call[d],
         About(call'[c]) => call'[c].sub = call[c].sub,
         ~alone[c] => settled'[call[c].sub] = settled[call[c].sub],
         \A r \in Subscribers \ {call[c].sub} : settled'[r] = settled[r]
  PROVE  /\ \A d \in Callers \ {c} : AboutSound(d)'
         /\ \A r \in Subscribers \ {call[c].sub} : SettledSound(r)'
<1>1. PICK s : s = call[c].sub
  BY Zenon
<1>2. ASSUME NEW d \in Callers \ {c} PROVE AboutSound(d)'
  <2>1. CASE ~About(call[d])
    BY <2>1, Zenon DEF AboutSound
  <2>2. CASE About(call[d])
    <3>1. AboutSound(d) /\ AboutSound(c) /\ call[d].sub \in Subscribers
      BY <2>2, AboutFacts, Zenon DEF CentreInv
    <3>2. settled'[call[d].sub] = "unknown"
      <4>1. CASE call[d].sub = s
        <5>1. ~alone[c]
          BY <1>1, <2>2, <3>1, <4>1, Zenon DEF AboutSound
        <5>2. settled[s] = "unknown"
          BY <1>1, <3>1, Zenon DEF AboutSound
        <5> QED BY <1>1, <4>1, <5>1, <5>2, Zenon
      <4>2. CASE call[d].sub # s
        BY <1>1, <2>2, <3>1, <4>2, Zenon DEF AboutSound
      <4> QED BY <4>1, <4>2, Zenon
    <3>3. alone[d] => call[d].sub # s
      BY <1>1, <2>2, <3>1, Zenon DEF AboutSound
    <3>4. ASSUME alone'[d], NEW e \in Callers \ {d}, About(call'[e])
          PROVE  call'[e].sub # call[d].sub
      <4>1. CASE e = c
        BY <1>1, <3>3, <3>4, <4>1, Zenon
      <4>2. CASE e # c
        BY <2>2, <3>1, <3>4, <4>2, Zenon DEF AboutSound
      <4> QED BY <4>1, <4>2, Zenon
    <3> QED BY <1>1, <3>1, <3>2, <3>3, <3>4, FrameCall, Zenon
  <2> QED BY <2>1, <2>2, Zenon
<1>3. ASSUME NEW r \in Subscribers \ {s} PROVE SettledSound(r)'
  BY <1>1, <1>3, FrameSettled, Zenon
<1> QED
  BY <1>1, <1>2, <1>3, Zenon

(* A call about a subscriber ends: an error or a panic settles nothing, and   *)
(* after the last stop the subscriber is, or is not, where it should be.      *)
LEMMA ReturnAboutKeeps ==
  ASSUME CentreInv, CallInv', ListenersSound', NEW c \in Callers, About(call[c]), NEW outcome,
         ReturnAbout(c, outcome), subscribers' \in [FastTopics -> SUBSET Subscribers],
         \A r \in Subscribers \ {call[c].sub} : SameFor(r),
         outcome = "ok" => Visited(c) /\ Len(call[c].todo) = 1
  PROVE  CentreInv'
<1>1. PICK s, todo, op : s = call[c].sub /\ todo = call[c].todo /\ op = call[c].op
  BY Zenon
<1>2. /\ s \in Subscribers /\ op \in {"register", "deregister"} /\ Head(todo) \in Stops
      /\ todo \in Seq(Stops) /\ todo # <<>> /\ AboutSound(c)
  BY <1>1, AboutFacts, Zenon DEF CentreInv, About
<1>3. /\ call' = [call EXCEPT ![c] = Idle] /\ alone' = alone
      /\ settled' = [settled EXCEPT ![s] = IF alone[c] /\ outcome = "ok" THEN op ELSE settled[s]]
  BY <1>1, Zenon DEF ReturnAbout, Return
<1>4. /\ call \in [Callers -> {Idle} \cup Publishing \cup Visiting]
      /\ settled \in [Subscribers -> {"unknown", "register", "deregister"}]
  BY Zenon DEF CentreInv, CallInv, HistoryTyped
<1>5. call'[c] = Idle /\ \A d \in Callers \ {c} : call'[d] = call[d]
  BY <1>3, <1>4, Zenon
<1>6. /\ settled' \in [Subscribers -> {"unknown", "register", "deregister"}]
      /\ settled'[s] = IF alone[c] /\ outcome = "ok" THEN op ELSE settled[s]
      /\ \A r \in Subscribers \ {s} : settled'[r] = settled[r]
  BY <1>2, <1>3, <1>4, Zenon
<1>7. ~About(call'[c])
  BY <1>5 DEF About, Idle
<1>8. HistoryTyped'
  BY <1>3, <1>6, Zenon DEF CentreInv, HistoryTyped
<1>9. /\ \A d \in Callers \ {c} : AboutSound(d)'
      /\ \A r \in Subscribers \ {s} : SettledSound(r)'
  <2>1. ~alone[c] => settled'[call[c].sub] = settled[call[c].sub]
    BY <1>1, <1>6, Zenon
  <2>2. \A r \in Subscribers \ {call[c].sub} : settled'[r] = settled[r]
    BY <1>1, <1>6, Zenon
  <2>3. alone' = alone
    BY <1>3, Zenon
  <2>4. /\ \A d \in Callers \ {c} : AboutSound(d)'
        /\ \A r \in Subscribers \ {call[c].sub} : SettledSound(r)'
    BY <1>5, <1>7, <2>1, <2>2, <2>3, OthersKeep, Zenon
  <2> QED BY <1>1, <2>4, Zenon
<1>10. AboutSound(c)'
  BY <1>7, Zenon DEF AboutSound
<1>11. SettledSound(s)'
  <2>1. settled[s] = "unknown"
    BY <1>1, <1>2, Zenon DEF AboutSound
  <2>2. CASE ~(alone[c] /\ outcome = "ok")
    <3>1. settled'[s] = "unknown"
      BY <1>6, <2>1, <2>2, Zenon
    <3> QED BY <3>1 DEF SettledSound
  <2>3. CASE alone[c] /\ outcome = "ok"
    <3>1. settled'[s] = op /\ Visited(c) /\ Len(todo) = 1
      BY <1>1, <1>6, <2>3, Zenon
    <3>2. \A x : Ahead(todo, x) => x = Head(todo)
      BY <1>2, <3>1, AheadFacts, Zenon
    <3>3. CASE op = "register"
      <4>1. RegisterSound(s, todo)
        BY <1>1, <1>2, <2>3, <3>3, Zenon DEF AboutSound
      <4>2. \A u \in TopicsOf(s) : DeliversTo(u, s)'
        <5>1. \A u \in TopicsOf(s) : /\ DeliversTo(u, s) => DeliversTo(u, s)'
                                     /\ Head(todo) = RightStop(u) => DeliversTo(u, s)'
          BY <1>1, <1>2, <3>1, <3>3, Zenon DEF Visited
        <5> QED BY <3>2, <4>1, <5>1, Zenon DEF RegisterSound
      <4> QED BY <3>1, <3>3, <4>2, Zenon DEF SettledSound
    <3>4. CASE op = "deregister"
      <4>1. DeregisterSound(s, todo)
        BY <1>1, <1>2, <2>3, <3>4, Zenon DEF AboutSound
      <4>2. \A u \in AllTopics : s \notin listeners'[u]
        <5>1. \A u \in AllTopics : /\ s \in listeners'[u] => s \in listeners[u]
                                   /\ Head(todo) = <<"share", u>> => s \notin listeners'[u]
          BY <1>1, <1>2, <3>1, <3>4, Zenon DEF Visited
        <5> QED BY <3>2, <4>1, <5>1, Zenon DEF DeregisterSound
      <4> QED BY <3>1, <3>4, <4>2, Zenon DEF SettledSound
    <3> QED BY <1>2, <3>3, <3>4, Zenon
  <2> QED BY <2>2, <2>3, Zenon
<1> QED
  BY <1>8, <1>9, <1>10, <1>11, Zenon DEF CentreInv

(* A call goes on to its next stop, or ends behind the last.                  *)
LEMMA AdvanceKeeps ==
  ASSUME CentreInv, CallInv', ListenersSound', NEW c \in Callers, About(call[c]), Advance(c),
         subscribers' \in [FastTopics -> SUBSET Subscribers], Visited(c)
  PROVE  CentreInv'
<1>1. PICK s, todo, op : s = call[c].sub /\ todo = call[c].todo /\ op = call[c].op
  BY Zenon
<1>2. /\ s \in Subscribers /\ op \in {"register", "deregister"} /\ Head(todo) \in Stops
      /\ todo \in Seq(Stops) /\ todo # <<>> /\ AboutSound(c) /\ call[c] \in Visiting
  BY <1>1, AboutFacts, Zenon DEF CentreInv, About
<1>3. \A r \in Subscribers \ {call[c].sub} : SameFor(r)
  BY <1>1, <1>2, Zenon DEF Visited
<1>4. CASE Len(call[c].todo) = 1
  BY <1>3, <1>4, ReturnAboutKeeps, Zenon DEF Advance
<1>5. CASE Len(call[c].todo) # 1
  <2>1. PICK new : new = [call[c] EXCEPT !.todo = Tail(todo)]
    BY Zenon
  <2>2. new.op = op /\ new.sub = s /\ new.todo = Tail(todo)
    BY <1>1, <1>2, <2>1, Zenon DEF Visiting
  <2>3. call' = [call EXCEPT ![c] = new] /\ UNCHANGED <<alone, settled>>
    BY <1>1, <1>5, <2>1, Zenon DEF Advance
  <2>4. call \in [Callers -> {Idle} \cup Publishing \cup Visiting]
    BY Zenon DEF CentreInv, CallInv
  <2>5. call'[c] = new /\ \A d \in Callers \ {c} : call'[d] = call[d]
    BY <2>3, <2>4, Zenon
  <2>6. HistoryTyped'
    BY <2>3, Zenon DEF CentreInv, HistoryTyped
  <2>7. /\ \A d \in Callers \ {c} : AboutSound(d)'
        /\ \A r \in Subscribers \ {s} : SettledSound(r)'
    BY <1>1, <1>3, <2>2, <2>3, <2>5, OthersKeep, Zenon
  <2>8. settled[s] = "unknown"
    BY <1>1, <1>2, Zenon DEF AboutSound
  <2>9. SettledSound(s)'
    BY <2>3, <2>8 DEF SettledSound
  <2>10. /\ \A x : Ahead(todo, x) => x = Head(todo) \/ Ahead(Tail(todo), x)
         /\ \A j \in 1 .. Len(Tail(todo)) : j + 1 \in 1 .. Len(todo) /\ Tail(todo)[j] = todo[j + 1]
    BY <1>2, AheadFacts, Zenon
  <2>11. \A j \in 1 .. Len(Tail(todo)) : Tail(todo)[j][2] \in TopicsOf(s)
    BY <1>1, <1>2, <2>10, Zenon DEF AboutSound
  <2>12. ASSUME alone[c], op = "register" PROVE RegisterSound(s, Tail(todo))'
    <3>1. RegisterSound(s, todo)
      BY <1>1, <1>2, <2>12, Zenon DEF AboutSound
    <3>2. \A u \in TopicsOf(s) : DeliversTo(u, s)' \/ Ahead(Tail(todo), RightStop(u))
      <4>1. \A u \in TopicsOf(s) : /\ DeliversTo(u, s) => DeliversTo(u, s)'
                                   /\ Head(todo) = RightStop(u) => DeliversTo(u, s)'
        BY <1>1, <1>2, <2>12, Zenon DEF Visited
      <4> QED BY <2>10, <3>1, <4>1, Zenon DEF RegisterSound
    <3> QED BY <3>2, Zenon DEF RegisterSound
  <2>13. ASSUME alone[c], op = "deregister" PROVE DeregisterSound(s, Tail(todo))'
    <3>1. DeregisterSound(s, todo)
      BY <1>1, <1>2, <2>13, Zenon DEF AboutSound
    <3>2. \A u \in AllTopics : s \in listeners'[u] => Ahead(Tail(todo), <<"share", u>>)
      <4>1. \A u \in AllTopics : /\ s \in listeners'[u] => s \in listeners[u]
                                 /\ Head(todo) = <<"share", u>> => s \notin listeners'[u]
        BY <1>1, <1>2, <2>13, Zenon DEF Visited
      <4> QED BY <2>10, <3>1, <4>1, Zenon DEF DeregisterSound
    <3> QED BY <3>2, Zenon DEF DeregisterSound
  <2>14. alone[c] => \A d \in Callers \ {c} : About(call'[d]) => call'[d].sub # s
    BY <1>1, <1>2, <2>5, Zenon DEF AboutSound
  <2>15. AboutSound(c)'
    BY <2>2, <2>3, <2>5, <2>8, <2>11, <2>12, <2>13, <2>14, Zenon DEF AboutSound
  <2> QED BY <2>6, <2>7, <2>9, <2>15, Zenon DEF CentreInv
<1> QED
  BY <1>4, <1>5, Zenon

-----------------------------------------------------------------------------
(* Registering with a fast publisher.                                         *)
LEMMA RegisterFastKeeps ==
  ASSUME CentreInv, CallInv', NEW c \in Callers, RegisterFast(c)
  PROVE  CentreInv'
<1>1. PICK s, stop, u : s = call[c].sub /\ stop = Head(call[c].todo) /\ u = stop[2]
  BY Zenon
<1>2. About(call[c]) /\ call[c].op = "register" /\ call[c].op # "deregister" /\ stop[1] = "fast"
  BY <1>1 DEF RegisterFast, About
<1>3. s \in Subscribers /\ stop \in Stops /\ TopicsOf(s) \subseteq AllTopics
  BY <1>1, <1>2, AboutFacts, TopicFacts, Zenon DEF CentreInv
<1>4. ListenersSound' /\ UNCHANGED listeners
  BY ShareQuiet, Zenon DEF CentreInv, RegisterFast
<1>5. subscribers \in [FastTopics -> SUBSET Subscribers]
  BY Zenon DEF CentreInv, HistoryTyped
<1>6. CASE IsFast(u) /\ P!AddSubscriber(u, s) /\ Advance(c)
  <2>1. subscribers' = [subscribers EXCEPT ![u] = subscribers[u] \cup {s}] /\ u \in FastTopics
    BY <1>6, Zenon DEF P!AddSubscriber, IsFast
  <2>2. /\ subscribers' \in [FastTopics -> SUBSET Subscribers]
        /\ \A v \in FastTopics : subscribers'[v] = IF v = u THEN subscribers[v] \cup {s} ELSE subscribers[v]
    BY <1>3, <1>5, <2>1, Zenon
  <2>3. \A r \in Subscribers \ {s} : SameFor(r)
    BY <1>4, <2>2, Zenon DEF SameFor
  <2>4. \A v \in TopicsOf(s) : DeliversTo(v, s) => DeliversTo(v, s)'
    BY <1>4, <2>2, Zenon DEF DeliversTo, IsFast
  <2>5. ASSUME NEW v \in TopicsOf(s), stop = RightStop(v) PROVE DeliversTo(v, s)'
    <3>1. "fast" # "share"
      OBVIOUS
    <3>2. CASE IsFast(v)
      <4>1. stop = <<"fast", v>>
        BY <2>5, <3>2, Zenon DEF RightStop
      <4>2. v = u
        BY <1>1, <4>1
      <4> QED BY <2>1, <2>2, <3>2, <4>2, Zenon DEF DeliversTo
    <3>3. CASE ~IsFast(v)
      <4>1. stop = <<"share", v>>
        BY <2>5, <3>3, Zenon DEF RightStop
      <4>2. stop[1] = "share"
        BY <4>1
      <4> QED BY <1>2, <3>1, <4>2, Zenon
    <3> QED BY <3>2, <3>3, Zenon
  <2>6. Visited(c)
    BY <1>1, <1>2, <2>3, <2>4, <2>5, Zenon DEF Visited
  <2> QED BY <1>2, <1>4, <1>6, <2>2, <2>6, AdvanceKeeps, Zenon
<1>7. CASE UNCHANGED pubVars /\ OnMissing(c)
  <2>1. UNCHANGED subscribers
    BY <1>7, Zenon DEF pubVars
  <2>2. \A r \in Subscribers : SameFor(r)
    BY <1>4, <2>1, Zenon DEF SameFor
  <2>3. ReturnAbout(c, "error") /\ "error" # "ok"
    BY <1>7 DEF OnMissing
  <2> QED BY <1>2, <1>4, <1>5, <2>1, <2>2, <2>3, ReturnAboutKeeps, Zenon
<1>8. CASE ~IsFast(u) /\ UNCHANGED pubVars /\ Advance(c)
  <2>1. UNCHANGED subscribers
    BY <1>8, Zenon DEF pubVars
  <2>2. \A r \in Subscribers : SameFor(r)
    BY <1>4, <2>1, Zenon DEF SameFor
  <2>3. ASSUME NEW v \in TopicsOf(s), stop = RightStop(v) PROVE FALSE
    <3>1. "fast" # "share"
      OBVIOUS
    <3>2. CASE IsFast(v)
      <4>1. stop = <<"fast", v>>
        BY <2>3, <3>2, Zenon DEF RightStop
      <4>2. v = u
        BY <1>1, <4>1
      <4> QED BY <1>8, <3>2, <4>2, Zenon
    <3>3. CASE ~IsFast(v)
      <4>1. stop = <<"share", v>>
        BY <2>3, <3>3, Zenon DEF RightStop
      <4>2. stop[1] = "share"
        BY <4>1
      <4> QED BY <1>2, <3>1, <4>2, Zenon
    <3> QED BY <3>2, <3>3, Zenon
  <2>4. \A v \in TopicsOf(s) : DeliversTo(v, s) => DeliversTo(v, s)'
    BY <1>3, <2>2, SameDelivery, Zenon
  <2>5. Visited(c)
    BY <1>1, <1>2, <2>2, <2>3, <2>4, Zenon DEF Visited
  <2> QED BY <1>2, <1>4, <1>5, <1>8, <2>1, <2>5, AdvanceKeeps, Zenon
<1> QED
  BY <1>1, <1>6, <1>7, <1>8, Zenon DEF RegisterFast

(* Registering with the shared publisher.                                     *)
LEMMA RegisterShareKeeps ==
  ASSUME CentreInv, CallInv', NEW c \in Callers, RegisterShare(c)
  PROVE  CentreInv'
<1>1. PICK s, stop, u : s = call[c].sub /\ stop = Head(call[c].todo) /\ u = stop[2]
  BY Zenon
<1>2. About(call[c]) /\ call[c].op = "register" /\ call[c].op # "deregister" /\ stop[1] = "share"
  BY <1>1 DEF RegisterShare, About
<1>3. s \in Subscribers /\ stop \in Stops /\ TopicsOf(s) \subseteq AllTopics /\ u \in TopicsOf(s)
  BY <1>1, <1>2, AboutFacts, TopicFacts, Zenon DEF CentreInv
<1>4. UNCHANGED subscribers /\ subscribers \in [FastTopics -> SUBSET Subscribers]
  BY Zenon DEF RegisterShare, pubVars, CentreInv, HistoryTyped
<1>5. S!AddListener(u, s) /\ Advance(c)
  BY <1>1, Zenon DEF RegisterShare
<1>6. /\ ListenersSound' /\ s \in listeners'[u]
      /\ \A v \in AllTopics : listeners[v] \subseteq listeners'[v]
      /\ \A r \in Subscribers \ {s} : \A v \in AllTopics : r \in listeners'[v] <=> r \in listeners[v]
  BY <1>3, <1>5, AddSound, Zenon DEF CentreInv
<1>7. \A r \in Subscribers \ {s} : SameFor(r)
  BY <1>4, <1>6, Zenon DEF SameFor
<1>8. \A v \in TopicsOf(s) : DeliversTo(v, s) => DeliversTo(v, s)'
  BY <1>3, <1>4, <1>6, Zenon DEF DeliversTo
<1>9. ASSUME NEW v \in TopicsOf(s), stop = RightStop(v) PROVE DeliversTo(v, s)'
  <2>1. "fast" # "share"
    OBVIOUS
  <2>2. CASE IsFast(v)
    <3>1. stop = <<"fast", v>>
      BY <1>9, <2>2, Zenon DEF RightStop
    <3>2. stop[1] = "fast"
      BY <3>1
    <3> QED BY <1>2, <2>1, <3>2, Zenon
  <2>3. CASE ~IsFast(v)
    <3>1. stop = <<"share", v>>
      BY <1>9, <2>3, Zenon DEF RightStop
    <3>2. v = u
      BY <1>1, <3>1
    <3> QED BY <1>6, <2>3, <3>2, Zenon DEF DeliversTo, IsFast
  <2> QED BY <2>2, <2>3, Zenon
<1>10. Visited(c)
  BY <1>1, <1>2, <1>7, <1>8, <1>9, Zenon DEF Visited
<1> QED
  BY <1>2, <1>4, <1>5, <1>6, <1>10, AdvanceKeeps, Zenon

(* Deregistering, which only the shared publisher hears of.                   *)
LEMMA DeregisterShareKeeps ==
  ASSUME CentreInv, CallInv', NEW c \in Callers, DeregisterShare(c)
  PROVE  CentreInv'
<1>1. PICK s, stop, u : s = call[c].sub /\ stop = Head(call[c].todo) /\ u = stop[2]
  BY Zenon
<1>2. About(call[c]) /\ call[c].op = "deregister" /\ call[c].op # "register"
  BY <1>1 DEF DeregisterShare, About
<1>3. s \in Subscribers /\ stop \in Stops /\ u \in AllTopics
  BY <1>1, <1>2, AboutFacts, TopicFacts, Zenon DEF CentreInv
<1>4. UNCHANGED subscribers /\ subscribers \in [FastTopics -> SUBSET Subscribers]
  BY Zenon DEF DeregisterShare, pubVars, CentreInv, HistoryTyped
<1>5. \A v \in AllTopics : stop = <<"share", v>> => v = u
  BY <1>1
<1>6. CASE S!RemoveListener(u, s) /\ Advance(c)
  <2>1. /\ ListenersSound' /\ s \notin listeners'[u]
        /\ \A v \in AllTopics : listeners'[v] \subseteq listeners[v]
        /\ \A r \in Subscribers \ {s} : \A v \in AllTopics : r \in listeners'[v] <=> r \in listeners[v]
    BY <1>3, <1>6, RemoveSound, Zenon DEF CentreInv
  <2>2. \A r \in Subscribers \ {s} : SameFor(r)
    BY <1>4, <2>1, Zenon DEF SameFor
  <2>3. Visited(c)
    BY <1>1, <1>2, <1>5, <2>1, <2>2, Zenon DEF Visited
  <2> QED BY <1>2, <1>4, <1>6, <2>1, <2>3, AdvanceKeeps, Zenon
<1>7. CASE u \notin topics /\ UNCHANGED shareVars /\ (ReturnAbout(c, "panic") \/ Advance(c))
  <2>1. ListenersSound' /\ UNCHANGED listeners
    BY <1>7, ShareQuiet, Zenon DEF CentreInv
  <2>2. \A r \in Subscribers : SameFor(r)
    BY <1>4, <2>1, Zenon DEF SameFor
  <2>3. listeners[u] = {}
    BY <1>3, <1>7, Zenon DEF CentreInv, ListenersSound
  <2>4. Visited(c)
    BY <1>1, <1>2, <1>5, <2>1, <2>2, <2>3, Zenon DEF Visited
  <2>5. "panic" # "ok"
    OBVIOUS
  <2> QED BY <1>2, <1>4, <1>7, <2>1, <2>2, <2>4, <2>5, AdvanceKeeps, ReturnAboutKeeps, Zenon
<1> QED
  BY <1>1, <1>6, <1>7, Zenon DEF DeregisterShare

(* The first step of a call.                                                  *)
LEMMA BeginCallKeeps ==
  ASSUME CentreInv, CallInv', NEW c \in Callers, BeginCall(c)
  PROVE  CentreInv'
<1>1. ASSUME UNCHANGED <<subscribers, call, alone, settled>>, ListenersSound', UNCHANGED listeners
      PROVE  CentreInv'
  BY <1>1, QuietKeeps, Zenon
<1>2. ASSUME NEW outcome, BeginAndEnd(c, outcome), UNCHANGED subscribers,
             S!SlowShutdown \/ UNCHANGED shareVars
      PROVE  CentreInv'
  BY <1>1, <1>2, ShareQuiet, Zenon DEF BeginAndEnd, CentreInv
<1>3. ASSUME NEW u, NEW w, Begin(c, [op |-> "publish", topic |-> u, wait |-> w]),
             UNCHANGED <<alone, settled>>, UNCHANGED <<pubVars, shareVars>>
      PROVE  CentreInv'
  <2>1. ~About([op |-> "publish", topic |-> u, wait |-> w])
    BY DEF About
  <2>2. \A d \in Callers : call'[d] = call[d] \/ ~About(call'[d])
    BY <1>3, <2>1, Zenon DEF Begin, CentreInv, CallInv
  <2>3. ListenersSound' /\ UNCHANGED <<subscribers, listeners>>
    BY <1>3, ShareQuiet, Zenon DEF CentreInv, pubVars
  <2> QED BY <1>3, <2>2, <2>3, QuietKeeps, Zenon
<1>4. ASSUME NEW s \in Subscribers, RegisterSubscriber(c, s) PROVE CentreInv'
  <2>1. PICK op : op = [op |-> "register", sub |-> s, todo |-> RegisterSteps(s)]
    BY Zenon
  <2>2. op \in Visiting /\ op.op = "register" /\ op.op # "deregister" /\ op.sub = s /\ op.todo = RegisterSteps(s)
    BY <2>1, RegisterStepsProperties, ZenonT(30) DEF Visiting
  <2>3. RegisterSound(s, op.todo) /\ \A j \in 1 .. Len(op.todo) : op.todo[j][2] \in TopicsOf(s)
    BY <2>2, RegisterStops, Zenon DEF RegisterSound
  <2> QED BY <1>4, <2>1, <2>2, <2>3, BeginAboutKeeps, Zenon DEF RegisterSubscriber
<1>5. ASSUME NEW s \in Subscribers, DeregisterSubscriber(c, s) PROVE CentreInv'
  <2>1. PICK op : op = [op |-> "deregister", sub |-> s, todo |-> Visit("share", SubscribeTypes[s])]
    BY Zenon
  <2>2. /\ op \in Visiting /\ op.op = "deregister" /\ op.op # "register" /\ op.sub = s
        /\ op.todo = Visit("share", SubscribeTypes[s])
    BY <2>1, RegisterStepsProperties, ZenonT(30) DEF Visiting
  <2>3. /\ \A u \in TopicsOf(s) : Ahead(op.todo, <<"share", u>>)
        /\ \A j \in 1 .. Len(op.todo) : op.todo[j][2] \in TopicsOf(s)
    BY <2>2, VisitStops, Zenon
  <2>4. DeregisterSound(s, op.todo)
    BY <2>3, Zenon DEF DeregisterSound, CentreInv, ListenersSound
  <2> QED BY <1>5, <2>1, <2>2, <2>3, <2>4, BeginAboutKeeps, Zenon DEF DeregisterSubscriber
<1>6. ASSUME NEW u, NEW n, RegisterFastPublisher(c, u, n) PROVE CentreInv'
  BY <1>2, <1>6, Zenon DEF RegisterFastPublisher, P!RegisterPublisher
<1>7. ASSUME RegisterSharePublisher(c) PROVE CentreInv'
  BY <1>2, <1>7, Zenon DEF RegisterSharePublisher, pubVars
<1>8. ASSUME NEW u, NEW w, PublishFast(c, u, w) \/ PublishSlow(c, u, w) PROVE CentreInv'
  BY <1>2, <1>3, <1>8, Zenon DEF PublishFast, PublishSlow, pubVars
<1>9. ASSUME Shutdown(c) PROVE CentreInv'
  BY <1>2, <1>9, Zenon DEF Shutdown, pubVars
<1> QED
  BY <1>4, <1>5, <1>6, <1>7, <1>8, <1>9, Zenon DEF BeginCall

(* The end of a PublishEvent.                                                 *)
LEMMA SendKeeps ==
  ASSUME CentreInv, CallInv', NEW c \in Callers,
         SendFast(c) \/ SendSlow(c) \/ SendOnClosed(c) \/ CtxDone(c)
  PROVE  CentreInv'
<1>1. /\ call' = [call EXCEPT ![c] = Idle] /\ UNCHANGED <<alone, settled>>
  BY Zenon DEF SendFast, SendSlow, SendOnClosed, CtxDone, Return
<1>2. UNCHANGED subscribers
  BY Zenon DEF SendFast, SendSlow, SendOnClosed, CtxDone, P!Send, pubVars
<1>3. (\E u \in AllTopics : S!SendSlow(u)) \/ UNCHANGED shareVars
  BY Zenon DEF SendFast, SendSlow, SendOnClosed, CtxDone, AllTopics
<1>4. ListenersSound' /\ UNCHANGED listeners
  BY <1>3, ShareQuiet, Zenon DEF CentreInv
<1>5. ~About(Idle)
  BY DEF About, Idle
<1>6. \A d \in Callers : call'[d] = call[d] \/ ~About(call'[d])
  BY <1>1, <1>5, Zenon DEF CentreInv, CallInv
<1> QED
  BY <1>1, <1>2, <1>4, <1>6, QuietKeeps, Zenon

(* The handlers and the ticker.                                               *)
LEMMA HandlersKeep ==
  ASSUME CentreInv, CallInv',
         (\E u \in FastTopics : FastHandler(u)) \/ ShareHandler \/ Tick \/ UNCHANGED vars
  PROVE  CentreInv'
<1>1. UNCHANGED <<call, alone, settled>>
  BY Zenon DEF FastHandler, ShareHandler, Tick, vars, callVars
<1>2. UNCHANGED subscribers
  BY ZenonT(30) DEF FastHandler, ShareHandler, Tick, vars, pubVars, P!HandlerStep, P!Receive, P!ReceiveDies,
     P!Notify, P!EndNotify, P!Tick
<1>3. S!SlowHandlerStep \/ UNCHANGED shareVars
  BY Zenon DEF FastHandler, ShareHandler, Tick, vars
<1>4. ListenersSound' /\ UNCHANGED listeners
  BY <1>3, ShareQuiet, Zenon DEF CentreInv
<1> QED
  BY <1>1, <1>2, <1>4, QuietKeeps, Zenon

(* Every step of the centre keeps the invariant.                              *)
LEMMA CentreInductive == CentreInv /\ [Next]_vars => CentreInv'
<1> SUFFICES ASSUME CentreInv, [Next]_vars PROVE CentreInv'
  OBVIOUS
<1>1. CallInv'
  BY CallsKeep, Zenon DEF CentreInv
<1>2. ASSUME NEW c \in Callers, Continue(c) \/ CtxDone(c) PROVE CentreInv'
  BY <1>1, <1>2, SendKeeps, RegisterFastKeeps, RegisterShareKeeps, DeregisterShareKeeps, Zenon
     DEF Continue
<1> QED
  BY <1>1, <1>2, BeginCallKeeps, HandlersKeep, Zenon DEF Next

(* msg_notify_center.go, RegisterSubscriber and DeregisterSubscriber, for any *)
(* topics, subscribers and callers: when a registration that no other call    *)
(* about its subscriber overlapped has returned without an error, every one   *)
(* of its topics delivers to it until the next such call, whatever other      *)
(* callers, the handlers and Shutdown do; after such a deregistration no slow *)
(* event reaches the subscriber, nor is one being passed to it.               *)
THEOREM RegistrationsHold == Spec => []RegistrationHolds
<1>1. CentreInv => RegistrationHolds
  <2> SUFFICES ASSUME CentreInv, NEW s \in Subscribers
               PROVE  /\ settled[s] = "register" =>
                           \A i \in DOMAIN SubscribeTypes[s] : DeliversTo(SubscribeTypes[s][i], s)
                      /\ settled[s] = "deregister" =>
                           s \notin callee /\ \A u \in AllTopics : s \notin listeners[u]
    BY Zenon DEF RegistrationHolds
  <2>1. SettledSound(s)
    BY Zenon DEF CentreInv
  <2>2. settled[s] = "register" => \A i \in DOMAIN SubscribeTypes[s] : DeliversTo(SubscribeTypes[s][i], s)
    BY <2>1, Zenon DEF SettledSound, TopicsOf
  <2>3. s \in callee => \E u \in AllTopics : s \in listeners[u]
    BY Zenon DEF CentreInv, ListenersSound
  <2> QED BY <2>1, <2>2, <2>3, Zenon DEF SettledSound
<1> QED
  BY <1>1, CentreInitially, CentreInductive, PTL DEF Spec
=============================================================================
