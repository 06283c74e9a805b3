-------------------------- MODULE DiscoveryProofs ---------------------------
(***************************************************************************)
(* Discovery, in three independent parts: the registration of services and *)
(* instances, for any number of requests; the leases, for any number of    *)
(* keys; and the life of the modules of a server, for any number of        *)
(* contexts.                                                               *)
(***************************************************************************)
EXTENDS Discovery, Lessor, Lifecycle, FiniteSetTheorems, TLAPS

(* Sequences. *)

(* A sequence is a function on the numbers up to its length.                  *)
LEMMA LenProperties ==
  ASSUME NEW Elt, NEW seq \in Seq(Elt)
  PROVE  Len(seq) \in Nat /\ DOMAIN seq = 1 .. Len(seq) /\ seq \in [1 .. Len(seq) -> Elt]
OBVIOUS

(* The elements of a sequence over a set are in the set.                      *)
LEMMA ElementOfSeq ==
  ASSUME NEW Elt, NEW seq \in Seq(Elt), NEW i \in 1 .. Len(seq)
  PROVE  seq[i] \in Elt
OBVIOUS

(* The empty sequence, and the length of any other.                           *)
LEMMA EmptySeq ==
  ASSUME NEW Elt
  PROVE  /\ <<>> \in Seq(Elt) /\ Len(<<>>) = 0
         /\ \A seq \in Seq(Elt) : seq # <<>> => Len(seq) \in Nat \ {0}
OBVIOUS

(* A function on the first n numbers is a sequence.                           *)
LEMMA IsASeq ==
  ASSUME NEW Elt, NEW n \in Nat, NEW e(_), \A i \in 1 .. n : e(i) \in Elt
  PROVE  [i \in 1 .. n |-> e(i)] \in Seq(Elt)
OBVIOUS

(* Replacing an element leaves the length and the other elements.             *)
LEMMA ExceptSeq ==
  ASSUME NEW Elt, NEW seq \in Seq(Elt), NEW i \in 1 .. Len(seq), NEW e \in Elt
  PROVE  /\ [seq EXCEPT ![i] = e] \in Seq(Elt) /\ Len([seq EXCEPT ![i] = e]) = Len(seq)
         /\ \A j \in 1 .. Len(seq) : [seq EXCEPT ![i] = e][j] = IF j = i THEN e ELSE seq[j]
OBVIOUS

(* Append makes the sequence longer by its last element.                      *)
LEMMA AppendProperties ==
  ASSUME NEW Elt, NEW seq \in Seq(Elt), NEW e \in Elt
  PROVE  /\ Append(seq, e) \in Seq(Elt) /\ Append(seq, e) # <<>>
         /\ Len(Append(seq, e)) = Len(seq) + 1
         /\ \A i \in 1 .. Len(seq) : Append(seq, e)[i] = seq[i]
         /\ Append(seq, e)[Len(seq) + 1] = e
OBVIOUS

(* Tail drops the first element.                                              *)
LEMMA HeadTailProperties ==
  ASSUME NEW Elt, NEW seq \in Seq(Elt), seq # <<>>
  PROVE  /\ Head(seq) \in Elt /\ Tail(seq) \in Seq(Elt) /\ Len(Tail(seq)) = Len(seq) - 1
         /\ \A i \in 1 .. Len(Tail(seq)) : Tail(seq)[i] = seq[i + 1]
OBVIOUS

(* The elements of a concatenation.                                           *)
LEMMA ConcatProperties ==
  ASSUME NEW Elt, NEW s \in Seq(Elt), NEW t \in Seq(Elt)
  PROVE  /\ s \o t \in Seq(Elt) /\ Len(s \o t) = Len(s) + Len(t)
         /\ \A i \in 1 .. Len(s) + Len(t) :
              (s \o t)[i] = IF i <= Len(s) THEN s[i] ELSE t[i - Len(s)]
OBVIOUS

-----------------------------------------------------------------------------
(* An instance is on the disk only with its service, and a service is made once. *)

StoreKeys ==
  {ServiceKey(n) : n \in ServiceNames} \cup {ClusterListKey(n) : n \in ServiceNames}
    \cup {InstanceKey(q) : q \in Register}

(* The keys d have the service of each of their instances.                    *)
Complete(d) == \A q \in Register : InstanceKey(q) \in d => ServiceKey(q.name) \in d

(* A request past createServiceIfAbsent works on the service of its name, and *)
(* a service in the map is on the disk, though perhaps not past a crash.      *)
DiscoveryInv ==
  /\ recent \in Seq(SUBSET StoreKeys) /\ Len(recent) > 0
  /\ \A i \in 1 .. Len(recent) : Complete(recent[i])
  /\ services \in [Namespaces \X ServiceNames -> Nat]
  /\ \A n \in Namespaces, s \in ServiceNames : services[<<n, s>>] # 0 => ServiceKey(s) \in disk
  /\ \E S : clusters \in Seq(S)
  /\ DOMAIN pc = Requests /\ DOMAIN req = Requests
  /\ service \in [Requests -> Nat]
  /\ \A r \in Requests : pc[r] \in {"create", "remove"} \cup Registering => req[r] \in Register
  /\ \A r \in Requests : pc[r] \in Registering =>
       service[r] # 0 /\ service[r] = services[<<req[r].ns, req[r].name>>]

(* The three kinds of key are different.                                      *)
LEMMA StoreKeysDiffer ==
  /\ \A n \in ServiceNames : ServiceKey(n) \in StoreKeys /\ ClusterListKey(n) \in StoreKeys
  /\ \A q \in Register : InstanceKey(q) \in StoreKeys
  /\ \A q \in Register, n \in ServiceNames :
       InstanceKey(q) # ServiceKey(n) /\ InstanceKey(q) # ClusterListKey(n)
  /\ \A q, p \in Register : InstanceKey(q) = InstanceKey(p) => q.name = p.name
  /\ \A q \in Register : q.ns \in Namespaces /\ q.name \in ServiceNames
<1>1. \A q \in Register, n \in ServiceNames :
        InstanceKey(q) # ServiceKey(n) /\ InstanceKey(q) # ClusterListKey(n)
  BY Zenon DEF InstanceKey, ServiceKey, ClusterListKey
<1>2. \A q, p \in Register : InstanceKey(q) = InstanceKey(p) => q.name = p.name
  BY Zenon DEF InstanceKey
<1> QED
  BY <1>1, <1>2, Zenon DEF StoreKeys, Register

(* The last of the recent states, which is the disk, is one of them.          *)
LEMMA DiskIn ==
  ASSUME DiscoveryInv
  PROVE  /\ Len(recent) \in Nat /\ Len(recent) \in 1 .. Len(recent)
         /\ DOMAIN recent = 1 .. Len(recent)
         /\ disk \in SUBSET StoreKeys /\ Complete(disk)
         /\ \A i \in 1 .. Len(recent) : recent[i] \in SUBSET StoreKeys
<1>1. recent \in Seq(SUBSET StoreKeys) /\ Len(recent) > 0
  BY Zenon DEF DiscoveryInv
<1>2. Len(recent) \in Nat /\ DOMAIN recent = 1 .. Len(recent)
      /\ \A i \in 1 .. Len(recent) : recent[i] \in SUBSET StoreKeys
  BY <1>1, LenProperties, ElementOfSeq, Zenon
<1>3. Len(recent) \in 1 .. Len(recent)
  BY <1>1, <1>2
<1> QED
  BY <1>2, <1>3, Zenon DEF DiscoveryInv, disk

(* A write adds a state to the disk's recent ones.                            *)
LEMMA WriteAdds ==
  ASSUME DiscoveryInv, NEW keys \in SUBSET StoreKeys, WriteDisk(keys), Complete(disk \cup keys)
  PROVE  /\ recent' \in Seq(SUBSET StoreKeys) /\ Len(recent') > 0
         /\ \A i \in 1 .. Len(recent') : Complete(recent'[i])
         /\ disk' = disk \cup keys
<1> DEFINE n == Len(recent)
           d == disk \cup keys
<1>1. recent \in Seq(SUBSET StoreKeys) /\ n \in Nat /\ d \in SUBSET StoreKeys
  BY DiskIn, Zenon DEF DiscoveryInv
<1>2. recent' = Append(recent, d)
  BY Zenon DEF WriteDisk
<1> HIDE DEF d
<1>3. /\ recent' \in Seq(SUBSET StoreKeys) /\ Len(recent') = n + 1
      /\ \A i \in 1 .. n : recent'[i] = recent[i]
      /\ recent'[n + 1] = d
  BY <1>1, <1>2, AppendProperties
<1>4. \A i \in 1 .. n : Complete(recent[i])
  BY Zenon DEF DiscoveryInv
<1> HIDE DEF n
<1>5. ASSUME NEW i \in 1 .. n + 1 PROVE Complete(recent'[i])
  <2>1. CASE i \in 1 .. n
    BY <1>3, <1>4, <2>1, Zenon
  <2>2. CASE i = n + 1
    BY <1>3, <2>2, Zenon DEF d
  <2> QED BY <1>1, <2>1, <2>2
<1>6. disk' = d
  BY <1>3, Zenon DEF disk
<1> QED
  BY <1>1, <1>3, <1>5, <1>6 DEF d

(* The invariant holds when nothing has been registered.                      *)
LEMMA DiscoveryInitially == Init => DiscoveryInv
<1> SUFFICES ASSUME Init PROVE DiscoveryInv
  OBVIOUS
<1>1. recent \in Seq(SUBSET StoreKeys) /\ Len(recent) = 1 /\ recent[1] = {}
  BY DEF Init
<1>2. \A i \in 1 .. Len(recent) : Complete(recent[i])
  BY <1>1 DEF Complete
<1>3. clusters \in Seq({})
  BY DEF Init
<1>4. \A n \in Namespaces, s \in ServiceNames : services[<<n, s>>] = 0
  BY Zenon DEF Init
<1> QED
  BY <1>1, <1>2, <1>3, <1>4 DEF Init, DiscoveryInv, Registering

(* A step of a request that leaves the map and the disk alone.                *)
LEMMA Elsewhere ==
  ASSUME DiscoveryInv, NEW r \in Requests, NEW label, Goto(r, label),
         UNCHANGED <<services, recent, req, service>>,
         \E S : clusters' \in Seq(S),
         label \in Registering => pc[r] \in Registering,
         label \in {"create", "remove"} => FALSE
  PROVE  DiscoveryInv'
<1>1. DOMAIN pc' = Requests /\ \A o \in Requests : pc'[o] = IF o = r THEN label ELSE pc[o]
  BY Zenon DEF Goto, DiscoveryInv
<1>2. \A o \in Requests : pc'[o] \in Registering => pc[o] \in Registering
  BY <1>1, Zenon
<1>3. \A o \in Requests : pc'[o] \in {"create", "remove"} => pc[o] \in {"create", "remove"}
  BY <1>1, Zenon
<1> QED
  BY <1>1, <1>2, <1>3, Zenon DEF DiscoveryInv, disk

(* A request that begins is not past createServiceIfAbsent.                   *)
LEMMA BeginKeeps ==
  ASSUME DiscoveryInv, NEW r \in Requests, Begin(r)
  PROVE  DiscoveryInv'
<1>1. PICK q \in Register, first \in {"create", "remove"} :
        req' = [req EXCEPT ![r] = q] /\ Goto(r, first)
  BY Zenon DEF Begin
<1>2. UNCHANGED <<services, clusters, recent, service>>
  BY Zenon DEF Begin, tables, stores, locals
<1>3. /\ DOMAIN pc' = Requests /\ \A o \in Requests : pc'[o] = IF o = r THEN first ELSE pc[o]
      /\ DOMAIN req' = Requests /\ \A o \in Requests : req'[o] = IF o = r THEN q ELSE req[o]
  BY <1>1, Zenon DEF Goto, DiscoveryInv
<1>4. first \notin Registering
  BY Zenon DEF Registering
<1> QED
  BY <1>2, <1>3, <1>4, Zenon DEF DiscoveryInv, disk

(* A request that finds its service works on the one of its name.             *)
LEMMA FindServiceKeeps ==
  ASSUME DiscoveryInv, NEW r \in Requests, FindService(r)
  PROVE  DiscoveryInv'
<1> DEFINE s == services[<<req[r].ns, req[r].name>>]
<1>1. req[r] \in Register /\ s \in Nat /\ s # 0
  BY StoreKeysDiffer, Zenon DEF FindService, DiscoveryInv, Exists
<1>2. /\ UNCHANGED <<services, clusters, recent, req>> /\ Goto(r, "get")
      /\ service' = [service EXCEPT ![r] = s]
  BY Zenon DEF FindService, tables, stores
<1> HIDE DEF s
<1>3. /\ DOMAIN pc' = Requests /\ \A o \in Requests : pc'[o] = IF o = r THEN "get" ELSE pc[o]
      /\ service' \in [Requests -> Nat]
      /\ \A o \in Requests : service'[o] = IF o = r THEN s ELSE service[o]
  BY <1>1, <1>2, Zenon DEF Goto, DiscoveryInv
<1>4. ASSUME NEW o \in Requests, pc'[o] \in Registering
      PROVE  /\ req'[o] \in Register /\ service'[o] # 0
             /\ service'[o] = services'[<<req'[o].ns, req'[o].name>>]
  <2>1. CASE o = r
    BY <1>1, <1>2, <1>3, <2>1, Zenon DEF s
  <2>2. CASE o # r
    BY <1>2, <1>3, <1>4, <2>2, Zenon DEF DiscoveryInv
  <2> QED BY <2>1, <2>2, Zenon
<1>5. \A o \in Requests : pc'[o] \in {"create", "remove"} => req'[o] \in Register
  BY <1>2, <1>3, Zenon DEF DiscoveryInv
<1> QED
  BY <1>2, <1>3, <1>4, <1>5, Zenon DEF DiscoveryInv, disk

(* The new service is on the disk before it is in the map, and no request was *)
(* working on a service of that name.                                         *)
LEMMA CreateServiceKeeps ==
  ASSUME DiscoveryInv, NEW r \in Requests, CreateService(r)
  PROVE  DiscoveryInv'
<1> DEFINE q == req[r]
           keys == {ServiceKey(q.name), ClusterListKey(q.name)}
           n == Len(clusters')
<1>1. q \in Register /\ q.ns \in Namespaces /\ q.name \in ServiceNames
      /\ services[<<q.ns, q.name>>] = 0
  BY StoreKeysDiffer, Zenon DEF CreateService, DiscoveryInv, Exists
<1>2. keys \in SUBSET StoreKeys /\ Complete(disk \cup keys)
  <2>1. Complete(disk)
    BY DiskIn, Zenon
  <2> QED BY <1>1, <2>1, StoreKeysDiffer DEF Complete
<1>3. /\ recent' \in Seq(SUBSET StoreKeys) /\ Len(recent') > 0
      /\ \A i \in 1 .. Len(recent') : Complete(recent'[i])
      /\ disk' = disk \cup keys
  BY <1>2, WriteAdds, Zenon DEF CreateService
<1>4. PICK S : clusters \in Seq(S)
  BY Zenon DEF DiscoveryInv
<1>5. (\E T : clusters' \in Seq(T)) /\ n \in Nat /\ n # 0
  <2> DEFINE new == [c \in ClusterNames |-> 0]
             T == S \cup {new}
  <2>1. clusters \in Seq(T) /\ new \in T /\ clusters' = Append(clusters, new)
    BY <1>4 DEF CreateService, NewService
  <2> HIDE DEF new, T
  <2>2. clusters' \in Seq(T) /\ Len(clusters') = Len(clusters) + 1 /\ Len(clusters) \in Nat
    BY <2>1, AppendProperties, LenProperties, Zenon
  <2> QED BY <2>2
<1>6. /\ services' = [services EXCEPT ![<<q.ns, q.name>>] = n]
      /\ service' = [service EXCEPT ![r] = n] /\ Goto(r, "get") /\ UNCHANGED req
  BY Zenon DEF CreateService, NewService
<1> HIDE DEF n
<1>7. <<q.ns, q.name>> \in Namespaces \X ServiceNames
  BY <1>1, Zenon
<1>8. /\ services' \in [Namespaces \X ServiceNames -> Nat]
      /\ services'[<<q.ns, q.name>>] = n
      /\ \A m \in Namespaces, s \in ServiceNames :
           ~(m = q.ns /\ s = q.name) => services'[<<m, s>>] = services[<<m, s>>]
  BY <1>1, <1>5, <1>6, <1>7, ZenonT(30) DEF DiscoveryInv
<1>9. /\ DOMAIN pc' = Requests /\ \A o \in Requests : pc'[o] = IF o = r THEN "get" ELSE pc[o]
      /\ service' \in [Requests -> Nat]
      /\ \A o \in Requests : service'[o] = IF o = r THEN n ELSE service[o]
  BY <1>5, <1>6, Zenon DEF Goto, DiscoveryInv
<1>10. ASSUME NEW m \in Namespaces, NEW s \in ServiceNames, services'[<<m, s>>] # 0
       PROVE  ServiceKey(s) \in disk'
  BY <1>3, <1>8, <1>10, Zenon DEF DiscoveryInv
<1>11. ASSUME NEW o \in Requests, pc'[o] \in Registering
       PROVE  /\ req'[o] \in Register /\ service'[o] # 0
              /\ service'[o] = services'[<<req'[o].ns, req'[o].name>>]
  <2>1. CASE o = r
    BY <1>1, <1>5, <1>6, <1>8, <1>9, <2>1, Zenon
  <2>2. CASE o # r
    <3>1. req[o] \in Register /\ service[o] # 0 /\ service[o] = services[<<req[o].ns, req[o].name>>]
      BY <1>9, <1>11, <2>2, Zenon DEF DiscoveryInv
    <3>2. req[o].ns \in Namespaces /\ req[o].name \in ServiceNames
          /\ ~(req[o].ns = q.ns /\ req[o].name = q.name)
      BY <1>1, <3>1, StoreKeysDiffer, Zenon
    <3> QED BY <1>6, <1>8, <1>9, <2>2, <3>1, <3>2, Zenon
  <2> QED BY <2>1, <2>2, Zenon
<1>12. \A o \in Requests : pc'[o] \in {"create", "remove"} => req'[o] \in Register
  BY <1>6, <1>9, Zenon DEF DiscoveryInv
<1>13. DOMAIN req' = Requests
  BY <1>6, Zenon DEF DiscoveryInv
<1> QED
  BY <1>3, <1>5, <1>8, <1>9, <1>10, <1>11, <1>12, <1>13, Zenon DEF DiscoveryInv

(* An instance is saved behind its service.                                   *)
LEMMA SaveInstanceKeeps ==
  ASSUME DiscoveryInv, NEW r \in Requests, SaveInstance(r)
  PROVE  DiscoveryInv'
<1> DEFINE q == req[r]
<1>1. pc[r] \in Registering /\ Goto(r, "add") /\ "add" \in Registering
      /\ UNCHANGED <<services, clusters, req, service>>
  BY Zenon DEF SaveInstance, Registering, tables, locals
<1>2. q \in Register /\ services[<<q.ns, q.name>>] # 0 /\ q.ns \in Namespaces
      /\ q.name \in ServiceNames
  BY <1>1, StoreKeysDiffer, Zenon DEF DiscoveryInv
<1>3. ServiceKey(q.name) \in disk
  BY <1>2, Zenon DEF DiscoveryInv
<1>4. CASE InMemory(q)
  <2>1. UNCHANGED recent
    BY <1>4, Zenon DEF SaveInstance, Save
  <2> QED BY <1>1, <2>1, Elsewhere, Zenon DEF DiscoveryInv
<1>5. CASE ~InMemory(q)
  <2>1. WriteDisk({InstanceKey(q)})
    BY <1>5, Zenon DEF SaveInstance, Save
  <2>2. {InstanceKey(q)} \in SUBSET StoreKeys /\ Complete(disk \cup {InstanceKey(q)})
    <3>1. Complete(disk)
      BY DiskIn, Zenon
    <3> QED BY <1>2, <1>3, <3>1, StoreKeysDiffer, Zenon DEF Complete
  <2>3. /\ recent' \in Seq(SUBSET StoreKeys) /\ Len(recent') > 0
        /\ \A i \in 1 .. Len(recent') : Complete(recent'[i])
        /\ disk' = disk \cup {InstanceKey(q)}
    BY <2>1, <2>2, WriteAdds, Zenon
  <2>4. DOMAIN pc' = Requests /\ \A o \in Requests : pc'[o] = IF o = r THEN "add" ELSE pc[o]
    BY <1>1, Zenon DEF Goto, DiscoveryInv
  <2>5. \A o \in Requests : pc'[o] \in Registering => pc[o] \in Registering
    BY <1>1, <2>4, Zenon
  <2>6. \A o \in Requests : pc'[o] \in {"create", "remove"} => pc[o] \in {"create", "remove"}
    BY <2>4, Zenon
  <2> QED
    BY <1>1, <2>3, <2>4, <2>5, <2>6, Zenon DEF DiscoveryInv
<1> QED
  BY <1>4, <1>5, Zenon

(* The other steps of a request.                                              *)
LEMMA RequestKeeps ==
  ASSUME DiscoveryInv, NEW r \in Requests,
         \/ Malformed(r) \/ CreateServiceFails(r) \/ storeInstanceInfo(r)
         \/ SaveInstanceFails(r) \/ addInstance(r) \/ PutInstance(r)
         \/ removeInstance(r) \/ RemoveFromCluster(r)
  PROVE  DiscoveryInv'
<1>1. UNCHANGED <<services, recent, req, service>>
  BY ZenonT(30) DEF Malformed, CreateServiceFails, OnUnsavedService, storeInstanceInfo, SaveInstanceFails,
         addInstance, PutInstance, removeInstance, RemoveFromCluster, tables, stores, locals
<1>2. \E label : /\ Goto(r, label) /\ label \notin {"create", "remove"}
                 /\ label \in Registering => pc[r] \in Registering
  BY SMTT(30) DEF Malformed, CreateServiceFails, OnUnsavedService, storeInstanceInfo, SaveInstanceFails,
         OnUnsavedInstance, addInstance, PutInstance, removeInstance, RemoveFromCluster, Answer,
         Registering
<1>3. \E S : clusters' \in Seq(S)
  <2>1. PICK S : clusters \in Seq(S)
    BY Zenon DEF DiscoveryInv
  <2>2. CASE UNCHANGED clusters
    BY <2>1, <2>2, Zenon
  <2>3. CASE clusters' = PutCluster(r)
    <3> DEFINE i == service[r]
               new == [clusters[i] EXCEPT ![req[r].clu] = Len(objects) + 1]
               T == S \cup {new}
    <3>1. clusters \in Seq(T) /\ new \in T /\ clusters' = [clusters EXCEPT ![i] = new]
      BY <2>1, <2>3 DEF PutCluster
    <3> HIDE DEF new, T, i
    <3>2. CASE i \in 1 .. Len(clusters)
      BY <3>1, <3>2, ExceptSeq, Zenon
    <3>3. CASE i \notin 1 .. Len(clusters)
      <4>1. DOMAIN clusters = 1 .. Len(clusters)
        BY <3>1, LenProperties, Zenon
      <4>2. clusters' = clusters
        BY <3>1, <3>3, <4>1
      <4> QED BY <3>1, <4>2, Zenon
    <3> QED BY <3>2, <3>3, Zenon
  <2> QED
    BY <2>2, <2>3, Zenon DEF Malformed, CreateServiceFails, OnUnsavedService, storeInstanceInfo,
         SaveInstanceFails, addInstance, PutInstance, removeInstance, RemoveFromCluster, tables
<1> QED
  BY <1>1, <1>2, <1>3, Elsewhere, Zenon

(* A sync leaves fewer states that the disk may fall back to.                 *)
LEMMA SyncKeeps ==
  ASSUME DiscoveryInv, Sync
  PROVE  DiscoveryInv'
<1> DEFINE n == Len(recent)
<1>1. recent \in Seq(SUBSET StoreKeys) /\ n \in Nat /\ n > 1 /\ recent' = Tail(recent)
  BY DiskIn, Zenon DEF DiscoveryInv, Sync
<1>2. recent # <<>>
  <2>1. Len(<<>>) = 0
    BY EmptySeq, Zenon
  <2> QED BY <1>1, <2>1
<1>3. /\ recent' \in Seq(SUBSET StoreKeys) /\ Len(recent') = n - 1
      /\ \A i \in 1 .. Len(recent') : recent'[i] = recent[i + 1]
  BY <1>1, <1>2, HeadTailProperties, Zenon
<1>4. \A i \in 1 .. n : Complete(recent[i])
  BY Zenon DEF DiscoveryInv
<1> HIDE DEF n
<1>5. ASSUME NEW i \in 1 .. Len(recent') PROVE Complete(recent'[i])
  <2>1. i + 1 \in 1 .. n
    BY <1>1, <1>3
  <2> QED BY <1>3, <1>4, <2>1, Zenon
<1>6. disk' = disk
  <2>1. n - 1 \in 1 .. Len(recent') /\ (n - 1) + 1 = n
    BY <1>1, <1>3
  <2>2. recent'[n - 1] = recent[n]
    BY <1>3, <2>1, Zenon
  <2> QED BY <1>3, <2>2, Zenon DEF disk, n
<1>7. UNCHANGED <<services, clusters, pc, req, service>>
  BY Zenon DEF Sync, tables, locals
<1>8. Len(recent') > 0
  BY <1>1, <1>3
<1> QED
  BY <1>3, <1>5, <1>6, <1>7, <1>8, Zenon DEF DiscoveryInv

(* A crash leaves a state that was on the disk, an empty map and no request.  *)
LEMMA CrashKeeps ==
  ASSUME DiscoveryInv, Crash
  PROVE  DiscoveryInv'
<1>1. PICK i \in DOMAIN recent : recent' = <<recent[i]>>
  BY Zenon DEF Crash
<1>2. recent[i] \in SUBSET StoreKeys /\ Complete(recent[i])
  BY DiskIn, Zenon DEF DiscoveryInv
<1>3. /\ recent' \in Seq(SUBSET StoreKeys) /\ Len(recent') = 1 /\ recent'[1] = recent[i]
  BY <1>1, <1>2
<1>4. \A j \in 1 .. Len(recent') : Complete(recent'[j])
  BY <1>2, <1>3
<1>5. /\ services' \in [Namespaces \X ServiceNames -> Nat]
      /\ \A n \in Namespaces, s \in ServiceNames : services'[<<n, s>>] = 0
  BY Zenon DEF Crash
<1>6. clusters' \in Seq({})
  BY DEF Crash
<1>7. /\ DOMAIN pc' = Requests /\ \A r \in Requests : pc'[r] \in {"idle", "gone"}
      /\ service' \in [Requests -> Nat] /\ UNCHANGED req
  BY Zenon DEF Crash
<1>8. \A r \in Requests : pc'[r] \notin {"create", "remove"} \cup Registering
  BY <1>7, Zenon DEF Registering
<1>9. DOMAIN req' = Requests /\ Len(recent') > 0
  BY <1>3, <1>7 DEF DiscoveryInv
<1> QED
  BY <1>3, <1>4, <1>5, <1>6, <1>7, <1>8, <1>9, Zenon DEF DiscoveryInv

(* Every step preserves the invariant.                                        *)
LEMMA DiscoveryInductive == DiscoveryInv /\ [Next]_vars => DiscoveryInv'
<1> SUFFICES ASSUME DiscoveryInv, [Next]_vars PROVE DiscoveryInv'
  OBVIOUS
<1>1. ASSUME NEW r \in Requests, Begin(r) PROVE DiscoveryInv'
  BY <1>1, BeginKeeps, Zenon
<1>2. ASSUME NEW r \in Requests, FindService(r) PROVE DiscoveryInv'
  BY <1>2, FindServiceKeeps, ZenonT(30)
<1>3. ASSUME NEW r \in Requests, CreateService(r) PROVE DiscoveryInv'
  BY <1>3, CreateServiceKeeps, Zenon
<1>4. ASSUME NEW r \in Requests, SaveInstance(r) PROVE DiscoveryInv'
  BY <1>4, SaveInstanceKeeps, Zenon
<1>5. ASSUME NEW r \in Requests,
             \/ Malformed(r) \/ CreateServiceFails(r) \/ storeInstanceInfo(r)
             \/ SaveInstanceFails(r) \/ addInstance(r) \/ PutInstance(r)
             \/ removeInstance(r) \/ RemoveFromCluster(r)
      PROVE DiscoveryInv'
  BY <1>5, RequestKeeps, Zenon
<1>6. CASE Sync
  BY <1>6, SyncKeeps, Zenon
<1>7. CASE Crash
  BY <1>7, CrashKeeps, Zenon
<1>8. CASE UNCHANGED vars
  BY <1>8, Zenon DEF vars, tables, stores, locals, DiscoveryInv, disk
<1> QED
  BY <1>1, <1>2, <1>3, <1>4, <1>5, <1>6, <1>7, <1>8, Zenon DEF Next, RequestStep

(* discovery_core.go: for any requests, interleaving and number of crashes,   *)
(* what a crash leaves on the disk has the service of each of its instances.  *)
THEOREM InstancesHaveServices == Spec => []InstanceHasService
<1>1. DiscoveryInv => InstanceHasService
  BY DiskIn, Zenon DEF DiscoveryInv, InstanceHasService, Complete
<1> QED
  BY <1>1, DiscoveryInitially, DiscoveryInductive, PTL DEF Spec

(* discovery_core.go: and registrations of one service work on one Service.   *)
THEOREM ServicesAreUnique == Spec => []OneService
<1>1. DiscoveryInv => OneService
  BY Zenon DEF DiscoveryInv, OneService
<1> QED
  BY <1>1, DiscoveryInitially, DiscoveryInductive, PTL DEF Spec

-----------------------------------------------------------------------------
(* Shutting down one module. *)

CtxType == [parent : Nat, done : BOOLEAN]

(* Which contexts have been cancelled.                                        *)
Cancelled(c) ==
  \E m \in Modules : \/ c = console[m] /\ shut[m] # "no"
                     \/ c = api[m] /\ shut[m] = "done"

(* The contexts of the two modules, in the order Start makes them.            *)
Numbered ==
  \/ /\ phase = "config" /\ Len(poleCtxs) = 1
     /\ ctxOf["config"] = 0 /\ console["config"] = 0 /\ api["config"] = 0
     /\ ctxOf["discovery"] = 0 /\ console["discovery"] = 0 /\ api["discovery"] = 0
  \/ /\ phase \in {"discovery", "ended"} /\ Len(poleCtxs) = 4
     /\ ctxOf["config"] = 2 /\ console["config"] = 3 /\ api["config"] = 4
     /\ ctxOf["discovery"] = 0 /\ console["discovery"] = 0 /\ api["discovery"] = 0
  \/ /\ phase \in {"storage", "run", "ended"} /\ Len(poleCtxs) = 7
     /\ ctxOf["config"] = 2 /\ console["config"] = 3 /\ api["config"] = 4
     /\ ctxOf["discovery"] = 5 /\ console["discovery"] = 6 /\ api["discovery"] = 7

(* No context is made from that of a console or an API.                       *)
LifeInv ==
  /\ phase \in {"config", "discovery", "storage", "run", "ended"}
  /\ poleCtxs \in Seq(CtxType)
  /\ ctxOf \in [Modules -> Nat] /\ console \in [Modules -> Nat] /\ api \in [Modules -> Nat]
  /\ server \in [Modules -> Nat]
  /\ shut \in [Modules -> {"no", "console", "done"}]
  /\ Numbered
  /\ \A m \in Modules : shut[m] # "no" => ctxOf[m] # 0
  /\ \A c \in 1 .. Len(poleCtxs) : poleCtxs[c].parent \in {0, 1, 2, 5}
  /\ \A c \in 1 .. Len(poleCtxs) : poleCtxs[c].done <=> Cancelled(c)
  /\ server["discovery"] \in {0, Background}

(* The invariant holds before Start has made a module.                        *)
LEMMA LifeInitially == LifeInit => LifeInv
<1> SUFFICES ASSUME LifeInit PROVE LifeInv
  OBVIOUS
<1> DEFINE new == [parent |-> 0, done |-> FALSE]
<1>1. poleCtxs = <<new>> /\ new \in CtxType
  BY Zenon DEF LifeInit, X!NewCtxPole, X!Context, CtxType
<1>2. poleCtxs \in Seq(CtxType) /\ Len(poleCtxs) = 1 /\ poleCtxs[1] = new
  BY <1>1
<1> QED
  BY <1>2 DEF LifeInit, LifeInv, Numbered, NoCtx, Modules, Cancelled

(* What the numbering says of the contexts of consoles and APIs.              *)
LEMMA Numbers ==
  ASSUME Numbered
  PROVE  /\ Len(poleCtxs) \in 1 .. 7 /\ 1 \in 1 .. Len(poleCtxs)
         /\ \A m \in Modules :
              /\ console[m] \in {0, 3, 6} /\ api[m] \in {0, 4, 7}
              /\ console[m] \in 0 .. Len(poleCtxs) /\ api[m] \in 0 .. Len(poleCtxs)
              /\ ctxOf[m] # 0 => /\ console[m] # 0 /\ api[m] # 0
                                 /\ console[m] \in 1 .. Len(poleCtxs)
                                 /\ api[m] \in 1 .. Len(poleCtxs)
         /\ \A m, o \in Modules :
              ctxOf[m] # 0 /\ m # o => console[m] # console[o] /\ api[m] # api[o]
<1>1. CASE Len(poleCtxs) = 1
  BY <1>1 DEF Numbered, Modules
<1>2. CASE Len(poleCtxs) = 4
  BY <1>2 DEF Numbered, Modules
<1>3. CASE Len(poleCtxs) = 7
  BY <1>3 DEF Numbered, Modules
<1> QED
  BY <1>1, <1>2, <1>3, Zenon DEF Numbered

(* Cancelling a context that no other was made from closes it alone.          *)
LEMMA ChildlessReached ==
  ASSUME NEW c \in DOMAIN poleCtxs, \A d \in DOMAIN poleCtxs : poleCtxs[d].parent # c
  PROVE  X!Reached(c) = {c}
<1>1. X!Family({c})
  BY Zenon DEF X!Family
<1>2. c \in X!Reached(c)
  BY Zenon DEF X!Reached
<1>3. \A d \in X!Reached(c) : d \in {c}
  BY <1>1, Zenon DEF X!Reached
<1> QED
  BY <1>2, <1>3, Zenon

(* A context that no other descends from is cancelled alone.                  *)
LEMMA CancelOne ==
  ASSUME LifeInv, NEW c \in DOMAIN poleCtxs, c \notin {0, 1, 2, 5}, X!Cancel(c)
  PROVE  /\ poleCtxs' \in Seq(CtxType) /\ Len(poleCtxs') = Len(poleCtxs)
         /\ \A d \in 1 .. Len(poleCtxs) :
              /\ poleCtxs'[d].parent = poleCtxs[d].parent
              /\ poleCtxs'[d].done <=> d = c \/ poleCtxs[d].done
<1> DEFINE n == Len(poleCtxs)
           F(d) == IF d = c THEN [poleCtxs[d] EXCEPT !.done = TRUE] ELSE poleCtxs[d]
<1>1. poleCtxs \in Seq(CtxType) /\ n \in Nat /\ DOMAIN poleCtxs = 1 .. n
      /\ \A d \in 1 .. n : poleCtxs[d] \in CtxType
  BY LenProperties, ElementOfSeq, Zenon DEF LifeInv
<1>2. X!Reached(c) = {c}
  BY <1>1, ChildlessReached, Zenon DEF LifeInv
<1>3. poleCtxs' = [d \in 1 .. n |-> F(d)]
  BY <1>1, <1>2, Zenon DEF X!Cancel
<1>4. \A d \in 1 .. n : F(d) \in CtxType
  BY <1>1, Zenon DEF CtxType
<1>5. \A d \in 1 .. n : /\ F(d).parent = poleCtxs[d].parent
                        /\ F(d).done <=> d = c \/ poleCtxs[d].done
  BY <1>1, Zenon DEF CtxType
<1> HIDE DEF F, n
<1>6. poleCtxs' \in Seq(CtxType) /\ Len(poleCtxs') = n /\ \A d \in 1 .. n : poleCtxs'[d] = F(d)
  BY <1>1, <1>3, <1>4, IsASeq
<1> QED
  BY <1>5, <1>6, Zenon DEF n

(* A module's three contexts are made at the end, none of them cancelled.     *)
LEMMA MakeModuleAdds ==
  ASSUME LifeInv, NEW m \in Modules, MakeModule(m)
  PROVE  LET n == Len(poleCtxs) IN
         /\ poleCtxs' \in Seq(CtxType) /\ Len(poleCtxs') = n + 3
         /\ \A d \in 1 .. n : poleCtxs'[d] = poleCtxs[d]
         /\ \A d \in n + 1 .. n + 3 : poleCtxs'[d].parent \in {1, n + 1} /\ ~poleCtxs'[d].done
<1> DEFINE n == Len(poleCtxs)
           one == <<[parent |-> 1, done |-> FALSE]>>
           two == <<[parent |-> n + 1, done |-> FALSE], [parent |-> n + 1, done |-> FALSE]>>
<1>1. poleCtxs \in Seq(CtxType) /\ n \in Nat
  BY LenProperties, Zenon DEF LifeInv
<1>2. ~poleCtxs[1].done /\ poleCtxs[1].done \in BOOLEAN
  <2>1. 1 \in 1 .. Len(poleCtxs)
    BY Numbers, Zenon DEF LifeInv
  <2>2. ~Cancelled(1)
    <3>1. \A o \in Modules : console[o] \in {0, 3, 6} /\ api[o] \in {0, 4, 7}
      BY Numbers, Zenon DEF LifeInv
    <3>2. \A o \in Modules : console[o] # 1 /\ api[o] # 1
      BY <3>1
    <3> QED BY <3>2, Zenon DEF Cancelled
  <2>3. poleCtxs[1] \in CtxType
    BY <1>1, <2>1, ElementOfSeq, Zenon
  <2> QED BY <2>1, <2>2, <2>3, Zenon DEF LifeInv, CtxType
<1>3. poleCtxs' = poleCtxs \o one \o two
  BY <1>2, Zenon DEF MakeModule, Adopted, X!Context, X!Done
<1>4. /\ one \in Seq(CtxType) /\ Len(one) = 1 /\ one[1] = [parent |-> 1, done |-> FALSE]
      /\ two \in Seq(CtxType) /\ Len(two) = 2
      /\ two[1] = [parent |-> n + 1, done |-> FALSE]
      /\ two[2] = [parent |-> n + 1, done |-> FALSE]
  BY <1>1 DEF CtxType
<1> HIDE DEF one, two
<1>5. /\ poleCtxs \o one \in Seq(CtxType) /\ Len(poleCtxs \o one) = n + 1
      /\ \A d \in 1 .. n : (poleCtxs \o one)[d] = poleCtxs[d]
      /\ (poleCtxs \o one)[n + 1] = one[1]
  <2>1. /\ poleCtxs \o one \in Seq(CtxType) /\ Len(poleCtxs \o one) = n + Len(one)
        /\ \A i \in 1 .. n + Len(one) :
             (poleCtxs \o one)[i] = IF i <= n THEN poleCtxs[i] ELSE one[i - n]
    BY <1>1, <1>4, ConcatProperties, Zenon
  <2> HIDE DEF n
  <2>2. n + 1 \in 1 .. n + 1 /\ (n + 1) - n = 1 /\ ~(n + 1 <= n)
        /\ \A d \in 1 .. n : d \in 1 .. n + 1 /\ d <= n
    BY <1>1
  <2> QED BY <1>4, <2>1, <2>2, Zenon
<1> DEFINE s == poleCtxs \o one
<1> HIDE DEF s
<1>6. s \in Seq(CtxType) /\ Len(s) = n + 1
      /\ (\A d \in 1 .. n : s[d] = poleCtxs[d]) /\ s[n + 1] = one[1] /\ poleCtxs' = s \o two
  BY <1>3, <1>5, Zenon DEF s
<1>7. /\ poleCtxs' \in Seq(CtxType) /\ Len(poleCtxs') = n + 3
      /\ \A d \in 1 .. n + 1 : poleCtxs'[d] = s[d]
      /\ poleCtxs'[n + 2] = two[1] /\ poleCtxs'[n + 3] = two[2]
  <2>1. /\ s \o two \in Seq(CtxType) /\ Len(s \o two) = Len(s) + Len(two)
        /\ \A i \in 1 .. Len(s) + Len(two) :
             (s \o two)[i] = IF i <= Len(s) THEN s[i] ELSE two[i - Len(s)]
    BY <1>4, <1>6, ConcatProperties, Zenon
  <2> HIDE DEF n
  <2>2. /\ n + 1 + 2 = n + 3 /\ n + 2 \in 1 .. n + 3 /\ n + 3 \in 1 .. n + 3
        /\ (n + 2) - (n + 1) = 1 /\ (n + 3) - (n + 1) = 2
        /\ ~(n + 2 <= n + 1) /\ ~(n + 3 <= n + 1)
        /\ \A d \in 1 .. n + 1 : d \in 1 .. n + 3 /\ d <= n + 1
    BY <1>1
  <2>3. /\ s \o two \in Seq(CtxType) /\ Len(s \o two) = n + 3
        /\ \A i \in 1 .. n + 3 :
             (s \o two)[i] = IF i <= n + 1 THEN s[i] ELSE two[i - (n + 1)]
    BY <1>4, <1>6, <2>1, <2>2, ZenonT(30)
  <2>4. (s \o two)[n + 2] = two[1] /\ (s \o two)[n + 3] = two[2]
    BY <2>2, <2>3, Zenon
  <2>5. \A d \in 1 .. n + 1 : (s \o two)[d] = s[d]
    BY <2>2, <2>3, Zenon
  <2> QED BY <1>6, <2>3, <2>4, <2>5, Zenon
<1> HIDE DEF n
<1>8. \A d \in n + 1 .. n + 3 : d = n + 1 \/ d = n + 2 \/ d = n + 3
  BY <1>1
<1>9. /\ poleCtxs'[n + 1].parent = 1 /\ poleCtxs'[n + 1].done = FALSE
      /\ poleCtxs'[n + 2].parent = n + 1 /\ poleCtxs'[n + 2].done = FALSE
      /\ poleCtxs'[n + 3].parent = n + 1 /\ poleCtxs'[n + 3].done = FALSE
  BY <1>1, <1>4, <1>6, <1>7
<1>10. \A d \in 1 .. n : poleCtxs'[d] = poleCtxs[d]
  BY <1>1, <1>6, <1>7
<1>11. \A d \in n + 1 .. n + 3 : poleCtxs'[d].parent \in {1, n + 1} /\ ~poleCtxs'[d].done
  BY <1>8, <1>9, Zenon
<1> QED
  BY <1>7, <1>10, <1>11, Zenon DEF n

(* A module is made with three contexts of its own.                           *)
LEMMA InitModuleKeeps ==
  ASSUME LifeInv, InitConfig \/ InitDiscovery
  PROVE  LifeInv'
<1> DEFINE n == Len(poleCtxs)
           m == IF phase = "config" THEN "config" ELSE "discovery"
<1>1. MakeModule(m) /\ m \in Modules /\ UNCHANGED shut
  BY Zenon DEF InitConfig, InitDiscovery, Modules
<1>2. /\ poleCtxs' \in Seq(CtxType) /\ Len(poleCtxs') = n + 3
      /\ \A d \in 1 .. n : poleCtxs'[d] = poleCtxs[d]
      /\ \A d \in n + 1 .. n + 3 : poleCtxs'[d].parent \in {1, n + 1} /\ ~poleCtxs'[d].done
  BY <1>1, MakeModuleAdds, Zenon
<1>3. n = IF m = "config" THEN 1 ELSE 4
  BY Zenon DEF LifeInv, Numbered, InitConfig, InitDiscovery
<1>4. /\ ctxOf' = [ctxOf EXCEPT ![m] = n + 1] /\ console' = [console EXCEPT ![m] = n + 2]
      /\ api' = [api EXCEPT ![m] = n + 3]
  BY <1>1, <1>3 DEF MakeModule, ConsoleOf, ApiOf
<1> HIDE DEF n
<1>5. /\ ctxOf' \in [Modules -> Nat] /\ console' \in [Modules -> Nat] /\ api' \in [Modules -> Nat]
      /\ ctxOf'[m] = n + 1 /\ console'[m] = n + 2 /\ api'[m] = n + 3
      /\ \A o \in Modules : o # m =>
           ctxOf'[o] = ctxOf[o] /\ console'[o] = console[o] /\ api'[o] = api[o]
  BY <1>1, <1>3, <1>4 DEF LifeInv
<1>6. /\ server' \in [Modules -> Nat] /\ server'["discovery"] \in {0, Background}
  BY DEF LifeInv, InitConfig, InitDiscovery, Background, MaxPoleCtx, Modules
<1>7. \A o \in Modules : shut[o] # "no" => ctxOf[o] # 0
  BY Zenon DEF LifeInv
<1>8. ctxOf[m] = 0 /\ shut[m] = "no"
  BY <1>1, <1>7, Zenon DEF LifeInv, Numbered, InitConfig, InitDiscovery
<1>9. ASSUME NEW c \in 1 .. n + 3
      PROVE  poleCtxs'[c].parent \in {0, 1, 2, 5} /\ (poleCtxs'[c].done <=> Cancelled(c)')
  <2>1. CASE c \in 1 .. n
    <3>1. Cancelled(c)' <=> Cancelled(c)
      BY <1>1, <1>3, <1>5, <1>7, <1>8, <2>1, ZenonT(30) DEF Cancelled
    <3> QED BY <1>2, <2>1, <3>1, Zenon DEF LifeInv, n
  <2>2. CASE c \in n + 1 .. n + 3
    <3>1. ~Cancelled(c)'
      <4>1. \A o \in Modules : o # m => c # console'[o] /\ c # api'[o]
        <5>1. \A o \in Modules : console[o] \in 0 .. n /\ api[o] \in 0 .. n
          BY Numbers, Zenon DEF LifeInv, n
        <5>2. \A d \in 0 .. n : c # d
          BY <1>3, <2>2
        <5> QED BY <1>5, <5>1, <5>2, Zenon
      <4> QED BY <1>1, <1>8, <4>1, Zenon DEF Cancelled
    <3> QED BY <1>2, <1>3, <2>2, <3>1
  <2> QED BY <1>3, <2>1, <2>2
<1>10. /\ \A c \in 1 .. Len(poleCtxs') : poleCtxs'[c].parent \in {0, 1, 2, 5}
       /\ \A c \in 1 .. Len(poleCtxs') : poleCtxs'[c].done <=> Cancelled(c)'
  BY <1>2, <1>9, Zenon
<1>11. CASE InitConfig
  BY <1>1, <1>2, <1>3, <1>5, <1>6, <1>7, <1>10, <1>11, SMTT(30) DEF InitConfig, LifeInv, Numbered, Modules
<1>12. CASE InitDiscovery
  BY <1>1, <1>2, <1>3, <1>5, <1>6, <1>7, <1>10, <1>12, SMTT(30) DEF InitDiscovery, LifeInv, Numbered, Modules
<1> QED
  BY <1>11, <1>12, Zenon

(* Shutdown closes the context it cancels and no other.                       *)
LEMMA ShutdownKeeps ==
  ASSUME LifeInv, NEW m \in Modules, ShutdownConsole(m) \/ ShutdownApi(m)
  PROVE  LifeInv'
<1> DEFINE n == Len(poleCtxs)
           c == IF shut[m] = "no" THEN console[m] ELSE api[m]
           next == IF shut[m] = "no" THEN "console" ELSE "done"
<1>1. ctxOf[m] # 0
  BY SMTT(30) DEF LifeInv, Numbered, ShutdownConsole, ShutdownApi, Built, Modules
<1>2. /\ X!Cancel(c) /\ shut' = [shut EXCEPT ![m] = next]
      /\ UNCHANGED <<phase, ctxOf, console, api, server>>
      /\ shut[m] \in {"no", "console"} /\ (shut[m] = "no" <=> next = "console")
  BY Zenon DEF ShutdownConsole, ShutdownApi, ApiOwn
<1>3. DOMAIN poleCtxs = 1 .. n
  BY LenProperties, Zenon DEF LifeInv
<1>4. c \in 1 .. n /\ c \notin {0, 1, 2, 5}
  <2>1. /\ console[m] \in 1 .. n /\ api[m] \in 1 .. n
        /\ console[m] \in {0, 3, 6} /\ api[m] \in {0, 4, 7} /\ console[m] # 0 /\ api[m] # 0
    BY <1>1, Numbers, Zenon DEF LifeInv
  <2>2. c = console[m] \/ c = api[m]
    OBVIOUS
  <2> HIDE DEF c
  <2> QED BY <2>1, <2>2
<1>5. /\ poleCtxs' \in Seq(CtxType) /\ Len(poleCtxs') = n
      /\ \A d \in 1 .. n : /\ poleCtxs'[d].parent = poleCtxs[d].parent
                           /\ poleCtxs'[d].done <=> d = c \/ poleCtxs[d].done
  BY <1>2, <1>3, <1>4, CancelOne
<1>6. /\ shut' \in [Modules -> {"no", "console", "done"}]
      /\ \A o \in Modules : shut'[o] = IF o = m THEN next ELSE shut[o]
  BY <1>2, Zenon DEF LifeInv
<1>7. \A d \in 1 .. n : Cancelled(d)' <=> d = c \/ Cancelled(d)
  <2>1. /\ console' = console /\ api' = api
        /\ \A o \in Modules : o # m => shut'[o] = shut[o]
        /\ shut'[m] = next
    BY <1>2, <1>6, Zenon
  <2>2. CASE shut[m] = "no"
    BY <2>1, <2>2, ZenonT(30) DEF Cancelled
  <2>3. CASE shut[m] # "no"
    BY <1>2, <2>1, <2>3 DEF Cancelled
  <2> QED BY <2>2, <2>3, Zenon
<1>8. \A d \in 1 .. n : poleCtxs'[d].parent \in {0, 1, 2, 5} /\ (poleCtxs'[d].done <=> Cancelled(d)')
  BY <1>5, <1>7, Zenon DEF LifeInv
<1>9. \A o \in Modules : shut'[o] # "no" => ctxOf'[o] # 0
  BY <1>1, <1>2, <1>6, Zenon DEF LifeInv
<1> HIDE DEF c, next
<1> QED
  BY <1>2, <1>5, <1>6, <1>8, <1>9, Zenon DEF LifeInv, Numbered

(* The other steps make no context and close none.                            *)
LEMMA ContextsStay ==
  ASSUME LifeInv, UNCHANGED <<poleCtxs, ctxOf, console, api, shut>>,
         \/ UNCHANGED <<phase, server>>
         \/ phase = "storage" /\ phase' = "run" /\ UNCHANGED server
         \/ phase # "config" /\ phase' = "ended" /\ UNCHANGED server
         \/ /\ UNCHANGED phase
            /\ \E c \in DOMAIN poleCtxs : server' = [server EXCEPT !["config"] = c]
  PROVE  LifeInv'
<1>1. server' \in [Modules -> Nat] /\ server'["discovery"] = server["discovery"]
  <2>1. \A c \in DOMAIN poleCtxs : c \in Nat
    BY LenProperties DEF LifeInv
  <2> QED BY <2>1, ZenonT(30) DEF LifeInv, Modules
<1>2. \A c : Cancelled(c)' <=> Cancelled(c)
  BY Zenon DEF Cancelled
<1> QED
  BY <1>1, <1>2, Zenon DEF LifeInv, Numbered, Background, MaxPoleCtx

(* Every step preserves the invariant.                                        *)
LEMMA LifeInductive == LifeInv /\ [LifeNext]_lifeVars => LifeInv'
<1> SUFFICES ASSUME LifeInv, [LifeNext]_lifeVars PROVE LifeInv'
  OBVIOUS
<1>1. CASE InitConfig \/ InitDiscovery
  BY <1>1, InitModuleKeeps, Zenon
<1>2. CASE InitStorage \/ StartPanics
  BY <1>2, ContextsStay, Zenon DEF InitStorage, StartPanics
<1>3. ASSUME NEW c \in DOMAIN poleCtxs, InitConfigServer(c) PROVE LifeInv'
  BY <1>3, ContextsStay, Zenon DEF InitConfigServer
<1>4. CASE InitConfigServerPanics
  <2>1. phase # "config"
    BY <1>4, Zenon DEF InitConfigServerPanics, Built, LifeInv, Numbered
  <2> QED BY <1>4, <2>1, ContextsStay, Zenon DEF InitConfigServerPanics
<1>5. ASSUME NEW m \in Modules, ShutdownConsole(m) \/ ShutdownApi(m) PROVE LifeInv'
  BY <1>5, ShutdownKeeps, Zenon
<1>6. CASE UNCHANGED lifeVars
  BY <1>6, ContextsStay, ZenonT(30) DEF lifeVars
<1> QED
  BY <1>1, <1>2, <1>3, <1>4, <1>5, <1>6, ZenonT(30) DEF LifeNext

(* config_server.go:50-57, 102, discovery_server.go:58-61, 107, in whatever   *)
(* order the modules are initialised and shut down: Shutdown of a module      *)
(* closes the contexts of its console and its API and nothing else.           *)
THEOREM ShutdownIsLocal == LifeSpec => []ShutdownReach
<1>1. LifeInv => ShutdownReach
  <2> SUFFICES ASSUME LifeInv PROVE ShutdownReach
    OBVIOUS
  <2>1. DOMAIN poleCtxs = 1 .. Len(poleCtxs)
    BY LenProperties, Zenon DEF LifeInv
  <2>2. \A c \in DOMAIN poleCtxs : c # Background
    <3>1. Len(poleCtxs) \in 1 .. 7
      BY Numbers, Zenon DEF LifeInv
    <3> QED BY <2>1, <3>1 DEF Background, MaxPoleCtx
  <2>3. \A c \in DOMAIN poleCtxs : ~Open(c) <=> Cancelled(c)
    BY <2>1, <2>2, Zenon DEF LifeInv, Open, X!Done
  <2> QED
    BY <2>3, Zenon DEF ShutdownReach, Cancelled
<1> QED
  BY <1>1, LifeInitially, LifeInductive, PTL DEF LifeSpec

-----------------------------------------------------------------------------
(* The leases: what an expired one is reported, and the task that watches one. *)

TaskType ==
  [key : LeaseKeys, slot : Int, ripe : BOOLEAN,
   at : {"wheel", "lock", "read", "send", "told", "dropped"}]

Over == {"told", "dropped"}

LessorType ==
  /\ now \in Nat
  /\ lessRep \in [LeaseKeys -> Int \cup {Absent}]
  /\ tasks \in Seq(TaskType)
  /\ loop \in [at : {"select", "got", "notify", "end"}, key : LeaseKeys \cup {Absent}]
  /\ loop.at \in {"got", "notify"} => loop.key \in LeaseKeys
  /\ watch \in [LeaseKeys -> Nat]
  /\ \A k \in LeaseKeys : watch[k] = 0 \/ watch[k] \in DOMAIN tasks
  /\ granted \in [LeaseKeys -> Nat]
  /\ told \in [LeaseKeys -> Nat]
  /\ late \in [LeaseKeys -> Nat]
  /\ had \in [LeaseKeys -> Nat]

(* The task of a lease in force is not dropped, and no report of a key that   *)
(* has a lease is a late one.                                                 *)
LessorInv ==
  /\ LessorType
  /\ ReportsBounded
  /\ LeaseIsWatched
  /\ \A k \in LeaseKeys : lessRep[k] # Absent => late[k] = 0

(* A sum that has wrapped around is an integer again.                         *)
LEMMA WrapInt ==
  ASSUME NEW x \in Int, NEW h \in Nat \ {0}
  PROVE  Wrap(x, h) \in Int
<1>1. 2 * h \in Int /\ 2 * h > 0 /\ x + h \in Int
  OBVIOUS
<1>2. (x + h) % (2 * h) \in Int
  BY <1>1
<1> QED
  BY <1>2 DEF Wrap

(* So are a quotient and a remainder.                                         *)
LEMMA DivInt ==
  ASSUME NEW x \in Int, NEW n \in Nat \ {0}
  PROVE  Quo(x, n) \in Int /\ Rem(x, n) \in Int
<1>1. x \div n \in Int /\ (-x) \div n \in Int /\ x % n \in Int /\ (-x) % n \in Int
  OBVIOUS
<1> QED
  BY <1>1 DEF Quo, Rem

(* What DelayExec makes of a delay is a task.                                 *)
LEMMA WheelTask ==
  ASSUME NEW k \in LeaseKeys, NEW delay \in Int, NEW tick \in Ticks
  PROVE  OnWheel(k, Pos(delay, tick), NegativeCircle(delay)) \in TaskType
<1>0. /\ SlotNum \in Nat \ {0} /\ Second \in Nat \ {0} /\ Half32 \in Nat \ {0}
      /\ tick \in Int
  BY LessorAssumption DEF Ticks
<1>1. Quo(delay, Second) \in Int
  BY <1>0, DivInt, Zenon
<1>2. tick + Quo(delay, Second) \in Int
  BY <1>0, <1>1
<1>3. Wrap(tick + Quo(delay, Second), Half32) \in Int
  BY <1>0, <1>2, WrapInt, Zenon
<1>4. Pos(delay, tick) \in Int
  BY <1>0, <1>3, DivInt, Zenon DEF Pos
<1>5. NegativeCircle(delay) \in BOOLEAN
  <2>1. Quo(Quo(delay, Second), SlotNum) \in Int
    BY <1>0, <1>1, DivInt, Zenon
  <2> QED BY <2>1 DEF NegativeCircle
<1> QED
  BY <1>4, <1>5, Zenon DEF OnWheel, TaskType

(* The expiry a grant writes is a number.                                     *)
LEMMA ExpiryInt == LessorType => Expiry \in Int
<1> SUFFICES ASSUME LessorType PROVE Expiry \in Int
  OBVIOUS
<1>1. Lease \in Nat /\ Second \in Nat /\ Half \in Nat \ {0} /\ now \in Nat
  BY LessorAssumption, Zenon DEF LessorType
<1>2. (Lease + now) * Second \in Int
  BY <1>1
<1> QED
  BY <1>1, <1>2, WrapInt, Zenon DEF Expiry

(* The tasks of a key are finitely many.                                      *)
LEMMA TasksFinite ==
  ASSUME tasks \in Seq(TaskType), NEW k
  PROVE  /\ IsFiniteSet(Live(k)) /\ IsFiniteSet(Sending(k))
         /\ Cardinality(Live(k)) \in Nat /\ Cardinality(Sending(k)) \in Nat
         /\ DOMAIN tasks = 1 .. Len(tasks) /\ Len(tasks) \in Nat
         /\ \A t \in DOMAIN tasks : tasks[t] \in TaskType
<1>1. DOMAIN tasks = 1 .. Len(tasks) /\ Len(tasks) \in Nat
      /\ \A t \in DOMAIN tasks : tasks[t] \in TaskType
  BY LenProperties, ElementOfSeq, Zenon
<1>2. IsFiniteSet(DOMAIN tasks)
  BY <1>1, FS_Interval
<1>3. Live(k) \subseteq DOMAIN tasks /\ Sending(k) \subseteq DOMAIN tasks
  BY Zenon DEF Live, Sending
<1>4. IsFiniteSet(Live(k)) /\ IsFiniteSet(Sending(k))
  BY <1>2, <1>3, FS_Subset, Zenon
<1> QED
  BY <1>1, <1>4, FS_CardinalityType, Zenon

(* The invariant holds when nothing is leased.                                *)
LEMMA LessorInitially == LessorInit => LessorInv
<1> SUFFICES ASSUME LessorInit PROVE LessorInv
  OBVIOUS
<1>1. LessorType
  <2>1. /\ lessRep \in [LeaseKeys -> Int \cup {Absent}] /\ tasks \in Seq(TaskType)
        /\ loop \in [at : {"select", "got", "notify", "end"}, key : LeaseKeys \cup {Absent}]
        /\ loop.at \notin {"got", "notify"}
    BY EmptySeq, Zenon DEF LessorInit
  <2>2. /\ now \in Nat /\ watch \in [LeaseKeys -> Nat] /\ granted \in [LeaseKeys -> Nat]
        /\ told \in [LeaseKeys -> Nat] /\ late \in [LeaseKeys -> Nat]
        /\ had \in [LeaseKeys -> Nat] /\ \A k \in LeaseKeys : watch[k] = 0
    BY DEF LessorInit
  <2> QED BY <2>1, <2>2, Zenon DEF LessorType
<1>2. ASSUME NEW k \in LeaseKeys
      PROVE  /\ told[k] + InHand(k) + Cardinality(Live(k)) <= granted[k]
             /\ late[k] + UnderWay(k) <= had[k]
  <2>1. DOMAIN tasks = {}
    BY DEF LessorInit
  <2>2. Live(k) = {} /\ Sending(k) = {}
    BY <2>1, Zenon DEF Live, Sending
  <2>3. InHand(k) = 0
    BY Zenon DEF LessorInit, InHand
  <2>4. Cardinality({}) = 0
    BY FS_EmptySet, Zenon
  <2>5. told[k] = 0 /\ granted[k] = 0 /\ late[k] = 0 /\ had[k] = 0
    BY Zenon DEF LessorInit
  <2> QED
    BY <2>2, <2>3, <2>4, <2>5 DEF UnderWay
<1>3. \A k \in LeaseKeys : lessRep[k] = Absent
  BY Zenon DEF LessorInit
<1> QED
  BY <1>1, <1>2, <1>3, ZenonT(30) DEF LessorInv, ReportsBounded, LeaseIsWatched

-----------------------------------------------------------------------------
(* A step that moves one task, and what it does to the tasks that may report  *)
(* and to those that are reporting.                                           *)
LEMMA TaskMoves ==
  ASSUME tasks \in Seq(TaskType), NEW t \in DOMAIN tasks, NEW new \in TaskType,
         new.key = tasks[t].key, tasks[t].at \notin Over,
         tasks' = [tasks EXCEPT ![t] = new]
  PROVE  /\ tasks' \in Seq(TaskType) /\ DOMAIN tasks' = DOMAIN tasks
         /\ \A u \in DOMAIN tasks : tasks'[u] = IF u = t THEN new ELSE tasks[u]
         /\ \A k \in LeaseKeys :
              /\ Live(k)' = IF k = new.key /\ new.at \in Over THEN Live(k) \ {t} ELSE Live(k)
              /\ Sending(k)' = IF k # new.key THEN Sending(k)
                               ELSE IF new.at = "send" THEN Sending(k) \cup {t}
                               ELSE Sending(k) \ {t}
<1>1. t \in 1 .. Len(tasks)
  BY TasksFinite, Zenon
<1>2. /\ tasks' \in Seq(TaskType) /\ DOMAIN tasks' = DOMAIN tasks
      /\ \A u \in DOMAIN tasks : tasks'[u] = IF u = t THEN new ELSE tasks[u]
  BY <1>1, ExceptSeq, Zenon
<1>3. ASSUME NEW k \in LeaseKeys, NEW u
      PROVE  /\ u \in Live(k)' <=> u \in Live(k) /\ ~(u = t /\ k = new.key /\ new.at \in Over)
             /\ u \in Sending(k)' <=> IF u = t THEN k = new.key /\ new.at = "send"
                                       ELSE u \in Sending(k)
  BY <1>2, Zenon DEF Live, Sending, Over
<1>4. ASSUME NEW k \in LeaseKeys
      PROVE  /\ Live(k)' = IF k = new.key /\ new.at \in Over THEN Live(k) \ {t} ELSE Live(k)
             /\ Sending(k)' = IF k # new.key THEN Sending(k)
                              ELSE IF new.at = "send" THEN Sending(k) \cup {t}
                              ELSE Sending(k) \ {t}
  <2>1. k # new.key => t \notin Sending(k)
    BY Zenon DEF Sending
  <2> QED BY <1>3, <2>1, Zenon
<1> QED
  BY <1>2, <1>4, Zenon

(* A task is dropped only where its key has no lease, so that no lease loses  *)
(* the one that watches it.                                                   *)
LEMMA WatchMoves ==
  ASSUME LessorInv, NEW t \in DOMAIN tasks, NEW new \in TaskType,
         new.key = tasks[t].key, DOMAIN tasks' = DOMAIN tasks,
         \A u \in DOMAIN tasks : tasks'[u] = IF u = t THEN new ELSE tasks[u],
         new.at = "dropped" => lessRep[new.key] = Absent,
         UNCHANGED <<lessRep, watch>>
  PROVE  LeaseIsWatched'
<1> SUFFICES ASSUME NEW k \in LeaseKeys, lessRep[k] # Absent, watch[k] # 0
             PROVE  tasks'[watch[k]].key = k /\ tasks'[watch[k]].at # "dropped"
  BY Zenon DEF LeaseIsWatched
<1>1. watch[k] \in DOMAIN tasks /\ tasks[watch[k]].key = k /\ tasks[watch[k]].at # "dropped"
  BY Zenon DEF LessorInv, LessorType, LeaseIsWatched
<1> QED
  BY <1>1, Zenon

(* A task that moves without reporting.                                       *)
LEMMA QuietMove ==
  ASSUME LessorInv, NEW t \in DOMAIN tasks, NEW new \in TaskType,
         new.key = tasks[t].key, tasks[t].at \in {"wheel", "lock", "read"}, new.at # "send",
         new.at = "dropped" => lessRep[new.key] = Absent,
         tasks' = [tasks EXCEPT ![t] = new],
         UNCHANGED <<now, lessRep, loop, history>>
  PROVE  LessorInv'
<1>1. tasks \in Seq(TaskType)
  BY Zenon DEF LessorInv, LessorType
<1>0. tasks[t].at \notin Over /\ tasks[t].at # "send"
  BY Zenon DEF Over
<1>2. /\ tasks' \in Seq(TaskType) /\ DOMAIN tasks' = DOMAIN tasks
      /\ \A u \in DOMAIN tasks : tasks'[u] = IF u = t THEN new ELSE tasks[u]
      /\ \A k \in LeaseKeys :
           /\ Live(k)' = IF k = new.key /\ new.at \in Over THEN Live(k) \ {t} ELSE Live(k)
           /\ Sending(k)' = IF k # new.key THEN Sending(k) ELSE Sending(k) \ {t}
  <2>1. /\ tasks' \in Seq(TaskType) /\ DOMAIN tasks' = DOMAIN tasks
        /\ \A u \in DOMAIN tasks : tasks'[u] = IF u = t THEN new ELSE tasks[u]
        /\ \A k \in LeaseKeys :
             /\ Live(k)' = IF k = new.key /\ new.at \in Over THEN Live(k) \ {t} ELSE Live(k)
             /\ Sending(k)' = IF k # new.key THEN Sending(k)
                              ELSE IF new.at = "send" THEN Sending(k) \cup {t}
                              ELSE Sending(k) \ {t}
    BY <1>0, <1>1, TaskMoves, Zenon
  <2> QED BY <2>1, Zenon
<1>3. ASSUME NEW k \in LeaseKeys
      PROVE  /\ told'[k] + InHand(k)' + Cardinality(Live(k)') <= granted'[k]
             /\ lessRep'[k] = Absent => late'[k] + UnderWay(k)' <= had'[k]
  <2>1. Sending(k)' = Sending(k)
    BY <1>0, <1>2, Zenon DEF Sending
  <2>2. /\ IsFiniteSet(Live(k)) /\ Cardinality(Live(k)) \in Nat
    BY <1>1, TasksFinite, Zenon
  <2>3. Cardinality(Live(k)') \in Nat /\ Cardinality(Live(k)') <= Cardinality(Live(k))
    <3>1. Live(k)' \subseteq Live(k)
      BY <1>2, Zenon
    <3> QED BY <2>2, <3>1, FS_Subset, FS_CardinalityType, Zenon
  <2>4. InHand(k)' = InHand(k) /\ InHand(k) \in Nat
    BY Zenon DEF InHand
  <2>5. UnderWay(k)' = UnderWay(k)
    BY <2>1, <2>4, Zenon DEF UnderWay
  <2>6. told[k] \in Nat /\ granted[k] \in Nat
    BY Zenon DEF LessorInv, LessorType
  <2>7. told'[k] = told[k] /\ granted'[k] = granted[k] /\ late'[k] = late[k] /\ had'[k] = had[k]
        /\ lessRep'[k] = lessRep[k]
    BY Zenon DEF history
  <2>8. /\ told[k] + InHand(k) + Cardinality(Live(k)) <= granted[k]
        /\ lessRep[k] = Absent => late[k] + UnderWay(k) <= had[k]
    BY Zenon DEF LessorInv, ReportsBounded
  <2>9. told[k] + InHand(k) + Cardinality(Live(k)') <= granted[k]
    BY <2>2, <2>3, <2>4, <2>6, <2>8
  <2> QED
    BY <2>4, <2>5, <2>7, <2>8, <2>9, Zenon
<1>4. ReportsBounded'
  BY <1>3, Zenon DEF ReportsBounded
<1>5. LessorType'
  BY <1>2, Zenon DEF LessorInv, LessorType, history
<1>6. LeaseIsWatched'
  BY <1>2, WatchMoves, Zenon DEF history
<1> QED
  BY <1>4, <1>5, <1>6, Zenon DEF LessorInv, history

(* A task that reads a lease that is due starts to report it: there is a      *)
(* lease, so no bound on late reports is in force.                            *)
LEMMA RunDueKeeps ==
  ASSUME LessorInv, NEW t \in DOMAIN tasks, RunDue(t)
  PROVE  LessorInv'
<1> DEFINE new == [tasks[t] EXCEPT !.at = "send"]
<1>1. tasks \in Seq(TaskType) /\ tasks[t] \in TaskType
  BY TasksFinite, Zenon DEF LessorInv, LessorType
<1>2. new \in TaskType /\ new.key = tasks[t].key /\ new.at = "send"
  BY <1>1, Zenon DEF TaskType
<1>3. tasks' = [tasks EXCEPT ![t] = new] /\ tasks[t].at = "read"
      /\ lessRep[new.key] # Absent
      /\ UNCHANGED <<now, lessRep, loop, history>>
  BY <1>2, Zenon DEF RunDue, To, Due
<1> HIDE DEF new
<1>0. tasks[t].at \notin Over /\ new.at \notin Over /\ new.at # "dropped"
  BY <1>2, <1>3, Zenon DEF Over
<1>4. /\ tasks' \in Seq(TaskType) /\ DOMAIN tasks' = DOMAIN tasks
      /\ \A u \in DOMAIN tasks : tasks'[u] = IF u = t THEN new ELSE tasks[u]
      /\ \A k \in LeaseKeys :
           /\ Live(k)' = Live(k)
           /\ k # new.key => Sending(k)' = Sending(k)
  BY <1>0, <1>1, <1>2, <1>3, TaskMoves, ZenonT(30)
<1>5. ASSUME NEW k \in LeaseKeys
      PROVE  /\ told'[k] + InHand(k)' + Cardinality(Live(k)') <= granted'[k]
             /\ lessRep'[k] = Absent => late'[k] + UnderWay(k)' <= had'[k]
  <2>1. InHand(k)' = InHand(k)
    BY <1>3, Zenon DEF InHand
  <2>2. k # new.key => UnderWay(k)' = UnderWay(k)
    BY <1>4, <2>1, Zenon DEF UnderWay
  <2>3. /\ told[k] + InHand(k) + Cardinality(Live(k)) <= granted[k]
        /\ lessRep[k] = Absent => late[k] + UnderWay(k) <= had[k]
    BY Zenon DEF LessorInv, ReportsBounded
  <2> QED
    BY <1>3, <1>4, <2>1, <2>2, <2>3, Zenon DEF history
<1>6. ReportsBounded'
  BY <1>5, Zenon DEF ReportsBounded
<1>7. LessorType'
  BY <1>3, <1>4, Zenon DEF LessorInv, LessorType, history
<1>8. LeaseIsWatched'
  BY <1>0, <1>2, <1>3, <1>4, WatchMoves, Zenon DEF history
<1> QED
  BY <1>3, <1>6, <1>7, <1>8, ZenonT(30) DEF LessorInv, history

(* The goroutine takes over what a task was reporting.                        *)
LEMMA ReceiveKeeps ==
  ASSUME LessorInv, NEW t \in DOMAIN tasks, Receive(t)
  PROVE  LessorInv'
<1> DEFINE new == [tasks[t] EXCEPT !.at = "told"]
           key == tasks[t].key
<1>1. tasks \in Seq(TaskType) /\ tasks[t] \in TaskType /\ key \in LeaseKeys
  BY TasksFinite, Zenon DEF LessorInv, LessorType, TaskType
<1>2. new \in TaskType /\ new.key = key /\ new.at = "told"
  BY <1>1, Zenon DEF TaskType
<1>3. tasks' = [tasks EXCEPT ![t] = new] /\ tasks[t].at = "send"
      /\ UNCHANGED <<now, lessRep, history>>
      /\ loop.at = "select" /\ loop' = [at |-> "got", key |-> key]
  BY <1>2, Zenon DEF Receive, To
<1>4. t \in Live(key) /\ t \in Sending(key)
  BY <1>3, Zenon DEF Live, Sending
<1> HIDE DEF new, key
<1>5. /\ tasks' \in Seq(TaskType) /\ DOMAIN tasks' = DOMAIN tasks
      /\ \A u \in DOMAIN tasks : tasks'[u] = IF u = t THEN new ELSE tasks[u]
      /\ \A k \in LeaseKeys :
           /\ Live(k)' = IF k = key THEN Live(k) \ {t} ELSE Live(k)
           /\ Sending(k)' = IF k = key THEN Sending(k) \ {t} ELSE Sending(k)
  <2>1. /\ tasks[t].at \notin Over /\ new.at # "send" /\ new.at \in Over
        /\ new.key = tasks[t].key
    BY <1>2, <1>3, Zenon DEF key, Over
  <2>2. /\ tasks' \in Seq(TaskType) /\ DOMAIN tasks' = DOMAIN tasks
        /\ \A u \in DOMAIN tasks : tasks'[u] = IF u = t THEN new ELSE tasks[u]
        /\ \A k \in LeaseKeys :
             /\ Live(k)' = IF k = new.key /\ new.at \in Over THEN Live(k) \ {t} ELSE Live(k)
             /\ Sending(k)' = IF k # new.key THEN Sending(k)
                              ELSE IF new.at = "send" THEN Sending(k) \cup {t}
                              ELSE Sending(k) \ {t}
    BY <1>1, <1>2, <1>3, <2>1, TaskMoves, Zenon
  <2> QED BY <1>2, <2>1, <2>2, Zenon
<1>6. ASSUME NEW k \in LeaseKeys
      PROVE  /\ told'[k] + InHand(k)' + Cardinality(Live(k)') <= granted'[k]
             /\ lessRep'[k] = Absent => late'[k] + UnderWay(k)' <= had'[k]
  <2>1. InHand(k) = 0 /\ InHand(k)' = IF k = key THEN 1 ELSE 0
    BY <1>3, Zenon DEF InHand
  <2>2. /\ IsFiniteSet(Live(k)) /\ Cardinality(Live(k)) \in Nat
        /\ IsFiniteSet(Sending(k)) /\ Cardinality(Sending(k)) \in Nat
    BY <1>1, TasksFinite, Zenon
  <2>3. /\ Cardinality(Live(k)') = IF k = key THEN Cardinality(Live(k)) - 1
                                   ELSE Cardinality(Live(k))
        /\ Cardinality(Sending(k)') = IF k = key THEN Cardinality(Sending(k)) - 1
                                      ELSE Cardinality(Sending(k))
    BY <1>4, <1>5, <2>2, FS_RemoveElement, ZenonT(30)
  <2>4. told'[k] = told[k] /\ granted'[k] = granted[k] /\ late'[k] = late[k] /\ had'[k] = had[k]
        /\ lessRep'[k] = lessRep[k]
    BY <1>3, Zenon DEF history
  <2>5. told[k] \in Nat /\ granted[k] \in Nat /\ late[k] \in Nat
    BY Zenon DEF LessorInv, LessorType
  <2>6. /\ told[k] + InHand(k) + Cardinality(Live(k)) <= granted[k]
        /\ lessRep[k] = Absent => late[k] + (InHand(k) + Cardinality(Sending(k))) <= had[k]
    BY Zenon DEF LessorInv, ReportsBounded, UnderWay
  <2>7. InHand(k)' + Cardinality(Sending(k)') = InHand(k) + Cardinality(Sending(k))
        /\ InHand(k)' + Cardinality(Live(k)') = InHand(k) + Cardinality(Live(k))
    BY <2>1, <2>2, <2>3, SMTT(30)
  <2>8. told[k] + InHand(k)' + Cardinality(Live(k)') <= granted[k]
    BY <2>1, <2>2, <2>3, <2>5, <2>6, SMTT(30)
  <2>9. lessRep[k] = Absent => late[k] + (InHand(k)' + Cardinality(Sending(k)')) <= had[k]
    BY <2>6, <2>7, Zenon
  <2> QED
    BY <2>4, <2>8, <2>9, Zenon DEF UnderWay
<1>7. ReportsBounded'
  BY <1>6, Zenon DEF ReportsBounded
<1>8. LessorType'
  BY <1>1, <1>3, <1>5, ZenonT(30) DEF LessorInv, LessorType, history
<1>9. LeaseIsWatched'
  <2>1. new.at # "dropped" /\ new.key = tasks[t].key
    BY <1>2, Zenon DEF key
  <2> QED BY <1>2, <1>3, <1>5, <2>1, WatchMoves, Zenon DEF history
<1> QED
  BY <1>3, <1>7, <1>8, <1>9, Zenon DEF LessorInv, history

(* The watchers are told.                                                     *)
LEMMA NotifyExpireKeeps ==
  ASSUME LessorInv, NotifyExpire
  PROVE  LessorInv'
<1> DEFINE key == loop.key
<1>1. key \in LeaseKeys /\ loop.at = "notify" /\ loop' = [at |-> "select", key |-> Absent]
      /\ UNCHANGED <<now, lessRep, tasks, watch, granted, had>>
  BY Zenon DEF NotifyExpire, LessorInv, LessorType
<1>2. told \in [LeaseKeys -> Nat] /\ late \in [LeaseKeys -> Nat]
  BY ZenonT(30) DEF LessorInv, LessorType
<1>3. /\ told' \in [LeaseKeys -> Nat] /\ late' \in [LeaseKeys -> Nat]
      /\ \A k \in LeaseKeys : told'[k] = IF k = key THEN told[k] + 1 ELSE told[k]
      /\ \A k \in LeaseKeys :
           late'[k] = IF k = key /\ lessRep[k] = Absent THEN late[k] + 1 ELSE late[k]
  BY <1>1, <1>2 DEF NotifyExpire
<1>4. ASSUME NEW k \in LeaseKeys
      PROVE  /\ told'[k] + InHand(k)' + Cardinality(Live(k)') <= granted'[k]
             /\ lessRep'[k] = Absent => late'[k] + UnderWay(k)' <= had'[k]
  <2>1. InHand(k)' = 0 /\ InHand(k) = IF k = key THEN 1 ELSE 0
    BY <1>1, Zenon DEF InHand
  <2>2. Live(k)' = Live(k) /\ Sending(k)' = Sending(k)
    BY <1>1, Zenon DEF Live, Sending
  <2>3. Cardinality(Live(k)) \in Nat /\ Cardinality(Sending(k)) \in Nat
    BY TasksFinite, Zenon DEF LessorInv, LessorType
  <2>4. told[k] \in Nat /\ granted[k] \in Nat /\ late[k] \in Nat
    BY Zenon DEF LessorInv, LessorType
  <2>5. /\ told[k] + InHand(k) + Cardinality(Live(k)) <= granted[k]
        /\ lessRep[k] = Absent => late[k] + (InHand(k) + Cardinality(Sending(k))) <= had[k]
    BY Zenon DEF LessorInv, ReportsBounded, UnderWay
  <2>6. told'[k] + InHand(k)' + Cardinality(Live(k)) <= granted[k]
    BY <1>3, <2>1, <2>3, <2>4, <2>5, SMTT(30)
  <2>7. lessRep[k] = Absent => late'[k] + (InHand(k)' + Cardinality(Sending(k))) <= had[k]
    BY <1>3, <2>1, <2>3, <2>4, <2>5, SMTT(30)
  <2> QED
    BY <1>1, <2>2, <2>6, <2>7, Zenon DEF UnderWay
<1>5. ReportsBounded'
  BY <1>4, Zenon DEF ReportsBounded
<1>6. LessorType'
  BY <1>1, <1>3, Zenon DEF LessorInv, LessorType
<1>7. \A k \in LeaseKeys : lessRep'[k] # Absent => late'[k] = 0
  BY <1>1, <1>3, ZenonT(30) DEF LessorInv
<1>8. LeaseIsWatched'
  BY <1>1, Zenon DEF LessorInv, LeaseIsWatched
<1> QED
  BY <1>5, <1>6, <1>7, <1>8, Zenon DEF LessorInv

(* What a grant that made its task does to the tasks of the keys.             *)
LEMMA OneMoreTask ==
  ASSUME tasks \in Seq(TaskType), NEW new \in TaskType, new.at = "wheel",
         tasks' = Append(tasks, new)
  PROVE  /\ tasks' \in Seq(TaskType) /\ Len(tasks') = Len(tasks) + 1
         /\ Len(tasks) \in Nat /\ Len(tasks') \in DOMAIN tasks'
         /\ DOMAIN tasks \subseteq DOMAIN tasks'
         /\ \A u \in DOMAIN tasks : tasks'[u] = tasks[u]
         /\ tasks'[Len(tasks')] = new
         /\ \A k \in LeaseKeys :
              /\ Cardinality(Live(k)') = IF k = new.key THEN Cardinality(Live(k)) + 1
                                         ELSE Cardinality(Live(k))
              /\ Sending(k)' = Sending(k)
<1> DEFINE n == Len(tasks)
<1>1. n \in Nat /\ DOMAIN tasks = 1 .. n
  BY TasksFinite, Zenon
<1>2. /\ tasks' \in Seq(TaskType) /\ DOMAIN tasks' = 1 .. (n + 1) /\ Len(tasks') = n + 1
      /\ \A u \in 1 .. n : tasks'[u] = tasks[u]
      /\ tasks'[n + 1] = new
  BY <1>1, AppendProperties, LenProperties, SMTT(30)
<1>3. n + 1 \notin 1 .. n /\ 1 .. (n + 1) = (1 .. n) \cup {n + 1}
  BY <1>1, SMTT(30)
<1> HIDE DEF n
<1>4. ASSUME NEW k \in LeaseKeys
      PROVE  /\ Live(k)' = IF k = new.key THEN Live(k) \cup {n + 1} ELSE Live(k)
             /\ Sending(k)' = Sending(k) /\ n + 1 \notin Live(k)
  <2>1. ASSUME NEW u
        PROVE  /\ u \in Live(k)' <=> u \in Live(k) \/ (u = n + 1 /\ k = new.key)
               /\ u \in Sending(k)' <=> u \in Sending(k)
    BY <1>1, <1>2, <1>3, Zenon DEF Live, Sending
  <2>2. n + 1 \notin Live(k)
    BY <1>1, <1>3, Zenon DEF Live
  <2> QED BY <2>1, <2>2, Zenon
<1>5. ASSUME NEW k \in LeaseKeys
      PROVE  Cardinality(Live(k)') = IF k = new.key THEN Cardinality(Live(k)) + 1
                                     ELSE Cardinality(Live(k))
  <2>1. IsFiniteSet(Live(k))
    BY TasksFinite, Zenon
  <2> QED BY <1>4, <2>1, FS_AddElement, ZenonT(30)
<1>6. n + 1 \in 1 .. (n + 1) /\ 1 .. n \subseteq 1 .. (n + 1)
  BY <1>1, <1>3, Zenon
<1> QED
  BY <1>1, <1>2, <1>4, <1>5, <1>6, Zenon DEF n

(* A grant is one more lease, and one more task unless DelayExec panics.      *)
LEMMA GrantKeeps ==
  ASSUME LessorInv, NEW key \in LeaseKeys, NEW tick \in Ticks, GrantLess(key, tick)
  PROVE  LessorInv'
<1> DEFINE pos == Pos(Expiry, tick)
           new == OnWheel(key, pos, NegativeCircle(Expiry))
           w == Expiry
           more == Len(tasks') - Len(tasks)
           last == IF pos < 0 THEN 0 ELSE Len(tasks')
<1>0. w \in Int /\ w # Absent
  BY ExpiryInt, LessorAssumption, Zenon DEF LessorInv
<1>1. new \in TaskType /\ new.key = key /\ new.at = "wheel"
  <2>1. new \in TaskType
    BY <1>0, WheelTask, Zenon
  <2> QED BY <2>1, Zenon DEF OnWheel
<1>2. tasks \in Seq(TaskType) /\ Len(tasks) \in Nat
  BY TasksFinite, Zenon DEF LessorInv, LessorType
<1>3. /\ lessRep' = [lessRep EXCEPT ![key] = w]
      /\ tasks' = IF pos < 0 THEN tasks ELSE Append(tasks, new)
      /\ watch' = [watch EXCEPT ![key] = last]
      /\ granted' = [granted EXCEPT ![key] = granted[key] + Len(tasks') - Len(tasks)]
      /\ late' = [late EXCEPT ![key] = 0]
      /\ UNCHANGED <<now, loop, told, had>>
  BY ZenonT(30) DEF GrantLess
<1> HIDE DEF pos, new, w, last
<1>4. /\ tasks' \in Seq(TaskType) /\ DOMAIN tasks \subseteq DOMAIN tasks'
      /\ Len(tasks') \in Nat
      /\ \A u \in DOMAIN tasks : tasks'[u] = tasks[u]
      /\ \A k \in LeaseKeys : Sending(k)' = Sending(k)
      /\ last = 0 \/ (last \in DOMAIN tasks' /\ last \in Nat /\ tasks'[last] = new)
      /\ \A k \in LeaseKeys \ {key} : Cardinality(Live(k)') = Cardinality(Live(k))
  <2>1. CASE pos < 0
    BY <1>2, <1>3, <2>1, Zenon DEF Live, Sending, last
  <2>2. CASE ~(pos < 0)
    <3>1. tasks' = Append(tasks, new)
      BY <1>3, <2>2, Zenon
    <3>2. /\ tasks' \in Seq(TaskType) /\ DOMAIN tasks \subseteq DOMAIN tasks'
          /\ \A u \in DOMAIN tasks : tasks'[u] = tasks[u]
          /\ \A k \in LeaseKeys : Sending(k)' = Sending(k)
          /\ Len(tasks') \in DOMAIN tasks' /\ tasks'[Len(tasks')] = new
          /\ \A k \in LeaseKeys \ {key} : Cardinality(Live(k)') = Cardinality(Live(k))
      BY <1>1, <1>2, <3>1, OneMoreTask, ZenonT(30)
    <3>3. Len(tasks') \in Nat
      BY <3>2, LenProperties, Zenon
    <3> QED BY <2>2, <3>2, <3>3, Zenon DEF last
  <2> QED BY <2>1, <2>2, Zenon
<1>5. Cardinality(Live(key)') = Cardinality(Live(key)) + more /\ more \in {0, 1}
  <2>1. Cardinality(Live(key)) \in Nat
    BY <1>2, TasksFinite, Zenon
  <2>2. CASE pos < 0
    <3>1. tasks' = tasks
      BY <1>3, <2>2, Zenon
    <3>2. Live(key)' = Live(key)
      BY <3>1, Zenon DEF Live
    <3> QED BY <1>2, <2>1, <3>1, <3>2
  <2>3. CASE ~(pos < 0)
    <3>1. tasks' = Append(tasks, new)
      BY <1>3, <2>3, Zenon
    <3>2. /\ Len(tasks') = Len(tasks) + 1
          /\ Cardinality(Live(key)') = Cardinality(Live(key)) + 1
      BY <1>1, <1>2, <3>1, OneMoreTask, ZenonT(30)
    <3> QED BY <1>2, <3>2
  <2> QED BY <2>2, <2>3, Zenon
<1>6. granted \in [LeaseKeys -> Nat] /\ granted[key] \in Nat
      /\ granted[key] + Len(tasks') - Len(tasks) = granted[key] + more
  <2>1. granted \in [LeaseKeys -> Nat] /\ granted[key] \in Nat
    BY Zenon DEF LessorInv, LessorType
  <2> QED BY <1>2, <1>4, <2>1
<1> HIDE DEF more
<1>7. granted[key] + more \in Nat
  BY <1>5, <1>6
<1>8. /\ lessRep' \in [LeaseKeys -> Int \cup {Absent}]
      /\ granted' \in [LeaseKeys -> Nat] /\ late' \in [LeaseKeys -> Nat]
      /\ watch' \in [LeaseKeys -> Nat]
      /\ \A k \in LeaseKeys :
           /\ lessRep'[k] = IF k = key THEN w ELSE lessRep[k]
           /\ granted'[k] = IF k = key THEN granted[k] + more ELSE granted[k]
           /\ late'[k] = IF k = key THEN 0 ELSE late[k]
           /\ watch'[k] = IF k = key THEN last ELSE watch[k]
  <2>1. /\ lessRep \in [LeaseKeys -> Int \cup {Absent}] /\ watch \in [LeaseKeys -> Nat]
        /\ late \in [LeaseKeys -> Nat]
    BY Zenon DEF LessorInv, LessorType
  <2>2. /\ lessRep' \in [LeaseKeys -> Int \cup {Absent}]
        /\ \A k \in LeaseKeys : lessRep'[k] = IF k = key THEN w ELSE lessRep[k]
    BY <1>0, <1>3, <2>1, Zenon
  <2>3. granted' = [granted EXCEPT ![key] = granted[key] + more]
    BY <1>3, <1>6, Zenon
  <2>4. /\ granted' \in [LeaseKeys -> Nat]
        /\ \A k \in LeaseKeys : granted'[k] = IF k = key THEN granted[k] + more ELSE granted[k]
    BY <1>6, <1>7, <2>3, Zenon
  <2>5. 0 \in Nat /\ last \in Nat
    BY <1>4
  <2>6. /\ late' \in [LeaseKeys -> Nat] /\ watch' \in [LeaseKeys -> Nat]
        /\ \A k \in LeaseKeys :
             /\ late'[k] = IF k = key THEN 0 ELSE late[k]
             /\ watch'[k] = IF k = key THEN last ELSE watch[k]
    BY <1>3, <2>1, <2>5, Zenon
  <2> QED BY <2>2, <2>4, <2>6, Zenon
<1>10. ASSUME NEW k \in LeaseKeys
       PROVE  /\ told'[k] + InHand(k)' + Cardinality(Live(k)') <= granted'[k]
              /\ lessRep'[k] = Absent => late'[k] + UnderWay(k)' <= had'[k]
  <2>1. InHand(k)' = InHand(k) /\ InHand(k) \in Nat
    BY <1>3, Zenon DEF InHand
  <2>2. Cardinality(Live(k)) \in Nat
    BY <1>2, TasksFinite, ZenonT(30)
  <2>4. told[k] \in Nat /\ granted[k] \in Nat
    BY Zenon DEF LessorInv, LessorType
  <2>5. /\ told[k] + InHand(k) + Cardinality(Live(k)) <= granted[k]
        /\ lessRep[k] = Absent => late[k] + UnderWay(k) <= had[k]
    BY ZenonT(30) DEF LessorInv, ReportsBounded
  <2>6. told[k] + InHand(k) + Cardinality(Live(k)') <= granted'[k]
    <3>1. CASE k = key
      <4>1. granted'[k] = granted[k] + more /\ Cardinality(Live(k)') = Cardinality(Live(k)) + more
        BY <1>5, <1>8, <3>1, Zenon
      <4> QED BY <1>5, <2>1, <2>2, <2>4, <2>5, <4>1, SMTT(30)
    <3>2. CASE k # key
      BY <1>4, <1>8, <2>5, <3>2, ZenonT(30)
    <3> QED BY <3>1, <3>2, ZenonT(30)
  <2>7. UnderWay(k)' = UnderWay(k)
    BY <1>4, <2>1, Zenon DEF UnderWay
  <2> QED
    BY <1>0, <1>3, <1>8, <2>1, <2>5, <2>6, <2>7, ZenonT(30)
<1>11. ReportsBounded'
  BY <1>10, Zenon DEF ReportsBounded
<1>12. LessorType'
  <2>1. \A k \in LeaseKeys : watch'[k] = 0 \/ watch'[k] \in DOMAIN tasks'
    BY <1>4, <1>8, Zenon DEF LessorInv, LessorType
  <2> QED BY <1>3, <1>4, <1>8, <2>1, ZenonT(30) DEF LessorInv, LessorType
<1>13. \A k \in LeaseKeys : lessRep'[k] # Absent => late'[k] = 0
  BY <1>8, Zenon DEF LessorInv
<1>14. LeaseIsWatched'
  <2> SUFFICES ASSUME NEW k \in LeaseKeys, lessRep'[k] # Absent, watch'[k] # 0
               PROVE  tasks'[watch'[k]].key = k /\ tasks'[watch'[k]].at # "dropped"
    BY Zenon DEF LeaseIsWatched
  <2>1. CASE k = key
    BY <1>1, <1>4, <1>8, <2>1, Zenon
  <2>2. CASE k # key
    <3>1. watch'[k] = watch[k] /\ lessRep[k] # Absent /\ watch[k] \in DOMAIN tasks
      BY <1>8, <2>2, Zenon DEF LessorInv, LessorType
    <3> QED BY <1>4, <3>1, ZenonT(30) DEF LessorInv, LeaseIsWatched
  <2> QED BY <2>1, <2>2, Zenon
<1> QED
  BY <1>11, <1>12, <1>13, <1>14, Zenon DEF LessorInv

(* RenewLess moves the deadline of a key, and schedules no task.              *)
LEMMA RenewKeeps ==
  ASSUME LessorInv, NEW key \in LeaseKeys, RenewLess(key)
  PROVE  LessorInv'
<1> DEFINE w == Wrap(Lease * Second + lessRep[key], Half)
<1>1. lessRep[key] \in Int /\ lessRep[key] # Absent
  BY Zenon DEF RenewLess, LessorInv, LessorType
<1>2. UNCHANGED <<now, tasks, loop, history>>
      /\ lessRep' = [lessRep EXCEPT ![key] = w]
  BY ZenonT(30) DEF RenewLess
<1>3. w \in Int /\ w # Absent
  <2>1. Lease \in Nat /\ Second \in Nat /\ Half \in Nat \ {0}
    BY LessorAssumption, Zenon
  <2>2. Lease * Second + lessRep[key] \in Int
    BY <1>1, <2>1
  <2>3. w \in Int
    BY <2>1, <2>2, WrapInt, Zenon
  <2> QED BY <2>3, LessorAssumption, Zenon
<1> HIDE DEF w
<1>5. /\ lessRep' \in [LeaseKeys -> Int \cup {Absent}]
      /\ \A k \in LeaseKeys : (lessRep'[k] = Absent) <=> (lessRep[k] = Absent)
  BY <1>1, <1>2, <1>3, Zenon DEF LessorInv, LessorType
<1>6. \A k \in LeaseKeys : UnderWay(k)' = UnderWay(k) /\ Live(k)' = Live(k)
                            /\ InHand(k)' = InHand(k)
  BY <1>2, Zenon DEF UnderWay, Live, InHand, Sending
<1>7. ReportsBounded'
  BY <1>2, <1>5, <1>6, ZenonT(30) DEF LessorInv, ReportsBounded, history
<1>8. LessorType'
  BY <1>2, <1>5, Zenon DEF LessorInv, LessorType, history
<1>9. LeaseIsWatched'
  BY <1>2, <1>5, Zenon DEF LessorInv, LeaseIsWatched, history
<1>10. \A k \in LeaseKeys : lessRep'[k] # Absent => late'[k] = 0
  BY <1>2, <1>5, Zenon DEF LessorInv, history
<1> QED
  BY <1>7, <1>8, <1>9, <1>10, Zenon DEF LessorInv

(* What is under way when a lease is revoked bounds what comes late.          *)
LEMMA RevokeKeeps ==
  ASSUME LessorInv, NEW key \in LeaseKeys, RevokeLess(key)
  PROVE  LessorInv'
<1>1. lessRep[key] # Absent /\ late[key] = 0
  BY Zenon DEF RevokeLess, LessorInv
<1>2. UNCHANGED <<now, tasks, loop, watch, granted, told, late>>
  BY Zenon DEF RevokeLess
<1>3. UnderWay(key) \in Nat
  BY TasksFinite, SMTT(30) DEF UnderWay, InHand, LessorInv, LessorType
<1>4. /\ lessRep' \in [LeaseKeys -> Int \cup {Absent}] /\ had' \in [LeaseKeys -> Nat]
      /\ \A k \in LeaseKeys : lessRep'[k] = IF k = key THEN Absent ELSE lessRep[k]
      /\ \A k \in LeaseKeys : had'[k] = IF k = key THEN UnderWay(k) ELSE had[k]
  BY <1>3, Zenon DEF RevokeLess, LessorInv, LessorType
<1>5. \A k \in LeaseKeys : UnderWay(k)' = UnderWay(k) /\ Live(k)' = Live(k)
                            /\ InHand(k)' = InHand(k)
  BY <1>2, Zenon DEF UnderWay, Live, InHand, Sending
<1>6. \A k \in LeaseKeys : lessRep'[k] = Absent => late'[k] + UnderWay(k)' <= had'[k]
  BY <1>1, <1>2, <1>3, <1>4, <1>5, SMTT(30) DEF LessorInv, ReportsBounded
<1>7. \A k \in LeaseKeys : told'[k] + InHand(k)' + Cardinality(Live(k)') <= granted'[k]
  BY <1>2, <1>5, Zenon DEF LessorInv, ReportsBounded
<1>8. LessorType'
  BY <1>2, <1>4, Zenon DEF LessorInv, LessorType
<1>9. \A k \in LeaseKeys : lessRep'[k] # Absent => late'[k] = 0
  BY <1>2, <1>4, Zenon DEF LessorInv
<1>11. LeaseIsWatched'
  BY <1>2, <1>4, Zenon DEF LessorInv, LeaseIsWatched
<1>10. ReportsBounded'
  BY <1>6, <1>7, Zenon DEF ReportsBounded
<1> QED
  BY <1>8, <1>9, <1>10, <1>11, Zenon DEF LessorInv

(* The other steps move neither tasks nor reports.                            *)
LEMMA LoopMoves ==
  ASSUME LessorInv, UNCHANGED <<now, lessRep, tasks, history>>,
         \/ loop' = loop
         \/ loop.at = "select" /\ loop' = [loop EXCEPT !.at = "end"]
         \/ loop.at = "got" /\ loop' = [loop EXCEPT !.at = "notify"]
  PROVE  LessorInv'
<1>1. loop' \in [at : {"select", "got", "notify", "end"}, key : LeaseKeys \cup {Absent}]
      /\ (loop'.at \in {"got", "notify"} => loop'.key \in LeaseKeys)
  BY Zenon DEF LessorInv, LessorType
<1>2. loop'.key = loop.key /\ (loop'.at \in {"got", "notify"} <=> loop.at \in {"got", "notify"})
  BY Zenon DEF LessorInv, LessorType
<1>3. \A k \in LeaseKeys : UnderWay(k)' = UnderWay(k) /\ Live(k)' = Live(k)
                            /\ InHand(k)' = InHand(k)
  BY <1>2, Zenon DEF UnderWay, Live, InHand, Sending
<1>4. LessorType'
  BY <1>1, Zenon DEF LessorInv, LessorType, history
<1>5. ReportsBounded'
  BY <1>3, Zenon DEF LessorInv, ReportsBounded, history
<1>6. LeaseIsWatched'
  BY Zenon DEF LessorInv, LeaseIsWatched, history
<1> QED
  BY <1>4, <1>5, <1>6, Zenon DEF LessorInv, history

(* The clock advances.                                                        *)
LEMMA TickKeeps ==
  ASSUME LessorInv, Elapse
  PROVE  LessorInv'
<1>1. now' \in Nat /\ UNCHANGED <<lessRep, tasks, loop, history>>
  BY DEF Elapse, LessorInv, LessorType
<1>2. \A k \in LeaseKeys : UnderWay(k)' = UnderWay(k) /\ Live(k)' = Live(k)
                            /\ InHand(k)' = InHand(k)
  BY <1>1, Zenon DEF UnderWay, Live, InHand, Sending
<1>3. LessorType'
  BY <1>1, Zenon DEF LessorInv, LessorType, history
<1>4. ReportsBounded'
  BY <1>1, <1>2, Zenon DEF LessorInv, ReportsBounded, history
<1>5. LeaseIsWatched'
  BY <1>1, Zenon DEF LessorInv, LeaseIsWatched, history
<1> QED
  BY <1>1, <1>3, <1>4, <1>5, Zenon DEF LessorInv, history

(* Every step of the lessor keeps the invariant.                              *)
LEMMA LessorInductive == LessorInv /\ [LessorNext]_lessorVars => LessorInv'
<1> SUFFICES ASSUME LessorInv, [LessorNext]_lessorVars PROVE LessorInv'
  OBVIOUS
<1>0. /\ \A t \in DOMAIN tasks : tasks[t] \in TaskType
      /\ tasks \in Seq(TaskType)
  BY TasksFinite, Zenon DEF LessorInv, LessorType
<1>1. ASSUME NEW k \in LeaseKeys, RenewLess(k) \/ RevokeLess(k) PROVE LessorInv'
  BY <1>1, RenewKeeps, RevokeKeeps, Zenon
<1>2. ASSUME NEW k \in LeaseKeys, NEW tick \in Ticks, GrantLess(k, tick) PROVE LessorInv'
  BY <1>2, GrantKeeps, Zenon
<1>3. ASSUME NEW t \in DOMAIN tasks, Fire(t) \/ RunLock(t) PROVE LessorInv'
  <2> DEFINE place == IF Fire(t) THEN "lock" ELSE "read"
             new == [tasks[t] EXCEPT !.at = place]
  <2>1. tasks' = [tasks EXCEPT ![t] = new] /\ UNCHANGED <<now, lessRep, loop, history>>
        /\ tasks[t].at \in {"wheel", "lock", "read"}
    BY <1>3, Zenon DEF Fire, RunLock, To
  <2>2. new \in TaskType /\ new.key = tasks[t].key /\ new.at \notin {"send", "dropped"}
    BY <1>0, Zenon DEF TaskType
  <2> HIDE DEF new
  <2> QED BY <2>1, <2>2, QuietMove, Zenon
<1>4. ASSUME NEW t \in DOMAIN tasks, RunRevoked(t) PROVE LessorInv'
  <2> DEFINE new == [tasks[t] EXCEPT !.at = "dropped"]
  <2>1. tasks' = [tasks EXCEPT ![t] = new] /\ UNCHANGED <<now, lessRep, loop, history>>
        /\ tasks[t].at \in {"wheel", "lock", "read"} /\ lessRep[tasks[t].key] = Absent
    BY <1>4, Zenon DEF RunRevoked, To
  <2>2. new \in TaskType /\ new.key = tasks[t].key /\ new.at # "send"
    BY <1>0, Zenon DEF TaskType
  <2> HIDE DEF new
  <2> QED BY <2>1, <2>2, QuietMove, Zenon
<1>5. ASSUME NEW t \in DOMAIN tasks, NEW tick \in Ticks, RunAgain(t, tick) PROVE LessorInv'
  <2> DEFINE k == tasks[t].key
             pos == Pos(lessRep[k], tick)
             new == OnWheel(k, pos, NegativeCircle(lessRep[k]))
  <2>1. UNCHANGED <<now, lessRep, loop, history>> /\ tasks[t].at \in {"wheel", "lock", "read"}
        /\ lessRep[k] # Absent /\ tasks' = IF pos < 0 THEN tasks ELSE [tasks EXCEPT ![t] = new]
    BY <1>5, Zenon DEF RunAgain
  <2>2. k \in LeaseKeys /\ lessRep[k] \in Int
    BY <1>0, <2>1, Zenon DEF TaskType, LessorInv, LessorType
  <2>3. new \in TaskType
    BY <2>2, WheelTask, Zenon
  <2>4. new.key = tasks[t].key /\ new.at \notin {"send", "dropped"}
    BY Zenon DEF OnWheel
  <2> HIDE DEF new, pos, k
  <2>5. CASE pos < 0
    BY <2>1, <2>5, LoopMoves, Zenon
  <2>6. CASE ~(pos < 0)
    BY <2>1, <2>3, <2>4, <2>6, QuietMove, Zenon
  <2> QED BY <2>5, <2>6, Zenon
<1>6. ASSUME NEW t \in DOMAIN tasks, RunDue(t) \/ Receive(t) PROVE LessorInv'
  BY <1>6, RunDueKeeps, ReceiveKeeps, ZenonT(30)
<1>7. CASE NotifyExpire
  BY <1>7, NotifyExpireKeeps, Zenon
<1>8. CASE ReceiveDone \/ NotifyLock \/ MapRace \/ AddWait \/ AddExpireWatcher \/ Contexts
  BY <1>8, LoopMoves, Zenon DEF ReceiveDone, NotifyLock, MapRace, AddWait, AddExpireWatcher, Contexts
<1>9. CASE Elapse
  BY <1>9, TickKeeps, Zenon
<1>10. CASE UNCHANGED lessorVars
  BY <1>10, LoopMoves, Zenon DEF lessorVars, history
<1> QED
  BY <1>1, <1>2, <1>3, <1>4, <1>5, <1>6, <1>7, <1>8, <1>9, <1>10, ZenonT(30) DEF LessorNext, Task

(* discovery_less.go:64-67, 79-84, 108-119, for any keys and any number of    *)
(* grants, renewals and revocations: a lease is reported at most once per     *)
(* grant, and after RevokeLess only by the reports that were under way.       *)
THEOREM LeasesReportOnce == LessorSpec => []ReportsBounded
<1>1. LessorInv => ReportsBounded
  BY ZenonT(30) DEF LessorInv
<1> QED
  BY <1>1, LessorInitially, LessorInductive, PTL DEF LessorSpec

(* discovery_less.go:58-68, 79-84, 105-119, for every length of the lease and *)
(* of the wheel and whatever overflows: the task of the last grant of a key   *)
(* gives up only after the key was revoked, also when old tasks of the key    *)
(* meet a new lease.                                                          *)
THEOREM LeasesAreWatched == LessorSpec => []LeaseIsWatched
<1>1. LessorInv => LeaseIsWatched
  BY Zenon DEF LessorInv
<1> QED
  BY <1>1, LessorInitially, LessorInductive, PTL DEF LessorSpec
=============================================================================
