--------------------------- MODULE ClusterProofs ----------------------------
(***************************************************************************)
(* The cluster, in three independent parts: the member table of            *)
(* ServerClusterManager and what its subscribers are told, for any         *)
(* addresses, lists and reports; the NodeHosts of RaftProtocol, for any    *)
(* groups and callers; and the replicas of RaftGroup, for any replicas and *)
(* entries.                                                                *)
(***************************************************************************)
EXTENDS ClusterManager, RaftProtocol, RaftGroup, TLAPS

(* Sequences. *)

(* A sequence is a function on the numbers up to its length.                  *)
LEMMA LenProperties ==
  ASSUME NEW Elt, NEW seq \in Seq(Elt)
  PROVE  Len(seq) \in Nat /\ DOMAIN seq = 1 .. Len(seq) /\ seq \in [1 .. Len(seq) -> Elt]
OBVIOUS

(* The elements of a sequence over a set are in the set.                      *)
LEMMA ElementOfSeq ==
  ASSUME NEW Elt, NEW seq \in Seq(Elt), NEW i \in 1 .. Len(seq)
  PROVE  seq[i] \in Elt
OBVIOUS

(* Append makes the sequence longer by its last element.                      *)
LEMMA AppendProperties ==
  ASSUME NEW Elt, NEW seq \in Seq(Elt), NEW e \in Elt
  PROVE  /\ Append(seq, e) \in Seq(Elt) /\ Append(seq, e) # <<>>
         /\ Len(Append(seq, e)) = Len(seq) + 1
         /\ \A i \in 1 .. Len(seq) : Append(seq, e)[i] = seq[i]
         /\ Append(seq, e)[Len(seq) + 1] = e
OBVIOUS

(* The elements of a subsequence.                                             *)
LEMMA SubSeqProperties ==
  ASSUME NEW Elt, NEW s, NEW m \in Int, NEW n \in Int, \A i \in m .. n : s[i] \in Elt
  PROVE  /\ SubSeq(s, m, n) \in Seq(Elt)
         /\ Len(SubSeq(s, m, n)) = IF m <= n THEN n - m + 1 ELSE 0
         /\ \A i \in 1 .. n - m + 1 : SubSeq(s, m, n)[i] = s[m + i - 1]
OBVIOUS

-----------------------------------------------------------------------------
(* The member table. *)

(* A member object that some list, or init, has made.                         *)
Made(o) == o[1] \in Addrs /\ o[2] \in Nat

ClusterInv ==
  /\ table \in [Addrs -> Nat \cup {None}] /\ lists \in Nat /\ published \in Seq(SUBSET Addrs)
  /\ \A o \in waitReport : Made(o)
  /\ reporter = "update" => Made(target)
  /\ ~up => Keys = {} /\ published = <<>> /\ lock = Free
  /\ TableIsLatestList
  /\ AdditionsTold

(* The definitions a step that leaves the table alone is compared by.         *)
LEMMA TableKept ==
  ASSUME UNCHANGED <<table, latest, up, lock, published>>
  PROVE  /\ Keys' = Keys /\ LastTold' = LastTold
         /\ TableIsLatestList' <=> TableIsLatestList
         /\ AdditionsTold' <=> AdditionsTold
BY Zenon DEF Keys, LastTold, TableIsLatestList, AdditionsTold

(* init makes the table empty and tells nobody.                               *)
LEMMA ClusterInitially == Init => ClusterInv
<1> SUFFICES ASSUME Init PROVE ClusterInv
  OBVIOUS
<1>1. table \in [Addrs -> Nat \cup {None}] /\ Keys = {} /\ latest = {} /\ ~up
  BY Zenon DEF Init, Keys, None
<1>2. lists \in Nat /\ published = <<>> /\ waitReport = {} /\ reporter = "idle" /\ lock = Free
  BY Zenon DEF Init
<1> QED
  BY <1>1, <1>2 DEF ClusterInv, TableIsLatestList, AdditionsTold

(* Construct puts this server in the table, when the zero map takes it.       *)
LEMMA ConstructKeeps ==
  ASSUME ClusterInv, Construct
  PROVE  ClusterInv'
<1>1. ~up /\ Keys = {} /\ published = <<>> /\ lock = Free
      /\ table \in [Addrs -> Nat \cup {None}] /\ Self \in Addrs
  BY ClusterAssumption, Zenon DEF Construct, ClusterInv
<1>2. UNCHANGED <<lists, published, waitReport, reporter, target, lock>>
  BY Zenon DEF Construct, reportVars
<1>3. CASE ZeroMapUsable
  <2>1. up' /\ table' = [table EXCEPT ![Self] = 0] /\ latest' = {Self}
    BY <1>3, Zenon DEF Construct
  <2>2. table' \in [Addrs -> Nat \cup {None}] /\ Keys' = {Self}
    BY <1>1, <2>1 DEF Keys, None
  <2>3. LastTold' = {Self}
    BY <1>1, <1>2, Zenon DEF LastTold
  <2>4. TableIsLatestList' /\ AdditionsTold'
    BY <2>1, <2>2, <2>3, Zenon DEF TableIsLatestList, AdditionsTold
  <2> QED BY <1>2, <2>1, <2>2, <2>4, Zenon DEF ClusterInv, Made
<1>4. CASE ~ZeroMapUsable
  <2>1. UNCHANGED <<table, latest>> /\ up' = FALSE
    BY <1>4, ClusterAssumption, Zenon DEF Construct, tableVars
  <2>2. Keys' = {} /\ TableIsLatestList' /\ AdditionsTold'
    BY <1>1, <2>1, Zenon DEF ClusterInv, Keys, TableIsLatestList, AdditionsTold
  <2> QED BY <1>1, <1>2, <2>1, <2>2, Zenon DEF ClusterInv, Made
<1> QED
  BY <1>3, <1>4, Zenon

(* Who holds the lock publishes the table as it is and unlocks.               *)
LEMMA NotifyKeeps ==
  ASSUME ClusterInv, NEW p \in Changers \cup {Reporter}, notifySubscriber(p),
         UNCHANGED <<table, latest, lists, up>>,
         waitReport' \subseteq waitReport, reporter' = "update" => reporter = "update" /\ target' = target
  PROVE  ClusterInv'
<1>1. lock = p /\ p # Free /\ up
  BY ClusterAssumption, Zenon DEF notifySubscriber, ClusterInv, Free, Reporter
<1>2. Keys' = Keys /\ Keys \in SUBSET Addrs
  BY Zenon DEF Keys
<1>3. published' = Append(published, Keys) /\ published \in Seq(SUBSET Addrs)
  BY Zenon DEF notifySubscriber, ClusterInv
<1>4. /\ published' \in Seq(SUBSET Addrs) /\ published' # <<>>
      /\ published'[Len(published')] = Keys
  <2>1. /\ published' \in Seq(SUBSET Addrs) /\ Len(published') = Len(published) + 1
        /\ published'[Len(published) + 1] = Keys
    BY <1>2, <1>3, AppendProperties
  <2>2. Len(published) \in Nat /\ Len(<<>>) = 0
    BY <1>3, LenProperties, Zenon
  <2> QED BY <2>1, <2>2
<1>5. LastTold' = Keys
  BY <1>4, Zenon DEF LastTold
<1>6. TableIsLatestList' /\ AdditionsTold'
  BY <1>2, <1>5, Zenon DEF ClusterInv, TableIsLatestList, AdditionsTold
<1> QED
  BY <1>1, <1>4, <1>6, Zenon DEF ClusterInv, Made

(* MemberChange: the table becomes the list.  Where it does not notify, every *)
(* address of the list was in the table already.                              *)
LEMMA MemberChangeKeeps ==
  ASSUME ClusterInv, NEW c \in Changers, NEW l \in Lists, MemberChange(c, l)
  PROVE  ClusterInv'
<1>1. /\ up /\ up' /\ lists \in Nat /\ lists' = lists + 1 /\ lock = Free
      /\ UNCHANGED <<published, waitReport, reporter, target>>
  BY Zenon DEF MemberChange, ClusterInv, reportVars, LockFree
<1>2. lists' \in Nat /\ lists' # None
  BY <1>1 DEF None
<1>3. CASE HasNil(l)
  <2>1. UNCHANGED <<table, latest, lock>>
    BY <1>3, Zenon DEF MemberChange, tableVars
  <2> QED BY <1>1, <1>2, <2>1, TableKept, Zenon DEF ClusterInv, Made
<1>4. CASE ~HasNil(l)
  <2>1. /\ table' = [a \in Addrs |-> IF a \in Range(l) THEN lists' ELSE None]
        /\ latest' = Range(l)
        /\ IF HasChanged(l) THEN lock' = c ELSE lock' = lock
    BY <1>1, <1>4, Zenon DEF MemberChange
  <2>2. Range(l) \subseteq Addrs
    <3>1. l \in Seq(Addrs \cup {NilMember})
      BY ClusterAssumption, Zenon
    <3>2. Range(l) \subseteq Addrs \cup {NilMember}
      BY <3>1, ElementOfSeq, LenProperties, Zenon DEF Range
    <3> QED BY <1>4, <3>2, Zenon DEF HasNil
  <2>3. table' \in [Addrs -> Nat \cup {None}]
    BY <1>2, <2>1, Zenon DEF None
  <2>4. Keys' = Range(l)
    BY <1>2, <2>1, <2>2, Zenon DEF Keys
  <2>5. TableIsLatestList'
    BY <2>1, <2>4, Zenon DEF TableIsLatestList
  <2>6. AdditionsTold'
    <3> SUFFICES ASSUME lock' = Free PROVE Range(l) \subseteq LastTold'
      BY <2>4, Zenon DEF AdditionsTold
    <3>1. ~HasChanged(l)
      BY <2>1, ClusterAssumption, Zenon DEF Free
    <3>2. Range(l) \subseteq Keys
      BY <3>1, Zenon DEF HasChanged
    <3>3. LastTold' = LastTold /\ Keys \subseteq LastTold
      BY <1>1, Zenon DEF LastTold, ClusterInv, AdditionsTold
    <3> QED BY <3>2, <3>3, Zenon
  <2> QED BY <1>1, <1>2, <2>3, <2>5, <2>6, Zenon DEF ClusterInv, Made
<1> QED
  BY <1>3, <1>4, Zenon

(* KRandomMember picks from the members of the table.                         *)
LEMMA SelectKeeps ==
  ASSUME ClusterInv, Select
  PROVE  ClusterInv'
<1>1. UNCHANGED <<table, latest, up, lock, published, lists, target>> /\ reporter' # "update"
  BY Zenon DEF Select, tableVars
<1>2. waitReport' \subseteq Collected
  BY Zenon DEF Select, KRandomMember, Fit
<1>3. ASSUME NEW o \in Collected PROVE Made(o)
  <2>1. PICK a \in Keys : o = <<a, table[a]>>
    BY Zenon DEF Collected
  <2>2. a \in Addrs /\ table[a] \in Nat
    BY <2>1, Zenon DEF Keys, ClusterInv
  <2> QED BY <2>1, <2>2, Zenon DEF Made
<1>4. \A o \in waitReport' : Made(o)
  BY <1>2, <1>3, Zenon
<1> QED
  BY <1>1, <1>4, TableKept, Zenon DEF ClusterInv, Made

(* The other steps of the reporting task that leave the table alone.          *)
LEMMA ReportKeeps ==
  ASSUME ClusterInv,
         ReadSize \/ SelectPanics \/ \E o \in Objects : Report(o) \/ ReportRejected(o)
  PROVE  ClusterInv'
<1>1. UNCHANGED <<table, latest, up, lock, published, lists>> /\ waitReport' \subseteq waitReport
  BY Zenon DEF ReadSize, SelectPanics, Report, ReportRejected, tableVars
<1>2. reporter' = "update" => target' \in waitReport
  BY Zenon DEF ReadSize, SelectPanics, Report, ReportRejected
<1> QED
  BY <1>1, <1>2, TableKept, Zenon DEF ClusterInv, Made

(* UpdateMember replaces the object of an address that is in the table, and   *)
(* holds the lock then; an address that has left it is not put back.          *)
LEMMA UpdateMemberKeeps ==
  ASSUME ClusterInv, UpdateMember
  PROVE  ClusterInv'
<1>1. /\ UNCHANGED <<latest, up, published, lists, waitReport>> /\ reporter' # "update"
      /\ Made(target)
  BY Zenon DEF UpdateMember, ClusterInv, NextReport
<1>2. CASE Known(target[1])
  <2>1. /\ table' = [table EXCEPT ![target[1]] = target[2]] /\ lock' = Reporter
        /\ target[1] \in Keys
    BY <1>2, Zenon DEF UpdateMember, Known
  <2>2. table \in [Addrs -> Nat \cup {None}] /\ target[1] \in Addrs /\ target[2] \in Nat
    BY <1>1, Zenon DEF ClusterInv, Made
  <2>3. target[2] # None
    BY <2>2 DEF None
  <2>4. table' \in [Addrs -> Nat \cup {None}] /\ Keys' = Keys
    BY <2>1, <2>2, <2>3, Zenon DEF Keys
  <2>5. TableIsLatestList' /\ AdditionsTold' /\ up
    BY <1>1, <2>1, <2>4, Zenon DEF ClusterInv, TableIsLatestList, AdditionsTold, Free, Reporter
  <2> QED BY <1>1, <2>4, <2>5, Zenon DEF ClusterInv, Made
<1>3. CASE ~Known(target[1])
  <2>1. UNCHANGED <<table, lock>>
    BY <1>3, Zenon DEF UpdateMember
  <2> QED BY <1>1, <2>1, TableKept, Zenon DEF ClusterInv, Made
<1> QED
  BY <1>2, <1>3, Zenon

(* Every step preserves the invariant.                                        *)
LEMMA ClusterInductive == ClusterInv /\ [Next]_vars => ClusterInv'
<1> SUFFICES ASSUME ClusterInv, [Next]_vars PROVE ClusterInv'
  OBVIOUS
<1>1. ASSUME NEW c \in Changers, NotifyChange(c) PROVE ClusterInv'
  BY <1>1, NotifyKeeps, Zenon DEF NotifyChange, tableVars, reportVars
<1>2. ASSUME NotifyUpdate PROVE ClusterInv'
  BY <1>2, NotifyKeeps, Zenon DEF NotifyUpdate, NextReport, tableVars
<1>3. ASSUME (\E s \in Subscribers : Subscribe(s)) \/ Handler \/ Tick \/ UNCHANGED vars
      PROVE  ClusterInv'
  <2>1. UNCHANGED <<up, tableVars, lock, reportVars, lists, published>>
    BY <1>3, Zenon DEF Subscribe, Handler, Tick, vars
  <2> QED BY <2>1, TableKept, Zenon DEF ClusterInv, Made, tableVars, reportVars
<1> QED
  BY <1>1, <1>2, <1>3, ConstructKeeps, MemberChangeKeeps, SelectKeeps, ReportKeeps,
     UpdateMemberKeeps, Zenon DEF Next, ReporterStep

(* UpdateMember, member_manager.go: the report of a member that a lookup has  *)
(* dropped meanwhile does not bring it back, whatever the lists.              *)
THEOREM DroppedStaysDropped == Spec => []TableIsLatestList
<1>1. ClusterInv => TableIsLatestList
  BY Zenon DEF ClusterInv
<1> QED
  BY <1>1, ClusterInitially, ClusterInductive, PTL DEF Spec

(* MemberChange, member_manager.go: while nobody holds the lock, subscribers  *)
(* have been told of every member of the table.                               *)
THEOREM MembersAreTold == Spec => []AdditionsTold
<1>1. ClusterInv => AdditionsTold
  BY Zenon DEF ClusterInv
<1> QED
  BY <1>1, ClusterInitially, ClusterInductive, PTL DEF Spec

-----------------------------------------------------------------------------
(* An orphaned NodeHost stays, and stops every later AddProcessor. *)

Opening(a) == adding[a].at \in {"start", "put"}

(* Running NodeHosts are one at most, as they share an address; and a call   *)
(* of AddProcessor between NewNodeHost and the map owns a running NodeHost   *)
(* that neither a server nor another call has.                               *)
RegistryInv ==
  /\ RegistryTypeOK
  /\ \A a \in Callers : adding[a].at # "idle" => adding[a].rest # <<>>
  /\ \A h, k \in DOMAIN hosts : hosts[h].up /\ hosts[k].up => h = k
  /\ \A a \in Callers : Opening(a) =>
       /\ adding[a].host \in DOMAIN hosts
       /\ hosts[adding[a].host].up
       /\ \A g \in Groups : servers[g] # adding[a].host
       /\ \A b \in Callers \ {a} : Opening(b) => adding[b].host # adding[a].host
  /\ \A g \in shutdown.rest : servers[g] # 0

(* The invariant holds initially: nothing is open.                           *)
LEMMA InitEstablishes == RegistryInit => RegistryInv
BY DEF RegistryInit, RegistryInv, RegistryTypeOK, Opening, Idle, Call, NotShutting

(* A step of AddProcessor before the map keeps the invariant.                *)
LEMMA OpeningKeeps ==
  ASSUME RegistryInv, NEW a \in Callers,
         \/ \E batch \in Batches : AddProcessor(a, batch)
         \/ ServerInit(a) \/ ServerInitFails(a)
         \/ ServerStart(a) \/ ServerStartFails(a)
  PROVE  RegistryInv'
<1>1. CASE \E batch \in Batches : AddProcessor(a, batch)
  <2>1. PICK batch \in Batches : AddProcessor(a, batch)
    BY <1>1, Zenon
  <2>2. batch \in Seq(Groups) /\ batch # <<>>
    BY BatchesAssumption, Zenon
  <2>3. adding' = [adding EXCEPT ![a] = [at |-> "init", rest |-> batch, host |-> 0]]
    BY <2>1, Zenon DEF AddProcessor, Call
  <2>4. UNCHANGED <<hosts, servers, shutdown>>
    BY <2>1, Zenon DEF AddProcessor
  <2> QED
    BY <2>2, <2>3, <2>4 DEF RegistryInv, RegistryTypeOK, Opening
<1>2. CASE ServerInit(a)
  <2> DEFINE new == Len(hosts) + 1
  <2>1. /\ hosts \in Seq([group : Groups, up : BOOLEAN])
        /\ Group(a) \in Groups
    BY <1>2 DEF ServerInit, AddAt, RegistryInv, RegistryTypeOK, Group
  <2>2. /\ hosts' \in Seq([group : Groups, up : BOOLEAN])
        /\ Len(hosts') = new
        /\ hosts'[new].up
        /\ \A h \in DOMAIN hosts : hosts'[h] = hosts[h] /\ ~hosts[h].up
        /\ DOMAIN hosts' = DOMAIN hosts \cup {new}
        /\ new \notin DOMAIN hosts
    BY <1>2, <2>1 DEF ServerInit, AddressFree
  <2>3. \A b \in Callers : b # a => ~Opening(b)
    BY <1>2, <2>2, Zenon DEF RegistryInv
  <2>4. /\ adding' = [adding EXCEPT ![a] = [at |-> "start", rest |-> adding[a].rest, host |-> new]]
        /\ UNCHANGED <<servers, shutdown>>
    BY <1>2, Zenon DEF ServerInit, Call
  <2>5. RegistryTypeOK'
    BY <2>1, <2>2, <2>4 DEF RegistryInv, RegistryTypeOK
  <2>6. \A g \in Groups : servers[g] # new
    BY <2>1 DEF RegistryInv, RegistryTypeOK
  <2>7. \A b \in Callers : Opening(b)' => b = a
    BY <2>3, <2>4, Zenon DEF Opening, RegistryInv, RegistryTypeOK
  <2>8. adding'[a].host = new
    BY <2>4, ZenonT(30) DEF RegistryInv, RegistryTypeOK
  <2>9. \A b \in Callers : adding'[b].at # "idle" => adding'[b].rest # <<>>
    BY <1>2, <2>4 DEF RegistryInv, RegistryTypeOK, ServerInit, AddAt
  <2> HIDE DEF new
  <2>10. \A h, k \in DOMAIN hosts' : hosts'[h].up /\ hosts'[k].up => h = k
    BY <2>2, Zenon
  <2>11. \A b \in Callers : Opening(b)' =>
           /\ adding'[b].host \in DOMAIN hosts'
           /\ hosts'[adding'[b].host].up
           /\ \A g \in Groups : servers'[g] # adding'[b].host
           /\ \A c \in Callers \ {b} : Opening(c)' => adding'[c].host # adding'[b].host
    BY <2>2, <2>4, <2>6, <2>7, <2>8, Zenon
  <2> QED
    BY <2>4, <2>5, <2>9, <2>10, <2>11, Zenon DEF RegistryInv
<1>3. CASE ServerInitFails(a)
  BY <1>3 DEF ServerInitFails, Return, RegistryInv, RegistryTypeOK, Opening, Idle, Call
<1>4. CASE ServerStart(a)
  BY <1>4 DEF ServerStart, Call, AddAt, RegistryInv, RegistryTypeOK, Opening
<1>5. CASE ServerStartFails(a)
  BY <1>5 DEF ServerStartFails, Return, RegistryInv, RegistryTypeOK, Opening, Idle, Call
<1> QED BY <1>1, <1>2, <1>3, <1>4, <1>5, Zenon

(* Entering a server in the map keeps the invariant.                         *)
LEMMA PutKeeps ==
  ASSUME RegistryInv, NEW a \in Callers, PutServer(a)
  PROVE  RegistryInv'
<1>1. /\ Opening(a) /\ Group(a) \in Groups
      /\ adding[a].rest \in Seq(Groups) /\ adding[a].rest # <<>>
  BY DEF PutServer, AddAt, Opening, Group, RegistryInv, RegistryTypeOK
<1>2. /\ servers' = [servers EXCEPT ![Group(a)] = adding[a].host]
      /\ UNCHANGED <<hosts, shutdown>>
  BY Zenon DEF PutServer
<1>3. \A b \in Callers : b # a => adding'[b] = adding[b]
  BY Zenon DEF PutServer, RegistryInv, RegistryTypeOK
<1>4. /\ adding'[a] \in [at : {"idle", "init", "start", "put"}, rest : Seq(Groups), host : {0}]
      /\ adding'[a].at \in {"idle", "init"}
      /\ adding'[a].at # "idle" => adding'[a].rest # <<>>
  <2>1. CASE Len(adding[a].rest) = 1
    BY <1>1, <2>1 DEF PutServer, Idle, Call, RegistryInv, RegistryTypeOK
  <2>2. CASE Len(adding[a].rest) # 1
    <3>1. Tail(adding[a].rest) \in Seq(Groups) /\ Tail(adding[a].rest) # <<>>
      <4> DEFINE r == adding[a].rest
      <4>1. r \in Seq(Groups) /\ r # <<>> /\ Len(r) # 1
        BY <1>1, <2>2, Zenon
      <4> HIDE DEF r
      <4>2. Len(r) \in Nat /\ Len(r) # 0
        BY <4>1
      <4>3. Tail(r) \in Seq(Groups) /\ Len(Tail(r)) = Len(r) - 1
        BY <4>1, <4>2
      <4>4. Len(Tail(r)) # 0
        BY <4>1, <4>2, <4>3
      <4>5. Len(<<>>) = 0
        OBVIOUS
      <4>6. Tail(r) # <<>>
        BY <4>4, <4>5, Zenon
      <4> QED BY <4>3, <4>6, Zenon DEF r
    <3>2. adding'[a] = [at |-> "init", rest |-> Tail(adding[a].rest), host |-> 0]
      BY <2>2, Zenon DEF PutServer, Call, RegistryInv, RegistryTypeOK
    <3> QED BY <3>1, <3>2
  <2> QED BY <2>1, <2>2, Zenon
<1>5. adding' \in [Callers -> [at : {"idle", "init", "start", "put"}, rest : Seq(Groups),
                            host : 0 .. Len(hosts)]]
  BY <1>3, <1>4 DEF PutServer, RegistryInv, RegistryTypeOK
<1>6. RegistryTypeOK'
  BY <1>1, <1>2, <1>5, ZenonT(30) DEF RegistryInv, RegistryTypeOK
<1>7. \A b \in Callers : adding'[b].at # "idle" => adding'[b].rest # <<>>
  BY <1>3, <1>4 DEF RegistryInv
<1>8. \A b \in Callers : Opening(b)' => b # a /\ Opening(b) /\ adding'[b] = adding[b]
  BY <1>3, <1>4, Zenon DEF Opening
<1>9. \A b \in Callers, g \in Groups : Opening(b)' => servers'[g] # adding'[b].host
  BY <1>1, <1>2, <1>8, Zenon DEF RegistryInv, RegistryTypeOK
<1>10. \A g \in shutdown'.rest : servers'[g] # 0
  BY <1>1, <1>2 DEF RegistryInv, RegistryTypeOK
<1> QED
  BY <1>2, <1>6, <1>7, <1>8, <1>9, <1>10, Zenon DEF RegistryInv

(* Closing a server in Shutdown keeps the invariant.                         *)
LEMMA CloseKeeps ==
  ASSUME RegistryInv, NEW g \in Groups, CloseServer(g)
  PROVE  RegistryInv'
<1>1. servers[g] \in 1 .. Len(hosts) /\ DOMAIN hosts = 1 .. Len(hosts)
  BY DEF CloseServer, RegistryInv, RegistryTypeOK
<1>2. /\ hosts' \in Seq([group : Groups, up : BOOLEAN])
      /\ DOMAIN hosts' = DOMAIN hosts /\ Len(hosts') = Len(hosts)
      /\ \A h \in DOMAIN hosts : h # servers[g] => hosts'[h] = hosts[h]
      /\ ~hosts'[servers[g]].up
  <2>1. hosts \in Seq([group : Groups, up : BOOLEAN])
    BY Zenon DEF RegistryInv, RegistryTypeOK
  <2>2. hosts' = [hosts EXCEPT ![servers[g]] = [group |-> hosts[servers[g]].group, up |-> FALSE]]
    BY Zenon DEF CloseServer
  <2>3. [group |-> hosts[servers[g]].group, up |-> FALSE] \in [group : Groups, up : BOOLEAN]
    <3>1. hosts[servers[g]] \in [group : Groups, up : BOOLEAN]
      BY <1>1, <2>1, ElementOfSeq, Zenon
    <3>2. hosts[servers[g]].group \in Groups
      BY <3>1, Zenon
    <3> QED BY <3>2, Zenon
  <2> QED BY <1>1, <2>1, <2>2, <2>3
<1>3. shutdown'.rest \subseteq shutdown.rest /\ shutdown' \in [at : {"idle", "range"}, rest : SUBSET Groups]
  BY Zenon DEF CloseServer, RegistryInv, RegistryTypeOK
<1> QED
  BY <1>1, <1>2, <1>3 DEF CloseServer, RegistryInv, RegistryTypeOK, Opening

(* The invariant is inductive.                                               *)
LEMMA NextKeeps == RegistryInv /\ [RegistryNext]_registryVars => RegistryInv'
<1> SUFFICES ASSUME RegistryInv, [RegistryNext]_registryVars PROVE RegistryInv'
  OBVIOUS
<1>1. CASE Shutdown \/ ShutdownReturns \/ MembersChange \/ UNCHANGED registryVars
  BY <1>1, SMTT(30) DEF Shutdown, ShutdownReturns, MembersChange, NotShutting, registryVars,
              RegistryInv, RegistryTypeOK, Opening
<1>2. ASSUME NEW a \in Callers, MapRace(a) PROVE RegistryInv'
  BY <1>2, Zenon DEF MapRace, RegistryInv, RegistryTypeOK, Opening
<1>3. ASSUME NEW g \in Groups, CloseTwice(g) PROVE RegistryInv'
  BY <1>3 DEF CloseTwice, RegistryInv, RegistryTypeOK, Opening
<1> QED
  BY <1>1, <1>2, <1>3, OpeningKeeps, PutKeeps, CloseKeeps, ZenonT(30) DEF RegistryNext

(* An orphan survives every step, and no step enters a server past it.       *)
LEMMA OrphanStays ==
  ASSUME RegistryInv, [RegistryNext]_registryVars, NEW h \in DOMAIN hosts, Orphan(h)
  PROVE  Orphan(h)' /\ Len(hosts') = Len(hosts) /\ servers' = servers
<1> USE DEF RegistryInv, RegistryTypeOK, Orphan
<1>1. ASSUME NEW a \in Callers PROVE ~ServerInit(a) /\ ~PutServer(a)
  BY Zenon DEF ServerInit, AddressFree, PutServer, AddAt, Opening
<1>2. ASSUME NEW g \in Groups PROVE ~CloseServer(g)
  BY DEF CloseServer
<1>3. ASSUME NEW a \in Callers, NEW batch \in Batches, AddProcessor(a, batch)
      PROVE  Orphan(h)' /\ Len(hosts') = Len(hosts) /\ servers' = servers
  BY <1>3, Zenon DEF AddProcessor, Call
<1>4. ASSUME NEW a \in Callers,
             ServerInitFails(a) \/ ServerStart(a) \/ ServerStartFails(a) \/ MapRace(a)
      PROVE  Orphan(h)' /\ Len(hosts') = Len(hosts) /\ servers' = servers
  <2>1. CASE ServerInitFails(a) \/ ServerStartFails(a)
    <3>1. /\ adding' = [adding EXCEPT ![a] = [at |-> "idle", rest |-> <<>>, host |-> 0]]
          /\ hosts' = hosts /\ servers' = servers
      BY <2>1, Zenon DEF ServerInitFails, ServerStartFails, Return, Idle, Call
    <3> QED BY <3>1, Zenon
  <2>2. CASE ServerStart(a)
    BY <2>2, Zenon DEF ServerStart, Call, AddAt
  <2>3. CASE MapRace(a)
    BY <2>3, Zenon DEF MapRace
  <2> QED BY <1>4, <2>1, <2>2, <2>3, Zenon
<1>5. ASSUME NEW g \in Groups, CloseTwice(g)
      PROVE  Orphan(h)' /\ Len(hosts') = Len(hosts) /\ servers' = servers
  BY <1>5, Zenon DEF CloseTwice
<1>6. CASE Shutdown \/ ShutdownReturns \/ MembersChange \/ UNCHANGED registryVars
  BY <1>6, Zenon DEF Shutdown, ShutdownReturns, MembersChange, registryVars
<1> QED
  BY <1>1, <1>2, <1>3, <1>4, <1>5, <1>6, Zenon DEF RegistryNext

(* The NodeHost that a refused StartCluster leaves behind runs for ever and  *)
(* no later AddProcessor opens or enters another one.                        *)
THEOREM OrphanTheorem == RegistrySpec => OrphanForEver
<1>1. RegistryInv /\ [RegistryNext]_registryVars
        => [\A h \in DOMAIN hosts :
              Orphan(h) => /\ Orphan(h)'
                           /\ Len(hosts') = Len(hosts)
                           /\ servers' = servers]_registryVars
  BY OrphanStays, Zenon
<1> QED
  BY <1>1, InitEstablishes, NextKeeps, PTL DEF RegistrySpec, OrphanForEver

-----------------------------------------------------------------------------
(* What the replicas of a group give their processors. *)

GroupType ==
  /\ log \in Seq(UpdateKinds)
  /\ held \in [Nodes -> Nat] /\ first \in [Nodes -> Nat] /\ snapshot \in [Nodes -> Nat]
  /\ applied \in [Nodes -> Nat] /\ opened \in [Nodes -> Nat] /\ recovered \in [Nodes -> Nat]
  /\ wrapper \in [Nodes -> {"none", "open", "closed"}]
  /\ given \in [Nodes -> Seq(Nat)]

(* A replica with the log up to h, whose log is cut below f, with a snapshot  *)
(* of index s and a up to which entries are applied: what is applied and what *)
(* is in a snapshot is in the log, and the log above the snapshot is there.   *)
Reach(h, f, s, a) ==
  h <= Len(log) /\ a <= h /\ s <= h /\ f <= s + 1

(* What a wrapper has given the processor, behind the first o entries of g:   *)
(* ascending, from the entries up to a, and all of them above r.              *)
Handed(g, o, r, a) ==
  /\ \A i, j \in o + 1 .. Len(g) : i < j => g[i] < g[j]
  /\ \A i \in o + 1 .. Len(g) : 1 <= g[i] /\ g[i] <= a
  /\ \A k \in r + 1 .. a : \E i \in o + 1 .. Len(g) : g[i] = k

GroupInv ==
  /\ GroupType
  /\ \A n \in Nodes : Reach(held[n], first[n], snapshot[n], applied[n])
  /\ \A n \in Nodes : opened[n] <= Len(given[n])
  /\ \A n \in Nodes : wrapper[n] = "open" =>
       Handed(given[n], opened[n], recovered[n], applied[n])
  /\ NothingBehindAFailure

(* The invariant holds for an empty log.                                      *)
LEMMA GroupInitially == GroupInit => GroupInv
<1> SUFFICES ASSUME GroupInit PROVE GroupInv
  OBVIOUS
<1>1. GroupType
  BY DEF GroupInit, GroupType
<1>2. Len(log) = 0 /\ DOMAIN log = {}
  BY DEF GroupInit
<1>3. ASSUME NEW n \in Nodes
      PROVE  /\ Reach(held[n], first[n], snapshot[n], applied[n])
             /\ opened[n] <= Len(given[n]) /\ wrapper[n] # "open"
  BY <1>2 DEF GroupInit, Reach
<1>4. NothingBehindAFailure
  BY <1>2, Zenon DEF NothingBehindAFailure
<1> QED
  BY <1>1, <1>3, <1>4, Zenon DEF GroupInv

(* The types of the log and of what the replicas have of it.                  *)
LEMMA LogFacts ==
  ASSUME GroupInv
  PROVE  /\ log \in Seq(UpdateKinds) /\ Len(log) \in Nat /\ DOMAIN log = 1 .. Len(log)
         /\ \A n \in Nodes :
              /\ held[n] \in Nat /\ first[n] \in Nat /\ snapshot[n] \in Nat /\ applied[n] \in Nat
              /\ opened[n] \in Nat /\ recovered[n] \in Nat
              /\ given[n] \in Seq(Nat) /\ Len(given[n]) \in Nat
              /\ held[n] <= Len(log) /\ applied[n] <= held[n] /\ snapshot[n] <= held[n]
              /\ first[n] <= snapshot[n] + 1
              /\ opened[n] <= Len(given[n])
<1>1. log \in Seq(UpdateKinds) /\ Len(log) \in Nat /\ DOMAIN log = 1 .. Len(log)
  BY LenProperties, Zenon DEF GroupInv, GroupType
<1>2. ASSUME NEW n \in Nodes
      PROVE  /\ held[n] \in Nat /\ first[n] \in Nat /\ snapshot[n] \in Nat /\ applied[n] \in Nat
             /\ opened[n] \in Nat /\ recovered[n] \in Nat
             /\ given[n] \in Seq(Nat) /\ Len(given[n]) \in Nat
  BY LenProperties, Zenon DEF GroupInv, GroupType
<1>3. ASSUME NEW n \in Nodes
      PROVE  /\ held[n] <= Len(log) /\ applied[n] <= held[n] /\ snapshot[n] <= held[n]
             /\ first[n] <= snapshot[n] + 1 /\ opened[n] <= Len(given[n])
  BY Zenon DEF GroupInv, Reach
<1> QED
  BY <1>1, <1>2, <1>3, Zenon

(* A step of replica n alone, and the values it has after it.                 *)
Becomes(n, h, f, s, a, o, r, g, w) ==
  /\ UNCHANGED log
  /\ held' = [held EXCEPT ![n] = h] /\ first' = [first EXCEPT ![n] = f]
  /\ snapshot' = [snapshot EXCEPT ![n] = s] /\ applied' = [applied EXCEPT ![n] = a]
  /\ opened' = [opened EXCEPT ![n] = o] /\ recovered' = [recovered EXCEPT ![n] = r]
  /\ given' = [given EXCEPT ![n] = g] /\ wrapper' = [wrapper EXCEPT ![n] = w]

(* What GroupInv asks of the values of one replica.                           *)
ReplicaSound(h, f, s, a, o, r, g, w) ==
  /\ {h, f, s, a, o, r} \subseteq Nat /\ g \in Seq(Nat) /\ w \in {"none", "open", "closed"}
  /\ Reach(h, f, s, a) /\ o <= Len(g)
  /\ w = "open" => Handed(g, o, r, a)
  /\ \A i \in 1 .. Len(log) : log[i] # "write" => a < i /\ s < i

(* A step of one replica to sound values keeps the invariant.                 *)
LEMMA OneReplica ==
  ASSUME GroupInv, NEW n \in Nodes, NEW h, NEW f, NEW s, NEW a, NEW o, NEW r, NEW g, NEW w,
         Becomes(n, h, f, s, a, o, r, g, w), ReplicaSound(h, f, s, a, o, r, g, w)
  PROVE  GroupInv'
<1> USE DEF Becomes, ReplicaSound
<1>1. GroupType'
  BY Zenon DEF GroupInv, GroupType
<1>2. /\ held'[n] = h /\ first'[n] = f /\ snapshot'[n] = s /\ applied'[n] = a
      /\ opened'[n] = o /\ recovered'[n] = r /\ given'[n] = g /\ wrapper'[n] = w
  BY Zenon DEF GroupInv, GroupType
<1>3. \A m \in Nodes \ {n} :
        /\ held'[m] = held[m] /\ first'[m] = first[m] /\ snapshot'[m] = snapshot[m]
        /\ applied'[m] = applied[m] /\ opened'[m] = opened[m] /\ recovered'[m] = recovered[m]
        /\ given'[m] = given[m] /\ wrapper'[m] = wrapper[m]
  BY Zenon DEF GroupInv, GroupType
<1>4. ASSUME NEW m \in Nodes
      PROVE  /\ Reach(held'[m], first'[m], snapshot'[m], applied'[m])
             /\ opened'[m] <= Len(given'[m])
             /\ wrapper'[m] = "open" => Handed(given'[m], opened'[m], recovered'[m], applied'[m])
  <2>1. CASE m = n
    BY <1>2, <2>1, Zenon
  <2>2. CASE m # n
    BY <1>3, <2>2, Zenon DEF GroupInv
  <2> QED BY <2>1, <2>2, Zenon
<1>5. ASSUME NEW m \in Nodes
      PROVE  Reach(held[m], first[m], snapshot[m], applied[m])'
  BY <1>4, Zenon DEF Reach
<1>6. NothingBehindAFailure'
  <2> SUFFICES ASSUME NEW m \in Nodes, NEW i \in DOMAIN log, log[i] # "write"
               PROVE  applied'[m] < i /\ snapshot'[m] < i
    BY Zenon DEF NothingBehindAFailure
  <2>1. CASE m = n
    BY <1>2, <2>1, LogFacts, Zenon
  <2>2. CASE m # n
    BY <1>3, <2>2, Zenon DEF GroupInv, NothingBehindAFailure
  <2> QED BY <2>1, <2>2, Zenon
<1> QED
  BY <1>1, <1>4, <1>5, <1>6, Zenon DEF GroupInv

(* A function is itself with one of its values put in place.                  *)
LEMMA Same ==
  ASSUME GroupInv, NEW n \in Nodes
  PROVE  /\ held = [held EXCEPT ![n] = held[n]] /\ first = [first EXCEPT ![n] = first[n]]
         /\ snapshot = [snapshot EXCEPT ![n] = snapshot[n]]
         /\ applied = [applied EXCEPT ![n] = applied[n]]
         /\ opened = [opened EXCEPT ![n] = opened[n]]
         /\ recovered = [recovered EXCEPT ![n] = recovered[n]]
         /\ given = [given EXCEPT ![n] = given[n]]
         /\ wrapper = [wrapper EXCEPT ![n] = wrapper[n]]
         /\ wrapper[n] \in {"none", "open", "closed"}
         /\ Reach(held[n], first[n], snapshot[n], applied[n])
         /\ \A i \in 1 .. Len(log) : log[i] # "write" => applied[n] < i /\ snapshot[n] < i
<1>1. \A i \in 1 .. Len(log) : log[i] # "write" => applied[n] < i /\ snapshot[n] < i
  BY LogFacts, Zenon DEF GroupInv, NothingBehindAFailure
<1> QED
  BY <1>1, Zenon DEF GroupInv, GroupType

(* An entry is appended to the log of the group.                              *)
LEMMA CommitKeeps ==
  ASSUME GroupInv, NEW n \in Nodes, NEW kind \in UpdateKinds, Commit(n, kind)
  PROVE  GroupInv'
<1> DEFINE l == Len(log)
<1>1. log \in Seq(UpdateKinds) /\ l \in Nat /\ DOMAIN log = 1 .. l /\ held[n] = l
  BY LogFacts, ZenonT(30) DEF Commit
<1>2. /\ log' \in Seq(UpdateKinds) /\ Len(log') = l + 1
      /\ \A i \in 1 .. l : log'[i] = log[i]
  BY <1>1, AppendProperties DEF Commit
<1>3. DOMAIN log' = 1 .. l + 1
  BY <1>2, LenProperties, Zenon
<1>4. held' = [held EXCEPT ![n] = l + 1]
      /\ UNCHANGED <<first, snapshot, wrapper, applied, given, opened, recovered>>
  BY <1>1, Zenon DEF Commit
<1>5. \A m \in Nodes : /\ held[m] \in Nat /\ first[m] \in Nat /\ snapshot[m] \in Nat
                       /\ applied[m] \in Nat /\ held[m] <= l /\ applied[m] <= held[m]
                       /\ snapshot[m] <= held[m] /\ first[m] <= snapshot[m] + 1
  BY LogFacts, Zenon
<1> HIDE DEF l
<1>6. GroupType'
  BY <1>1, <1>2, <1>4, SMTT(30) DEF GroupInv, GroupType
<1>7. \A m \in Nodes : held'[m] = IF m = n THEN l + 1 ELSE held[m]
  BY <1>4, Zenon DEF GroupInv, GroupType
<1>8. ASSUME NEW m \in Nodes PROVE Reach(held[m], first[m], snapshot[m], applied[m])'
  <2>1. held'[m] <= l + 1 /\ applied[m] <= held'[m] /\ snapshot[m] <= held'[m]
    BY <1>1, <1>5, <1>7
  <2> QED BY <1>2, <1>4, <1>5, <2>1, Zenon DEF Reach
<1>9. NothingBehindAFailure'
  <2> SUFFICES ASSUME NEW m \in Nodes, NEW i \in 1 .. l + 1, log'[i] # "write"
               PROVE  applied[m] < i /\ snapshot[m] < i
    BY <1>3, <1>4, Zenon DEF NothingBehindAFailure
  <2>1. CASE i \in 1 .. l
    BY <1>1, <1>2, <2>1, Zenon DEF GroupInv, NothingBehindAFailure
  <2>2. CASE i = l + 1
    BY <1>1, <1>5, <2>2
  <2> QED BY <1>1, <2>1, <2>2
<1> QED
  BY <1>4, <1>6, <1>8, <1>9, Zenon DEF GroupInv

(* A replica receives the next entry from one that has it.                    *)
LEMMA ReceiveKeeps ==
  ASSUME GroupInv, NEW n \in Nodes, NEW from \in Nodes, Receive(n, from)
  PROVE  GroupInv'
<1> DEFINE h == held[n] + 1
<1>1. held[n] \in Nat /\ held[from] \in Nat /\ held[n] < held[from] /\ held[from] <= Len(log)
      /\ Len(log) \in Nat /\ snapshot[n] \in Nat /\ applied[n] \in Nat
  BY LogFacts, Zenon DEF Receive
<1>2. h \in Nat /\ held' = [held EXCEPT ![n] = h]
      /\ UNCHANGED <<log, first, snapshot, wrapper, applied, given, opened, recovered>>
  BY <1>1 DEF Receive
<1>3. Reach(h, first[n], snapshot[n], applied[n])
  BY <1>1, LogFacts DEF Reach
<1> HIDE DEF h
<1>4. wrapper[n] = "open" => Handed(given[n], opened[n], recovered[n], applied[n])
  BY Zenon DEF GroupInv
<1>20. Becomes(n, h, first[n], snapshot[n], applied[n], opened[n], recovered[n], given[n], wrapper[n])
  BY <1>2, <1>3, <1>4, Same, Zenon DEF Becomes
<1>21. ReplicaSound(h, first[n], snapshot[n], applied[n], opened[n], recovered[n], given[n], wrapper[n])
  BY <1>2, <1>3, <1>4, Same, LogFacts, ZenonT(30) DEF ReplicaSound
<1> QED
  BY <1>20, <1>21, OneReplica, Zenon

(* A snapshot comes from a replica that has applied all it covers, and covers *)
(* more than the receiver has.                                                *)
LEMMA ReceiveSnapshotKeeps ==
  ASSUME GroupInv, NEW n \in Nodes, NEW from \in Nodes, ReceiveSnapshot(n, from)
  PROVE  GroupInv'
<1> DEFINE s == snapshot[from]
<1>1. /\ held[n] \in Nat /\ first[from] \in Nat /\ s \in Nat /\ applied[n] \in Nat
      /\ held[n] + 1 < first[from] /\ first[from] <= s + 1 /\ applied[n] <= held[n]
      /\ s <= held[from] /\ held[from] <= Len(log) /\ Len(log) \in Nat /\ held[from] \in Nat
  BY LogFacts, Zenon DEF ReceiveSnapshot
<1>2. /\ held' = [held EXCEPT ![n] = s] /\ first' = [first EXCEPT ![n] = s + 1]
      /\ snapshot' = [snapshot EXCEPT ![n] = s] /\ applied' = [applied EXCEPT ![n] = s]
      /\ recovered' = [recovered EXCEPT ![n] = s]
      /\ UNCHANGED <<log, wrapper, given, opened>> /\ wrapper[n] = "open"
  BY Zenon DEF ReceiveSnapshot, RecoverFromSnapshot, IsClosed
<1>3. \A i \in 1 .. Len(log) : log[i] # "write" => s < i
  BY Same, Zenon
<1> HIDE DEF s
<1>4. Reach(s, s + 1, s, s) /\ s + 1 \in Nat
  BY <1>1 DEF Reach
<1>5. Handed(given[n], opened[n], s, s)
  <2>1. Handed(given[n], opened[n], recovered[n], applied[n])
    BY <1>2, Zenon DEF GroupInv
  <2>2. /\ given[n] \in Seq(Nat) /\ Len(given[n]) \in Nat /\ opened[n] \in Nat
    BY LogFacts, Zenon
  <2>3. ASSUME NEW i \in opened[n] + 1 .. Len(given[n]) PROVE 1 <= given[n][i] /\ given[n][i] <= s
    <3>1. i \in 1 .. Len(given[n])
      BY <2>2
    <3>2. given[n][i] \in Nat
      BY <2>2, <3>1, ElementOfSeq, Zenon
    <3>3. 1 <= given[n][i] /\ given[n][i] <= applied[n]
      BY <2>1, Zenon DEF Handed
    <3> QED BY <1>1, <3>2, <3>3, SMTT(30)
  <2>4. s + 1 .. s = {}
    BY <1>1
  <2> QED BY <2>1, <2>3, <2>4, Zenon DEF Handed
<1>20. Becomes(n, s, s + 1, s, s, opened[n], s, given[n], wrapper[n])
  BY <1>1, <1>2, <1>3, <1>4, <1>5, Same, Zenon DEF Becomes
<1>21. ReplicaSound(s, s + 1, s, s, opened[n], s, given[n], wrapper[n])
  BY <1>1, <1>2, <1>3, <1>4, <1>5, Same, LogFacts, ZenonT(30) DEF ReplicaSound
<1> QED
  BY <1>20, <1>21, OneReplica, Zenon

(* A snapshot is saved and the log below it cut.                              *)
LEMMA SaveSnapshotKeeps ==
  ASSUME GroupInv, NEW n \in Nodes, SaveSnapshot(n)
  PROVE  GroupInv'
<1> DEFINE a == applied[n]
           f == Max({first[n], a - CompactionOverhead + 1})
<1>1. /\ a \in Nat /\ first[n] \in Nat /\ snapshot[n] \in Nat /\ held[n] \in Nat
      /\ CompactionOverhead \in Nat /\ SnapshotEntries \in Nat
      /\ a > SnapshotEntries + snapshot[n] /\ first[n] <= snapshot[n] + 1 /\ a <= held[n]
      /\ held[n] <= Len(log) /\ Len(log) \in Nat
  BY LogFacts, GroupAssumption, Zenon DEF SaveSnapshot
<1>2. f \in Nat /\ f <= a + 1
  <2> DEFINE b == a - CompactionOverhead + 1
  <2>1. b \in Int /\ b <= a + 1 /\ first[n] <= a + 1
    BY <1>1, SMTT(30)
  <2> HIDE DEF b
  <2>2. \E x \in {first[n], b} : \A y \in {first[n], b} : x >= y
    BY <1>1, <2>1
  <2>3. f = Max({first[n], b})
    BY Zenon DEF b
  <2>4. f \in {first[n], b} /\ \A y \in {first[n], b} : f >= y
    BY <2>2, <2>3, Zenon DEF Max
  <2> HIDE DEF f
  <2> QED BY <1>1, <2>1, <2>4
<1>3. /\ snapshot' = [snapshot EXCEPT ![n] = a] /\ first' = [first EXCEPT ![n] = f]
      /\ UNCHANGED <<log, held, wrapper, applied, given, opened, recovered>>
  BY Zenon DEF SaveSnapshot
<1> HIDE DEF f
<1>4. Reach(held[n], f, a, a)
  BY <1>1, <1>2, Zenon DEF Reach
<1>5. \A i \in 1 .. Len(log) : log[i] # "write" => a < i
  BY Same, Zenon
<1>6. wrapper[n] = "open" => Handed(given[n], opened[n], recovered[n], applied[n])
  BY Zenon DEF GroupInv
<1>20. Becomes(n, held[n], f, a, a, opened[n], recovered[n], given[n], wrapper[n])
  BY <1>1, <1>2, <1>3, <1>4, <1>5, <1>6, Same, ZenonT(30) DEF Becomes
<1>21. ReplicaSound(held[n], f, a, a, opened[n], recovered[n], given[n], wrapper[n])
  BY <1>1, <1>2, <1>3, <1>4, <1>5, <1>6, Same, LogFacts, Zenon DEF ReplicaSound
<1> QED
  BY <1>20, <1>21, OneReplica, Zenon

(* Update gives the processor the next entry, which is a write.               *)
LEMMA UpdateKeeps ==
  ASSUME GroupInv, NEW n \in Nodes, Update(n)
  PROVE  GroupInv'
<1> DEFINE a == applied[n]
           b == a + 1
           g == Append(given[n], b)
           o == opened[n]
           l == Len(given[n])
<1>1. /\ a \in Nat /\ b \in Nat /\ held[n] \in Nat /\ a < held[n] /\ held[n] <= Len(log)
      /\ Len(log) \in Nat /\ log[b] = "write" /\ wrapper[n] = "open" /\ b <= held[n]
      /\ o \in Nat /\ recovered[n] \in Nat /\ given[n] \in Seq(Nat) /\ l \in Nat /\ o <= l
  BY LogFacts DEF Update, HasNext, NextEntry, IsClosed
<1>2. /\ applied' = [applied EXCEPT ![n] = b] /\ given' = [given EXCEPT ![n] = g]
      /\ UNCHANGED <<log, held, first, snapshot, wrapper, opened, recovered>>
  BY Zenon DEF Update
<1>3. /\ g \in Seq(Nat) /\ Len(g) = l + 1 /\ g[l + 1] = b
      /\ \A i \in 1 .. l : g[i] = given[n][i] /\ g[i] \in Nat
  <2>1. \A i \in 1 .. l : given[n][i] \in Nat
    BY <1>1, ElementOfSeq, ZenonT(30)
  <2> HIDE DEF b
  <2>2. g \in Seq(Nat) /\ Len(g) = l + 1 /\ g[l + 1] = b /\ \A i \in 1 .. l : g[i] = given[n][i]
    BY <1>1, AppendProperties
  <2> QED BY <2>1, <2>2, ZenonT(30)
<1>4. Handed(given[n], o, recovered[n], a)
  BY <1>1, Zenon DEF GroupInv
<1> HIDE DEF g, l, o
<1>5. \A i \in o + 1 .. l : i \in 1 .. l /\ g[i] = given[n][i] /\ g[i] \in Nat /\ 1 <= g[i] /\ g[i] <= a
  <2>1. \A i \in o + 1 .. l : i \in 1 .. l
    BY <1>1
  <2> QED BY <1>3, <1>4, <2>1, Zenon DEF Handed, l
<1>6. \A i \in o + 1 .. l + 1 : i \in o + 1 .. l \/ i = l + 1
  BY <1>1
<1>7. ASSUME NEW i \in o + 1 .. l + 1, NEW j \in o + 1 .. l + 1, i < j PROVE g[i] < g[j]
  <2>1. i \in o + 1 .. l
    BY <1>1, <1>7
  <2>2. CASE j \in o + 1 .. l
    BY <1>4, <1>5, <1>7, <2>1, <2>2, Zenon DEF Handed, l
  <2>3. CASE j = l + 1
    <3>1. g[i] \in Nat /\ g[i] <= a /\ g[j] = a + 1
      BY <1>3, <1>5, <2>1, <2>3, Zenon
    <3> QED BY <1>1, <3>1
  <2> QED BY <1>6, <2>2, <2>3, Zenon
<1>8. ASSUME NEW i \in o + 1 .. l + 1 PROVE 1 <= g[i] /\ g[i] <= b
  <2>1. CASE i \in o + 1 .. l
    BY <1>1, <1>5, <2>1
  <2>2. CASE i = l + 1
    BY <1>1, <1>3, <2>2
  <2> QED BY <1>6, <2>1, <2>2, Zenon
<1>9. ASSUME NEW k \in recovered[n] + 1 .. b PROVE \E i \in o + 1 .. l + 1 : g[i] = k
  <2>1. CASE k = b
    <3>1. l + 1 \in o + 1 .. l + 1
      BY <1>1
    <3> QED BY <1>3, <2>1, <3>1, Zenon
  <2>2. CASE k # b
    <3>1. k \in recovered[n] + 1 .. a
      BY <1>1, <2>2
    <3>2. PICK i \in o + 1 .. l : given[n][i] = k
      BY <1>4, <3>1, Zenon DEF Handed, l
    <3>3. i \in o + 1 .. l + 1
      BY <1>1
    <3> QED BY <1>5, <3>2, <3>3, Zenon
  <2> QED BY <2>1, <2>2, Zenon
<1>10. Handed(g, o, recovered[n], b)
  BY <1>3, <1>7, <1>8, <1>9, Zenon DEF Handed
<1>11. Reach(held[n], first[n], snapshot[n], b) /\ o <= Len(g)
  BY <1>1, <1>3, LogFacts DEF Reach
<1>12. \A i \in 1 .. Len(log) : log[i] # "write" => b < i /\ snapshot[n] < i
  <2> SUFFICES ASSUME NEW i \in 1 .. Len(log), log[i] # "write" PROVE b < i /\ snapshot[n] < i
    OBVIOUS
  <2>1. a < i /\ snapshot[n] < i /\ i # b
    BY <1>1, Same, Zenon
  <2> QED BY <1>1, <2>1
<1> HIDE DEF b
<1>20. Becomes(n, held[n], first[n], snapshot[n], b, opened[n], recovered[n], g, wrapper[n])
  BY <1>1, <1>2, <1>3, <1>10, <1>11, <1>12, Same, ZenonT(30) DEF Becomes, o
<1>21. ReplicaSound(held[n], first[n], snapshot[n], b, opened[n], recovered[n], g, wrapper[n])
  BY <1>1, <1>2, <1>3, <1>10, <1>11, <1>12, Same, LogFacts DEF ReplicaSound, o
<1> QED
  BY <1>20, <1>21, OneReplica, Zenon

(* A replica dies, and its wrapper and processor with it.                     *)
LEMMA DiesKeeps ==
  ASSUME GroupInv, NEW n \in Nodes, Dies(n)
  PROVE  GroupInv'
<1>1. /\ wrapper' = [wrapper EXCEPT ![n] = "none"] /\ given' = [given EXCEPT ![n] = <<>>]
      /\ opened' = [opened EXCEPT ![n] = 0]
      /\ UNCHANGED <<log, held, first, snapshot, applied, recovered>>
  BY Zenon DEF Dies
<1>2. <<>> \in Seq(Nat) /\ 0 <= Len(<<>>) /\ 0 \in Nat
  OBVIOUS
<1>20. Becomes(n, held[n], first[n], snapshot[n], applied[n], 0, recovered[n], <<>>, "none")
  BY <1>1, <1>2, Same, Zenon DEF Becomes
<1>21. ReplicaSound(held[n], first[n], snapshot[n], applied[n], 0, recovered[n], <<>>, "none")
  BY <1>1, <1>2, Same, LogFacts, Zenon DEF ReplicaSound
<1> QED
  BY <1>20, <1>21, OneReplica, Zenon

(* Close ends the wrapper.                                                    *)
LEMMA WrapperCloseKeeps ==
  ASSUME GroupInv, NEW n \in Nodes, Close(n)
  PROVE  GroupInv'
<1>1. /\ wrapper' = [wrapper EXCEPT ![n] = "closed"]
      /\ UNCHANGED <<log, held, first, snapshot, applied, recovered, given, opened>>
  BY Zenon DEF Close
<1>20. Becomes(n, held[n], first[n], snapshot[n], applied[n], opened[n], recovered[n], given[n], "closed")
  BY <1>1, Same, Zenon DEF Becomes
<1>21. ReplicaSound(held[n], first[n], snapshot[n], applied[n], opened[n], recovered[n], given[n], "closed")
  BY <1>1, Same, LogFacts, Zenon DEF ReplicaSound
<1> QED
  BY <1>20, <1>21, OneReplica, Zenon

(* A new wrapper has given nothing and starts from the snapshot.              *)
LEMMA StartKeeps ==
  ASSUME GroupInv, NEW n \in Nodes, Start(n)
  PROVE  GroupInv'
<1> DEFINE s == snapshot[n]
           o == Len(given[n])
<1>1. /\ wrapper' = [wrapper EXCEPT ![n] = "open"] /\ opened' = [opened EXCEPT ![n] = o]
      /\ applied' = [applied EXCEPT ![n] = s] /\ recovered' = [recovered EXCEPT ![n] = s]
      /\ UNCHANGED <<log, held, first, snapshot, given>>
  BY Zenon DEF Start, NewWrapper, RecoverFromSnapshot
<1>2. s \in Nat /\ o \in Nat
  BY LogFacts, Zenon
<1>3. Handed(given[n], o, s, s)
  <2>1. o + 1 .. o = {} /\ s + 1 .. s = {}
    BY <1>2
  <2> QED BY <2>1, Zenon DEF Handed
<1>4. Reach(held[n], first[n], s, s)
  BY LogFacts, Zenon DEF Reach
<1>5. \A i \in 1 .. Len(log) : log[i] # "write" => s < i
  BY Same, Zenon
<1>6. o <= o
  BY <1>2
<1>20. Becomes(n, held[n], first[n], s, s, o, s, given[n], "open")
  BY <1>1, <1>2, <1>3, <1>4, <1>5, <1>6, Same, Zenon DEF Becomes
<1>21. ReplicaSound(held[n], first[n], s, s, o, s, given[n], "open")
  BY <1>1, <1>2, <1>3, <1>4, <1>5, <1>6, Same, LogFacts, Zenon DEF ReplicaSound
<1> QED
  BY <1>20, <1>21, OneReplica, Zenon

(* Every step preserves the invariant.                                        *)
LEMMA GroupInductive == GroupInv /\ [GroupNext]_groupVars => GroupInv'
<1> SUFFICES ASSUME GroupInv, [GroupNext]_groupVars PROVE GroupInv'
  OBVIOUS
<1>1. ASSUME NEW n \in Nodes, NEW kind \in UpdateKinds, Commit(n, kind) PROVE GroupInv'
  BY <1>1, CommitKeeps, Zenon
<1>2. ASSUME NEW n \in Nodes, NEW from \in Nodes, Obtain(n, from) PROVE GroupInv'
  BY <1>2, ReceiveKeeps, ReceiveSnapshotKeeps, Zenon DEF Obtain
<1>3. ASSUME NEW n \in Nodes,
             SaveSnapshot(n) \/ Update(n) \/ UpdateFails(n) \/ Crash(n) \/ Close(n) \/ Start(n)
      PROVE  GroupInv'
  BY <1>3, SaveSnapshotKeeps, UpdateKeeps, DiesKeeps, WrapperCloseKeeps, StartKeeps, Zenon
     DEF UpdateFails, Crash
<1>4. CASE UNCHANGED groupVars
  BY <1>4, Zenon DEF groupVars, nodeVars, GroupInv, GroupType, Reach, NothingBehindAFailure
<1> QED
  BY <1>1, <1>2, <1>3, <1>4, Zenon DEF GroupNext

(* raft_protocol.go, the wrapper's Update, for any number of replicas and     *)
(* entries: an entry whose Update fails, and what is behind it, is applied by *)
(* no replica, through restarts and snapshots.                                *)
THEOREM FailureStopsTheGroup == GroupSpec => []NothingBehindAFailure
<1>1. GroupInv => NothingBehindAFailure
  BY Zenon DEF GroupInv
<1> QED
  BY <1>1, GroupInitially, GroupInductive, PTL DEF GroupSpec

(* raft_protocol.go, RecoverFromSnapshot: an open wrapper gives its processor *)
(* the entries in the order of the log, each once, and all of them above the  *)
(* snapshot it recovered from.                                                *)
THEOREM OnlySnapshotsLeaveOut == GroupSpec => []MissingOnlyBelowSnapshot
<1>1. GroupInv => MissingOnlyBelowSnapshot
  <2> SUFFICES ASSUME GroupInv, NEW n \in Nodes, wrapper[n] = "open"
               PROVE  LET since == SinceOpened(n) IN
                      /\ \A i, j \in DOMAIN since : i < j => since[i] < since[j]
                      /\ recovered[n] + 1 .. applied[n] \subseteq Range(since)
                      /\ Range(since) \subseteq 1 .. applied[n]
    BY Zenon DEF MissingOnlyBelowSnapshot
  <2> DEFINE g == given[n]
             o == opened[n]
             l == Len(g)
             since == SubSeq(g, o + 1, l)
  <2>1. g \in Seq(Nat) /\ l \in Nat /\ o \in Nat /\ o <= l /\ applied[n] \in Nat
    BY LogFacts, Zenon
  <2>2. SinceOpened(n) = since
    BY Zenon DEF SinceOpened, Lookup, IsClosed
  <2>3. Handed(g, o, recovered[n], applied[n])
    BY Zenon DEF GroupInv
  <2> HIDE DEF o, l, g
  <2>4. \A i \in o + 1 .. l : i \in 1 .. l /\ g[i] \in Nat
    <3>1. \A i \in o + 1 .. l : i \in 1 .. l
      BY <2>1
    <3> QED BY <2>1, <3>1, ElementOfSeq, Zenon DEF l
  <2>5. /\ since \in Seq(Nat) /\ Len(since) = l - o
        /\ \A i \in 1 .. l - o : since[i] = g[o + i]
    <3>1. /\ since \in Seq(Nat) /\ Len(since) = IF o + 1 <= l THEN l - (o + 1) + 1 ELSE 0
          /\ \A i \in 1 .. l - (o + 1) + 1 : since[i] = g[o + 1 + i - 1]
      BY <2>1, <2>4, SubSeqProperties
    <3> HIDE DEF since
    <3>2. l - (o + 1) + 1 = l - o /\ (IF o + 1 <= l THEN l - (o + 1) + 1 ELSE 0) = l - o
      BY <2>1
    <3>3. ASSUME NEW i \in 1 .. l - o PROVE since[i] = g[o + i]
      <4>1. o + 1 + i - 1 = o + i /\ i \in 1 .. l - (o + 1) + 1
        BY <2>1
      <4>2. since[i] = g[o + 1 + i - 1]
        BY <3>1, <4>1, Zenon
      <4> QED BY <4>1, <4>2, Zenon
    <3> QED BY <3>1, <3>2, <3>3, Zenon
  <2>6. DOMAIN since = 1 .. l - o
    BY <2>5, LenProperties, Zenon
  <2> HIDE DEF since
  <2>7. \A i \in 1 .. l - o : o + i \in o + 1 .. l
    BY <2>1
  <2>8. ASSUME NEW i \in 1 .. l - o, NEW j \in 1 .. l - o, i < j PROVE since[i] < since[j]
    <3>1. o + i < o + j
      BY <2>1, <2>8
    <3> QED BY <2>3, <2>5, <2>7, <3>1, Zenon DEF Handed, l
  <2>9. ASSUME NEW k \in recovered[n] + 1 .. applied[n] PROVE k \in Range(since)
    <3>1. PICK i \in o + 1 .. l : g[i] = k
      BY <2>3, Zenon DEF Handed, l
    <3>2. i - o \in 1 .. l - o /\ o + (i - o) = i
      BY <2>1
    <3> QED BY <2>5, <2>6, <3>1, <3>2, Zenon DEF Range
  <2>10. ASSUME NEW k \in Range(since) PROVE k \in 1 .. applied[n]
    <3>1. PICK i \in 1 .. l - o : since[i] = k
      BY <2>6, Zenon DEF Range
    <3>2. k = g[o + i] /\ k \in Nat /\ 1 <= k /\ k <= applied[n]
      BY <2>3, <2>4, <2>5, <2>7, <3>1, Zenon DEF Handed, l
    <3> QED BY <2>1, <3>2
  <2> QED
    BY <2>2, <2>6, <2>8, <2>9, <2>10, Zenon
<1> QED
  BY <1>1, GroupInitially, GroupInductive, PTL DEF GroupSpec
=============================================================================
