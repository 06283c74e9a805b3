--------------------------- MODULE KvLookupProofs ---------------------------
(***************************************************************************)
(* Two independent parts: the memory store with its tree of keys, for any  *)
(* keys, callers and calls; and the lookups of the members, for any number *)
(* of switches, that overlap or fail, and of changes of cluster.conf.      *)
(***************************************************************************)
EXTENDS KvStorage, MemberLookup, FiniteSetTheorems, TLAPS

(* Sequences. *)

(* A sequence is a function on the numbers up to its length.                  *)
LEMMA LenProperties ==
  ASSUME NEW Elt, NEW seq \in Seq(Elt)
  PROVE  Len(seq) \in Nat /\ DOMAIN seq = 1 .. Len(seq) /\ seq \in [1 .. Len(seq) -> Elt]
OBVIOUS

(* The elements of a sequence over a set are in the set.                      *)
LEMMA ElementOfSeq ==
  ASSUME NEW Elt, NEW seq \in Seq(Elt), NEW i \in 1 .. Len(seq)
  PROVE  seq[i] \in Elt
OBVIOUS

(* The empty sequence, and the length of any other.                           *)
LEMMA EmptySeq ==
  ASSUME NEW Elt
  PROVE  /\ <<>> \in Seq(Elt) /\ Len(<<>>) = 0
         /\ \A seq \in Seq(Elt) : seq # <<>> => Len(seq) \in Nat \ {0}
OBVIOUS

(* A function on the first n numbers is a sequence.                           *)
LEMMA IsASeq ==
  ASSUME NEW Elt, NEW n \in Nat, NEW e(_), \A i \in 1 .. n : e(i) \in Elt
  PROVE  [i \in 1 .. n |-> e(i)] \in Seq(Elt)
OBVIOUS

(* Replacing an element leaves the length and the other elements.             *)
LEMMA ExceptSeq ==
  ASSUME NEW Elt, NEW seq \in Seq(Elt), NEW i \in 1 .. Len(seq), NEW e \in Elt
  PROVE  /\ [seq EXCEPT ![i] = e] \in Seq(Elt) /\ Len([seq EXCEPT ![i] = e]) = Len(seq)
         /\ \A j \in 1 .. Len(seq) : [seq EXCEPT ![i] = e][j] = IF j = i THEN e ELSE seq[j]
OBVIOUS

(* Append makes the sequence longer by its last element.                      *)
LEMMA AppendProperties ==
  ASSUME NEW Elt, NEW seq \in Seq(Elt), NEW e \in Elt
  PROVE  /\ Append(seq, e) \in Seq(Elt) /\ Append(seq, e) # <<>>
         /\ Len(Append(seq, e)) = Len(seq) + 1
         /\ \A i \in 1 .. Len(seq) : Append(seq, e)[i] = seq[i]
         /\ Append(seq, e)[Len(seq) + 1] = e
OBVIOUS

(* Tail drops the first element.                                              *)
LEMMA HeadTailProperties ==
  ASSUME NEW Elt, NEW seq \in Seq(Elt), seq # <<>>
  PROVE  /\ Head(seq) \in Elt /\ Tail(seq) \in Seq(Elt) /\ Len(Tail(seq)) = Len(seq) - 1
         /\ \A i \in 1 .. Len(Tail(seq)) : Tail(seq)[i] = seq[i + 1]
OBVIOUS

(* The elements of a concatenation.                                           *)
LEMMA ConcatProperties ==
  ASSUME NEW Elt, NEW s \in Seq(Elt), NEW t \in Seq(Elt)
  PROVE  /\ s \o t \in Seq(Elt) /\ Len(s \o t) = Len(s) + Len(t)
         /\ \A i \in 1 .. Len(s) + Len(t) :
              (s \o t)[i] = IF i <= Len(s) THEN s[i] ELSE t[i - Len(s)]
OBVIOUS

(* Concatenation is associative.                                              *)
LEMMA ConcatAssociative ==
  ASSUME NEW Elt, NEW s \in Seq(Elt), NEW t \in Seq(Elt), NEW u \in Seq(Elt)
  PROVE  (s \o t) \o u = s \o (t \o u)
OBVIOUS

(* The elements of a subsequence.                                             *)
LEMMA SubSeqProperties ==
  ASSUME NEW Elt, NEW s, NEW m \in Int, NEW n \in Int, \A i \in m .. n : s[i] \in Elt
  PROVE  /\ SubSeq(s, m, n) \in Seq(Elt)
         /\ Len(SubSeq(s, m, n)) = IF m <= n THEN n - m + 1 ELSE 0
         /\ \A i \in 1 .. n - m + 1 : SubSeq(s, m, n)[i] = s[m + i - 1]
OBVIOUS

(* The whole of a sequence is a subsequence of it.                            *)
LEMMA SubSeqFull ==
  ASSUME NEW Elt, NEW seq \in Seq(Elt)
  PROVE  SubSeq(seq, 1, Len(seq)) = seq
OBVIOUS

-----------------------------------------------------------------------------
(* The memory store and its tree. *)

(* A bounded set of numbers that has an element has a greatest one.           *)
LEMMA Greatest ==
  ASSUME NEW b \in Nat, NEW S \in SUBSET (0 .. b), S # {}
  PROVE  \E n \in S : \A m \in S : m <= n
<1> DEFINE T == {b - n : n \in S}
           R == OpToRel(<, Nat)
<1>0. \A n \in S : n \in Nat /\ n <= b /\ b - n \in Nat
  OBVIOUS
<1>1. T \subseteq Nat /\ T # {}
  BY <1>0, Zenon
<1>2. IsWellFoundedOn(R, Nat)
  BY NatLessThanWellFounded, Zenon
<1>3. PICK x \in T : \A y \in T : ~(<<y, x>> \in R)
  <2> HIDE DEF T, R
  <2> QED BY <1>1, <1>2, WFMin, Zenon
<1>4. \A y \in T : ~(y < x)
  BY <1>1, <1>3, Zenon DEF OpToRel
<1>5. PICK n \in S : x = b - n
  OBVIOUS
<1>6. ASSUME NEW m \in S PROVE m <= n
  <2>1. b - m \in T
    BY Zenon
  <2> QED BY <1>0, <1>4, <1>5, <2>1
<1> QED
  BY <1>6, Zenon

-----------------------------------------------------------------------------
(* The nodes of a tree are paths, and there is a longest one.                 *)
TreeInv ==
  /\ Nodes \subseteq Seq({"left", "right"})
  /\ \E b \in Nat : \A p \in Nodes : Len(p) <= b

(* The path that the comparisons take goes on by one turn.                    *)
LEMMA OneTurn ==
  ASSUME NEW v, NEW p \in Seq({"left", "right"}), p \in Nodes, tree[p] # v, LeadsTo(v, p)
  PROVE  LET q == Append(p, Turn(v, p))
         IN q \in Seq({"left", "right"}) /\ Len(q) = Len(p) + 1 /\ LeadsTo(v, q)
<1> DEFINE t == Turn(v, p)
           q == Append(p, t)
<1>1. t \in {"left", "right"}
  BY Zenon DEF Turn
<1> HIDE DEF t
<1>2. /\ q \in Seq({"left", "right"}) /\ Len(q) = Len(p) + 1
      /\ \A i \in 1 .. Len(p) : q[i] = p[i]
      /\ q[Len(p) + 1] = t
  BY <1>1, AppendProperties
<1> HIDE DEF q
<1>3. ASSUME NEW i \in 1 .. Len(q)
      PROVE  /\ SubSeq(q, 1, i - 1) \in Nodes /\ tree[SubSeq(q, 1, i - 1)] # v
             /\ q[i] = Turn(v, SubSeq(q, 1, i - 1))
  <2>0. Len(p) \in Nat /\ i \in Int /\ i >= 1 /\ i <= Len(p) + 1
    BY <1>2, LenProperties
  <2>1. SubSeq(q, 1, i - 1) = SubSeq(p, 1, i - 1)
    BY <1>2, <2>0
  <2>2. CASE i = Len(p) + 1
    <3>1. SubSeq(p, 1, i - 1) = p
      BY <2>2, <2>0
    <3> QED BY <1>2, <2>1, <2>2, <3>1, Zenon DEF t
  <2>3. CASE i # Len(p) + 1
    <3>1. i \in 1 .. Len(p)
      BY <2>0, <2>3
    <3> QED BY <1>2, <2>1, <3>1, Zenon DEF LeadsTo
  <2> QED BY <2>2, <2>3, Zenon
<1>4. LeadsTo(v, q)
  BY <1>3, Zenon DEF LeadsTo
<1> QED
  BY <1>2, <1>4, Zenon DEF q, t

(* insertVal ends at the node of its key or where one is missing.             *)
LEMMA PlaceExists ==
  ASSUME TreeInv, NEW v
  PROVE  /\ Place(v) \in Seq({"left", "right"})
         /\ Place(v) \in Nodes => tree[Place(v)] = v
         /\ \E b \in Nat : \A p \in Nodes \cup {Place(v)} : Len(p) <= b
<1> DEFINE Paths == {p \in Nodes \cup {Root} : LeadsTo(v, p)}
           Lengths == {Len(p) : p \in Paths}
           Ends == {Root} \cup Nodes \cup {Left(q) : q \in Nodes} \cup {Right(q) : q \in Nodes}
<1>0. PICK b \in Nat : \A p \in Nodes : Len(p) <= b
  BY Zenon DEF TreeInv
<1>1. Root \in Seq({"left", "right"}) /\ Len(Root) = 0 /\ LeadsTo(v, Root)
  BY EmptySeq DEF Root, LeadsTo
<1>2. \A p \in Nodes \cup {Root} : p \in Seq({"left", "right"}) /\ Len(p) \in 0 .. b
  <2>1. ASSUME NEW p \in Nodes PROVE p \in Seq({"left", "right"}) /\ Len(p) \in 0 .. b
    <3>1. p \in Seq({"left", "right"})
      BY Zenon DEF TreeInv
    <3> QED BY <1>0, <3>1, LenProperties
  <2>2. 0 \in 0 .. b
    OBVIOUS
  <2> QED BY <1>1, <2>1, <2>2, Zenon
<1>3. Lengths \in SUBSET (0 .. b) /\ Lengths # {}
  BY <1>1, <1>2, Zenon
<1>4. PICK n \in Lengths : \A m \in Lengths : m <= n
  <2> HIDE DEF Lengths
  <2> QED BY <1>3, Greatest, Zenon
<1>5. PICK p \in Paths : Len(p) = n
  OBVIOUS
<1>6. \E r \in Ends : LeadsTo(v, r) /\ (r \in Nodes => tree[r] = v)
  <2>1. CASE p \notin Nodes \/ tree[p] = v
    BY <1>5, <2>1, Zenon
  <2>2. CASE p \in Nodes /\ tree[p] # v
    <3> DEFINE q == Append(p, Turn(v, p))
    <3>1. Len(q) = Len(p) + 1 /\ LeadsTo(v, q)
      BY <1>2, <1>5, <2>2, OneTurn, Zenon
    <3>2. q \in Ends
      BY <2>2, Zenon DEF Turn, Left, Right
    <3> HIDE DEF q
    <3>3. q \notin Nodes
      <4> SUFFICES ASSUME q \in Nodes PROVE FALSE
        OBVIOUS
      <4>1. Len(q) \in Lengths
        BY <3>1, Zenon
      <4> QED BY <1>2, <1>4, <1>5, <3>1, <4>1
    <3> QED BY <3>1, <3>2, <3>3, Zenon
  <2> QED BY <2>1, <2>2, Zenon
<1>7. Place(v) \in Ends /\ (Place(v) \in Nodes => tree[Place(v)] = v)
  <2> HIDE DEF Ends
  <2> QED BY <1>6, Zenon DEF Place, Ends
<1>8. \A r \in Ends : r \in Seq({"left", "right"}) /\ Len(r) <= b + 1
  <2>1. ASSUME NEW r \in Nodes
        PROVE  /\ Left(r) \in Seq({"left", "right"}) /\ Len(Left(r)) <= b + 1
               /\ Right(r) \in Seq({"left", "right"}) /\ Len(Right(r)) <= b + 1
    BY <1>2, AppendProperties DEF Left, Right
  <2> QED BY <1>2, <2>1
<1> QED
  <2> HIDE DEF Ends
  <2>1. b + 1 \in Nat /\ \A p1 \in Nodes \cup {Place(v)} : Len(p1) <= b + 1
    BY <1>2, <1>7, <1>8
  <2> QED BY <1>7, <1>8, <2>1, Zenon

(* An insertion keeps the keys of the tree and adds its own.                  *)
LEMMA InsertAdds ==
  ASSUME TreeInv, NEW v, tree' = InsertVal(v)
  PROVE  TreeInv' /\ Keys' = Keys \cup {v}
<1> DEFINE p == Place(v)
<1>1. /\ p \in Seq({"left", "right"})
      /\ p \in Nodes => tree[p] = v
      /\ \E b \in Nat : \A q \in Nodes \cup {p} : Len(q) <= b
  BY PlaceExists, Zenon
<1>2. tree' = [q \in Nodes \cup {p} |-> IF q = p THEN v ELSE tree[q]]
  BY Zenon DEF InsertVal
<1> HIDE DEF p
<1>3. Nodes' = Nodes \cup {p}
  BY <1>2, Zenon DEF Nodes
<1>4. \A q \in Nodes' : tree'[q] = IF q = p THEN v ELSE tree[q]
  BY <1>2, <1>3, Zenon
<1>5. TreeInv'
  BY <1>1, <1>3, Zenon DEF TreeInv
<1>6. Keys' = {tree'[q] : q \in Nodes'}
  BY Zenon DEF Keys
<1>7. Keys' \subseteq Keys \cup {v}
  BY <1>3, <1>4, <1>6, Zenon DEF Keys
<1>8. v \in Keys'
  BY <1>3, <1>4, <1>6, Zenon
<1>9. ASSUME NEW q \in Nodes PROVE tree[q] \in Keys'
  BY <1>1, <1>3, <1>4, <1>6, <1>8, Zenon
<1> QED
  BY <1>5, <1>7, <1>8, <1>9, Zenon DEF Keys

-----------------------------------------------------------------------------
LogEntries ==
  [op : {"write", "delete"}, keys : SUBSET KeySet, out : {"open", "ok", "panicked"}]
Calls == [at : {"idle", "before", "put", "after"}, id : Nat, keys : Seq(KeySet)]

KvType ==
  /\ user \in {"test", "store"}
  /\ reference \in [KeySet -> Nat]
  /\ touched \in [KeySet -> Nat]
  /\ seen \in [Callers -> [KeySet -> Nat]]
  /\ call \in [Callers -> Calls]
  /\ log \in Seq(LogEntries)

(* What is known of a write that is under way: it holds the lock, it is the   *)
(* last call, its keys are written up to the one it is at, and nobody has     *)
(* seen it.                                                                   *)
UnderWay(c) ==
  /\ lock = c
  /\ call[c].keys # <<>>
  /\ Len(log) > 0 /\ call[c].id = Len(log)
  /\ log[Len(log)].op = "write" /\ log[Len(log)].out = "open"
  /\ \A k \in log[Len(log)].keys : k \in Elems(call[c].keys) \/ touched[k] = Len(log)
  /\ call[c].at = "after" => touched[Head(call[c].keys)] = Len(log)
  /\ \A d \in Callers, k \in KeySet : seen[d][k] < Len(log)

(* The tree holds the keys of the map and the key that is about to be put.    *)
Covered ==
  /\ user = "test" => \A k \in KeySet : reference[k] = 0
  /\ user = "store" => TreeInv
  /\ user = "store" => \A k \in KeySet : reference[k] # 0 => k \in Keys
  /\ \A c \in Callers : call[c].at \in {"put", "after"} => Head(call[c].keys) \in Keys

(* A write that ended well has written all its keys, and only the last call   *)
(* can be under way.                                                          *)
Ended(n) ==
  /\ log[n].op = "write" /\ log[n].out = "ok" => \A k \in log[n].keys : touched[k] >= n
  /\ log[n].out = "open" => n = Len(log) /\ lock # "free"

KvInv ==
  /\ KvType
  /\ user = "test" => \A c \in Callers : call[c].at = "idle"
  /\ Covered
  /\ \A c \in Callers : call[c].at # "idle" => UnderWay(c)
  /\ \A k \in KeySet : touched[k] <= Len(log)
  /\ \A c \in Callers, k \in KeySet : seen[c][k] <= Len(log)
  /\ \A n \in 1 .. Len(log) : Ended(n)
  /\ BatchSeenWhole

(* The invariant holds for an empty store.                                    *)
LEMMA KvInitially == KvInit => KvInv
<1> SUFFICES ASSUME KvInit PROVE KvInv
  OBVIOUS
<1>1. KvType
  BY DEF KvInit, KvType, Calls, Idle
<1>2. TreeInv
  BY DEF KvInit, TreeInit, TreeInv, Nodes
<1>3. \A c \in Callers : call[c].at = "idle"
  BY Zenon DEF KvInit, Idle
<1>4. Len(log) = 0 /\ DOMAIN log = {}
  BY DEF KvInit
<1>5. /\ \A k \in KeySet : reference[k] = 0 /\ touched[k] = 0
      /\ \A c \in Callers, k \in KeySet : seen[c][k] = 0
  BY Zenon DEF KvInit
<1>6. Covered
  BY <1>2, <1>3, <1>5, Zenon DEF Covered
<1>7. BatchSeenWhole
  BY <1>4, Zenon DEF BatchSeenWhole
<1>8. \A n \in 1 .. Len(log) : Ended(n)
  BY <1>4
<1>9. /\ \A k \in KeySet : touched[k] <= Len(log)
      /\ \A c \in Callers, k \in KeySet : seen[c][k] <= Len(log)
  BY <1>4, <1>5
<1> QED
  BY <1>1, <1>3, <1>6, <1>7, <1>8, <1>9, Zenon DEF KvInv

(* Only one write is under way.                                               *)
LEMMA Alone ==
  ASSUME KvInv, NEW c \in Callers, lock = c
  PROVE  \A d \in Callers : d # c => call[d].at = "idle"
BY Zenon DEF KvInv, UnderWay

(* When the lock is free no call is under way.                                *)
LEMMA NobodyInside ==
  ASSUME KvInv, lock = "free"
  PROVE  \A d \in Callers : call[d].at = "idle"
BY KvAssumption, Zenon DEF KvInv, UnderWay

(* The indices of the log of batches.                                         *)
LEMMA LogDomain ==
  ASSUME KvInv
  PROVE  DOMAIN log = 1 .. Len(log) /\ Len(log) \in Nat
         /\ \A n \in 1 .. Len(log) : log[n] \in LogEntries
  BY LenProperties, ElementOfSeq, Zenon DEF KvInv, KvType

(* A step that changes neither the lock nor the calls nor the values.         *)
LEMMA AsideKeeps ==
  ASSUME KvInv, UNCHANGED <<treeVars, user, reference, lock, call, log, touched, seen>>
  PROVE  KvInv'
BY ZenonT(30) DEF KvInv, KvType, Covered, TreeInv, Keys, Nodes, UnderWay, Ended, BatchSeenWhole, treeVars

(* The use of the tree by itself.                                             *)
LEMMA TestKeeps ==
  ASSUME KvInv, user = "test", UNCHANGED <<storeVars, user>>
  PROVE  KvInv'
BY DEF KvInv, KvType, Covered, UnderWay, Ended, BatchSeenWhole, storeVars

(* A call is added to the log.                                                *)
LEMMA LogGrows ==
  ASSUME KvInv, NEW e \in LogEntries, log' = Append(log, e)
  PROVE  /\ log' \in Seq(LogEntries)
         /\ Len(log') = Len(log) + 1
         /\ \A n \in 1 .. Len(log) : log'[n] = log[n]
         /\ log'[Len(log) + 1] = e
         /\ DOMAIN log' = 1 .. (Len(log) + 1)
<1>1. log \in Seq(LogEntries) /\ Len(log) \in Nat
  BY LogDomain, Zenon DEF KvInv, KvType
<1> QED BY <1>1, AppendProperties

(* Nobody has seen a call that is added, so nobody has seen half of it.       *)
LEMMA NewUnseen ==
  ASSUME KvInv, NEW e \in LogEntries, log' = Append(log, e), UNCHANGED seen
  PROVE  BatchSeenWhole'
<1>1. /\ Len(log) \in Nat
      /\ \A n \in 1 .. Len(log) : log'[n] = log[n]
      /\ DOMAIN log' = 1 .. (Len(log) + 1)
      /\ log'[Len(log) + 1] = e
  BY LogGrows, LogDomain, Zenon
<1>2. \A c \in Callers, k \in KeySet : seen[c][k] <= Len(log) /\ seen[c][k] \in Nat
  BY Zenon DEF KvInv, KvType
<1> SUFFICES ASSUME NEW c \in Callers, NEW n \in 1 .. (Len(log) + 1),
                    log'[n].op = "write", log'[n].out # "panicked",
                    NEW k \in log'[n].keys, NEW l \in log'[n].keys, seen[c][k] = n
             PROVE  seen[c][l] >= n
  BY <1>1 DEF BatchSeenWhole
<1>3. n \in 1 .. Len(log)
  <2>1. CASE n = Len(log) + 1
    <3>1. k \in KeySet
      BY <1>1, <2>1, Zenon DEF LogEntries
    <3> QED BY <1>1, <1>2, <2>1, <3>1
  <2> QED BY <1>1, <2>1
<1> QED
  BY <1>1, <1>3, LogDomain, Zenon DEF KvInv, BatchSeenWhole

(* WriteBatch takes the lock.                                                 *)
LEMMA WriteBatchKeeps ==
  ASSUME KvInv, NEW c \in Callers, NEW b \in Batches, WriteBatch(c, b), UNCHANGED user,
         user = "store"
  PROVE  KvInv'
<1> DEFINE e == [op |-> "write", keys |-> Elems(b), out |-> "open"]
           n == Len(log)
<1>1. b \in Seq(KeySet) /\ b # <<>> /\ "free" \notin Callers /\ Elems(b) \subseteq KeySet
  BY KvAssumption, ElementOfSeq DEF Elems
<1>2. e \in LogEntries
  BY <1>1, Zenon DEF LogEntries
<1>3. log' = Append(log, e) /\ lock = "free" /\ lock' = c
  BY Zenon DEF WriteBatch, NewCall, LockFree
<1>4. n \in Nat /\ DOMAIN log = 1 .. n
  BY LogDomain, Zenon
<1>5. e.op = "write" /\ e.keys = Elems(b) /\ e.out = "open"
  BY Zenon
<1> HIDE DEF e
<1>6. /\ log' \in Seq(LogEntries) /\ Len(log') = n + 1
      /\ \A j \in 1 .. n : log'[j] = log[j]
      /\ log'[n + 1] = e
  BY <1>2, <1>3, LogGrows, Zenon
<1>7. BatchSeenWhole'
  BY <1>2, <1>3, NewUnseen, Zenon DEF WriteBatch
<1>8. \A d \in Callers : call[d].at = "idle"
  BY <1>3, NobodyInside, Zenon
<1>9. /\ call' \in [Callers -> Calls]
      /\ \A d \in Callers : d # c => call'[d].at = "idle"
      /\ call'[c] = [at |-> "before", id |-> n + 1, keys |-> b]
  BY <1>1, <1>4, <1>8, SMTT(30) DEF WriteBatch, KvInv, KvType, Calls
<1>10. UNCHANGED <<treeVars, reference, touched, seen, user>>
  BY Zenon DEF WriteBatch
<1> HIDE DEF n
<1>11. KvType'
  BY <1>6, <1>9, <1>10, Zenon DEF KvInv, KvType
<1>12. Covered'
  BY <1>9, <1>10 DEF KvInv, Covered, TreeInv, Keys, Nodes, treeVars
<1>13. \A d \in Callers, k \in KeySet : seen[d][k] \in Nat /\ seen[d][k] <= n
  BY Zenon DEF KvInv, KvType, n
<1>14. \A k \in KeySet : touched[k] \in Nat /\ touched[k] <= n
  BY Zenon DEF KvInv, KvType, n
<1>15. UnderWay(c)'
  BY <1>1, <1>3, <1>4, <1>5, <1>6, <1>9, <1>10, <1>13, SMTT(30) DEF UnderWay
<1>16. \A d \in Callers : call'[d].at # "idle" => UnderWay(d)'
  BY <1>9, <1>15, Zenon
<1>17. \A j \in 1 .. n : Ended(j)'
  BY <1>1, <1>3, <1>4, <1>6, <1>10, ZenonT(30) DEF KvInv, Ended, n
<1>18. ASSUME NEW j, j = n + 1 PROVE Ended(j)'
  BY <1>1, <1>3, <1>5, <1>6, <1>18, Zenon DEF Ended
<1>19. \A j \in 1 .. Len(log') : Ended(j)'
  <2> SUFFICES ASSUME NEW j \in 1 .. Len(log') PROVE Ended(j)'
    OBVIOUS
  <2>1. j \in 1 .. n \/ j = n + 1
    BY <1>4, <1>6, SMTT(30)
  <2> QED BY <1>17, <1>18, <2>1, Zenon
<1> QED
  BY <1>4, <1>6, <1>7, <1>10, <1>11, <1>12, <1>13, <1>14, <1>16, <1>19, SMTT(30) DEF KvInv

(* A delete is one step; it is newer than all that was touched before.        *)
LEMMA DeleteBatchKeeps ==
  ASSUME KvInv, NEW c \in Callers, NEW b \in Batches, DeleteBatch(c, b), UNCHANGED user,
         user = "store"
  PROVE  KvInv'
<1> DEFINE out == IF alive.reference THEN "ok" ELSE "panicked"
           e == [op |-> "delete", keys |-> Elems(b), out |-> out]
           n == Len(log)
<1>1. b \in Seq(KeySet) /\ Elems(b) \subseteq KeySet
  BY KvAssumption, ElementOfSeq DEF Elems
<1>2. e \in LogEntries
  BY <1>1, Zenon DEF LogEntries
<1>3. log' = Append(log, e) /\ lock = "free"
  BY Zenon DEF DeleteBatch, NewCall, LockFree
<1>4. n \in Nat /\ DOMAIN log = 1 .. n
  BY LogDomain, Zenon
<1>5. e.op = "delete" /\ e.keys = Elems(b) /\ e.out # "open"
  OBVIOUS
<1> HIDE DEF e
<1>6. /\ log' \in Seq(LogEntries) /\ Len(log') = n + 1
      /\ \A j \in 1 .. n : log'[j] = log[j]
      /\ log'[n + 1] = e
  BY <1>2, <1>3, LogGrows, Zenon
<1>7. BatchSeenWhole'
  BY <1>2, <1>3, NewUnseen, Zenon DEF DeleteBatch
<1>8. \A d \in Callers : call[d].at = "idle"
  BY <1>3, NobodyInside, Zenon
<1>10. UNCHANGED <<treeVars, lock, call, seen, user>>
  BY Zenon DEF DeleteBatch
<1> HIDE DEF n
<1>13. \A d \in Callers, k \in KeySet : seen[d][k] \in Nat /\ seen[d][k] <= n
  BY Zenon DEF KvInv, KvType, n
<1>14. \A k \in KeySet : touched[k] \in Nat /\ touched[k] <= n /\ reference[k] \in Nat
  BY Zenon DEF KvInv, KvType, n
<1>15. /\ reference' \in [KeySet -> Nat] /\ touched' \in [KeySet -> Nat]
       /\ \A k \in KeySet : reference'[k] = 0 \/ reference'[k] = reference[k]
       /\ \A k \in KeySet : touched'[k] = n + 1 \/ touched'[k] = touched[k]
  <2>1. CASE alive.reference
    <3>1. /\ reference' = [k \in KeySet |-> IF k \in Elems(b) THEN 0 ELSE reference[k]]
          /\ touched' = [k \in KeySet |-> IF k \in Elems(b) THEN n + 1 ELSE touched[k]]
      BY <2>1, Zenon DEF DeleteBatch, n
    <3> QED BY <1>4, <1>14, <3>1, SMTT(30)
  <2>2. CASE ~alive.reference
    BY <2>2, Zenon DEF DeleteBatch, KvInv, KvType
  <2> QED BY <2>1, <2>2, Zenon
<1>11. KvType'
  BY <1>6, <1>10, <1>15, ZenonT(30) DEF KvInv, KvType
<1>12. Covered'
  BY <1>8, <1>10, <1>15, Zenon DEF KvInv, Covered, TreeInv, Keys, Nodes, treeVars
<1>16. \A d \in Callers : call'[d].at # "idle" => UnderWay(d)'
  BY <1>8, <1>10, Zenon
<1>17. ASSUME NEW j \in 1 .. n PROVE Ended(j)'
  <2>1. Ended(j) /\ log'[j] = log[j] /\ log[j].keys \subseteq KeySet /\ log[j].out # "open"
    BY <1>3, <1>6, LogDomain, Zenon DEF KvInv, n, LogEntries, Ended
  <2>2. \A k \in log[j].keys : touched[k] >= j => touched'[k] >= j
    BY <1>4, <1>14, <1>15, <2>1, SMTT(30)
  <2> QED BY <2>1, <2>2, Zenon DEF Ended
<1>18. ASSUME NEW j, j = n + 1 PROVE Ended(j)'
  BY <1>5, <1>6, <1>18, Zenon DEF Ended
<1>19. \A j \in 1 .. Len(log') : Ended(j)'
  <2> SUFFICES ASSUME NEW j \in 1 .. Len(log') PROVE Ended(j)'
    OBVIOUS
  <2>1. j \in 1 .. n \/ j = n + 1
    BY <1>4, <1>6
  <2> QED BY <1>17, <1>18, <2>1, Zenon
<1>20. \A k \in KeySet : touched'[k] <= n + 1
  BY <1>4, <1>14, <1>15, SMTT(30)
<1>21. \A d \in Callers, k \in KeySet : seen'[d][k] <= n + 1
  BY <1>4, <1>10, <1>13, SMTT(30)
<1> QED
  BY <1>6, <1>7, <1>8, <1>10, <1>11, <1>12, <1>16, <1>19, <1>20, <1>21, Zenon DEF KvInv

(* The end of a write, which may report success only if all of it is written. *)
LEMMA LeaveKeeps ==
  ASSUME KvInv, NEW c \in Callers, call[c].at # "idle", NEW out \in {"ok", "panicked"},
         Leave(c, out),
         out = "ok" => \A k \in log[Len(log)].keys : touched[k] = Len(log),
         UNCHANGED <<treeVars, user, reference, touched, seen>>
  PROVE  KvInv'
<1> DEFINE n == Len(log)
           e == [log[n] EXCEPT !.out = out]
<1>1. UnderWay(c) /\ lock' = "free" /\ call[c].id = n
  BY Zenon DEF KvInv, Leave, UnderWay
<1>2. n \in Nat /\ n > 0 /\ n \in 1 .. n /\ log[n] \in LogEntries /\ DOMAIN log = 1 .. n
      /\ log \in Seq(LogEntries)
  <2>1. n \in Nat /\ DOMAIN log = 1 .. n /\ \A i \in 1 .. n : log[i] \in LogEntries
    BY LogDomain, Zenon
  <2>2. n > 0 /\ log \in Seq(LogEntries)
    BY <1>1, Zenon DEF UnderWay, KvInv, KvType
  <2> HIDE DEF n
  <2>3. n \in 1 .. n
    BY <2>1, <2>2
  <2> QED BY <2>1, <2>2, <2>3, Zenon
<1>3. e \in LogEntries /\ e.out = out /\ e.keys = log[n].keys /\ e.op = log[n].op
  BY <1>2, Zenon DEF LogEntries
<1>4. log' = [log EXCEPT ![n] = e]
  BY <1>1, Zenon DEF Leave
<1> HIDE DEF e
<1>5. /\ log' \in Seq(LogEntries) /\ Len(log') = n
      /\ \A j \in 1 .. n : log'[j] = IF j = n THEN e ELSE log[j]
      /\ DOMAIN log' = 1 .. n
  BY <1>2, <1>3, <1>4, ExceptSeq, SMTT(30)
<1>6. \A d \in Callers : d # c => call[d].at = "idle"
  BY <1>1, Alone, Zenon DEF UnderWay
<1>7. call' \in [Callers -> Calls] /\ \A d \in Callers : call'[d].at = "idle"
  <2>1. call' = [call EXCEPT ![c] = Idle] /\ Idle \in Calls /\ Idle.at = "idle"
    BY EmptySeq, Zenon DEF Leave, Idle, Calls
  <2>2. call \in [Callers -> Calls]
    BY Zenon DEF KvInv, KvType
  <2> QED BY <1>6, <2>1, <2>2, Zenon
<1>8. KvType'
  BY <1>5, <1>7, ZenonT(30) DEF KvInv, KvType
<1>9. Covered'
  BY <1>7, Zenon DEF KvInv, Covered, TreeInv, Keys, Nodes, treeVars
<1>10. ASSUME NEW j \in 1 .. n PROVE Ended(j)'
  <2>1. CASE j = n
    <3>1. log'[j] = e /\ out # "open"
      BY <1>5, <2>1, Zenon
    <3>2. \A k \in log[n].keys : k \in KeySet /\ touched[k] \in Nat
      BY <1>2, Zenon DEF KvInv, KvType, LogEntries
    <3>3. out = "ok" => \A k \in log[n].keys : touched[k] = n /\ touched[k] >= j
      BY <1>2, <2>1, <3>2, SMTT(30)
    <3> QED BY <1>3, <3>1, <3>3, Zenon DEF Ended
  <2>2. CASE j # n
    BY <1>5, <2>2, ZenonT(30) DEF Ended, KvInv
  <2> QED BY <2>1, <2>2, Zenon
<1>11. ASSUME NEW d \in Callers, NEW j \in 1 .. n,
              log'[j].op = "write", log'[j].out # "panicked",
              NEW k \in log'[j].keys, NEW l \in log'[j].keys, seen[d][k] = j
       PROVE  seen[d][l] >= j
  <2>1. j # n
    <3> SUFFICES ASSUME j = n PROVE FALSE
      BY Zenon
    <3>1. k \in KeySet /\ seen[d][k] < n
      BY <1>1, <1>2, <1>3, <1>5, Zenon DEF LogEntries, UnderWay
    <3> QED BY <1>2, <1>11, <3>1
  <2> QED
    BY <1>2, <1>5, <1>11, <2>1, Zenon DEF KvInv, BatchSeenWhole
<1>12. BatchSeenWhole'
  BY <1>5, <1>11, ZenonT(30) DEF BatchSeenWhole
<1> HIDE DEF n
<1> QED
  BY <1>5, <1>7, <1>8, <1>9, <1>10, <1>12, Zenon DEF KvInv, n

(* A write that goes on keeps the lock, its number and its entry of the log.  *)
LEMMA GoesOn ==
  ASSUME KvInv, NEW c \in Callers, call[c].at # "idle",
         NEW cl \in Calls, call' = [call EXCEPT ![c] = cl], cl.id = call[c].id,
         cl.at # "idle", cl.keys # <<>>,
         UNCHANGED <<user, lock, log, seen>>, user = "store",
         reference' \in [KeySet -> Nat], touched' \in [KeySet -> Nat],
         \A k \in KeySet : touched'[k] = touched[k] \/ touched'[k] = Len(log),
         \A k \in log[Len(log)].keys : k \in Elems(cl.keys) \/ touched'[k] = Len(log),
         cl.at = "after" => touched'[Head(cl.keys)] = Len(log),
         TreeInv',
         \A k \in KeySet : reference'[k] # 0 => k \in Keys',
         cl.at \in {"put", "after"} => Head(cl.keys) \in Keys'
  PROVE  KvInv'
<1> DEFINE n == Len(log)
<1>1. UnderWay(c) /\ call \in [Callers -> Calls]
  BY Zenon DEF KvInv, KvType
<1>2. n \in Nat /\ n > 0 /\ DOMAIN log = 1 .. n
  BY <1>1, LogDomain, Zenon DEF UnderWay
<1>3. /\ call' \in [Callers -> Calls] /\ call'[c] = cl
      /\ \A d \in Callers : d # c => call'[d].at = "idle"
  <2>1. \A d \in Callers : d # c => call[d].at = "idle"
    BY <1>1, Alone, Zenon DEF UnderWay
  <2> QED BY <1>1, <2>1, Zenon
<1>4. KvType'
  BY <1>3, Zenon DEF KvInv, KvType
<1>5. Covered'
  BY <1>3, Zenon DEF Covered
<1>6. UnderWay(c)'
  BY <1>1, <1>3, Zenon DEF UnderWay
<1>7. \A d \in Callers : call'[d].at # "idle" => UnderWay(d)'
  BY <1>3, <1>6, Zenon
<1>8. \A k \in KeySet : touched[k] \in Nat /\ touched[k] <= n
  BY Zenon DEF KvInv, KvType
<1>9. ASSUME NEW j \in 1 .. n PROVE Ended(j)'
  <2>1. Ended(j) /\ log[j].keys \subseteq KeySet
    BY LogDomain, Zenon DEF KvInv, LogEntries
  <2>2. \A k \in log[j].keys : touched[k] >= j => touched'[k] >= j
    BY <1>2, <1>8, <2>1, SMTT(30)
  <2> QED BY <2>1, <2>2, Zenon DEF Ended
<1>10. \A k \in KeySet : touched'[k] <= n
  BY <1>2, <1>8, SMTT(30)
<1>11. BatchSeenWhole'
  BY ZenonT(30) DEF KvInv, BatchSeenWhole
<1> HIDE DEF n
<1> QED
  BY <1>4, <1>5, <1>7, <1>9, <1>10, <1>11, ZenonT(30) DEF KvInv, n

(* What a write under way has in hand.                                        *)
LEMMA InHand ==
  ASSUME KvInv, NEW c \in Callers, call[c].at # "idle"
  PROVE  /\ UnderWay(c) /\ call[c] \in Calls
         /\ call[c].keys \in Seq(KeySet) /\ Head(call[c].keys) \in KeySet
         /\ Elems(call[c].keys) = {Head(call[c].keys)} \cup Elems(Tail(call[c].keys))
         /\ Tail(call[c].keys) \in Seq(KeySet)
         /\ Len(call[c].keys) # 1 => Tail(call[c].keys) # <<>>
         /\ Len(call[c].keys) = 1 => Elems(call[c].keys) = {Head(call[c].keys)}
<1> DEFINE s == call[c].keys
           t == Tail(s)
<1>1. UnderWay(c) /\ call[c] \in Calls /\ s \in Seq(KeySet) /\ s # <<>>
  BY Zenon DEF KvInv, KvType, UnderWay, Calls
<1> HIDE DEF s
<1>2. /\ Head(s) \in KeySet /\ t \in Seq(KeySet) /\ Len(t) = Len(s) - 1
      /\ \A i \in 1 .. Len(t) : t[i] = s[i + 1]
      /\ Head(s) = s[1]
  BY <1>1, HeadTailProperties
<1>3. /\ Len(s) \in Nat /\ DOMAIN s = 1 .. Len(s) /\ Len(t) \in Nat /\ DOMAIN t = 1 .. Len(t)
      /\ Len(s) > 0
  BY <1>1, <1>2, LenProperties
<1> HIDE DEF t
<1>4. ASSUME NEW i \in DOMAIN s PROVE s[i] \in {Head(s)} \cup Elems(t)
  <2>1. CASE i = 1
    BY <1>2, <2>1, Zenon
  <2>2. CASE i # 1
    <3>1. i - 1 \in 1 .. Len(t) /\ (i - 1) + 1 = i
      BY <1>2, <1>3, <2>2
    <3> QED BY <1>2, <1>3, <3>1, Zenon DEF Elems
  <2> QED BY <2>1, <2>2, Zenon
<1>5. ASSUME NEW i \in DOMAIN t PROVE t[i] \in Elems(s)
  <2>1. i + 1 \in 1 .. Len(s) /\ t[i] = s[i + 1]
    BY <1>2, <1>3, SMTT(30)
  <2> QED BY <1>3, <2>1, Zenon DEF Elems
<1>6. Head(s) \in Elems(s)
  <2>1. 1 \in 1 .. Len(s)
    BY <1>3
  <2> QED BY <1>2, <1>3, <2>1, Zenon DEF Elems
<1>7. Elems(s) = {Head(s)} \cup Elems(t)
  BY <1>4, <1>5, <1>6, Zenon DEF Elems
<1>8. Len(s) # 1 => t # <<>>
  <2>1. Len(<<>>) = 0
    BY EmptySeq, Zenon
  <2>2. Len(s) # 1 => Len(t) # 0
    BY <1>2, <1>3
  <2> QED BY <2>1, <2>2, Zenon
<1>9. Len(s) = 1 => Elems(s) = {Head(s)}
  <2> SUFFICES ASSUME Len(s) = 1 PROVE Elems(s) = {Head(s)}
    OBVIOUS
  <2>1. DOMAIN s = {1}
    BY <1>3
  <2> QED BY <1>2, <2>1, Zenon DEF Elems
<1> QED
  BY <1>1, <1>2, <1>7, <1>8, <1>9, ZenonT(30) DEF s, t

(* The hook before a write inserts the key into the tree, or fails and ends   *)
(* the call.                                                                  *)
LEMMA BeforeWriteKeeps ==
  ASSUME KvInv, NEW c \in Callers, BeforeWrite(c), UNCHANGED user, user = "store"
  PROVE  KvInv'
<1>1. call[c].at # "idle"
  BY Zenon DEF BeforeWrite
<1>2. CASE ~ExecHook("BeforeWrite")
  BY <1>1, <1>2, LeaveKeeps, Zenon DEF BeforeWrite
<1>3. CASE ExecHook("BeforeWrite")
  <2> DEFINE cl == [call[c] EXCEPT !.at = "put"]
  <2>1. /\ UnderWay(c) /\ call[c] \in Calls
        /\ call \in [Callers -> Calls]
    BY <1>1, InHand, Zenon DEF KvInv, KvType
  <2>2. call' = [call EXCEPT ![c] = cl]
    BY <1>3, Zenon DEF BeforeWrite
  <2>3. cl \in Calls /\ cl.id = call[c].id /\ cl.keys = call[c].keys /\ cl.at = "put"
    BY <2>1, Zenon DEF Calls
  <2>4. TreeInv' /\ Keys' = Keys \cup {Head(call[c].keys)}
    BY <1>3, InsertAdds, Zenon DEF BeforeWrite, Insert, KvInv, Covered
  <2>5. UNCHANGED <<user, lock, log, seen, reference, touched>>
    BY <1>3, Zenon DEF BeforeWrite
  <2>6. \A k \in KeySet : reference'[k] # 0 => k \in Keys'
    BY <2>4, <2>5, Zenon DEF KvInv, Covered
  <2>7. \A k \in log[Len(log)].keys : k \in Elems(cl.keys) \/ touched'[k] = Len(log)
    BY <2>1, <2>3, <2>5, Zenon DEF UnderWay
  <2>8. cl.keys # <<>> /\ cl.at # "idle"
    BY <2>1, <2>3, Zenon DEF UnderWay
  <2>9. reference' \in [KeySet -> Nat] /\ touched' \in [KeySet -> Nat]
    BY <2>5, Zenon DEF KvInv, KvType
  <2> HIDE DEF cl
  <2> QED BY <1>1, <2>2, <2>3, <2>4, <2>5, <2>6, <2>7, <2>8, <2>9, GoesOn, ZenonT(30)
<1> QED BY <1>2, <1>3, Zenon

(* One key of the batch is put into the store.                                *)
LEMMA PutKeeps ==
  ASSUME KvInv, NEW c \in Callers, Put(c), UNCHANGED user, user = "store"
  PROVE  KvInv'
<1>1. call[c].at # "idle"
  BY Zenon DEF Put
<1>2. CASE ~alive.reference
  BY <1>1, <1>2, LeaveKeeps, Zenon DEF Put
<1>3. CASE alive.reference
  <2> DEFINE cl == [call[c] EXCEPT !.at = "after"]
             h == Head(call[c].keys)
  <2>1. /\ UnderWay(c) /\ call[c] \in Calls /\ h \in KeySet
        /\ call \in [Callers -> Calls] /\ call[c].id = Len(log) /\ Len(log) \in Nat
    BY <1>1, InHand, LogDomain, Zenon DEF KvInv, KvType, UnderWay
  <2>2. call' = [call EXCEPT ![c] = cl]
    BY <1>3, Zenon DEF Put
  <2>3. cl \in Calls /\ cl.id = call[c].id /\ cl.keys = call[c].keys /\ cl.at = "after"
    BY <2>1, Zenon DEF Calls
  <2>4. TreeInv' /\ Keys' = Keys /\ h \in Keys
    BY Zenon DEF Put, KvInv, Covered, TreeInv, Keys, Nodes, treeVars
  <2>5. UNCHANGED <<user, lock, log, seen>>
    BY <1>3, Zenon DEF Put
  <2>6. /\ reference' = [reference EXCEPT ![h] = Len(log)]
        /\ touched' = [touched EXCEPT ![h] = Len(log)]
    BY <1>3, <2>1, Zenon DEF Put
  <2>7. reference \in [KeySet -> Nat] /\ touched \in [KeySet -> Nat]
    BY Zenon DEF KvInv, KvType
  <2> HIDE DEF h
  <2>8. /\ reference' \in [KeySet -> Nat] /\ touched' \in [KeySet -> Nat]
        /\ \A k \in KeySet : reference'[k] = IF k = h THEN Len(log) ELSE reference[k]
        /\ \A k \in KeySet : touched'[k] = IF k = h THEN Len(log) ELSE touched[k]
    BY <2>1, <2>6, <2>7, Zenon
  <2>9. \A k \in KeySet : reference'[k] # 0 => k \in Keys'
    BY <2>4, <2>8, Zenon DEF KvInv, Covered
  <2>10. \A k \in log[Len(log)].keys : k \in Elems(cl.keys) \/ touched'[k] = Len(log)
    <3>1. \A k \in log[Len(log)].keys : k \in KeySet
      <4>1. Len(log) \in 1 .. Len(log)
        BY <2>1 DEF UnderWay
      <4>2. log[Len(log)] \in LogEntries
        BY <4>1, LogDomain, Zenon
      <4> QED BY <4>2, Zenon DEF LogEntries
    <3> QED BY <2>1, <2>3, <2>8, <3>1, Zenon DEF UnderWay
  <2>11. cl.keys # <<>> /\ cl.at # "idle" /\ Head(cl.keys) = h
    BY <2>1, <2>3, Zenon DEF UnderWay, h
  <2>12. touched'[h] = Len(log) /\ h \in Keys'
    BY <2>1, <2>4, <2>8, Zenon
  <2>13. \A k \in KeySet : touched'[k] = touched[k] \/ touched'[k] = Len(log)
    BY <2>8, Zenon
  <2> HIDE DEF cl
  <2> QED BY <1>1, <2>2, <2>3, <2>4, <2>5, <2>8, <2>9, <2>10, <2>11, <2>12, <2>13, GoesOn, ZenonT(30)
<1> QED BY <1>2, <1>3, Zenon

(* After a key the call goes on with the next one, or leaves.                 *)
LEMMA AfterWriteKeeps ==
  ASSUME KvInv, NEW c \in Callers, AfterWrite(c), UNCHANGED user, user = "store"
  PROVE  KvInv'
<1> DEFINE s == call[c].keys
<1>1. call[c].at # "idle" /\ call[c].at = "after"
  BY Zenon DEF AfterWrite
<1>0. /\ UnderWay(c) /\ call[c] \in Calls
      /\ Elems(s) = {Head(s)} \cup Elems(Tail(s))
      /\ Tail(s) \in Seq(KeySet)
      /\ Len(s) # 1 => Tail(s) # <<>>
      /\ Len(s) = 1 => Elems(s) = {Head(s)}
      /\ touched[Head(s)] = Len(log)
      /\ \A k \in log[Len(log)].keys : k \in Elems(s) \/ touched[k] = Len(log)
  BY <1>1, InHand, Zenon DEF UnderWay
<1>2. CASE ~ExecHook("AfterWrite")
  BY <1>1, <1>2, LeaveKeeps, Zenon DEF AfterWrite
<1>3. CASE ExecHook("AfterWrite") /\ Len(s) = 1
  <2>1. \A k \in log[Len(log)].keys : touched[k] = Len(log)
    BY <1>0, <1>3, ZenonT(30)
  <2> QED BY <1>1, <1>3, <2>1, LeaveKeeps, Zenon DEF AfterWrite
<1>4. CASE ExecHook("AfterWrite") /\ Len(s) # 1
  <2> DEFINE cl == [call[c] EXCEPT !.at = "before", !.keys = Tail(@)]
  <2>1. call \in [Callers -> Calls]
    BY Zenon DEF KvInv, KvType
  <2>2. call' = [call EXCEPT ![c] = cl]
    BY <1>4, Zenon DEF AfterWrite
  <2>3. cl \in Calls /\ cl.id = call[c].id /\ cl.keys = Tail(s) /\ cl.at = "before"
    BY <1>0, Zenon DEF Calls
  <2>4. TreeInv' /\ Keys' = Keys
    BY Zenon DEF AfterWrite, KvInv, Covered, TreeInv, Keys, Nodes, treeVars
  <2>5. UNCHANGED <<user, lock, log, seen, reference, touched>>
    BY <1>4, Zenon DEF AfterWrite
  <2>6. \A k \in KeySet : reference'[k] # 0 => k \in Keys'
    BY <2>4, <2>5, Zenon DEF KvInv, Covered
  <2>7. \A k \in log[Len(log)].keys : k \in Elems(cl.keys) \/ touched'[k] = Len(log)
    BY <1>0, <2>3, <2>5, Zenon
  <2>8. cl.keys # <<>> /\ cl.at # "idle"
    BY <1>0, <1>4, <2>3, Zenon
  <2>9. reference' \in [KeySet -> Nat] /\ touched' \in [KeySet -> Nat]
    BY <2>5, Zenon DEF KvInv, KvType
  <2> HIDE DEF cl
  <2> QED BY <1>1, <2>2, <2>3, <2>4, <2>5, <2>6, <2>7, <2>8, <2>9, GoesOn, ZenonT(30)
<1> QED BY <1>2, <1>3, <1>4, Zenon

(* A read finds no write under way, and each one that ended well whole.       *)
LEMMA ReadBatchKeeps ==
  ASSUME KvInv, NEW c \in Callers, ReadBatch(c), UNCHANGED user
  PROVE  KvInv'
<1>1. \A d \in Callers : call[d].at = "idle"
  BY NobodyInside, Zenon DEF ReadBatch, LockFree
<1>2. seen \in [Callers -> [KeySet -> Nat]] /\ touched \in [KeySet -> Nat]
      /\ seen' = [seen EXCEPT ![c] = touched]
  BY Zenon DEF KvInv, KvType, ReadBatch
<1>3. /\ seen' \in [Callers -> [KeySet -> Nat]]
      /\ \A d \in Callers : seen'[d] = IF d = c THEN touched ELSE seen[d]
  BY <1>2, Zenon
<1>4. UNCHANGED <<treeVars, user, reference, lock, call, log, touched>> /\ lock = "free"
  BY Zenon DEF ReadBatch, LockFree
<1>5. KvType'
  BY <1>3, <1>4, Zenon DEF KvInv, KvType
<1>6. Covered'
  BY <1>4, Zenon DEF KvInv, Covered, TreeInv, Keys, Nodes, treeVars
<1>7. \A j \in 1 .. Len(log') : Ended(j)'
  BY <1>4, ZenonT(30) DEF KvInv, Ended
<1>8. \A d \in Callers, k \in KeySet : seen'[d][k] <= Len(log')
  BY <1>3, <1>4, ZenonT(30) DEF KvInv
<1>9. ASSUME NEW d \in Callers, NEW j \in 1 .. Len(log),
             log[j].op = "write", log[j].out # "panicked",
             NEW k \in log[j].keys, NEW l \in log[j].keys, seen'[d][k] = j
      PROVE  seen'[d][l] >= j
  <2>1. CASE d = c
    <3>1. log[j].out = "ok" /\ Ended(j)
      BY <1>4, <1>9, LogDomain, Zenon DEF KvInv, Ended, LogEntries
    <3> QED BY <1>3, <1>9, <2>1, <3>1, Zenon DEF Ended
  <2>2. CASE d # c
    BY <1>3, <1>9, <2>2, LogDomain, ZenonT(30) DEF KvInv, BatchSeenWhole
  <2> QED BY <2>1, <2>2, Zenon
<1>10. BatchSeenWhole'
  BY <1>4, <1>9, LogDomain, Zenon DEF BatchSeenWhole
<1> QED
  BY <1>1, <1>4, <1>5, <1>6, <1>7, <1>8, <1>10, Zenon DEF KvInv

(* Every step of the store keeps the invariant.                               *)
LEMMA KvInductive == KvInv /\ [KvNext]_kvVars => KvInv'
<1> SUFFICES ASSUME KvInv, [KvNext]_kvVars PROVE KvInv'
  OBVIOUS
<1>1. CASE user = "test" /\ TreeNext /\ UNCHANGED storeVars /\ UNCHANGED user
  BY <1>1, TestKeeps, Zenon
<1>2. CASE user = "store" /\ StoreNext /\ UNCHANGED user
  <2>1. CASE \E t \in HookTypes : RegisterHook(t)
    BY <1>2, <2>1, AsideKeeps, Zenon DEF RegisterHook
  <2>2. ASSUME NEW c \in Callers, NEW b \in Batches, WriteBatch(c, b) PROVE KvInv'
    BY <1>2, <2>2, WriteBatchKeeps, Zenon
  <2>3. ASSUME NEW c \in Callers, NEW b \in Batches, DeleteBatch(c, b) PROVE KvInv'
    BY <1>2, <2>3, DeleteBatchKeeps, Zenon
  <2>4. ASSUME NEW c \in Callers, BeforeWrite(c) PROVE KvInv'
    BY <1>2, <2>4, BeforeWriteKeeps, Zenon
  <2>5. ASSUME NEW c \in Callers, Put(c) PROVE KvInv'
    BY <1>2, <2>5, PutKeeps, Zenon
  <2>6. ASSUME NEW c \in Callers, AfterWrite(c) PROVE KvInv'
    BY <1>2, <2>6, AfterWriteKeeps, Zenon
  <2>7. ASSUME NEW c \in Callers, ReadBatch(c) PROVE KvInv'
    BY <1>2, <2>7, ReadBatchKeeps, Zenon
  <2>8. CASE Destroy
    BY <1>2, <2>8, AsideKeeps, Zenon DEF Destroy
  <2> QED
    BY <1>2, <2>1, <2>2, <2>3, <2>4, <2>5, <2>6, <2>7, <2>8, Zenon DEF StoreNext
<1>3. CASE UNCHANGED kvVars
  BY <1>3, AsideKeeps, Zenon DEF kvVars, storeVars, treeVars
<1> QED
  BY <1>1, <1>2, <1>3, Zenon DEF KvNext

(* kv.go:398-419, with any keys, callers and calls: a key of the map is in    *)
(* the tree of keys.                                                          *)
THEOREM StoreIsCovered == KvSpec => []TreeCoversStore
<1>1. KvInv => TreeCoversStore
  BY Zenon DEF KvInv, KvType, Covered, TreeCoversStore
<1> QED
  BY <1>1, KvInitially, KvInductive, PTL DEF KvSpec

(* kv.go:382-435, likewise: a reader sees a batch that does not panic as one. *)
THEOREM BatchesAreAtomic == KvSpec => []BatchSeenWhole
<1>1. KvInv => BatchSeenWhole
  BY Zenon DEF KvInv
<1> QED
  BY <1>1, KvInitially, KvInductive, PTL DEF KvSpec

-----------------------------------------------------------------------------
(* The lookups. *)

LookupRecord ==
  [kind : Kinds, isShutdown : BOOLEAN, ticker : {"on", "cancelled", "stopped"},
   task : {"idle", "get", "dead"}, known : Nat, late : Nat]

SwitchPlaces == {"idle", "shutdown", "mark", "create", "assign"}

(* The loop, while it calls watchers, holds a version it has read.            *)
LoopSound(l) == l.at \in {"call", "apply"} => {"at", "read"} \subseteq DOMAIN l /\ l.read \in Nat

LookupType ==
  /\ lookups \in Seq(LookupRecord) /\ conf.version \in Nat
  /\ slots \in Seq(Nat) /\ length \in Nat /\ length <= Len(slots) /\ LoopSound(loop)
  /\ pc \in [Switchers -> SwitchPlaces] /\ new \in [Switchers -> Nat]
  /\ old \in [Switchers -> Nat]

(* A list is late only once: the task of a lookup that was shut down does not *)
(* ask again.                                                                 *)
LateInv ==
  \A o \in 1 .. Len(lookups) :
    \/ lookups[o].late = 0
    \/ lookups[o].late = 1 /\ lookups[o].isShutdown /\ lookups[o].task # "get"

(* A request that is alone is the only one, and what it has started is live;  *)
(* when it has settled nothing is under way.                                  *)
SwitchInv ==
  /\ lookUp \in 1 .. Len(lookups)
  /\ \A s \in Switchers : pc[s] = "assign" => new[s] \in 1 .. Len(lookups)
  /\ alone => \A s, q \in Switchers : pc[s] # "idle" /\ pc[q] # "idle" => s = q
  /\ \A s \in Switchers : alone /\ pc[s] = "assign" => Live(new[s])
  /\ settled => Live(lookUp) /\ \A s \in Switchers : pc[s] = "idle"

LookupInv == LookupType /\ LateInv /\ SwitchInv

(* A sequence with one element changed.                                       *)
LEMMA UpdateProperties ==
  ASSUME NEW S, NEW seq \in Seq(S), NEW i, NEW x, i \in DOMAIN seq => x \in S
  PROVE  /\ [seq EXCEPT ![i] = x] \in Seq(S) /\ Len([seq EXCEPT ![i] = x]) = Len(seq)
         /\ i \in DOMAIN seq => [seq EXCEPT ![i] = x][i] = x
         /\ \A k \in 1 .. Len(seq) : k # i => [seq EXCEPT ![i] = x][k] = seq[k]
<1>1. Len(seq) \in Nat /\ DOMAIN seq = 1 .. Len(seq) /\ seq \in [1 .. Len(seq) -> S]
  BY LenProperties, Zenon
<1> DEFINE new_ == [seq EXCEPT ![i] = x]
<1>2. new_ \in [1 .. Len(seq) -> S]
  BY <1>1, Zenon
<1>3. new_ \in Seq(S) /\ Len(new_) = Len(seq)
  BY <1>1, <1>2, IsASeq
<1> QED
  BY <1>1, <1>3, Zenon

(* The types of the lookups and of the requests.                              *)
LEMMA LookupFacts ==
  ASSUME LookupInv
  PROVE  /\ lookups \in Seq(LookupRecord) /\ Len(lookups) \in Nat /\ DOMAIN lookups = 1 .. Len(lookups)
         /\ \A o \in 1 .. Len(lookups) : lookups[o] \in LookupRecord
         /\ pc \in [Switchers -> SwitchPlaces] /\ new \in [Switchers -> Nat]
         /\ old \in [Switchers -> Nat] /\ lookUp \in 1 .. Len(lookups)
<1>1. lookups \in Seq(LookupRecord)
  BY Zenon DEF LookupInv, LookupType
<1>2. Len(lookups) \in Nat /\ DOMAIN lookups = 1 .. Len(lookups)
      /\ \A o \in 1 .. Len(lookups) : lookups[o] \in LookupRecord
  BY <1>1, LenProperties, ElementOfSeq, Zenon
<1> QED
  BY <1>1, <1>2, Zenon DEF LookupInv, LookupType, SwitchInv

(* The invariant holds with the lookup of the configuration.                  *)
LEMMA LookupInitially == Init => LookupInv
<1> SUFFICES ASSUME Init PROVE LookupInv
  OBVIOUS
<1> DEFINE r == Lookup(FirstKind)
<1>1. r \in LookupRecord /\ r.late = 0 /\ ~r.isShutdown /\ r.ticker = "on" /\ r.kind = FirstKind
  BY LookupAssumption, Zenon DEF Init, Lookup, LookupRecord
<1> HIDE DEF r
<1>2. lookups = <<r>> /\ lookUp = 1
  BY Zenon DEF Init, r
<1>3. lookups \in Seq(LookupRecord) /\ Len(lookups) = 1 /\ lookups[1] = r
  BY <1>1, <1>2
<1> DEFINE ws == IF FirstKind = "file" THEN <<1>> ELSE <<>>
<1>4. slots = ws /\ length = Len(ws) /\ watched = (ws # <<>>) /\ loop = [at |-> "receive"]
  BY Zenon DEF Init, WatchInit, Receiving
<1>5. slots \in Seq(Nat) /\ length \in Nat /\ length <= Len(slots)
  BY <1>4
<1>6. LookupType
  BY <1>3, <1>4, <1>5, Zenon DEF Init, LookupType, LoopSound, SwitchPlaces
<1>7. LateInv
  BY <1>1, <1>3 DEF LateInv
<1>8. Live(1)
  <2>1. CASE FirstKind = "file"
    <3>1. slots = <<1>> /\ length = 1 /\ watched
      BY <1>4, <2>1, Zenon
    <3>2. 1 \in 1 .. length /\ slots[1] = 1
      BY <3>1
    <3>3. 1 \in Listed
      BY <3>2, Zenon DEF Listed
    <3> QED BY <1>1, <1>3, <2>1, <3>1, <3>3, Zenon DEF Live
  <2>2. CASE FirstKind # "file"
    BY <1>1, <1>3, <2>2, Zenon DEF Live
  <2> QED BY <2>1, <2>2, Zenon
<1>9. SwitchInv
  BY <1>2, <1>3, <1>8 DEF Init, SwitchInv
<1> QED
  BY <1>6, <1>7, <1>9, Zenon DEF LookupInv

(* A lookup that no switch touches: it stays at work.                         *)
SameWork(a, b) == a.kind = b.kind /\ a.isShutdown = b.isShutdown /\ (a.ticker = "on" => b.ticker = "on")

(* A step of no switch changes what one lookup is doing, and not whether any  *)
(* is at work.                                                                *)
OneChanges(o, x) ==
  /\ UNCHANGED <<slots, length, watched, pc, old, new, lookUp, alone, settled>>
  /\ conf'.version \in Nat /\ LoopSound(loop')
  /\ lookups' = [lookups EXCEPT ![o] = x]
  /\ o \in DOMAIN lookups =>
       /\ x \in LookupRecord /\ SameWork(lookups[o], x)
       /\ x.late = 0 \/ (x.late = 1 /\ x.isShutdown /\ x.task # "get")

(* Such a step preserves the invariant.                                       *)
LEMMA OneLookup ==
  ASSUME LookupInv, NEW o, NEW x, OneChanges(o, x)
  PROVE  LookupInv'
<1>1. /\ lookups \in Seq(LookupRecord) /\ DOMAIN lookups = 1 .. Len(lookups)
  BY LookupFacts, Zenon
<1>2. /\ lookups' \in Seq(LookupRecord) /\ Len(lookups') = Len(lookups)
      /\ o \in DOMAIN lookups => lookups'[o] = x
      /\ \A k \in 1 .. Len(lookups) : k # o => lookups'[k] = lookups[k]
  BY <1>1, UpdateProperties DEF OneChanges
<1>3. ASSUME NEW k \in 1 .. Len(lookups) PROVE SameWork(lookups[k], lookups'[k])
  BY <1>1, <1>2, ZenonT(30) DEF OneChanges, SameWork
<1>4. ASSUME NEW k \in 1 .. Len(lookups), Live(k)
      PROVE  /\ ~lookups'[k].isShutdown
             /\ IF lookups'[k].kind = "file" THEN k \in Listed' /\ watched' ELSE lookups'[k].ticker = "on"
  BY <1>3, <1>4, ZenonT(30) DEF Live, Listed, SameWork, OneChanges
<1>5. LookupType'
  BY <1>2, Zenon DEF LookupInv, LookupType, OneChanges
<1>6. LateInv'
  BY <1>1, <1>2, Zenon DEF LookupInv, LateInv, OneChanges
<1>7. SwitchInv'
  <2>1. UNCHANGED <<pc, new, lookUp, alone, settled>>
    BY Zenon DEF OneChanges
  <2>2. SwitchInv
    BY Zenon DEF LookupInv
  <2>3. ASSUME NEW s \in Switchers, alone, pc[s] = "assign" PROVE Live(new[s])'
    BY <1>4, <2>1, <2>2, <2>3, Zenon DEF SwitchInv, Live
  <2>4. settled => Live(lookUp)'
    BY <1>4, <2>1, <2>2, Zenon DEF SwitchInv, Live
  <2> QED BY <1>2, <2>1, <2>2, <2>3, <2>4, Zenon DEF SwitchInv
<1> QED
  BY <1>5, <1>6, <1>7, Zenon DEF LookupInv

(* The task of an address-server lookup.                                      *)
LEMMA TaskKeeps ==
  ASSUME LookupInv, NEW o \in DOMAIN lookups, Tick(o) \/ StopTicker(o) \/ Answer(o)
  PROVE  LookupInv'
<1> DEFINE l == lookups[o]
<1>1. /\ o \in 1 .. Len(lookups) /\ l \in LookupRecord
      /\ l.late = 0 \/ (l.late = 1 /\ l.isShutdown /\ l.task # "get")
  BY LookupFacts, Zenon DEF LookupInv, LateInv
<1>2. /\ UNCHANGED <<slots, length, watched, pc, old, new, lookUp, alone, settled>>
      /\ conf'.version \in Nat /\ LoopSound(loop')
  BY Zenon DEF Tick, StopTicker, Answer, OnlyLookups, watchVars, LookupInv, LookupType
<1>3. \/ /\ lookups' = [lookups EXCEPT ![o] = [l EXCEPT !.task = "get"]] /\ ~l.isShutdown
      \/ lookups' = [lookups EXCEPT ![o] = [l EXCEPT !.ticker = "stopped"]] /\ l.ticker = "cancelled"
      \/ /\ l.task = "get"
         /\ \/ lookups' = [lookups EXCEPT ![o] = [l EXCEPT !.task = "idle",
                                                 !.late = IF l.isShutdown THEN l.late + 1 ELSE l.late]]
            \/ lookups' = [lookups EXCEPT ![o] = [l EXCEPT !.task = "idle"]]
            \/ lookups' = [lookups EXCEPT ![o] = [l EXCEPT !.task = "dead"]]
  BY Zenon DEF Tick, StopTicker, Answer, IsTask, Polls
<1> HIDE DEF l
<1> DEFINE Changed(x) == lookups' = [lookups EXCEPT ![o] = x]
           Good(x) == /\ x \in LookupRecord /\ SameWork(l, x)
                      /\ x.late = 0 \/ (x.late = 1 /\ x.isShutdown /\ x.task # "get")
<1>4. ASSUME NEW x, Changed(x), Good(x) PROVE LookupInv'
  <2>1. OneChanges(o, x)
    BY <1>2, <1>4, Zenon DEF OneChanges, l
  <2> QED BY <2>1, OneLookup, Zenon
<1>5. ASSUME ~l.isShutdown PROVE Good([l EXCEPT !.task = "get"])
  BY <1>1, <1>5, Zenon DEF LookupRecord, SameWork
<1>6. ASSUME l.ticker = "cancelled" PROVE Good([l EXCEPT !.ticker = "stopped"])
  BY <1>1, <1>6, Zenon DEF LookupRecord, SameWork
<1>7. ASSUME l.task = "get"
      PROVE  /\ Good([l EXCEPT !.task = "idle", !.late = IF l.isShutdown THEN l.late + 1 ELSE l.late])
             /\ Good([l EXCEPT !.task = "idle"]) /\ Good([l EXCEPT !.task = "dead"])
  <2>1. l.late = 0
    BY <1>1, <1>7, Zenon
  <2> DEFINE n == IF l.isShutdown THEN l.late + 1 ELSE l.late
  <2>2. n \in Nat /\ (n = 0 \/ (n = 1 /\ l.isShutdown))
    BY <2>1
  <2>3. Good([l EXCEPT !.task = "idle"]) /\ Good([l EXCEPT !.task = "dead"])
    BY <1>1, <2>1, Zenon DEF LookupRecord, SameWork
  <2> HIDE DEF n
  <2>4. Good([l EXCEPT !.task = "idle", !.late = n])
    BY <1>1, <2>2, Zenon DEF LookupRecord, SameWork
  <2> QED BY <2>3, <2>4, Zenon DEF n
<1> HIDE DEF Changed, Good
<1> QED
  BY <1>3, <1>4, <1>5, <1>6, <1>7, Zenon DEF Changed

(* The directory and the loop: no lookup changes but in what it knows.        *)
LEMMA LoopKeeps ==
  ASSUME LookupInv,
         (\E g \in BOOLEAN : WriteConf(g)) \/ OtherEvent \/ LoopStep \/ \E s \in Switchers : Race(s)
  PROVE  LookupInv'
<1>1. lookups \in Seq(LookupRecord) /\ DOMAIN lookups = 1 .. Len(lookups) /\ conf.version \in Nat
      /\ LoopSound(loop)
  BY LookupFacts, Zenon DEF LookupInv, LookupType
<1>2. /\ UNCHANGED <<slots, length, watched, pc, old, new, lookUp, alone, settled>>
  BY Zenon DEF WriteConf, OtherEvent, Occur, LoopStep, Receive, ReadConf, HasRead, ReadPanics, Panics,
     Deliver, Returned, Race, MapRace, lookupVars
<1>3. conf'.version \in Nat
  BY <1>1 DEF WriteConf, OtherEvent, LoopStep, Deliver, Race
<1>4. LoopSound(loop')
  <2>1. CASE UNCHANGED loop
    BY <1>1, <2>1, Zenon
  <2>2. CASE loop' \in {Receiving, Dead, [at |-> "crashed"]}
    BY <2>2 DEF LoopSound, Receiving, Dead
  <2>3. CASE Receive
    <3> DEFINE l == [at |-> "call", event |-> Head(queue), shared |-> TRUE,
                     array |-> <<>>, len |-> length, i |-> 1, f |-> 0, read |-> 0]
    <3>1. LoopSound(l)
      BY Zenon DEF LoopSound
    <3>2. loop' = l \/ loop' \in {Receiving, Dead}
      BY <2>3, Zenon DEF Receive, AfterCalls
    <3> QED BY <2>2, <3>1, <3>2, Zenon
  <2>4. CASE ReadConf
    <3>1. loop' = [loop EXCEPT !.at = "apply", !.f = Watcher, !.read = conf.version] /\ loop.at = "call"
      BY <2>4, Zenon DEF ReadConf, HasRead
    <3> QED BY <1>1, <3>1, Zenon DEF LoopSound
  <2>5. CASE Deliver
    <3>1. /\ loop.at = "apply"
          /\ \/ loop' = [loop EXCEPT !.at = "call", !.i = @ + 1, !.f = 0, !.read = 0]
             \/ loop' \in {Receiving, Dead}
      BY <2>5, Zenon DEF Deliver, Returned, AfterCalls
    <3>2. CASE loop' = [loop EXCEPT !.at = "call", !.i = @ + 1, !.f = 0, !.read = 0]
      BY <1>1, <3>1, <3>2, Zenon DEF LoopSound
    <3> QED BY <2>2, <3>1, <3>2, Zenon
  <2> QED
    BY <2>1, <2>2, <2>3, <2>4, <2>5, Zenon DEF WriteConf, OtherEvent, Occur, LoopStep, ReadPanics, Panics,
       Race, MapRace
<1>5. CASE Deliver
  <2> DEFINE o == loop.f
             l == lookups[o]
             x == [l EXCEPT !.known = loop.read]
  <2>1. lookups' = [lookups EXCEPT ![o] = x] /\ loop.read \in Nat
    BY <1>1, <1>5, Zenon DEF Deliver, Returned, LoopSound
  <2>2. ASSUME o \in DOMAIN lookups
        PROVE  /\ x \in LookupRecord /\ SameWork(l, x)
               /\ x.late = 0 \/ (x.late = 1 /\ x.isShutdown /\ x.task # "get")
    <3>1. l \in LookupRecord /\ (l.late = 0 \/ (l.late = 1 /\ l.isShutdown /\ l.task # "get"))
      BY <1>1, <2>2, LookupFacts, Zenon DEF LookupInv, LateInv
    <3> HIDE DEF l
    <3> QED BY <2>1, <3>1, Zenon DEF LookupRecord, SameWork
  <2> HIDE DEF x, o
  <2>3. OneChanges(o, x)
    BY <1>2, <1>3, <1>4, <2>1, <2>2, Zenon DEF OneChanges
  <2> QED BY <2>3, OneLookup, Zenon
<1>6. CASE UNCHANGED lookups
  <2>1. lookups' = [lookups EXCEPT ![0] = 0] /\ 0 \notin DOMAIN lookups
    BY <1>1, <1>6, LookupFacts
  <2>2. OneChanges(0, 0)
    BY <1>2, <1>3, <1>4, <2>1, Zenon DEF OneChanges
  <2> QED BY <2>2, OneLookup, Zenon
<1> QED
  BY <1>5, <1>6, Zenon DEF WriteConf, OtherEvent, LoopStep, Race, lookupVars

(* Switch ends what was settled.                                              *)
LEMMA SwitchKeeps ==
  ASSUME LookupInv, NEW s \in Switchers, Switch(s)
  PROVE  LookupInv'
<1>1. /\ pc[s] = "idle" /\ pc' = [pc EXCEPT ![s] = "shutdown"] /\ alone' = (Busy = {})
      /\ settled' = FALSE /\ old' = [old EXCEPT ![s] = lookUp]
      /\ slots' = slots /\ length' = length /\ watched' = watched /\ loop' = loop
      /\ conf' = conf /\ lookups' = lookups /\ lookUp' = lookUp /\ new' = new
  BY Zenon DEF Switch, Goto, watchVars
<1>2. LookupType' /\ LateInv'
  <2>1. pc' \in [Switchers -> SwitchPlaces]
    <3>1. "shutdown" \in SwitchPlaces
      BY DEF SwitchPlaces
    <3> QED BY <1>1, <3>1, LookupFacts, Zenon
  <2>2. old' \in [Switchers -> Nat]
    <3>1. lookUp \in Nat
      BY LookupFacts
    <3> QED BY <1>1, <3>1, LookupFacts, Zenon
  <2>3. LookupType'
    BY <1>1, <2>1, <2>2, Zenon DEF LookupInv, LookupType
  <2>4. LateInv'
    BY <1>1, Zenon DEF LookupInv, LateInv
  <2> QED BY <2>3, <2>4, Zenon
<1>3. \A q \in Switchers : pc'[q] = IF q = s THEN "shutdown" ELSE pc[q]
  BY <1>1, LookupFacts, Zenon
<1>4. alone' => \A q \in Switchers : pc[q] = "idle"
  BY <1>1, ZenonT(30) DEF Busy
<1>5. SwitchInv'
  <2>1. /\ lookUp' \in 1 .. Len(lookups')
        /\ \A q \in Switchers : pc'[q] = "assign" => new'[q] \in 1 .. Len(lookups')
    <3>1. \A q \in Switchers : pc'[q] = "assign" => pc[q] = "assign"
      BY <1>3, Zenon
    <3>2. /\ lookUp \in 1 .. Len(lookups)
          /\ \A q \in Switchers : pc[q] = "assign" => new[q] \in 1 .. Len(lookups)
      BY Zenon DEF LookupInv, SwitchInv
    <3>3. lookups' = lookups /\ lookUp' = lookUp /\ new' = new
      BY <1>1, Zenon
    <3> QED BY <3>1, <3>2, <3>3, Zenon
  <2>2. alone' => \A q, r \in Switchers : pc'[q] # "idle" /\ pc'[r] # "idle" => q = r
    BY <1>3, <1>4, Zenon
  <2>3. \A q \in Switchers : ~(alone' /\ pc'[q] = "assign")
    BY <1>3, <1>4, Zenon
  <2> QED BY <1>1, <2>1, <2>2, <2>3, Zenon DEF SwitchInv
<1> QED
  BY <1>2, <1>5, ZenonT(30) DEF LookupInv

(* A step of a switch that is not its last: nothing is settled, and when it   *)
(* is alone no other has started a lookup.                                    *)
Proceeds(s, where) ==
  /\ pc[s] \notin {"idle", "assign"} /\ pc' = [pc EXCEPT ![s] = where]
  /\ UNCHANGED <<conf, lookUp, alone, settled>> /\ old' \in [Switchers -> Nat]
  /\ slots' \in Seq(Nat) /\ length' \in Nat /\ length' <= Len(slots') /\ LoopSound(loop')
  /\ lookups' \in Seq(LookupRecord) /\ Len(lookups') >= Len(lookups) /\ LateInv'

(* Such a step preserves the invariant.                                       *)
LEMMA SwitchProceeds ==
  ASSUME LookupInv, NEW s \in Switchers, NEW where \in SwitchPlaces, Proceeds(s, where),
         where # "assign" => new' = new,
         where = "assign" => /\ new' = [new EXCEPT ![s] = Len(lookups')]
                             /\ Len(lookups') \in Nat \ {0} /\ Live(Len(lookups))'
  PROVE  LookupInv'
<1>1. pc \in [Switchers -> SwitchPlaces] /\ new \in [Switchers -> Nat] /\ SwitchInv
      /\ Len(lookups) \in Nat /\ Len(lookups') \in Nat
  BY LookupFacts, LenProperties, Zenon DEF LookupInv, Proceeds
<1>2. \A q \in Switchers : pc'[q] = IF q = s THEN where ELSE pc[q]
  BY <1>1, Zenon DEF Proceeds
<1>3. new' \in [Switchers -> Nat] /\ (\A q \in Switchers : q # s => new'[q] = new[q])
      /\ (where = "assign" => new'[s] = Len(lookups'))
  BY <1>1, Zenon
<1>4. LookupType'
  BY <1>1, <1>3, Zenon DEF LookupInv, LookupType, Proceeds
<1>5. ~settled /\ ~settled'
  BY <1>1, Zenon DEF SwitchInv, Proceeds
<1>6. lookUp' \in 1 .. Len(lookups')
  BY <1>1 DEF SwitchInv, Proceeds
<1>7. ASSUME NEW q \in Switchers, pc'[q] = "assign"
      PROVE  /\ new'[q] \in 1 .. Len(lookups')
             /\ alone' => q = s /\ new'[q] = Len(lookups') /\ where = "assign"
  <2>1. CASE q = s
    BY <1>1, <1>2, <1>3, <1>7, <2>1
  <2>2. CASE q # s
    <3>1. pc[q] = "assign" /\ new'[q] = new[q] /\ new[q] \in 1 .. Len(lookups)
      BY <1>1, <1>2, <1>3, <1>7, <2>2, ZenonT(30) DEF SwitchInv
    <3>2. ~alone'
      BY <1>1, <2>2, <3>1, ZenonT(30) DEF SwitchInv, Proceeds
    <3>3. new[q] \in 1 .. Len(lookups')
      BY <1>1, <3>1 DEF Proceeds
    <3> QED BY <3>1, <3>2, <3>3, Zenon
  <2> QED BY <2>1, <2>2, Zenon
<1>8. ASSUME NEW q \in Switchers, alone', pc'[q] = "assign" PROVE Live(new[q])'
  BY <1>7, <1>8, Zenon DEF Live
<1>9. alone' => \A p, q \in Switchers : pc'[p] # "idle" /\ pc'[q] # "idle" => p = q
  BY <1>1, <1>2, Zenon DEF SwitchInv, Proceeds
<1>10. SwitchInv'
  BY <1>5, <1>6, <1>7, <1>8, <1>9, Zenon DEF SwitchInv
<1> QED
  BY <1>4, <1>10, Zenon DEF LookupInv, Proceeds

(* What Go's append does: the new watcher is in the slice, whether the array  *)
(* had room for it or another one was made.                                   *)
LEMMA GoAppendProperties ==
  ASSUME LookupInv, NEW w \in Nat, append(w)
  PROVE  /\ slots' \in Seq(Nat) /\ length + 1 <= Len(slots') /\ slots'[length + 1] = w
         /\ LoopSound(loop')
<1>1. /\ slots \in Seq(Nat) /\ length \in Nat /\ Len(slots) \in Nat /\ length <= Len(slots)
      /\ LoopSound(loop) /\ DOMAIN slots = 1 .. Len(slots)
      /\ \A i \in 1 .. Len(slots) : slots[i] \in Nat
  BY LenProperties, ElementOfSeq, Zenon DEF LookupInv, LookupType
<1>2. CASE length < Len(slots)
  <2>1. length + 1 \in DOMAIN slots /\ slots' = [slots EXCEPT ![length + 1] = w] /\ loop' = loop
    BY <1>1, <1>2 DEF append
  <2> DEFINE k == length + 1
  <2>2. k \in DOMAIN slots /\ slots' = [slots EXCEPT ![k] = w] /\ k <= Len(slots)
    BY <1>1, <1>2, <2>1
  <2> HIDE DEF k
  <2>3. slots' \in Seq(Nat) /\ Len(slots') = Len(slots) /\ slots'[k] = w
    BY <1>1, <2>2, UpdateProperties
  <2> QED BY <1>1, <2>1, <2>2, <2>3, Zenon DEF k
<1>3. CASE ~(length < Len(slots))
  <2> DEFINE front == SubSeq(slots, 1, length)
             rest == [i \in 1 .. length - 1 |-> 0]
             both == front \o <<w>>
  <2>1. length = Len(slots) /\ slots' = Grown(w) /\ loop' = Detached(slots)
    <3>1. slots' = Grown(w) /\ loop' = Detached(slots)
      BY <1>3, Zenon DEF append
    <3>2. length \in Nat /\ Len(slots) \in Nat /\ length <= Len(slots)
      BY <1>1, Zenon
    <3>3. length = Len(slots)
      BY <1>3, <3>2
    <3> QED BY <3>1, <3>3, Zenon
  <2>2. front \in Seq(Nat) /\ Len(front) = length
    BY <1>1, <2>1, SubSeqFull, Zenon
  <2>3. rest \in Seq(Nat) /\ Len(rest) \in Nat
    <3>1. CASE length = 0
      BY <3>1
    <3>2. CASE length # 0
      BY <1>1, <3>2
    <3> QED BY <3>1, <3>2, Zenon
  <2>4. <<w>> \in Seq(Nat) /\ Len(<<w>>) = 1 /\ <<w>>[1] = w
    OBVIOUS
  <2> HIDE DEF front, rest
  <2>5. both \in Seq(Nat) /\ Len(both) = length + 1
        /\ \A i \in 1 .. length + 1 : both[i] = IF i <= length THEN front[i] ELSE <<w>>[i - length]
    BY <2>2, <2>4, ConcatProperties
  <2>6. both[length + 1] = w
    <3>1. length + 1 \in 1 .. length + 1 /\ ~(length + 1 <= length) /\ (length + 1) - length = 1
      BY <1>1
    <3> HIDE DEF both
    <3>2. both[length + 1] = <<w>>[(length + 1) - length]
      BY <2>5, <3>1, Zenon
    <3> QED BY <3>1, <3>2, <2>4, Zenon
  <2>11. Grown(w) = both \o rest
    BY <2>2, <2>3, <2>4, ConcatAssociative, Zenon DEF Grown, front, rest
  <2> HIDE DEF both
  <2>7. /\ both \o rest \in Seq(Nat) /\ Len(both \o rest) = Len(both) + Len(rest)
        /\ \A i \in 1 .. Len(both) + Len(rest) : (both \o rest)[i] =
              IF i <= Len(both) THEN both[i] ELSE rest[i - Len(both)]
    BY <2>3, <2>5, ConcatProperties, Zenon
  <2>8. length + 1 \in 1 .. Len(both) + Len(rest) /\ length + 1 <= Len(both)
    BY <1>1, <2>3, <2>5
  <2>9. slots' \in Seq(Nat) /\ length + 1 <= Len(slots') /\ slots'[length + 1] = w
    BY <1>1, <2>1, <2>3, <2>5, <2>6, <2>7, <2>8, <2>11
  <2>10. LoopSound(loop')
    BY <1>1, <2>1, Zenon DEF Detached, LoopSound, Calling
  <2> QED BY <2>9, <2>10, Zenon
<1> QED
  BY <1>2, <1>3, Zenon

(* What removeElement leaves is a slice of the same array.                    *)
LEMMA RemoveProperties ==
  ASSUME LookupInv, NEW w \in Nat, RemoveFileWatcher(w)
  PROVE  slots' \in Seq(Nat) /\ length' \in Nat /\ length' <= Len(slots') /\ loop' = loop
<1>1. /\ slots \in Seq(Nat) /\ length \in Nat /\ Len(slots) \in Nat /\ length <= Len(slots)
      /\ \A i \in 1 .. Len(slots) : slots[i] \in Nat
  BY LenProperties, ElementOfSeq, Zenon DEF LookupInv, LookupType
<1> DEFINE S == {k \in 1 .. length : slots[k] = w}
           n == Cardinality(S)
           kept == removeElement(w)
<1>2. n \in Nat
  <2>1. IsFiniteSet(1 .. length) /\ S \in SUBSET (1 .. length)
    BY <1>1, FS_Interval
  <2>2. IsFiniteSet(S)
    BY <2>1, FS_Subset, Zenon
  <2> QED BY <2>2, FS_CardinalityType, Zenon
<1>3. kept = [i \in 1 .. n |-> w]
  BY Zenon DEF removeElement
<1> HIDE DEF n, kept
<1>4. kept \in Seq(Nat) /\ Len(kept) = n
  BY <1>2, <1>3
<1> DEFINE tail == SubSeq(slots, n + 1, Len(slots))
<1>5. tail \in Seq(Nat) /\ Len(tail) \in Nat
  <2>1. n + 1 \in Int /\ Len(slots) \in Int /\ \A i \in n + 1 .. Len(slots) : slots[i] \in Nat
    BY <1>1, <1>2
  <2>2. tail \in Seq(Nat)
    BY <2>1, SubSeqProperties, Zenon
  <2> HIDE DEF tail
  <2> QED BY <2>2, LenProperties, Zenon
<1>6. slots' = kept \o tail /\ length' = n /\ loop' = loop
  BY <1>4, Zenon DEF RemoveFileWatcher, kept
<1> HIDE DEF tail
<1>7. kept \o tail \in Seq(Nat) /\ Len(kept \o tail) = n + Len(tail)
  BY <1>4, <1>5, ConcatProperties, Zenon
<1> QED
  BY <1>2, <1>5, <1>6, <1>7

(* A lookup that is shut down, whatever it was doing, brings no further list. *)
ShutsDown(o, x) ==
  /\ lookups' = [lookups EXCEPT ![o] = x]
  /\ o \in DOMAIN lookups =>
       /\ x \in LookupRecord /\ x.late = lookups[o].late /\ x.task = lookups[o].task
       /\ lookups[o].isShutdown => x.isShutdown

(* Such a step makes no list late that was not.                               *)
LEMMA ShutdownKeepsLate ==
  ASSUME LookupInv, NEW o, NEW x, ShutsDown(o, x)
  PROVE  lookups' \in Seq(LookupRecord) /\ Len(lookups') = Len(lookups) /\ LateInv'
<1>1. /\ lookups \in Seq(LookupRecord) /\ DOMAIN lookups = 1 .. Len(lookups)
  BY LookupFacts, Zenon
<1>2. /\ lookups' \in Seq(LookupRecord) /\ Len(lookups') = Len(lookups)
      /\ o \in DOMAIN lookups => lookups'[o] = x
      /\ \A k \in 1 .. Len(lookups) : k # o => lookups'[k] = lookups[k]
  BY <1>1, UpdateProperties DEF ShutsDown
<1>3. ASSUME NEW k \in 1 .. Len(lookups)
      PROVE  \/ lookups'[k].late = 0
             \/ lookups'[k].late = 1 /\ lookups'[k].isShutdown /\ lookups'[k].task # "get"
  <2>1. CASE k = o
    BY <1>1, <1>2, <2>1, Zenon DEF LookupInv, LateInv, ShutsDown
  <2>2. CASE k # o
    BY <1>2, <2>2, Zenon DEF LookupInv, LateInv
  <2> QED BY <2>1, <2>2, Zenon
<1>4. LateInv'
  BY <1>2, <1>3, Zenon DEF LateInv
<1> QED
  BY <1>2, <1>4, ZenonT(30)

(* Shutdown, of a lookup of either kind.                                      *)
LEMMA ShutdownKeeps ==
  ASSUME LookupInv, NEW s \in Switchers, ShutdownFile(s) \/ Cancel(s) \/ MarkShutdown(s)
  PROVE  LookupInv'
<1> DEFINE o == old[s]
           l == lookups[o]
           x == IF Cancel(s)
                THEN [l EXCEPT !.ticker = IF l.ticker = "on" THEN "cancelled" ELSE l.ticker]
                ELSE [l EXCEPT !.isShutdown = TRUE]
           where == IF Cancel(s) THEN "mark" ELSE "create"
<1>1. lookups' = [lookups EXCEPT ![o] = x] /\ o \in Nat
  BY LookupFacts, Zenon DEF ShutdownFile, Cancel, MarkShutdown
<1>2. ASSUME o \in DOMAIN lookups
      PROVE  x \in LookupRecord /\ x.late = l.late /\ x.task = l.task /\ (l.isShutdown => x.isShutdown)
  <2>1. l \in LookupRecord
    BY <1>2, LookupFacts, Zenon
  <2> HIDE DEF l
  <2> QED BY <2>1, Zenon DEF LookupRecord
<1> HIDE DEF x
<1>3. ShutsDown(o, x)
  BY <1>1, <1>2, Zenon DEF ShutsDown
<1>4. lookups' \in Seq(LookupRecord) /\ Len(lookups') = Len(lookups) /\ LateInv' /\ Len(lookups) \in Nat
  BY <1>3, ShutdownKeepsLate, LookupFacts, Zenon
<1>5. slots' \in Seq(Nat) /\ length' \in Nat /\ length' <= Len(slots') /\ loop' = loop
  <2>1. CASE ShutdownFile(s)
    BY <1>1, <2>1, RemoveProperties, Zenon DEF ShutdownFile
  <2>2. CASE Cancel(s) \/ MarkShutdown(s)
    BY <2>2, Zenon DEF Cancel, MarkShutdown, watchVars, LookupInv, LookupType
  <2> QED BY <2>1, <2>2, Zenon
<1>6. /\ pc[s] \in {"shutdown", "mark"} /\ pc' = [pc EXCEPT ![s] = where]
      /\ UNCHANGED <<conf, lookUp, old, new, alone, settled>>
  BY Zenon DEF ShutdownFile, Cancel, MarkShutdown, Goto
<1>7. LoopSound(loop') /\ old' \in [Switchers -> Nat]
  BY <1>5, <1>6, LookupFacts, Zenon DEF LookupInv, LookupType
<1>8. where \in SwitchPlaces /\ where # "assign"
  BY Zenon DEF SwitchPlaces
<1> HIDE DEF where, o
<1>9. Proceeds(s, where)
  BY <1>4, <1>5, <1>6, <1>7, SMTT(30) DEF Proceeds
<1> QED
  BY <1>6, <1>8, <1>9, SwitchProceeds, Zenon

(* A lookup is made.                                                          *)
LEMMA MadeProperties ==
  ASSUME LookupInv, NEW k \in Kinds, lookups' = Append(lookups, Lookup(k))
  PROVE  /\ lookups' \in Seq(LookupRecord) /\ Len(lookups') = Len(lookups) + 1 /\ LateInv'
         /\ lookups'[Len(lookups')] = Lookup(k) /\ Len(lookups') \in Nat \ {0}
<1> DEFINE r == Lookup(k)
<1>1. r \in LookupRecord /\ r.late = 0
  BY Zenon DEF Lookup, LookupRecord, LookupInv, LookupType
<1>2. lookups \in Seq(LookupRecord) /\ Len(lookups) \in Nat
  BY LookupFacts, Zenon
<1> HIDE DEF r
<1>3. /\ lookups' \in Seq(LookupRecord) /\ Len(lookups') = Len(lookups) + 1
      /\ lookups'[Len(lookups) + 1] = r
      /\ \A i \in 1 .. Len(lookups) : lookups'[i] = lookups[i]
  BY <1>1, <1>2, AppendProperties DEF r
<1> QED
  BY <1>1, <1>2, <1>3, SMTT(30) DEF LateInv, LookupInv, r

(* createLookupByName or Start fails.                                         *)
LEMMA FailKeeps ==
  ASSUME LookupInv, NEW s \in Switchers, CreateFails(s) \/ StartFileFails(s)
  PROVE  LookupInv'
<1>1. /\ pc[s] = "create" /\ pc' = [pc EXCEPT ![s] = "idle"]
      /\ UNCHANGED <<conf, lookUp, new, alone, settled>> /\ old' \in [Switchers -> Nat]
  <2>1. SwitchFails(s)
    BY Zenon DEF CreateFails, StartFileFails
  <2>2. old' = [old EXCEPT ![s] = 0] /\ old \in [Switchers -> Nat]
    BY <2>1, LookupFacts, Zenon DEF SwitchFails
  <2>3. old' \in [Switchers -> Nat]
    BY <2>2, Zenon
  <2> QED BY <2>1, <2>3, Zenon DEF SwitchFails, Goto
<1>2. LookupType /\ LateInv /\ Len(lookups) \in Nat
  BY LookupFacts, Zenon DEF LookupInv
<1>3. lookups' \in Seq(LookupRecord) /\ Len(lookups') >= Len(lookups) /\ LateInv'
  <2>1. CASE CreateFails(s)
    BY <1>2, <2>1 DEF CreateFails, LookupType, LateInv
  <2>2. CASE StartFileFails(s)
    <3>1. lookups' = Append(lookups, Lookup("file")) /\ "file" \in Kinds
      BY <2>2, Zenon DEF StartFileFails, Kinds
    <3> QED BY <1>2, <3>1, MadeProperties
  <2> QED BY <2>1, <2>2, Zenon
<1>4. slots' \in Seq(Nat) /\ length' \in Nat /\ length' <= Len(slots') /\ LoopSound(loop')
  <2>1. CASE CreateFails(s)
    BY <1>2, <2>1, Zenon DEF CreateFails, LookupType, watchVars
  <2>2. CASE StartFileFails(s)
    <3>1. slots' = <<>> /\ length' = 0 /\ \E a : loop' = Detached(a)
      BY <2>2, Zenon DEF StartFileFails, RegisterFails
    <3>2. LoopSound(loop')
      BY <1>2, <3>1, Zenon DEF Detached, LoopSound, Calling, LookupType
    <3> QED BY <3>1, <3>2
  <2> QED BY <2>1, <2>2, Zenon
<1>5. Proceeds(s, "idle")
  BY <1>1, <1>3, <1>4, Zenon DEF Proceeds
<1>6. "idle" \in SwitchPlaces
  BY Zenon DEF SwitchPlaces
<1> QED
  BY <1>1, <1>5, <1>6, SwitchProceeds, Zenon

(* A lookup that Start has made is at work, whatever the loop is doing.       *)
LEMMA StartKeeps ==
  ASSUME LookupInv, NEW s \in Switchers, StartFile(s) \/ StartAddress(s)
  PROVE  LookupInv'
<1> DEFINE k == IF StartFile(s) THEN "file" ELSE "address"
<1>1. Started(s, k) /\ k \in Kinds
  BY Zenon DEF StartFile, StartAddress, Kinds
<1>2. k = "file" => Register(Len(lookups'))
  BY Zenon DEF StartFile
<1>3. k # "file" => UNCHANGED watchVars
  BY Zenon DEF StartAddress
<1> HIDE DEF k
<1>4. /\ lookups' = Append(lookups, Lookup(k)) /\ pc[s] = "create"
      /\ new' = [new EXCEPT ![s] = Len(lookups')] /\ old' = [old EXCEPT ![s] = 0]
      /\ pc' = [pc EXCEPT ![s] = "assign"] /\ UNCHANGED <<conf, lookUp, alone, settled>>
  BY <1>1, Zenon DEF Started, Goto
<1> DEFINE n == Len(lookups')
<1>5. /\ lookups' \in Seq(LookupRecord) /\ n = Len(lookups) + 1 /\ LateInv'
      /\ lookups'[n] = Lookup(k) /\ n \in Nat \ {0}
  BY <1>1, <1>4, MadeProperties, Zenon
<1>6. ~lookups'[n].isShutdown /\ lookups'[n].kind = k /\ lookups'[n].ticker = "on"
  BY <1>5 DEF Lookup
<1>7. LookupType /\ Len(lookups) \in Nat
  BY LookupFacts, Zenon DEF LookupInv
<1>8. /\ slots' \in Seq(Nat) /\ length' \in Nat /\ length' <= Len(slots') /\ LoopSound(loop')
      /\ k = "file" => n \in Listed' /\ watched'
  <2>1. CASE k = "file"
    <3>1. append(n) /\ length' = length + 1 /\ watched'
      BY <1>2, <2>1, Zenon DEF Register, Adds
    <3> HIDE DEF n
    <3>2. slots' \in Seq(Nat) /\ length + 1 <= Len(slots') /\ slots'[length + 1] = n /\ LoopSound(loop')
      BY <1>5, <3>1, GoAppendProperties, Zenon
    <3>3. length' \in Nat /\ length' \in 1 .. length' /\ slots'[length'] = n
      BY <1>7, <3>1, <3>2 DEF LookupType
    <3>4. n \in Listed'
      BY <3>3, Zenon DEF Listed
    <3> QED BY <3>1, <3>2, <3>3, <3>4, Zenon
  <2>2. CASE k # "file"
    BY <1>3, <1>7, <2>2, Zenon DEF LookupType, watchVars
  <2> QED BY <2>1, <2>2, Zenon
<1>9. Live(Len(lookups))'
  BY <1>6, <1>8, Zenon DEF Live
<1>10. old' \in [Switchers -> Nat] /\ Len(lookups') >= Len(lookups)
  BY <1>4, <1>5, <1>7, LookupFacts
<1>11. Proceeds(s, "assign")
  BY <1>4, <1>5, <1>8, <1>10, Zenon DEF Proceeds
<1>12. "assign" \in SwitchPlaces
  BY Zenon DEF SwitchPlaces
<1> QED
  BY <1>4, <1>5, <1>9, <1>11, <1>12, SwitchProceeds, Zenon

(* s.lookUp is assigned: if the request was alone its lookup is at work.      *)
LEMMA AssignKeeps ==
  ASSUME LookupInv, NEW s \in Switchers, Assign(s)
  PROVE  LookupInv'
<1>1. /\ pc[s] = "assign" /\ lookUp' = new[s] /\ settled' = alone
      /\ new' = [new EXCEPT ![s] = 0] /\ pc' = [pc EXCEPT ![s] = "idle"]
      /\ UNCHANGED <<slots, length, watched, loop, conf, lookups, old, alone>>
  BY Zenon DEF Assign, Goto, watchVars
<1>2. LookupType' /\ LateInv'
  BY <1>1, LookupFacts, Zenon DEF LookupInv, LookupType, LateInv, SwitchPlaces
<1>3. \A q \in Switchers : /\ pc'[q] = IF q = s THEN "idle" ELSE pc[q]
                           /\ q # s => new'[q] = new[q]
  BY <1>1, LookupFacts, Zenon
<1>4. new[s] \in 1 .. Len(lookups) /\ SwitchInv
  BY <1>1, Zenon DEF LookupInv, SwitchInv
<1>5. alone => Live(new[s]) /\ \A q \in Switchers : pc'[q] = "idle"
  BY <1>1, <1>3, <1>4, Zenon DEF SwitchInv
<1>6. \A o : Live(o) => Live(o)'
  BY <1>1, Zenon DEF Live, Listed
<1>7. settled' => Live(lookUp)'
  BY <1>1, <1>5, ZenonT(30) DEF Live, Listed
<1>8. SwitchInv'
  BY <1>1, <1>3, <1>4, <1>5, <1>7 DEF SwitchInv
<1> QED
  BY <1>2, <1>8, Zenon DEF LookupInv

(* Every step preserves the invariant.                                        *)
LEMMA LookupInductive == LookupInv /\ [Next]_vars => LookupInv'
<1> SUFFICES ASSUME LookupInv, [Next]_vars PROVE LookupInv'
  OBVIOUS
<1>1. CASE UNCHANGED vars
  <2>1. UNCHANGED <<slots, length, watched, loop, conf, lookups, pc, old, new, lookUp, alone, settled>>
    BY <1>1, ZenonT(30) DEF vars, watchVars, lookupVars
  <2>2. LookupType' /\ LateInv'
    BY <2>1, Zenon DEF LookupInv, LookupType, LateInv
  <2>3. SwitchInv'
    BY <2>1, Zenon DEF LookupInv, SwitchInv, Live, Listed
  <2> QED BY <2>2, <2>3, Zenon DEF LookupInv
<1>2. CASE \E s \in Switchers : Switch(s)
  BY <1>2, SwitchKeeps, Zenon
<1>3. CASE \E s \in Switchers : ShutdownFile(s) \/ Cancel(s) \/ MarkShutdown(s)
  BY <1>3, ShutdownKeeps, Zenon
<1>4. CASE \E s \in Switchers : CreateFails(s) \/ StartFileFails(s)
  BY <1>4, FailKeeps, Zenon
<1>5. CASE \E s \in Switchers : StartFile(s) \/ StartAddress(s)
  BY <1>5, StartKeeps, Zenon
<1>6. CASE \E s \in Switchers : Assign(s)
  BY <1>6, AssignKeeps, Zenon
<1>7. CASE (\E g \in BOOLEAN : WriteConf(g)) \/ OtherEvent \/ LoopStep \/ \E s \in Switchers : Race(s)
  BY <1>7, LoopKeeps, Zenon
<1>8. CASE \E o \in DOMAIN lookups : Tick(o) \/ StopTicker(o) \/ Answer(o)
  BY <1>8, TaskKeeps, ZenonT(30)
<1> QED
  BY <1>1, <1>2, <1>3, <1>4, <1>5, <1>6, <1>7, <1>8, ZenonT(30) DEF Next, SwitchStep

(* Once Shutdown of an address-server lookup has returned, at most one list   *)
(* of it still reaches the table, with any number of requests and lookups     *)
(* (addressServerMemberLookup of member_lookup.go).                           *)
THEOREM OneLateList == Spec => []LateListAtMostOne
<1>1. LookupInv => LateListAtMostOne
  BY LookupFacts DEF LookupInv, LateInv, LateListAtMostOne
<1> QED
  BY <1>1, LookupInitially, LookupInductive, PTL DEF Spec

(* After a switch that succeeded and that no other overlapped the lookup of   *)
(* the manager is at work, whatever failed or overlapped before it            *)
(* (SwitchMemberLookupAndCloseOld of member_lookup.go).                      *)
THEOREM ASettledLookupWorks == Spec => []SettledIsLive
<1>1. LookupInv => SettledIsLive
  BY Zenon DEF LookupInv, SwitchInv, SettledIsLive
<1> QED
  BY <1>1, LookupInitially, LookupInductive, PTL DEF Spec
=============================================================================
