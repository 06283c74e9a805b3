-------------------------- MODULE RepositoryProofs --------------------------
(***************************************************************************)
(* The instances of a service, for any clusters, adders and finders and    *)
(* any interleaving of them.                                               *)
(***************************************************************************)
EXTENDS ServiceRepository, FiniteSetTheorems, TLAPS

(* The type of a cluster is set once, and holds for what was added on finding it unknown. *)

\* A call of addInstance that is under way.
AdderCall ==
  [at : {"lock", "put"}, cluster : ClusterSet, key : InstanceKeys,
   kind : Kinds, looked : BOOLEAN]

AddersTyped ==
  /\ instanceType \in [ClusterSet -> Kinds \cup {"unknown"}]
  /\ adder \in [Adders -> AdderCall \cup {NoCall}]

\* An adder past the critical section added what the type says.
AddedInType ==
  \A a \in Adders : adder[a].at = "put" /\ adder[a].looked =>
    instanceType[adder[a].cluster] = adder[a].kind

TypeStays ==
  \A c \in ClusterSet : instanceType[c] # "unknown" => instanceType'[c] = instanceType[c]

RepositoryInv == AddersTyped /\ AddedInType

(* A step that leaves the types alone keeps the invariant when it gives no   *)
(* adder a call that has passed the critical section.                        *)
LEMMA TypesLeft ==
  ASSUME RepositoryInv, NEW a \in Adders, NEW run \in AdderCall \cup {NoCall},
         adder' = [adder EXCEPT ![a] = run], UNCHANGED instanceType,
         ~(run.at = "put" /\ run.looked)
  PROVE  RepositoryInv' /\ TypeStays
<1>1. /\ adder' \in [Adders -> AdderCall \cup {NoCall}] /\ adder'[a] = run
      /\ \A b \in Adders \ {a} : adder'[b] = adder[b]
  BY Zenon DEF RepositoryInv, AddersTyped
<1>2. AddedInType'
  BY <1>1, Zenon DEF RepositoryInv, AddedInType
<1> QED
  BY <1>1, <1>2, Zenon DEF RepositoryInv, AddersTyped, TypeStays

(* The critical section sets a type that was unknown, and no other adder has *)
(* passed it for a cluster of unknown type.                                  *)
LEMMA SetTypeKeeps ==
  ASSUME RepositoryInv, NEW a \in Adders, SetType(a)
  PROVE  RepositoryInv' /\ TypeStays
<1> DEFINE c == adder[a].cluster
           type == IF instanceType[c] = "unknown" THEN adder[a].kind ELSE instanceType[c]
           moved == [adder[a] EXCEPT !.at = "put"]
           next == IF type = adder[a].kind THEN moved ELSE NoCall
<1>1. adder[a] \in AdderCall
  <2>1. adder[a] \in AdderCall \cup {NoCall} /\ adder[a].at = "lock"
    BY Zenon DEF RepositoryInv, AddersTyped, SetType
  <2>2. NoCall.at # "lock"
    BY Zenon DEF NoCall
  <2> QED
    BY <2>1, <2>2, Zenon
<1>2. c \in ClusterSet /\ adder[a].kind \in Kinds /\ moved \in AdderCall
        /\ moved.cluster = c /\ moved.kind = adder[a].kind
  BY <1>1, Zenon DEF AdderCall
<1>3. type \in Kinds
  BY <1>2, Zenon DEF RepositoryInv, AddersTyped
<1>4. /\ instanceType' = [instanceType EXCEPT ![c] = type]
      /\ adder' = [adder EXCEPT ![a] = next]
  BY Zenon DEF SetType
<1> HIDE DEF type, moved
<1>5. next \in AdderCall \cup {NoCall}
  BY <1>2, Zenon
<1>6. /\ instanceType'[c] = type
      /\ \A d \in ClusterSet \ {c} : instanceType'[d] = instanceType[d]
      /\ instanceType' \in [ClusterSet -> Kinds \cup {"unknown"}]
  BY <1>2, <1>3, <1>4, Zenon DEF RepositoryInv, AddersTyped
<1>7. /\ adder'[a] = next /\ \A b \in Adders \ {a} : adder'[b] = adder[b]
      /\ adder' \in [Adders -> AdderCall \cup {NoCall}]
  BY <1>4, <1>5, Zenon DEF RepositoryInv, AddersTyped
<1>8. TypeStays
  BY <1>6, Zenon DEF TypeStays, type
<1>9. ASSUME NEW b \in Adders, adder'[b].at = "put", adder'[b].looked
      PROVE  instanceType'[adder'[b].cluster] = adder'[b].kind
  <2>1. CASE b = a
    <3>1. NoCall.at # "put"
      BY Zenon DEF NoCall
    <3>2. type = adder[a].kind /\ adder'[b] = moved
      BY <1>7, <1>9, <2>1, <3>1, Zenon
    <3> QED
      BY <1>2, <1>6, <3>2, Zenon
  <2>2. CASE b # a
    <3>1. adder'[b] = adder[b]
      BY <1>7, <2>2, Zenon
    <3>2. instanceType[adder[b].cluster] = adder[b].kind
      BY <1>9, <3>1, Zenon DEF RepositoryInv, AddedInType
    <3>3. adder[b] \in AdderCall
      <4>1. NoCall.at # "put"
        BY Zenon DEF NoCall
      <4> QED
        BY <1>9, <3>1, <4>1, Zenon DEF RepositoryInv, AddersTyped
    <3>4. adder[b].cluster \in ClusterSet /\ adder[b].kind # "unknown"
      BY <3>3, Zenon DEF AdderCall, Kinds
    <3> QED
      BY <1>8, <3>1, <3>2, <3>4, Zenon DEF TypeStays
  <2> QED
    BY <2>1, <2>2, Zenon
<1>10. AddedInType'
  BY <1>9, Zenon DEF AddedInType
<1> QED
  BY <1>6, <1>7, <1>8, <1>10, Zenon DEF RepositoryInv, AddersTyped

(* Every step keeps the invariant, and the types that are known.             *)
LEMMA RepositoryStep ==
  ASSUME RepositoryInv, [RepositoryNext]_repositoryVars
  PROVE  RepositoryInv' /\ TypeStays
<1>1. ASSUME NEW a \in Adders, NEW c \in ClusterSet, NEW k \in InstanceKeys,
             NEW kind \in Kinds, AddInstance(a, c, k, kind)
      PROVE  RepositoryInv' /\ TypeStays
  <2> DEFINE run == [at |-> IF instanceType[c] = "unknown" THEN "lock" ELSE "put",
                      cluster |-> c, key |-> k, kind |-> kind,
                      looked |-> instanceType[c] = "unknown"]
  <2>1. run \in AdderCall /\ ~(run.at = "put" /\ run.looked)
    BY Zenon DEF AdderCall
  <2>2. adder' = [adder EXCEPT ![a] = run] /\ UNCHANGED instanceType
    BY <1>1, Zenon DEF AddInstance
  <2> HIDE DEF run
  <2> QED
    BY <2>1, <2>2, TypesLeft, Zenon
<1>2. ASSUME NEW a \in Adders, NEW c \in ClusterSet, NEW k \in InstanceKeys,
             NEW kind \in Kinds, ServiceAddInstance(a, c, k, kind)
      PROVE  RepositoryInv' /\ TypeStays
  <2> DEFINE run == [at |-> "put", cluster |-> c, key |-> k, kind |-> kind,
                      looked |-> FALSE]
  <2>1. run \in AdderCall /\ ~run.looked
    BY Zenon DEF AdderCall
  <2>2. adder' = [adder EXCEPT ![a] = run] /\ UNCHANGED instanceType
    BY <1>2, Zenon DEF ServiceAddInstance
  <2> HIDE DEF run
  <2> QED
    BY <2>1, <2>2, TypesLeft, Zenon
<1>3. ASSUME NEW a \in Adders, PutInstanceOf(a)
      PROVE  RepositoryInv' /\ TypeStays
  <2>1. adder' = [adder EXCEPT ![a] = NoCall] /\ UNCHANGED instanceType
    BY <1>3, Zenon DEF PutInstanceOf
  <2>2. NoCall.at # "put"
    BY Zenon DEF NoCall
  <2> QED
    BY <2>1, <2>2, TypesLeft, Zenon
<1>4. ASSUME UNCHANGED <<adder, instanceType>>
      PROVE  RepositoryInv' /\ TypeStays
  BY <1>4, Zenon DEF RepositoryInv, AddersTyped, AddedInType, TypeStays
<1>5. ASSUME NEW c \in ClusterSet, NEW k \in InstanceKeys, RemoveInstance(c, k)
      PROVE  UNCHANGED <<adder, instanceType>>
  BY <1>5, Zenon DEF RemoveInstance
<1>6. ASSUME NEW f \in Finders, FindAllInstance(f) \/ MakeSlice(f)
      PROVE  UNCHANGED <<adder, instanceType>>
  BY <1>6, Zenon DEF FindAllInstance, MakeSlice
<1>7. ASSUME NEW f \in Finders, NEW c \in ClusterSet, SumSize(f, c) \/ Fill(f, c)
      PROVE  UNCHANGED <<adder, instanceType>>
  BY <1>7, Zenon DEF SumSize, Fill
<1>8. CASE UNCHANGED repositoryVars
  BY <1>4, <1>8, Zenon DEF repositoryVars
<1>9. CASE RepositoryNext
  BY <1>1, <1>2, <1>3, <1>4, <1>5, <1>6, <1>7, <1>9, SetTypeKeeps, Zenon DEF RepositoryNext
<1> QED
  BY <1>8, <1>9, Zenon

(* server/discovery/discovery_model.go, Cluster.addInstance: although the    *)
(* type is first read outside the lock, it is set once, stays, and is that   *)
(* of every instance whose adder found it unknown.                           *)
THEOREM OneTypePerCluster == RepositorySpec => TypeSetOnce
<1>1. RepositoryInit => RepositoryInv
  BY DEF RepositoryInit, RepositoryInv, AddersTyped, AddedInType, NoCall
<1>2. RepositoryInv /\ [RepositoryNext]_repositoryVars => RepositoryInv' /\ TypeStays
  BY RepositoryStep, Zenon
<1>3. RepositoryInv => AddedInType
  BY Zenon DEF RepositoryInv
<1>4. RepositoryInv /\ [RepositoryNext]_repositoryVars => [TypeStays]_repositoryVars
  BY <1>2, Zenon
<1> QED
  BY <1>1, <1>2, <1>3, <1>4, PTL DEF RepositorySpec, TypeSetOnce, AddedInType, TypeStays

-----------------------------------------------------------------------------
(* What findAllInstance answers. *)

(* A set of numbers that has 0, and with a number the next one, has all.      *)
LEMMA AllNumbers ==
  ASSUME NEW N \in SUBSET Nat, 0 \in N, \A n \in N : n + 1 \in N
  PROVE  N = Nat
<1> SUFFICES ASSUME Nat \ N # {} PROVE FALSE
  BY Zenon
<1> DEFINE T == Nat \ N
           R == OpToRel(<, Nat)
<1>1. PICK x \in T : \A y \in T : ~(<<y, x>> \in R)
  <2>1. IsWellFoundedOn(R, Nat) /\ T \subseteq Nat /\ T # {}
    BY NatLessThanWellFounded, Zenon
  <2> HIDE DEF T, R
  <2> QED BY <2>1, WFMin, Zenon
<1>2. x \in Nat /\ x # 0
  OBVIOUS
<1>3. x - 1 \in Nat /\ x - 1 < x
  BY <1>2
<1>4. x - 1 \notin T
  BY <1>1, <1>2, <1>3, Zenon DEF OpToRel
<1>5. x - 1 \in N
  BY <1>3, <1>4, Zenon
<1>6. (x - 1) + 1 = x
  BY <1>2
<1> QED
  BY <1>5, <1>6, Zenon

-----------------------------------------------------------------------------
(* The sum over a finite set, which a recursive function computes.            *)
Some(Q) == CHOOSE x \in Q : TRUE
SumStep(g, d, Q) == IF Q = {} THEN 0 ELSE g[Q \ {Some(Q)}] + d[Some(Q)]

(* g computes the sums of d over the subsets of F of at most n elements.      *)
Sums(F, d, g, n) ==
  /\ g \in [SUBSET F -> Int]
  /\ \A Q \in SUBSET F : Cardinality(Q) <= n => g[Q] = SumStep(g, d, Q)

(* What is known of a subset and the element that is taken from it.           *)
LEMMA TakeSome ==
  ASSUME NEW F, IsFiniteSet(F), NEW Q \in SUBSET F
  PROVE  /\ IsFiniteSet(Q) /\ Cardinality(Q) \in Nat
         /\ Q # {} => /\ Some(Q) \in Q /\ Q \ {Some(Q)} \in SUBSET F
                      /\ Cardinality(Q \ {Some(Q)}) = Cardinality(Q) - 1
                      /\ Cardinality(Q) > 0
         /\ Q = {} => Cardinality(Q) = 0
<1>1. IsFiniteSet(Q) /\ Cardinality(Q) \in Nat
  BY FS_Subset, FS_CardinalityType, Zenon
<1>2. Q # {} => Some(Q) \in Q
  BY Zenon DEF Some
<1>3. Q # {} => Cardinality(Q \ {Some(Q)}) = Cardinality(Q) - 1
  BY <1>1, <1>2, FS_RemoveElement, Zenon
<1>4. Cardinality(Q) = 0 <=> Q = {}
  BY <1>1, FS_EmptySet, Zenon
<1> QED
  BY <1>1, <1>2, <1>3, <1>4

(* A function that computes the sums of small sets is extended by one size.   *)
LEMMA SumsGrow ==
  ASSUME NEW F, IsFiniteSet(F), NEW d \in [F -> Int], NEW n \in Nat, NEW g, Sums(F, d, g, n)
  PROVE  \E h : Sums(F, d, h, n + 1)
<1> DEFINE h == [Q \in SUBSET F |-> IF Cardinality(Q) = n + 1 THEN g[Q \ {Some(Q)}] + d[Some(Q)] ELSE g[Q]]
<1>1. g \in [SUBSET F -> Int]
  BY Zenon DEF Sums
<1>2. ASSUME NEW Q \in SUBSET F PROVE h[Q] \in Int
  <2>1. CASE Cardinality(Q) = n + 1
    <3>1. Q # {}
      <4>1. Q = {} => Cardinality(Q) = 0
        BY TakeSome, Zenon
      <4> QED BY <2>1, <4>1
    <3>2. g[Q \ {Some(Q)}] \in Int /\ d[Some(Q)] \in Int
      BY <1>1, <3>1, TakeSome, Zenon
    <3> QED BY <2>1, <3>2
  <2>2. CASE Cardinality(Q) # n + 1
    BY <1>1, <2>2, Zenon
  <2> QED BY <2>1, <2>2, Zenon
<1>3. ASSUME NEW Q \in SUBSET F, Cardinality(Q) <= n + 1 PROVE h[Q] = SumStep(h, d, Q)
  <2>1. CASE Q = {}
    <3>1. Cardinality(Q) = 0
      BY <2>1, TakeSome, Zenon
    <3>2. h[Q] = g[Q]
      BY <3>1
    <3>3. g[Q] = 0
      BY <2>1, <3>1 DEF Sums, SumStep
    <3> QED BY <2>1, <3>2, <3>3, Zenon DEF SumStep
  <2>2. CASE Q # {}
    <3> DEFINE U == Q \ {Some(Q)}
    <3>1. U \in SUBSET F /\ Cardinality(U) = Cardinality(Q) - 1 /\ Cardinality(Q) \in Nat
      BY <2>2, TakeSome, Zenon
    <3>2. Cardinality(U) # n + 1 /\ h[U] = g[U]
      BY <1>3, <3>1
    <3>3. h[Q] = g[U] + d[Some(Q)]
      <4>1. CASE Cardinality(Q) = n + 1
        BY <4>1, Zenon
      <4>2. CASE Cardinality(Q) # n + 1
        <5>1. Cardinality(Q) <= n
          BY <1>3, <3>1, <4>2
        <5> QED BY <2>2, <4>2, <5>1, Zenon DEF Sums, SumStep
      <4> QED BY <4>1, <4>2, Zenon
    <3> HIDE DEF h
    <3> QED BY <2>2, <3>2, <3>3, Zenon DEF SumStep
  <2> QED BY <2>1, <2>2, Zenon
<1>4. h \in [SUBSET F -> Int]
  BY <1>2, Zenon
<1> HIDE DEF h
<1> QED
  BY <1>3, <1>4, Zenon DEF Sums

\* g computes all of them.
Summable(F, d) == IsFiniteSet(F) /\ d \in [F -> Int]
SumsAll(F, d, g) ==
  /\ Summable(F, d) /\ g \in [SUBSET F -> Int]
  /\ \A Q \in SUBSET F : g[Q] = SumStep(g, d, Q)

(* So there is one that computes all of them.                                 *)
LEMMA SumsExist ==
  ASSUME NEW F, NEW d, Summable(F, d)
  PROVE  \E g : SumsAll(F, d, g)
<1>0. IsFiniteSet(F) /\ d \in [F -> Int]
  BY Zenon DEF Summable
<1> DEFINE N == {n \in Nat : \E g : Sums(F, d, g, n)}
           zero == [Q \in SUBSET F |-> 0]
<1>1. Sums(F, d, zero, 0)
  <2>1. zero \in [SUBSET F -> Int]
    OBVIOUS
  <2>2. ASSUME NEW Q \in SUBSET F, Cardinality(Q) <= 0 PROVE zero[Q] = SumStep(zero, d, Q)
    <3>1. Cardinality(Q) \in Nat /\ (Q # {} => Cardinality(Q) > 0)
      BY <1>0, TakeSome, Zenon
    <3>2. Q = {}
      BY <2>2, <3>1
    <3> QED BY <3>2, Zenon DEF SumStep
  <2> HIDE DEF zero
  <2> QED BY <2>1, <2>2, Zenon DEF Sums
<1>2. 0 \in N
  BY <1>1, Zenon
<1>3. ASSUME NEW n \in N PROVE n + 1 \in N
  BY <1>0, <1>3, SumsGrow
<1>4. N = Nat
  <2>1. N \in SUBSET Nat
    OBVIOUS
  <2> HIDE DEF N
  <2> QED BY <1>2, <1>3, <2>1, AllNumbers, Zenon
<1>5. Cardinality(F) \in Nat
  BY <1>0, FS_CardinalityType, Zenon
<1>6. PICK g : Sums(F, d, g, Cardinality(F))
  BY <1>4, <1>5, Zenon
<1>7. ASSUME NEW Q \in SUBSET F PROVE Cardinality(Q) <= Cardinality(F)
  BY <1>0, FS_Subset, Zenon
<1> QED
  BY <1>6, <1>7, Zenon DEF Sums, SumsAll

(* Whatever satisfies the equation of the sums has numbers as values.         *)
LEMMA SumsTyped ==
  ASSUME NEW F, IsFiniteSet(F), NEW d \in [F -> Int],
         NEW g, \A Q \in SUBSET F : g[Q] = SumStep(g, d, Q)
  PROVE  \A Q \in SUBSET F : g[Q] \in Int
<1> DEFINE N == {n \in Nat : \A U \in SUBSET F : Cardinality(U) = n => g[U] \in Int}
<1>1. 0 \in N
  <2> SUFFICES ASSUME NEW U \in SUBSET F, Cardinality(U) = 0 PROVE g[U] \in Int
    OBVIOUS
  <2>1. U # {} => Cardinality(U) > 0
    BY TakeSome, Zenon
  <2>2. U = {}
    BY <2>1
  <2>3. g[U] = 0
    BY <2>2, Zenon DEF SumStep
  <2> QED BY <2>3
<1>2. ASSUME NEW n \in N PROVE n + 1 \in N
  <2> SUFFICES ASSUME NEW U \in SUBSET F, Cardinality(U) = n + 1 PROVE g[U] \in Int
    OBVIOUS
  <2>0. U = {} => Cardinality(U) = 0
    BY TakeSome, Zenon
  <2>1. U # {}
    BY <2>0
  <2>2. /\ Some(U) \in F /\ U \ {Some(U)} \in SUBSET F
        /\ Cardinality(U \ {Some(U)}) = Cardinality(U) - 1
    BY <2>1, TakeSome, Zenon
  <2>3. Cardinality(U \ {Some(U)}) = n
    BY <2>2
  <2>4. g[U \ {Some(U)}] \in Int /\ d[Some(U)] \in Int
    BY <2>2, <2>3, Zenon
  <2>5. g[U] = g[U \ {Some(U)}] + d[Some(U)]
    BY <2>1, Zenon DEF SumStep
  <2> QED BY <2>4, <2>5
<1>3. N = Nat
  <2>1. N \in SUBSET Nat
    OBVIOUS
  <2> HIDE DEF N
  <2> QED BY <1>1, <1>2, <2>1, AllNumbers, Zenon
<1>4. ASSUME NEW Q \in SUBSET F PROVE g[Q] \in Int
  <2>1. Cardinality(Q) \in Nat
    BY TakeSome, Zenon
  <2> QED BY <1>3, <2>1, Zenon
<1> QED
  BY <1>4, Zenon

Adds(F, d, g) == \A Q \in SUBSET F : \A c \in Q : g[Q] = g[Q \ {c}] + d[c]

(* Such a function sums in any order: it is enough that one element more adds *)
(* its share.                                                                 *)
LEMMA SumsAdd ==
  ASSUME NEW F, NEW d, NEW g, SumsAll(F, d, g)
  PROVE  Adds(F, d, g)
<1> USE DEF SumsAll, Summable
<1> DEFINE N == {n \in Nat : \A U \in SUBSET F : Cardinality(U) = n =>
                   \A x \in U : g[U] = g[U \ {x}] + d[x]}
<1>1. 0 \in N
  <2>1. ASSUME NEW U \in SUBSET F, Cardinality(U) = 0 PROVE U = {}
    <3>1. U # {} => Cardinality(U) > 0
      BY TakeSome, Zenon
    <3> QED BY <2>1, <3>1
  <2> QED BY <2>1, Zenon
<1>2. ASSUME NEW n \in N PROVE n + 1 \in N
  <2> SUFFICES ASSUME NEW U \in SUBSET F, Cardinality(U) = n + 1, NEW x \in U
               PROVE  g[U] = g[U \ {x}] + d[x]
    OBVIOUS
  <2> DEFINE y == Some(U)
  <2>1. y \in U /\ g[U] = g[U \ {y}] + d[y]
    BY TakeSome, Zenon DEF SumStep
  <2>2. CASE x = y
    BY <2>1, <2>2, Zenon
  <2>3. CASE x # y
    <3> HIDE DEF y
    <3>1. IsFiniteSet(U) /\ U \ {x} \in SUBSET F /\ U \ {y} \in SUBSET F /\ (U \ {x}) \ {y} \in SUBSET F
      BY TakeSome, Zenon
    <3>2. Cardinality(U \ {x}) = n /\ Cardinality(U \ {y}) = n
      <4>1. Cardinality(U \ {x}) = Cardinality(U) - 1 /\ Cardinality(U \ {y}) = Cardinality(U) - 1
        BY <2>1, <3>1, FS_RemoveElement, Zenon
      <4> QED BY <4>1
    <3>3. g[U \ {y}] = g[(U \ {y}) \ {x}] + d[x]
      BY <2>1, <2>3, <3>1, <3>2, Zenon
    <3>4. g[U \ {x}] = g[(U \ {x}) \ {y}] + d[y]
      BY <2>1, <2>3, <3>1, <3>2, Zenon
    <3>5. (U \ {y}) \ {x} = (U \ {x}) \ {y}
      OBVIOUS
    <3>6. g[(U \ {x}) \ {y}] \in Int /\ d[x] \in Int /\ d[y] \in Int
      BY <2>1, <3>1, Zenon
    <3> DEFINE a == g[(U \ {x}) \ {y}]
               dx == d[x]
               dy == d[y]
    <3>7. g[U] = (a + dx) + dy /\ g[U \ {x}] = a + dy
      BY <2>1, <3>3, <3>4, <3>5, Zenon
    <3>8. (a + dx) + dy = (a + dy) + dx
      <4> HIDE DEF a, dx, dy
      <4>1. a \in Int /\ dx \in Int /\ dy \in Int
        BY <3>6, Zenon DEF a, dx, dy
      <4> QED BY <4>1
    <3> QED BY <3>7, <3>8, Zenon
  <2> QED BY <2>2, <2>3, Zenon
<1>3. N = Nat
  <2>1. N \in SUBSET Nat
    OBVIOUS
  <2> HIDE DEF N
  <2> QED BY <1>1, <1>2, <2>1, AllNumbers, Zenon
<1>4. ASSUME NEW Q \in SUBSET F, NEW c \in Q PROVE g[Q] = g[Q \ {c}] + d[c]
  <2>1. Cardinality(Q) \in Nat
    BY TakeSome, Zenon
  <2> QED BY <1>3, <2>1, Zenon
<1> QED
  BY <1>4, Zenon DEF Adds

-----------------------------------------------------------------------------
(* What the type and the count of a cluster's map are.                        *)
CountsTyped ==
  /\ size \in [ClusterSet -> Int]
  /\ repository \in [ClusterSet -> SUBSET InstanceKeys]
  /\ \A c \in ClusterSet : IsFiniteSet(repository[c])

(* The drift of a set of clusters is that of one of them more than of the     *)
(* others.                                                                    *)
LEMMA DriftAdds ==
  ASSUME CountsTyped
  PROVE  /\ DriftOf \in [SUBSET ClusterSet -> Int] /\ DriftOf[{}] = 0
         /\ \A Q \in SUBSET ClusterSet, c \in ClusterSet : c \in Q =>
              DriftOf[Q] = DriftOf[Q \ {c}] + (size[c] - Cardinality(repository[c]))
<1> DEFINE F == ClusterSet
           d == [c \in F |-> size[c] - Cardinality(repository[c])]
           Def(g) == [Q \in SUBSET F |->
                        IF Q = {} THEN 0
                        ELSE LET c == CHOOSE x \in Q : TRUE
                             IN g[Q \ {c}] + (size[c] - Cardinality(repository[c]))]
<1>1. IsFiniteSet(F)
  BY RepositoryAssumption, Zenon
<1>2. d \in [F -> Int]
  <2>1. ASSUME NEW c \in F PROVE size[c] - Cardinality(repository[c]) \in Int
    BY FS_CardinalityType DEF CountsTyped
  <2> QED BY <2>1, Zenon
<1>3. ASSUME NEW g, NEW Q \in SUBSET F, Q # {}
      PROVE  Some(Q) \in F /\ d[Some(Q)] = size[Some(Q)] - Cardinality(repository[Some(Q)])
  <2>1. Some(Q) \in F
    BY <1>3, Zenon DEF Some
  <2> QED BY <2>1, Zenon
<1>4. ASSUME NEW g, NEW Q \in SUBSET F PROVE Def(g)[Q] = SumStep(g, d, Q)
  <2>1. CASE Q = {}
    BY <2>1, Zenon DEF SumStep
  <2>2. CASE Q # {}
    <3>1. Def(g)[Q] = g[Q \ {Some(Q)}] + (size[Some(Q)] - Cardinality(repository[Some(Q)]))
      BY <2>2, Zenon DEF Some
    <3> QED BY <1>3, <2>2, <3>1, Zenon DEF SumStep
  <2> QED BY <2>1, <2>2, Zenon
<1> HIDE DEF d
<1>5. \E g : g = Def(g)
  <2>0. Summable(F, d)
    BY <1>1, <1>2, Zenon DEF Summable
  <2>1. PICK g : SumsAll(F, d, g)
    BY <2>0, SumsExist, Zenon
  <2>2. \A Q \in SUBSET F : g[Q] = Def(g)[Q]
    BY <1>4, <2>1, Zenon DEF SumsAll
  <2>3. g = Def(g)
    BY <2>1, <2>2, Zenon DEF SumsAll
  <2> QED BY <2>3, ZenonT(30)
<1>6. DriftOf = CHOOSE g : g = Def(g)
  BY Zenon DEF DriftOf
<1>7. DriftOf = Def(DriftOf)
  BY <1>5, <1>6, Zenon
<1>8. \A Q \in SUBSET F : DriftOf[Q] = SumStep(DriftOf, d, Q)
  BY <1>4, <1>7, ZenonT(30)
<1>9. \A Q \in SUBSET F : DriftOf[Q] \in Int
  BY <1>1, <1>2, <1>8, SumsTyped, Zenon
<1>10. DriftOf \in [SUBSET F -> Int]
  BY <1>7, <1>9, Zenon
<1> HIDE DEF F, Def
<1>11. DriftOf[{}] = 0
  BY <1>8, Zenon DEF SumStep, F
<1>12. \A Q \in SUBSET F : \A c \in Q : DriftOf[Q] = DriftOf[Q \ {c}] + d[c]
  <2>1. SumsAll(F, d, DriftOf)
    BY <1>1, <1>2, <1>8, <1>10, Zenon DEF SumsAll, Summable
  <2>2. Adds(F, d, DriftOf)
    BY <2>1, SumsAdd, Zenon
  <2> QED BY <2>2, Zenon DEF Adds
<1>13. ASSUME NEW Q \in SUBSET F, NEW c \in Q
       PROVE  DriftOf[Q] = DriftOf[Q \ {c}] + (size[c] - Cardinality(repository[c]))
  <2>1. DriftOf[Q] = DriftOf[Q \ {c}] + d[c]
    BY <1>12, Zenon
  <2> QED BY <2>1, Zenon DEF d, F
<1> QED
  BY <1>10, <1>11, <1>13, Zenon DEF F

-----------------------------------------------------------------------------
\* The instances of some of the clusters.
InstancesOf(Q) == UNION {{c} \X repository[c] : c \in Q}

(* The instances of a set of clusters are finitely many, and those of one     *)
(* more cluster are as many more as its map holds.                            *)
LEMMA OneClusterMore ==
  ASSUME CountsTyped, NEW Q \in SUBSET ClusterSet, NEW c \in Q,
         IsFiniteSet(InstancesOf(Q \ {c}))
  PROVE  /\ IsFiniteSet(InstancesOf(Q))
         /\ InstancesOf(Q) = InstancesOf(Q \ {c}) \cup ({c} \X repository[c])
         /\ Cardinality(InstancesOf(Q)) =
              Cardinality(InstancesOf(Q \ {c})) + Cardinality(repository[c])
<1> DEFINE A == InstancesOf(Q \ {c})
           B == {c} \X repository[c]
<1>1. InstancesOf(Q) = A \cup B
  BY Zenon DEF InstancesOf
<1>2. A \cap B = {}
  BY DEF InstancesOf
<1>3. IsFiniteSet(repository[c])
  BY Zenon DEF CountsTyped
<1>4. IsFiniteSet(B) /\ Cardinality(B) = 1 * Cardinality(repository[c])
  <2>1. IsFiniteSet({c}) /\ Cardinality({c}) = 1
    BY FS_Singleton, Zenon
  <2> QED BY <1>3, <2>1, FS_Product, Zenon
<1>5. /\ Cardinality(repository[c]) \in Nat /\ Cardinality(B) \in Nat
      /\ Cardinality(A) \in Nat
  BY <1>3, <1>4, FS_CardinalityType, Zenon
<1>6. /\ IsFiniteSet(A \cup B)
      /\ Cardinality(A \cup B) = Cardinality(A) + Cardinality(B) - Cardinality(A \cap B)
  <2> HIDE DEF A, B
  <2> QED BY <1>4, FS_Union, Zenon DEF A
<1>7. Cardinality(A \cap B) = 0
  BY <1>2, FS_EmptySet, Zenon
<1> HIDE DEF A, B
<1>8. Cardinality(A \cup B) = Cardinality(A) + Cardinality(repository[c])
  BY <1>4, <1>5, <1>6, <1>7
<1> QED
  BY <1>1, <1>6, <1>8, Zenon DEF A, B

(* The instances of any set of clusters are finitely many.                    *)
LEMMA FinitelyMany ==
  ASSUME CountsTyped
  PROVE  \A Q \in SUBSET ClusterSet : IsFiniteSet(InstancesOf(Q))
<1> DEFINE N == {n \in Nat : \A Q \in SUBSET ClusterSet : Cardinality(Q) = n => IsFiniteSet(InstancesOf(Q))}
<1>0. IsFiniteSet(ClusterSet)
  BY RepositoryAssumption, Zenon
<1>1. 0 \in N
  <2> SUFFICES ASSUME NEW Q \in SUBSET ClusterSet, Cardinality(Q) = 0
               PROVE  IsFiniteSet(InstancesOf(Q))
    OBVIOUS
  <2>1. Q # {} => Cardinality(Q) > 0
    BY <1>0, TakeSome, Zenon
  <2>2. Q = {}
    BY <2>1
  <2>3. InstancesOf(Q) = {}
    BY <2>2, Zenon DEF InstancesOf
  <2> QED BY <2>3, FS_EmptySet, Zenon
<1>2. ASSUME NEW n \in N PROVE n + 1 \in N
  <2> SUFFICES ASSUME NEW Q \in SUBSET ClusterSet, Cardinality(Q) = n + 1
               PROVE  IsFiniteSet(InstancesOf(Q))
    OBVIOUS
  <2>0. Q = {} => Cardinality(Q) = 0
    BY <1>0, TakeSome, Zenon
  <2>1. Q # {}
    BY <2>0
  <2>2. /\ Some(Q) \in Q /\ Q \ {Some(Q)} \in SUBSET ClusterSet
        /\ Cardinality(Q \ {Some(Q)}) = Cardinality(Q) - 1
    BY <1>0, <2>1, TakeSome, Zenon
  <2>3. Cardinality(Q \ {Some(Q)}) = n
    BY <2>2
  <2>4. IsFiniteSet(InstancesOf(Q \ {Some(Q)}))
    BY <2>2, <2>3, Zenon
  <2> QED BY <2>2, <2>4, OneClusterMore, Zenon
<1>3. N = Nat
  <2>1. N \in SUBSET Nat
    OBVIOUS
  <2> HIDE DEF N
  <2> QED BY <1>1, <1>2, <2>1, AllNumbers, Zenon
<1>4. ASSUME NEW Q \in SUBSET ClusterSet PROVE IsFiniteSet(InstancesOf(Q))
  <2>1. Cardinality(Q) \in Nat
    BY <1>0, TakeSome, Zenon
  <2> QED BY <1>3, <2>1, Zenon
<1> QED
  BY <1>4, Zenon

-----------------------------------------------------------------------------
\* A call of findAllInstance.
FinderCall ==
  [at : {"sum", "fill", "done", "panicked"}, visit : SUBSET ClusterSet, total : Int,
   found : SUBSET (ClusterSet \X InstanceKeys)]

FindersTyped ==
  /\ finder \in [Finders -> FinderCall \cup {NoCall}]
  /\ stable \in [Finders -> SUBSET (ClusterSet \X InstanceKeys)]
  /\ calm \in [Finders -> BOOLEAN]

\* What is known of a call, of what stayed since it began and of whether
\* nothing changed since.  While it sums and fills it has the clusters that it
\* has visited right, and the sum is off by their drift.
CallSound(run, kept, quiet) ==
  LET passed == ClusterSet \ run.visit IN
  /\ kept \subseteq Present
  /\ run.at = "sum" =>
       /\ run.found = {}
       /\ quiet => run.total = DriftOf[passed] + Cardinality(InstancesOf(passed))
  /\ run.at = "fill" =>
       /\ \A i \in kept : i[1] \notin run.visit => i \in run.found
       /\ quiet => /\ run.found = InstancesOf(passed)
                   /\ run.total = Drift + Cardinality(Present)
  /\ run.at = "done" =>
       /\ kept \subseteq run.found
       /\ quiet => /\ run.found = Present /\ Drift >= 0
                   /\ run.total = Drift + Cardinality(Present)
  /\ run.at = "panicked" /\ quiet => Drift < 0

FindInv ==
  /\ AddersTyped /\ CountsTyped /\ FindersTyped
  /\ \A f \in Finders : CallSound(finder[f], stable[f], calm[f])

(* What depends on the maps and the counts alone stays with them.             *)
LEMMA CountsFrame ==
  ASSUME UNCHANGED <<repository, size>>
  PROVE  /\ DriftOf' = DriftOf /\ Drift' = Drift /\ Present' = Present
         /\ \A Q : InstancesOf(Q)' = InstancesOf(Q)
<1>1. DriftOf' = DriftOf
  BY DEF DriftOf
<1>2. Drift' = Drift
  BY <1>1, Zenon DEF Drift
<1>3. Present' = Present
  BY Zenon DEF Present
<1>4. \A Q : InstancesOf(Q)' = InstancesOf(Q)
  BY Zenon DEF InstancesOf
<1> QED
  BY <1>1, <1>2, <1>3, <1>4, Zenon

(* A call of which nothing changed, with the maps and the counts, stays       *)
(* sound.                                                                     *)
LEMMA CallFrame ==
  ASSUME UNCHANGED <<repository, size>>, NEW run, NEW kept, NEW quiet,
         CallSound(run, kept, quiet)
  PROVE  CallSound(run, kept, quiet)'
BY CountsFrame, Zenon DEF CallSound

(* All instances are those of all clusters.                                   *)
LEMMA PresentOfAll ==
  ASSUME CountsTyped
  PROVE  /\ Present = InstancesOf(ClusterSet)
         /\ Present \in SUBSET (ClusterSet \X InstanceKeys)
         /\ IsFiniteSet(Present) /\ Cardinality(Present) \in Nat
         /\ Drift \in Int
<1>1. Present = InstancesOf(ClusterSet)
  BY Zenon DEF Present, InstancesOf
<1>2. IsFiniteSet(Present) /\ Cardinality(Present) \in Nat
  BY <1>1, FinitelyMany, FS_CardinalityType, Zenon
<1>3. Drift \in Int
  BY DriftAdds, Zenon DEF Drift
<1>4. Present \in SUBSET (ClusterSet \X InstanceKeys)
  BY DEF Present, CountsTyped
<1> QED
  BY <1>1, <1>2, <1>3, <1>4, Zenon

\* A step of one call that leaves it sound.
CallMoves(f, run, kept, quiet) ==
  /\ UNCHANGED <<repository, size, instanceType, adder>>
  /\ run \in FinderCall /\ kept \in SUBSET (ClusterSet \X InstanceKeys) /\ quiet \in BOOLEAN
  /\ finder' = [finder EXCEPT ![f] = run]
  /\ stable' = [stable EXCEPT ![f] = kept]
  /\ calm' = [calm EXCEPT ![f] = quiet]
  /\ CallSound(run, kept, quiet)

(* Such a step keeps the invariant.                                           *)
LEMMA OneCallMoves ==
  ASSUME FindInv, NEW f \in Finders, NEW run, NEW kept, NEW quiet,
         CallMoves(f, run, kept, quiet)
  PROVE  FindInv'
<1> USE DEF CallMoves
<1>1. AddersTyped' /\ CountsTyped'
  BY Zenon DEF FindInv, AddersTyped, CountsTyped
<1>2. FindersTyped'
  BY Zenon DEF FindInv, FindersTyped
<1>3. ASSUME NEW g \in Finders PROVE CallSound(finder[g], stable[g], calm[g])'
  <2>1. CASE g = f
    <3>1. finder'[g] = run /\ stable'[g] = kept /\ calm'[g] = quiet
      BY <2>1, Zenon DEF FindInv, FindersTyped
    <3>2. CallSound(run, kept, quiet)'
      BY CallFrame, Zenon
    <3> QED BY <3>1, <3>2, Zenon DEF CallSound
  <2>2. CASE g # f
    <3>1. finder'[g] = finder[g] /\ stable'[g] = stable[g] /\ calm'[g] = calm[g]
      BY <2>2, Zenon DEF FindInv, FindersTyped
    <3>2. PICK old, was, still : old = finder[g] /\ was = stable[g] /\ still = calm[g]
      OBVIOUS
    <3>3. CallSound(old, was, still)
      BY <3>2, Zenon DEF FindInv
    <3>4. CallSound(old, was, still)'
      BY <3>3, CallFrame, Zenon
    <3>5. finder'[g] = old /\ stable'[g] = was /\ calm'[g] = still
      BY <3>1, <3>2, Zenon
    <3> QED BY <3>4, <3>5, Zenon DEF CallSound
  <2> QED BY <2>1, <2>2, Zenon
<1> QED
  BY <1>1, <1>2, <1>3, Zenon DEF FindInv

(* A call that is under way.                                                  *)
LEMMA CallTyped ==
  ASSUME FindInv, NEW f \in Finders, finder[f].at # "idle"
  PROVE  /\ finder[f] \in FinderCall /\ stable[f] \in SUBSET (ClusterSet \X InstanceKeys)
         /\ calm[f] \in BOOLEAN /\ CountsTyped
         /\ CallSound(finder[f], stable[f], calm[f])
<1>1. NoCall.at = "idle"
  BY Zenon DEF NoCall
<1> QED
  BY <1>1, Zenon DEF FindInv, FindersTyped

(* Service.findAllInstance begins: there is no cluster it has visited.        *)
LEMMA FindAllInstanceKeeps ==
  ASSUME FindInv, NEW f \in Finders, FindAllInstance(f)
  PROVE  FindInv'
<1>1. PICK run : run = [at |-> "sum", visit |-> ClusterSet, total |-> 0, found |-> {}]
  BY Zenon
<1>2. PICK kept : kept = Present
  OBVIOUS
<1>3. run \in FinderCall
  BY <1>1 DEF FinderCall
<1>4. kept \in SUBSET (ClusterSet \X InstanceKeys)
  BY <1>2, PresentOfAll, Zenon DEF FindInv
<1>5. DriftOf[{}] = 0 /\ InstancesOf({}) = {} /\ Cardinality({}) = 0
  BY DriftAdds, FS_EmptySet, Zenon DEF FindInv, InstancesOf
<1>6. CallSound(run, kept, TRUE)
  <2>1. /\ run.at = "sum" /\ ClusterSet \ run.visit = {} /\ run.total = 0
        /\ run.found = {}
    BY <1>1, Zenon
  <2> QED BY <1>2, <1>5, <2>1 DEF CallSound
<1>7. /\ finder' = [finder EXCEPT ![f] = run] /\ stable' = [stable EXCEPT ![f] = kept]
      /\ calm' = [calm EXCEPT ![f] = TRUE] /\ UNCHANGED <<repository, size, instanceType, adder>>
  BY <1>1, <1>2, Zenon DEF FindAllInstance
<1>8. CallMoves(f, run, kept, TRUE)
  BY <1>3, <1>4, <1>6, <1>7, Zenon DEF CallMoves
<1> QED
  BY <1>8, OneCallMoves, Zenon

(* The sum of one more cluster.                                               *)
LEMMA SumSizeKeeps ==
  ASSUME FindInv, NEW f \in Finders, NEW c \in ClusterSet, SumSize(f, c)
  PROVE  FindInv'
<1>1. PICK old, kept, quiet : old = finder[f] /\ kept = stable[f] /\ quiet = calm[f]
  OBVIOUS
<1>2. /\ old \in FinderCall /\ kept \in SUBSET (ClusterSet \X InstanceKeys)
      /\ quiet \in BOOLEAN /\ CountsTyped /\ CallSound(old, kept, quiet)
      /\ old.at = "sum" /\ c \in old.visit
  BY <1>1, CallTyped, Zenon DEF SumSize
<1>3. PICK run : run = [old EXCEPT !.visit = @ \ {c}, !.total = @ + size[c]]
  OBVIOUS
<1>4. run \in FinderCall
  <2>1. size[c] \in Int
    BY <1>2, Zenon DEF CountsTyped
  <2>2. /\ old.visit \ {c} \in SUBSET ClusterSet /\ old.total + size[c] \in Int
        /\ old.found \in SUBSET (ClusterSet \X InstanceKeys)
    BY <1>2, <2>1 DEF FinderCall
  <2>3. run = [at |-> "sum", visit |-> old.visit \ {c}, total |-> old.total + size[c],
                found |-> old.found]
    BY <1>2, <1>3, Zenon DEF FinderCall
  <2> QED BY <2>2, <2>3, Zenon DEF FinderCall
<1>5. /\ run.at = "sum" /\ run.visit = old.visit \ {c} /\ run.found = old.found
      /\ run.total = old.total + size[c]
  BY <1>2, <1>3, Zenon DEF FinderCall
<1>6. PICK passed : passed = ClusterSet \ run.visit
  BY Zenon
<1>7. passed \in SUBSET ClusterSet /\ c \in passed /\ passed \ {c} = ClusterSet \ old.visit
  BY <1>2, <1>5, <1>6, Zenon DEF FinderCall
<1>8. quiet => run.total = DriftOf[passed] + Cardinality(InstancesOf(passed))
  <2>1. DriftOf[passed] = DriftOf[passed \ {c}] + (size[c] - Cardinality(repository[c]))
    BY <1>2, <1>7, DriftAdds, Zenon
  <2>2. IsFiniteSet(InstancesOf(passed \ {c}))
    BY <1>2, <1>7, FinitelyMany, Zenon
  <2>3. Cardinality(InstancesOf(passed)) =
          Cardinality(InstancesOf(passed \ {c})) + Cardinality(repository[c])
    BY <1>2, <1>7, <2>2, OneClusterMore, Zenon
  <2>4. quiet => old.total = DriftOf[passed \ {c}] + Cardinality(InstancesOf(passed \ {c}))
    BY <1>2, <1>7, Zenon DEF CallSound
  <2>5. /\ DriftOf[passed \ {c}] \in Int /\ size[c] \in Int
        /\ Cardinality(repository[c]) \in Nat /\ Cardinality(InstancesOf(passed \ {c})) \in Nat
    <3>1. DriftOf[passed \ {c}] \in Int
      BY <1>2, <1>7, DriftAdds, Zenon
    <3>2. IsFiniteSet(repository[c]) /\ size[c] \in Int
      BY <1>2, Zenon DEF CountsTyped
    <3> QED BY <2>2, <3>1, <3>2, FS_CardinalityType, Zenon
  <2> QED BY <1>5, <2>1, <2>3, <2>4, <2>5
<1>9. CallSound(run, kept, quiet)
  <2>1. kept \subseteq Present /\ old.found = {}
    BY <1>2, Zenon DEF CallSound
  <2> QED BY <1>5, <1>6, <1>8, <2>1, Zenon DEF CallSound
<1>10. /\ finder' = [finder EXCEPT ![f] = run]
       /\ UNCHANGED <<repository, size, instanceType, adder>> /\ UNCHANGED <<stable, calm>>
  BY <1>1, <1>3, Zenon DEF SumSize
<1>11. stable' = [stable EXCEPT ![f] = kept] /\ calm' = [calm EXCEPT ![f] = quiet]
  BY <1>1, <1>10, Zenon DEF FindInv, FindersTyped
<1>12. CallMoves(f, run, kept, quiet)
  BY <1>2, <1>4, <1>9, <1>10, <1>11, Zenon DEF CallMoves
<1> QED
  BY <1>12, OneCallMoves, Zenon

(* The slice is made of what the sum says: the whole sum is off by the whole  *)
(* drift, and one below 0 panics.                                             *)
LEMMA MakeSliceKeeps ==
  ASSUME FindInv, NEW f \in Finders, MakeSlice(f)
  PROVE  FindInv'
<1>1. PICK old, kept, quiet : old = finder[f] /\ kept = stable[f] /\ quiet = calm[f]
  OBVIOUS
<1>2. /\ old \in FinderCall /\ kept \in SUBSET (ClusterSet \X InstanceKeys)
      /\ quiet \in BOOLEAN /\ CountsTyped /\ CallSound(old, kept, quiet)
      /\ old.at = "sum" /\ old.visit = {}
  BY <1>1, CallTyped, Zenon DEF MakeSlice
<1>3. PICK run : run = [at |-> IF old.total < 0 THEN "panicked" ELSE "fill",
                          visit |-> ClusterSet, total |-> old.total, found |-> old.found]
  BY Zenon
<1>4. run \in FinderCall
  BY <1>2, <1>3, Zenon DEF FinderCall
<1>5. [old EXCEPT !.visit = ClusterSet, !.at = IF old.total < 0 THEN "panicked" ELSE "fill"] = run
  <2>1. PICK new : new = [old EXCEPT !.visit = ClusterSet,
                                      !.at = IF old.total < 0 THEN "panicked" ELSE "fill"]
    OBVIOUS
  <2>2. CASE old.total < 0
    <3>1. new = [old EXCEPT !.visit = ClusterSet, !.at = "panicked"]
      BY <2>1, <2>2, Zenon
    <3>2. new = [at |-> "panicked", visit |-> ClusterSet, total |-> old.total, found |-> old.found]
      BY <1>2, <3>1, Zenon DEF FinderCall
    <3> QED BY <1>3, <2>1, <2>2, <3>2, Zenon
  <2>3. CASE ~(old.total < 0)
    <3>1. new = [old EXCEPT !.visit = ClusterSet, !.at = "fill"]
      BY <2>1, <2>3, Zenon
    <3>2. new = [at |-> "fill", visit |-> ClusterSet, total |-> old.total, found |-> old.found]
      BY <1>2, <3>1, Zenon DEF FinderCall
    <3> QED BY <1>3, <2>1, <2>3, <3>2, Zenon
  <2> QED BY <2>2, <2>3, Zenon
<1>6. /\ run.at = IF old.total < 0 THEN "panicked" ELSE "fill"
      /\ run.visit = ClusterSet /\ run.total = old.total /\ run.found = old.found
  BY <1>3, Zenon
<1>7. old.found = {} /\ kept \subseteq Present /\ old.total \in Int
  BY <1>2, Zenon DEF CallSound, FinderCall
<1>8. quiet => old.total = Drift + Cardinality(Present)
  <2>1. ClusterSet \ old.visit = ClusterSet
    BY <1>2, Zenon
  <2> QED BY <1>2, <2>1, PresentOfAll, Zenon DEF CallSound, Drift
<1>9. quiet /\ old.total < 0 => Drift < 0
  BY <1>2, <1>8, PresentOfAll, SMTT(30)
<1>10. ClusterSet \ run.visit = {} /\ InstancesOf({}) = {}
  BY <1>6, Zenon DEF InstancesOf
<1>11. CallSound(run, kept, quiet)
  <2>1. \A i \in kept : i[1] \in run.visit
    BY <1>2, <1>6, Zenon
  <2>2. CASE old.total < 0
    BY <1>6, <1>7, <1>9, <2>2, Zenon DEF CallSound
  <2>3. CASE ~(old.total < 0)
    BY <1>6, <1>7, <1>8, <1>10, <2>1, <2>3, Zenon DEF CallSound
  <2> QED BY <2>2, <2>3, Zenon
<1>12. /\ finder' = [finder EXCEPT ![f] = run]
       /\ UNCHANGED <<repository, size, instanceType, adder>> /\ UNCHANGED <<stable, calm>>
  BY <1>1, <1>5, Zenon DEF MakeSlice
<1>13. stable' = [stable EXCEPT ![f] = kept] /\ calm' = [calm EXCEPT ![f] = quiet]
  BY <1>1, <1>12, Zenon DEF FindInv, FindersTyped
<1>14. CallMoves(f, run, kept, quiet)
  BY <1>2, <1>4, <1>11, <1>12, <1>13, Zenon DEF CallMoves
<1> QED
  BY <1>14, OneCallMoves, Zenon

(* One more cluster is copied to the slice, or there is no room for it.       *)
LEMMA FillKeeps ==
  ASSUME FindInv, NEW f \in Finders, NEW c \in ClusterSet, Fill(f, c)
  PROVE  FindInv'
<1>1. PICK old, kept, quiet : old = finder[f] /\ kept = stable[f] /\ quiet = calm[f]
  OBVIOUS
<1>2. /\ old \in FinderCall /\ kept \in SUBSET (ClusterSet \X InstanceKeys)
      /\ quiet \in BOOLEAN /\ CountsTyped /\ CallSound(old, kept, quiet)
      /\ old.at = "fill" /\ c \in old.visit
  BY <1>1, CallTyped, Zenon DEF Fill
<1>3. PICK found : found = old.found \cup ({c} \X repository[c])
  BY Zenon
<1>4. PICK passed : passed = ClusterSet \ (old.visit \ {c})
  BY ZenonT(30)
<1>5. passed \in SUBSET ClusterSet /\ c \in passed /\ passed \ {c} = ClusterSet \ old.visit
  BY <1>2, <1>4, Zenon DEF FinderCall
<1>6. /\ kept \subseteq Present /\ old.total \in Int
      /\ found \in SUBSET (ClusterSet \X InstanceKeys)
      /\ old.visit \ {c} \in SUBSET ClusterSet
  BY <1>2, <1>3, Zenon DEF CallSound, FinderCall, CountsTyped
<1>7. \A i \in kept : i[1] \notin old.visit \ {c} => i \in found
  <2>1. \A i \in kept : i[1] \notin old.visit => i \in old.found
    BY <1>2, Zenon DEF CallSound
  <2>2. \A i \in Present : i[1] = c => i \in {c} \X repository[c]
    BY DEF Present
  <2> QED BY <1>3, <1>6, <2>1, <2>2, Zenon
<1>8. quiet => found = InstancesOf(passed) /\ old.total = Drift + Cardinality(Present)
  <2>1. quiet => old.found = InstancesOf(passed \ {c}) /\ old.total = Drift + Cardinality(Present)
    BY <1>2, <1>5, Zenon DEF CallSound
  <2>2. InstancesOf(passed) = InstancesOf(passed \ {c}) \cup ({c} \X repository[c])
    BY <1>5, Zenon DEF InstancesOf
  <2> QED BY <1>3, <2>1, <2>2, Zenon
<1>9. /\ IsFiniteSet(Present) /\ Cardinality(Present) \in Nat /\ Drift \in Int
      /\ Present = InstancesOf(ClusterSet)
  BY <1>2, PresentOfAll, Zenon
<1>10. PICK run : run = IF RoomFor(f, Cardinality(found))
                          THEN [old EXCEPT !.visit = @ \ {c}, !.found = found,
                                           !.at = IF old.visit = {c} THEN "done" ELSE "fill"]
                          ELSE [old EXCEPT !.at = "panicked"]
  BY Zenon
<1>11. run \in FinderCall /\ CallSound(run, kept, quiet)
  <2>1. CASE ~RoomFor(f, Cardinality(found))
    <3>1. run = [old EXCEPT !.at = "panicked"]
      BY <1>10, <2>1, Zenon
    <3>2. run \in FinderCall /\ run.at = "panicked"
      BY <1>2, <3>1, Zenon DEF FinderCall
    <3>3. quiet => Drift < 0
      <4> SUFFICES ASSUME quiet PROVE Drift < 0
        OBVIOUS
      <4>1. found \in SUBSET Present
        BY <1>5, <1>8, <1>9, Zenon DEF InstancesOf
      <4>2. IsFiniteSet(found) /\ Cardinality(found) <= Cardinality(Present)
        BY <1>9, <4>1, FS_Subset, Zenon
      <4>3. Cardinality(found) \in Nat
        BY <4>2, FS_CardinalityType, Zenon
      <4>4. ~(Cardinality(found) <= old.total)
        BY <1>1, <2>1, Zenon DEF RoomFor
      <4> QED BY <1>6, <1>8, <1>9, <4>2, <4>3, <4>4
    <3> QED BY <1>6, <3>2, <3>3, Zenon DEF CallSound
  <2>2. CASE RoomFor(f, Cardinality(found)) /\ old.visit # {c}
    <3>1. run = [old EXCEPT !.visit = @ \ {c}, !.found = found, !.at = "fill"]
      BY <1>10, <2>2, Zenon
    <3>2. run = [at |-> "fill", visit |-> old.visit \ {c}, total |-> old.total, found |-> found]
      BY <1>2, <3>1, Zenon DEF FinderCall
    <3>3. run \in FinderCall
      BY <1>6, <3>2, Zenon DEF FinderCall
    <3>4. /\ run.at = "fill" /\ run.visit = old.visit \ {c} /\ run.total = old.total
          /\ run.found = found
      BY <3>2, Zenon
    <3>5. CallSound(run, kept, quiet)
      BY <1>4, <1>6, <1>7, <1>8, <3>4, Zenon DEF CallSound
    <3> QED BY <3>3, <3>5, Zenon
  <2>3. CASE RoomFor(f, Cardinality(found)) /\ old.visit = {c}
    <3>1. run = [old EXCEPT !.visit = @ \ {c}, !.found = found, !.at = "done"]
      BY <1>10, <2>3, Zenon
    <3>2. run = [at |-> "done", visit |-> old.visit \ {c}, total |-> old.total, found |-> found]
      BY <1>2, <3>1, Zenon DEF FinderCall
    <3>3. run \in FinderCall
      BY <1>6, <3>2, Zenon DEF FinderCall
    <3>4. /\ run.at = "done" /\ run.total = old.total /\ run.found = found
      BY <3>2, Zenon
    <3>5. old.visit \ {c} = {} /\ passed = ClusterSet
      BY <1>4, <2>3, Zenon
    <3>6. kept \subseteq found
      BY <1>7, <3>5, Zenon
    <3>7. quiet => found = Present /\ old.total = Drift + Cardinality(Present) /\ Drift >= 0
      <4>1. quiet => found = Present /\ old.total = Drift + Cardinality(Present)
        BY <1>8, <1>9, <3>5, Zenon
      <4>2. Cardinality(found) <= old.total
        BY <1>1, <2>3, Zenon DEF RoomFor
      <4> QED BY <1>6, <1>9, <4>1, <4>2
    <3>8. CallSound(run, kept, quiet)
      BY <1>6, <3>4, <3>6, <3>7, Zenon DEF CallSound
    <3> QED BY <3>3, <3>8, Zenon
  <2> QED BY <2>1, <2>2, <2>3, Zenon
<1>12. /\ finder' = [finder EXCEPT ![f] = run]
       /\ UNCHANGED <<repository, size, instanceType, adder>> /\ UNCHANGED <<stable, calm>>
  BY <1>1, <1>3, <1>10, Zenon DEF Fill
<1>13. stable' = [stable EXCEPT ![f] = kept] /\ calm' = [calm EXCEPT ![f] = quiet]
  BY <1>1, <1>12, Zenon DEF FindInv, FindersTyped
<1>14. CallMoves(f, run, kept, quiet)
  BY <1>2, <1>11, <1>12, <1>13, Zenon DEF CallMoves
<1> QED
  BY <1>14, OneCallMoves, Zenon

(* A change of the maps ends the calm of every call, and one that removes     *)
(* an instance takes it from what the calls owe.                              *)
LEMMA MapsChange ==
  ASSUME FindInv, AddersTyped', CountsTyped', UNCHANGED finder,
         stable' \in [Finders -> SUBSET (ClusterSet \X InstanceKeys)],
         calm' = [f \in Finders |-> FALSE],
         \A f \in Finders : stable'[f] \subseteq stable[f] /\ stable'[f] \subseteq Present'
  PROVE  FindInv'
<1>1. FindersTyped'
  BY Zenon DEF FindInv, FindersTyped
<1>2. ASSUME NEW f \in Finders PROVE CallSound(finder[f], stable[f], calm[f])'
  <2>1. /\ calm'[f] = FALSE /\ finder'[f] = finder[f] /\ stable'[f] \subseteq stable[f]
        /\ stable'[f] \subseteq Present'
    OBVIOUS
  <2>2. CallSound(finder[f], stable[f], calm[f])
    BY Zenon DEF FindInv
  <2> QED BY <2>1, <2>2, Zenon DEF CallSound
<1> QED
  BY <1>1, <1>2, Zenon DEF FindInv

(* ConcurrentMap.Put, of an adder.                                            *)
LEMMA PutInstanceKeeps ==
  ASSUME FindInv, NEW a \in Adders, PutInstanceOf(a)
  PROVE  FindInv'
<1>1. adder[a] \in AdderCall
  <2>1. NoCall.at # "put"
    BY Zenon DEF NoCall
  <2> QED BY <2>1, Zenon DEF FindInv, AddersTyped, PutInstanceOf
<1>2. PICK c, k : c = adder[a].cluster /\ k = adder[a].key
  OBVIOUS
<1>3. c \in ClusterSet /\ k \in InstanceKeys
  BY <1>1, <1>2, Zenon DEF AdderCall
<1>4. /\ repository' = [repository EXCEPT ![c] = @ \cup {k}]
      /\ size' = [size EXCEPT ![c] = @ + 1]
      /\ adder' = [adder EXCEPT ![a] = NoCall] /\ UNCHANGED instanceType
      /\ calm' = [f \in Finders |-> FALSE] /\ UNCHANGED <<finder, stable>>
  BY <1>2, Zenon DEF PutInstanceOf, PutEntry
<1>5. AddersTyped'
  BY <1>4, Zenon DEF FindInv, AddersTyped
<1>6. CountsTyped'
  <2>1. /\ size \in [ClusterSet -> Int] /\ repository \in [ClusterSet -> SUBSET InstanceKeys]
        /\ \A d \in ClusterSet : IsFiniteSet(repository[d])
    BY Zenon DEF FindInv, CountsTyped
  <2>2. size' \in [ClusterSet -> Int] /\ repository' \in [ClusterSet -> SUBSET InstanceKeys]
    BY <1>3, <1>4, <2>1
  <2>3. ASSUME NEW d \in ClusterSet PROVE IsFiniteSet(repository'[d])
    <3>1. repository'[d] = repository[d] \/ repository'[d] = repository[d] \cup {k}
      BY <1>4, <2>1, Zenon
    <3>2. IsFiniteSet(repository[d])
      BY <2>1, Zenon
    <3>3. IsFiniteSet(repository[d] \cup {k})
      BY <3>2, FS_AddElement, Zenon
    <3> QED BY <3>1, <3>2, <3>3, Zenon
  <2> QED BY <2>2, <2>3, Zenon DEF CountsTyped
<1>7. Present \subseteq Present'
  <2>1. \A d \in ClusterSet : repository[d] \subseteq repository'[d]
    BY <1>3, <1>4, Zenon DEF FindInv, CountsTyped
  <2> QED BY <2>1 DEF Present
<1>8. \A f \in Finders : stable'[f] \subseteq stable[f] /\ stable'[f] \subseteq Present'
  <2>1. \A f \in Finders : stable[f] \subseteq Present
    BY Zenon DEF FindInv, CallSound
  <2> QED BY <1>4, <1>7, <2>1, Zenon
<1>9. stable' \in [Finders -> SUBSET (ClusterSet \X InstanceKeys)]
  BY <1>4, Zenon DEF FindInv, FindersTyped
<1> QED
  BY <1>4, <1>5, <1>6, <1>8, <1>9, MapsChange, Zenon

(* ConcurrentMap.Remove, of what there may not be.                            *)
LEMMA RemoveInstanceKeeps ==
  ASSUME FindInv, NEW c \in ClusterSet, NEW k \in InstanceKeys, RemoveInstance(c, k)
  PROVE  FindInv'
<1>1. /\ repository' = [repository EXCEPT ![c] = @ \ {k}]
      /\ size' = [size EXCEPT ![c] = @ - 1]
      /\ stable' = [f \in Finders |-> stable[f] \ {<<c, k>>}]
      /\ UNCHANGED <<adder, instanceType>>
      /\ calm' = [f \in Finders |-> FALSE] /\ UNCHANGED finder
  BY Zenon DEF RemoveInstance, RemoveEntry
<1>2. AddersTyped'
  BY <1>1, Zenon DEF FindInv, AddersTyped
<1>3. CountsTyped'
  <2>1. /\ size \in [ClusterSet -> Int] /\ repository \in [ClusterSet -> SUBSET InstanceKeys]
        /\ \A d \in ClusterSet : IsFiniteSet(repository[d])
    BY Zenon DEF FindInv, CountsTyped
  <2>2. size' \in [ClusterSet -> Int] /\ repository' \in [ClusterSet -> SUBSET InstanceKeys]
    BY <1>1, <2>1
  <2>3. ASSUME NEW d \in ClusterSet PROVE IsFiniteSet(repository'[d])
    <3>1. repository'[d] = repository[d] \/ repository'[d] = repository[d] \ {k}
      BY <1>1, <2>1, Zenon
    <3>2. IsFiniteSet(repository[d])
      BY <2>1, Zenon
    <3>3. IsFiniteSet(repository[d] \ {k})
      BY <3>2, FS_RemoveElement, Zenon
    <3> QED BY <3>1, <3>2, <3>3, Zenon
  <2> QED BY <2>2, <2>3, Zenon DEF CountsTyped
<1>4. Present \ {<<c, k>>} \subseteq Present'
  <2>1. \A d \in ClusterSet : \A i \in repository[d] : i \in repository'[d] \/ (d = c /\ i = k)
    BY <1>1, Zenon DEF FindInv, CountsTyped
  <2> QED BY <2>1 DEF Present
<1>5. \A f \in Finders : stable'[f] \subseteq stable[f] /\ stable'[f] \subseteq Present'
  <2>1. \A f \in Finders : stable[f] \subseteq Present
    BY Zenon DEF FindInv, CallSound
  <2> QED BY <1>1, <1>4, <2>1, Zenon
<1>6. stable' \in [Finders -> SUBSET (ClusterSet \X InstanceKeys)]
  BY <1>1, Zenon DEF FindInv, FindersTyped
<1> QED
  BY <1>1, <1>2, <1>3, <1>5, <1>6, MapsChange, Zenon

(* The steps that touch neither the maps nor the calls of findAllInstance.    *)
LEMMA AddersKeep ==
  ASSUME FindInv, AddersTyped', UNCHANGED <<repository, size, finder, stable, calm>>
  PROVE  FindInv'
<1>1. CountsTyped' /\ FindersTyped'
  BY Zenon DEF FindInv, CountsTyped, FindersTyped
<1>2. ASSUME NEW g \in Finders PROVE CallSound(finder[g], stable[g], calm[g])'
  <2>1. PICK old, was, still : old = finder[g] /\ was = stable[g] /\ still = calm[g]
    OBVIOUS
  <2>2. CallSound(old, was, still)
    BY <2>1, Zenon DEF FindInv
  <2>3. CallSound(old, was, still)'
    BY <2>2, CallFrame, Zenon
  <2>4. finder'[g] = old /\ stable'[g] = was /\ calm'[g] = still
    BY <2>1, Zenon
  <2> QED BY <2>3, <2>4, Zenon DEF CallSound
<1> QED
  BY <1>1, <1>2, Zenon DEF FindInv

(* Every step keeps the invariant; that of the types gives the adders.        *)
LEMMA FindStep ==
  ASSUME FindInv, RepositoryInv, [RepositoryNext]_repositoryVars
  PROVE  FindInv'
<1>0. AddersTyped'
  BY RepositoryStep, Zenon DEF RepositoryInv
<1>1. ASSUME NEW a \in Adders, NEW c \in ClusterSet, NEW k \in InstanceKeys,
             NEW kind \in Kinds, AddInstance(a, c, k, kind) \/ ServiceAddInstance(a, c, k, kind)
      PROVE  FindInv'
  <2>1. UNCHANGED <<repository, size, finder, stable, calm>>
    BY <1>1, Zenon DEF AddInstance, ServiceAddInstance, finderVars
  <2> QED BY <1>0, <2>1, AddersKeep, Zenon
<1>2. ASSUME NEW a \in Adders, SetType(a) PROVE FindInv'
  <2>1. UNCHANGED <<repository, size, finder, stable, calm>>
    BY <1>2, Zenon DEF SetType, finderVars
  <2> QED BY <1>0, <2>1, AddersKeep, Zenon
<1>3. CASE UNCHANGED repositoryVars
  <2>1. UNCHANGED <<repository, size, finder, stable, calm>>
    BY <1>3, Zenon DEF repositoryVars
  <2> QED BY <1>0, <2>1, AddersKeep, Zenon
<1>4. CASE RepositoryNext
  BY <1>1, <1>2, <1>4, PutInstanceKeeps, RemoveInstanceKeeps, FindAllInstanceKeeps,
     MakeSliceKeeps, SumSizeKeeps, FillKeeps, Zenon DEF RepositoryNext
<1> QED
  BY <1>3, <1>4, Zenon

(* server/discovery/discovery_model.go, Service.findAllInstance: with any     *)
(* number of clusters, instances, adders and finders, however often the       *)
(* counts of the maps go wrong, an answer has every instance that was there   *)
(* all along, an undisturbed one has exactly the instances and as many empty  *)
(* ones as the counts are too high, and one panics exactly when they are too  *)
(* low.                                                                       *)
THEOREM FindsWhatStays == RepositorySpec => []FindAnswers
<1>1. RepositoryInit => RepositoryInv
  BY DEF RepositoryInit, RepositoryInv, AddersTyped, AddedInType, NoCall
<1>2. RepositoryInit => FindInv
  <2> SUFFICES ASSUME RepositoryInit PROVE FindInv
    OBVIOUS
  <2>1. AddersTyped
    BY <1>1, Zenon DEF RepositoryInv
  <2>2. CountsTyped
    BY FS_EmptySet DEF RepositoryInit, CountsTyped
  <2>3. FindersTyped
    BY Zenon DEF RepositoryInit, FindersTyped
  <2>4. ASSUME NEW f \in Finders PROVE CallSound(finder[f], stable[f], calm[f])
    <3>1. finder[f].at = "idle" /\ stable[f] = {}
      BY Zenon DEF RepositoryInit, NoCall
    <3> QED BY <3>1, Zenon DEF CallSound
  <2> QED BY <2>1, <2>2, <2>3, <2>4, Zenon DEF FindInv
<1>3. RepositoryInv /\ [RepositoryNext]_repositoryVars => RepositoryInv'
  BY RepositoryStep, Zenon
<1>4. RepositoryInv /\ FindInv /\ [RepositoryNext]_repositoryVars => FindInv'
  BY FindStep, Zenon
<1>5. FindInv => FindAnswers
  <2> SUFFICES ASSUME FindInv, NEW f \in Finders
               PROVE  /\ finder[f].at = "done" => stable[f] \subseteq finder[f].found
                      /\ finder[f].at = "done" /\ calm[f] =>
                           /\ finder[f].found = Present
                           /\ finder[f].total - Cardinality(finder[f].found) = Drift /\ Drift >= 0
                      /\ finder[f].at = "panicked" /\ calm[f] => Drift < 0
    BY Zenon DEF FindAnswers
  <2>1. CallSound(finder[f], stable[f], calm[f]) /\ CountsTyped
    BY Zenon DEF FindInv
  <2>2. Cardinality(Present) \in Nat /\ Drift \in Int
    BY <2>1, PresentOfAll, Zenon
  <2>3. (Drift + Cardinality(Present)) - Cardinality(Present) = Drift
    BY <2>2
  <2> QED BY <2>1, <2>3, Zenon DEF CallSound
<1> QED
  BY <1>1, <1>2, <1>3, <1>4, <1>5, PTL DEF RepositorySpec
=============================================================================
