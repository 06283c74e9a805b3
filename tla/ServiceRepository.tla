------------------------- MODULE ServiceRepository -------------------------
(***************************************************************************)
(* The instances of one Service in server/discovery/discovery_model.go:    *)
(* each Cluster keeps its own in a polerpc.ConcurrentMap, and              *)
(* findAllInstance makes a slice of the sum of their sizes and then fills  *)
(* it, while instances come and go.                                        *)
(*                                                                         *)
(* The vendored ConcurrentMap is external: Put counts one more even where  *)
(* it overwrites, Remove one less even where there is nothing, Size reads  *)
(* the count without the lock, and ForEach holds the read lock.            *)
(***************************************************************************)
EXTENDS Integers, FiniteSets

CONSTANTS
  ClusterSet,    \* the clusters of the service
  InstanceKeys,
  Adders,        \* goroutines that add and remove
  Finders,       \* goroutines, each with one findAllInstance
  MaxChanges     \* bound: instances added and removed

ASSUME RepositoryAssumption == IsFiniteSet(ClusterSet)

Kinds == {"persist", "temporary"}

VARIABLES
  repository,    \* of each cluster: the keys of its instances
  size,          \* ... and what Size answers
  instanceType,  \* of each cluster: CInstanceUnKnow, or one of Kinds
  adder,         \* of each adder: place, cluster, key, kind
  finder,        \* of each finder: place, clusters to visit, total, found
  stable,        \* history: the instances there since each finder began
  calm,          \* history: no change since each finder began
  changes

repositoryVars == <<repository, size, instanceType, adder, finder, stable, calm, changes>>
finderVars == <<finder, stable, calm>>

Present == UNION {{c} \X repository[c] : c \in ClusterSet}
NoCall == [at |-> "idle"]

RepositoryInit ==
  /\ repository = [c \in ClusterSet |-> {}]
  /\ size = [c \in ClusterSet |-> 0]
  /\ instanceType = [c \in ClusterSet |-> "unknown"]
  /\ adder = [a \in Adders |-> NoCall]
  /\ finder = [f \in Finders |-> NoCall]
  /\ stable = [f \in Finders |-> {}]
  /\ calm = [f \in Finders |-> TRUE]
  /\ changes = 0

-----------------------------------------------------------------------------
\* Cluster.addInstance, which nothing in the repository calls yet, looks at the
\* type without the lock.  Of a cluster whose type is known it takes an instance
\* of either kind.
AddInstance(a, c, k, kind) ==
  /\ adder[a].at = "idle"
  /\ changes < MaxChanges
  /\ changes' = changes + 1
  /\ adder' = [adder EXCEPT ![a] =
       [at |-> IF instanceType[c] = "unknown" THEN "lock" ELSE "put",
        cluster |-> c, key |-> k, kind |-> kind, looked |-> instanceType[c] = "unknown"]]
  /\ UNCHANGED <<repository, size, instanceType, finderVars>>

\* Service.addInstance goes to the repository without a look at the type.
ServiceAddInstance(a, c, k, kind) ==
  /\ adder[a].at = "idle"
  /\ changes < MaxChanges
  /\ changes' = changes + 1
  /\ adder' = [adder EXCEPT ![a] =
       [at |-> "put", cluster |-> c, key |-> k, kind |-> kind, looked |-> FALSE]]
  /\ UNCHANGED <<repository, size, instanceType, finderVars>>

SetTypeUnchecked(a) ==
  /\ adder[a].at = "lock"
  /\ instanceType' = [instanceType EXCEPT ![adder[a].cluster] = adder[a].kind]
  /\ adder' = [adder EXCEPT ![a].at = "put"]
  /\ UNCHANGED <<repository, size, finderVars, changes>>

\* The critical section: the first one sets the type, another kind is refused.
SetType(a) ==
  /\ adder[a].at = "lock"
  /\ LET c == adder[a].cluster
         type == IF instanceType[c] = "unknown" THEN adder[a].kind ELSE instanceType[c]
     IN /\ instanceType' = [instanceType EXCEPT ![c] = type]
        /\ adder' = [adder EXCEPT ![a] =
                       IF type = adder[a].kind THEN [adder[a] EXCEPT !.at = "put"] ELSE NoCall]
  /\ UNCHANGED <<repository, size, finderVars, changes>>

PutEntry(c, k) ==
  /\ repository' = [repository EXCEPT ![c] = @ \cup {k}]
  /\ size' = [size EXCEPT ![c] = @ + 1]

RemoveEntry(c, k) ==
  /\ repository' = [repository EXCEPT ![c] = @ \ {k}]
  /\ size' = [size EXCEPT ![c] = @ - 1]

PutInstanceOf(a) ==
  /\ adder[a].at = "put"
  /\ PutEntry(adder[a].cluster, adder[a].key)
  /\ adder' = [adder EXCEPT ![a] = NoCall]
  /\ calm' = [f \in Finders |-> FALSE]
  /\ UNCHANGED <<instanceType, finder, stable, changes>>

\* Cluster.RemoveInstance and Service.removeInstance.
RemoveInstance(c, k) ==
  /\ changes < MaxChanges
  /\ changes' = changes + 1
  /\ RemoveEntry(c, k)
  /\ stable' = [f \in Finders |-> stable[f] \ {<<c, k>>}]
  /\ calm' = [f \in Finders |-> FALSE]
  /\ UNCHANGED <<instanceType, adder, finder>>

-----------------------------------------------------------------------------
FindAllInstance(f) ==
  /\ finder[f].at = "idle"
  /\ finder' = [finder EXCEPT ![f] = [at |-> "sum", visit |-> ClusterSet, total |-> 0, found |-> {}]]
  /\ stable' = [stable EXCEPT ![f] = Present]
  /\ calm' = [calm EXCEPT ![f] = TRUE]
  /\ UNCHANGED <<repository, size, instanceType, adder, changes>>

SumSize(f, c) ==
  /\ finder[f].at = "sum" /\ c \in finder[f].visit
  /\ finder' = [finder EXCEPT ![f].visit = @ \ {c}, ![f].total = @ + size[c]]
  /\ UNCHANGED <<repository, size, instanceType, adder, stable, calm, changes>>

\* make panics on a negative length.
MakeSlice(f) ==
  /\ finder[f].at = "sum" /\ finder[f].visit = {}
  /\ finder' = [finder EXCEPT ![f].visit = ClusterSet,
                              ![f].at = IF finder[f].total < 0 THEN "panicked" ELSE "fill"]
  /\ UNCHANGED <<repository, size, instanceType, adder, stable, calm, changes>>

\* The elements there is room for before the assignment panics.
RoomForOneLess(f, n) == n < finder[f].total
RoomFor(f, n) == n <= finder[f].total

Fill(f, c) ==
  /\ finder[f].at = "fill" /\ c \in finder[f].visit
  /\ LET found == finder[f].found \cup ({c} \X repository[c]) IN
     finder' = [finder EXCEPT ![f] =
       IF RoomFor(f, Cardinality(found))
       THEN [finder[f] EXCEPT !.visit = @ \ {c}, !.found = found,
                              !.at = IF finder[f].visit = {c} THEN "done" ELSE "fill"]
       ELSE [finder[f] EXCEPT !.at = "panicked"]]
  /\ UNCHANGED <<repository, size, instanceType, adder, stable, calm, changes>>

RepositoryNext ==
  \/ \E a \in Adders :
       \/ \E c \in ClusterSet, k \in InstanceKeys, kind \in Kinds :
            AddInstance(a, c, k, kind) \/ ServiceAddInstance(a, c, k, kind)
       \/ SetType(a) \/ PutInstanceOf(a)
  \/ \E c \in ClusterSet, k \in InstanceKeys : RemoveInstance(c, k)
  \/ \E f \in Finders : FindAllInstance(f) \/ MakeSlice(f)
       \/ \E c \in ClusterSet : SumSize(f, c) \/ Fill(f, c)

RepositorySpec == RepositoryInit /\ [][RepositoryNext]_repositoryVars

-----------------------------------------------------------------------------
(* Properties *)

\* By how much the sizes of some clusters are off.
DriftOf[S \in SUBSET ClusterSet] ==
  IF S = {} THEN 0
  ELSE LET c == CHOOSE x \in S : TRUE
       IN DriftOf[S \ {c}] + (size[c] - Cardinality(repository[c]))

Drift == DriftOf[ClusterSet]

\* discovery_model.go:70-85: however instances come and go meanwhile, a
\* findAllInstance that answers has every instance that was there from its
\* begin to its end.  One that nothing disturbs answers exactly the instances
\* and behind them one empty Instance for each overwritten one that no Remove
\* in vain has made up for, and panics exactly when there are more of the
\* latter: the sizes stay wrong.
FindAnswers ==
  \A f \in Finders :
    /\ finder[f].at = "done" => stable[f] \subseteq finder[f].found
    /\ finder[f].at = "done" /\ calm[f] =>
         /\ finder[f].found = Present
         /\ finder[f].total - Cardinality(finder[f].found) = Drift /\ Drift >= 0
    /\ finder[f].at = "panicked" /\ calm[f] => Drift < 0

\* discovery_model.go:134-150: of two first additions to a cluster one sets its
\* type and the type stays; one that found it unknown adds an instance of that
\* type only.
TypeSetOnce ==
  /\ [](\A a \in Adders : adder[a].at = "put" /\ adder[a].looked =>
          instanceType[adder[a].cluster] = adder[a].kind)
  /\ [][\A c \in ClusterSet : instanceType[c] # "unknown" =>
          instanceType'[c] = instanceType[c]]_repositoryVars
=============================================================================
