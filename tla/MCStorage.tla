----------------------------- MODULE MCStorage -----------------------------
(* Instances of KvStorage, with KeyTree inside it, of DiscoveryStorage and of *)
(* Rds, where every batch writes both rows, and one of them twice.  The three *)
(* have no state in common: a behaviour is one of either.                     *)
EXTENDS KvStorage, KeyTreeReaders, DiscoveryStorage, Rds, TLC

CONSTANTS q1, q2, q3

VARIABLE part

storageVars == <<part, kvVars, dsVars, rdsVars>>

SomeBatches == {<<1>>, <<2, 1>>, <<1, 3>>}

S(n, r) == [no |-> n, row |-> r]
SomeStatements == {<<S(2, 1), S(1, 1), S(3, 2)>>}

StorageInit ==
  /\ part \in {"kv", "discovery", "rds"}
  /\ KvInit /\ DsInit /\ RdsInit
  /\ part # "kv" => user = "test"

StorageNext ==
  \/ part = "kv" /\ KvNext /\ UNCHANGED <<part, dsVars, rdsVars>>
  \/ part = "discovery" /\ DsNext /\ UNCHANGED <<part, kvVars, rdsVars>>
  \/ part = "rds" /\ RdsNext /\ UNCHANGED <<part, kvVars, dsVars>>

\* The fairness of RdsSpec, for the behaviours of Rds.
InRds(action) == part = "rds" /\ action /\ UNCHANGED <<part, kvVars, dsVars>>

StorageSpec ==
  /\ StorageInit /\ [][StorageNext]_storageVars
  /\ \A c \in Sessions : WF_storageVars(InRds(Step(c)))
=============================================================================
