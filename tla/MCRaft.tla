------------------------------- MODULE MCRaft -------------------------------
(* Instances of RaftProtocol, RaftGroup and HealthCheck, its plugins one with *)
(* a connection and one without. The first two meet only in the start and the *)
(* Close of a group's wrapper, which RaftGroup takes at any time, and the     *)
(* third meets neither: a behaviour is one of one of them.                    *)
EXTENDS RaftProtocol, RaftGroup, HealthCheck, TLC

CONSTANTS g1, g2, n1, n2, a1, a2

VARIABLE part

raftVars == <<part, registryVars, groupVars, vars>>

SomeBatches == {<<g1>>, <<g2>>, <<g1, g2>>}

RaftInit ==
  /\ part \in {"registry", "group", "health"}
  /\ RegistryInit /\ GroupInit /\ Init
  /\ part # "registry" => members

InGroup(action) == part = "group" /\ action /\ UNCHANGED <<part, registryVars, vars>>
InHealth(action) == part = "health" /\ action /\ UNCHANGED <<part, registryVars, groupVars>>

RaftNext ==
  \/ part = "registry" /\ RegistryNext /\ UNCHANGED <<part, groupVars, vars>>
  \/ InGroup(GroupNext)
  \/ InHealth(Next)

\* The fairness of GroupSpec and of FairSpec, for the behaviours of each.
RaftFairness ==
  /\ \A n \in Nodes :
       /\ WF_raftVars(InGroup(Update(n)))
       /\ WF_raftVars(InGroup(\E from \in Nodes : Obtain(n, from)))
  /\ \A k \in Kinds :
       /\ WF_raftVars(InHealth(PluginStep(k)))
       /\ \A slot \in Slots : WF_raftVars(InHealth(WorkerStep(k, slot)))

RaftSpec == RaftInit /\ [][RaftNext]_raftVars /\ RaftFairness
=============================================================================
