-------------------------- MODULE MCDiscoveryServer --------------------------
(* Instances of Discovery, ServiceRepository, Lessor, with a Duration of 4    *)
(* bits and an int32 of 2 where a grant overflows or not with the clock, and  *)
(* Lifecycle.  No two of them change the same state: a behaviour is one of    *)
(* one of them.                                                               *)
EXTENDS Discovery, ServiceRepository, Lessor, Lifecycle, TLC

VARIABLE part

serverVars == <<part, vars, repositoryVars, lessorVars, lifeVars>>

ServerInit ==
  /\ part \in {"requests", "repository", "leases", "life"}
  /\ Init /\ RepositoryInit /\ LessorInit /\ LifeInit

InRequests(action) ==
  part = "requests" /\ action /\ UNCHANGED <<part, repositoryVars, lessorVars, lifeVars>>
InRepository(action) ==
  part = "repository" /\ action /\ UNCHANGED <<part, vars, lessorVars, lifeVars>>
InLeases(action) ==
  part = "leases" /\ action /\ UNCHANGED <<part, vars, repositoryVars, lifeVars>>
InLife(action) ==
  part = "life" /\ action /\ UNCHANGED <<part, vars, repositoryVars, lessorVars>>

ServerNext ==
  InRequests(Next) \/ InRepository(RepositoryNext) \/ InLeases(LessorNext) \/ InLife(LifeNext)

ServerSpec == ServerInit /\ [][ServerNext]_serverVars
=============================================================================
