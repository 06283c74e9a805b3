--------------------------- MODULE MCMemberLookup ---------------------------
(* Two requests that switch the lookup, three lookups beside the first; and a *)
(* ring of three nodes.  The two have no state in common: a behaviour is one  *)
(* of either.                                                                 *)
EXTENDS MemberLookup, ConsistentHash

CONSTANTS s1, s2, n1, n2, n3

VARIABLE part

MCSwitchers == {s1, s2}
MCRingNodes == {n1, n2, n3}

memberVars == <<part, vars, ringVars>>

MembersInit ==
  /\ part \in {"lookup", "ring"}
  /\ Init /\ NewConsistentHash
  /\ part = "lookup" => virtualNodeNum = 0 /\ checksum = [n \in RingNodes |-> 0]

InLookup(action) == part = "lookup" /\ action /\ UNCHANGED <<part, ringVars>>

MembersNext ==
  \/ InLookup(Next)
  \/ part = "ring" /\ RingNext /\ UNCHANGED <<part, vars>>

\* The fairness of FairSpec, for the behaviours of MemberLookup.
MembersSpec ==
  MembersInit /\ [][MembersNext]_memberVars /\ WF_memberVars(InLookup(LoopStep))
=============================================================================
