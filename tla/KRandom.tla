------------------------------- MODULE KRandom -------------------------------
(***************************************************************************)
(* KRandomMember of server/cluster/member_utils.go as a set of outcomes:   *)
(* what it may return for k, the members it is given and those of them its *)
(* filter accepts.                                                         *)
(***************************************************************************)
EXTENDS Integers, FiniteSets

\* Up to k + 1 members that fit, and at least one when all of them do: a loop
\* that holds k or fewer goes on to 3 * len(members) draws.
KRandomMember(k, members, fit) ==
  {S \in SUBSET fit :
     /\ Cardinality(S) <= k + 1
     /\ fit = members /\ members # {} => S # {}}
=============================================================================
