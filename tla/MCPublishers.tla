---------------------------- MODULE MCPublishers ----------------------------
(* Instances of Publisher and of SharePublisher.  A fast publisher and the   *)
(* shared one have no state in common: a behaviour is one of either.         *)
EXTENDS Publisher, SharePublisher, TLC

VARIABLE part

publisherVars == <<part, vars, slowVars>>

PublishersInit == part \in {"fast", "slow"} /\ Init /\ SlowInit

InFast(action) == part = "fast" /\ action /\ UNCHANGED <<part, slowVars>>
InSlow(action) == part = "slow" /\ action /\ UNCHANGED <<part, vars>>

\* The fairness of FairSpec and of SlowFairSpec, each for its own behaviours.
PublishersSpec ==
  /\ PublishersInit /\ [][InFast(Next) \/ InSlow(SlowNext)]_publisherVars
  /\ \A t \in Topics : WF_publisherVars(InFast(HandlerStep(t)))
  /\ WF_publisherVars(InSlow(SlowHandlerStep))
=============================================================================
