--------------------------- MODULE MCConfigServer ---------------------------
(* Instances of ConfigWatch and of ConfigOperations, which share no state: no *)
(* operation publishes a change.  A behaviour is one of either.               *)
EXTENDS MCConfigWatch, ConfigOperations

VARIABLE part

configVars == <<part, vars, operationVars>>

ConfigInit == part \in {"watch", "operations"} /\ Init /\ OperationsInit

InWatch(action) == part = "watch" /\ action /\ UNCHANGED <<part, operationVars>>
InOperations(action) == part = "operations" /\ action /\ UNCHANGED <<part, vars>>

\* The fairness of FairSpec, for the behaviours of ConfigWatch.
ConfigSpec ==
  /\ ConfigInit /\ [][InWatch(Next) \/ InOperations(OperationsNext)]_configVars
  /\ \A r \in Requests : WF_configVars(InWatch(RequestStep(r)))
  /\ WF_configVars(InWatch(HandlerStep))
  /\ WF_configVars(InWatch(JobStep))
=============================================================================
