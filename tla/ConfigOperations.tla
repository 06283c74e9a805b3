-------------------------- MODULE ConfigOperations --------------------------
(***************************************************************************)
(* publishConfig, createConfig, modifyConfig and deleteConfig of           *)
(* server/config/config_server.go, and operateConfig of config_core.go.    *)
(*                                                                         *)
(* Premise: the filter chain and the storage operator of ConfigCore are    *)
(* there (newConfigCore leaves both nil, so that each operation panics),   *)
(* and the clock does not go back.  The storage operator is external:      *)
(* SaveConfig replaces what is stored.  It cannot tell files apart, as it  *)
(* is given a file type and a version, never a name.                       *)
(***************************************************************************)
EXTENDS Naturals

CONSTANTS
  Operations,    \* requests, each on a stream of its own
  MaxClock       \* bound: milliseconds that pass

ASSUME OperationsAssumption == MaxClock \in Nat

OpTypes == {"publish", "create", "modify", "delete"}
BetaInfos == {"nil", "open", "closed"}

VARIABLES
  clock,      \* GetCurrentTimeMs
  operation,  \* of each request: place, operation, version of its ConfigFile
  answered,   \* the requests that were sent an answer
  config,     \* the request whose ConfigFile is stored, or "none"
  written,    \* history: the requests that have saved
  before      \* history: of each request, those that had ended when it began

operationVars == <<clock, operation, answered, config, written, before>>

Ended(r) == operation[r].at \in {"done", "panicked"}
Place(r, where) == operation' = [operation EXCEPT ![r].at = where]

OperationsInit ==
  /\ clock = 1
  /\ operation = [r \in Operations |-> [at |-> "idle", op |-> "none", version |-> 0]]
  /\ answered = {}
  /\ config = "none"
  /\ written = {}
  /\ before = [r \in Operations |-> {}]

-----------------------------------------------------------------------------
\* A body that does not decode is answered, and that is the end of it.
Undecodable(r) ==
  /\ operation[r].at = "idle"
  /\ Place(r, "done")
  /\ answered' = answered \cup {r}
  /\ UNCHANGED <<clock, config, written, before>>

\* The version of a ConfigFile, here for every operation.
CreatedOnly(op) == IF op = "create" THEN clock ELSE 0
Version(op) == clock

\* The handler of op up to the filter chain.
Operate(r, op) ==
  /\ operation[r].at = "idle"
  /\ operation' = [operation EXCEPT ![r] =
                     [at |-> "filter", op |-> op, version |-> Version(op)]]
  /\ before' = [before EXCEPT ![r] = {s \in Operations : Ended(s)}]
  /\ UNCHANGED <<clock, answered, config, written>>

\* HandlerChain.Do: its three filters do nothing, and a ConfigFile gives no
\* error.  Then the branch on BetaInfo, which panics when there is none, and
\* operateBetaConfig, which does nothing.
Normal(op) == op \in {"create", "modify"}
Filter(r, beta) ==
  /\ operation[r].at = "filter"
  /\ Place(r, IF beta = "nil" THEN "panicked"
              ELSE IF beta = "closed" /\ Normal(operation[r].op) THEN "save" ELSE "done")
  /\ UNCHANGED <<clock, answered, config, written, before>>

\* SaveConfig; the request gets no answer.
SaveConfig(r) ==
  /\ operation[r].at = "save"
  /\ config' = r
  /\ written' = written \cup {r}
  /\ Place(r, "done")
  /\ UNCHANGED <<clock, answered, before>>

Pass ==
  /\ clock < MaxClock
  /\ clock' = clock + 1
  /\ UNCHANGED <<operation, answered, config, written, before>>

OperationsNext ==
  \/ \E r \in Operations :
       \/ Undecodable(r) \/ SaveConfig(r)
       \/ \E op \in OpTypes : Operate(r, op)
       \/ \E beta \in BetaInfos : Filter(r, beta)
  \/ Pass

OperationsSpec == OperationsInit /\ [][OperationsNext]_operationVars

-----------------------------------------------------------------------------
(* Properties *)

\* config_core.go:42-45, 67: the version is taken when an operation begins and
\* the file is saved some time later, without a look at what is stored.  So an
\* older file may replace a newer one, but only where their operations
\* overlapped; a newer version that ended before is never lost.
NewerLostOnlyToOverlap ==
  config # "none" =>
    \A s \in written : operation[s].version > operation[config].version =>
      s \notin before[config]
=============================================================================
