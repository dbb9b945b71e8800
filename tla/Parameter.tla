----------------------------- MODULE Parameter -----------------------------
(***************************************************************************)
(* The vocabulary of internal/model/parameter.go: the states of a          *)
(* parameter and the types of the events that record its transitions.      *)
(***************************************************************************)
CONSTANTS
  Ids,    \* UUIDs a parameter can have
  None    \* the empty string, NULL or nil

ParameterState ==
  {"SUBMITTED", "VALIDATING", "CONSENSUS_PENDING", "CANONICAL", "REJECTED",
   "REVOKED"}

ASSUME NoneAssumption == None \notin Ids /\ None \notin ParameterState

LedgerEventType ==
  {"SUBMITTED", "VALIDATED", "CONSENSUS_REACHED", "PROMOTED", "REJECTED",
   "REVOKED", "SUPERSEDED"}

\* A row in one of these states has won the canonical place of its name.
Promoted == {"CANONICAL", "REVOKED"}
=============================================================================
