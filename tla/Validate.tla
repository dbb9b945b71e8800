------------------------------ MODULE Validate ------------------------------
(***************************************************************************)
(* validateValueType (internal/consensus/validate.go).  A value that is    *)
(* not empty is abstracted to the set of grammars it belongs to, as the    *)
(* parsers of Go's library decide it: "1" is {"number", "json"}, "true" is *)
(* {"bool", "json"}, "v1.2.3" is {}.  None is the empty string.            *)
(***************************************************************************)
EXTENDS Parameter

ValueType == {"string", "number", "bool", "json", "timestamp", "semver"}

Grammars == {"number", "bool", "json", "timestamp"}

Value == SUBSET Grammars

\* A value is no semver only when it is empty; an unknown type has no value.
validateValueType(v, t) ==
  \/ t = "string"
  \/ t \in Grammars /\ v # None /\ t \in v
  \/ t = "semver" /\ v # None
=============================================================================
