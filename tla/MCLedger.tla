------------------------------ MODULE MCLedger ------------------------------
(***************************************************************************)
(* Small instances of Ledger for TLC.  Calls and Watchers are sets of      *)
(* model values, and symmetry sets where no liveness is checked.           *)
(***************************************************************************)
EXTENDS LedgerInvariant, TLC

Name(ns, k) == [namespace |-> ns, key |-> k]
AName == Name(<<"a">>, <<"b">>)
Other == Name(<<"c">>, <<"b">>)
Nameless == Name(<<"a">>, <<>>)

\* Values by the grammars they belong to: "7", "true", "v1.2.3" and the like.
Number == {"number", "json"}
Boolean == {"bool", "json"}
Plain == {}

Put(n, v, t) == [op |-> "submit", name |-> n, value |-> v, value_type |-> t]
Ask(op, n) == [op |-> op, name |-> n, value |-> None, value_type |-> None]

OneName == {AName}
ApartAndNone == {AName, Other, Nameless}

\* Everything the service tells apart, about one name.
Mixed ==
  {Put(AName, Number, "number"), Put(AName, Plain, "bool"),
   Ask("get", AName), Ask("revoke", AName)}

\* What the handlers refuse or complete, and a question about another name.
Everything ==
  {Put(AName, Boolean, "bool"), Put(AName, Number, "unknown"),
   Put(AName, None, "semver"), Put(AName, Plain, None),
   Ask("get", AName), Ask("revoke", AName), Ask("get", Nameless),
   Ask("get", Other)}

Submits == {Put(AName, Plain, "semver")}

Symmetry == Permutations(Ids) \cup Permutations(Watchers)
=============================================================================
