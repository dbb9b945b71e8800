----------------------------- MODULE MCReaders -----------------------------
(***************************************************************************)
(* Small instances of Readers for TLC.                                     *)
(***************************************************************************)
EXTENDS ReadersInvariant, TLC

AName == [namespace |-> <<"a">>, key |-> <<"b">>]
Nameless == [namespace |-> <<"a">>, key |-> <<>>]
BothNames == {AName, Nameless}

Submission(value) ==
  [op |-> "submit", name |-> AName, value |-> value, value_type |-> "bool"]

\* A value that is promoted, and a revocation.
Writes ==
  {Submission({"bool", "json"}),
   [op |-> "revoke", name |-> AName, value |-> None, value_type |-> None]}

Submits == {Submission({"bool", "json"})}

Audit(n, limit, offset) ==
  [op |-> "audit", name |-> n, limit |-> limit, offset |-> offset]

\* A walk by pages of two, or of the default limit, and what is refused.
PageWalks ==
  {Audit(AName, 2, 0), Audit(AName, 0, 0), Audit(AName, 2, -1),
   Audit(Nameless, 2, 0)}

\* Two neighbours of a history, and versions.
NeighboursAndVersions ==
  {Audit(AName, 2, 1)} \cup
  {[op |-> "version", id |-> i] : i \in Ids \cup {None}}

Symmetry == Permutations(Ids) \cup Permutations(Clients)
=============================================================================
