----------------------------- MODULE Lifecycle -----------------------------
(***************************************************************************)
(* What TruthMetal promises of a parameter, whatever fails and however     *)
(* calls interleave: a row is submitted once and then only moves forward   *)
(* along                                                                   *)
(*                                                                         *)
(*   SUBMITTED -> VALIDATING -> REJECTED                                   *)
(*                VALIDATING -> CONSENSUS_PENDING -> CANONICAL -> REVOKED  *)
(*                                                                         *)
(* and a row becomes canonical only while no other row of its name is.     *)
(* UpdateParameterState enforces none of this order: its UPDATE names a    *)
(* row and a new state and does not look at the old one.                   *)
(***************************************************************************)
EXTENDS Parameter

CONSTANT Names

VARIABLES
  life,    \* life[i]: state of row i, None before it exists
  nameOf   \* nameOf[i]: its namespace and key

EvaluateEdges ==
  {<<"SUBMITTED", "VALIDATING">>, <<"VALIDATING", "REJECTED">>,
   <<"VALIDATING", "CONSENSUS_PENDING">>, <<"CONSENSUS_PENDING", "CANONICAL">>}

RevokeEdge == <<"CANONICAL", "REVOKED">>

Edges == EvaluateEdges \cup {RevokeEdge}

Holders(n) == {i \in Ids : life[i] = "CANONICAL" /\ nameOf[i] = n}

LifeInit ==
  /\ life = [i \in Ids |-> None]
  /\ nameOf = [i \in Ids |-> None]

Appear(i) ==
  /\ life[i] = None
  /\ \E n \in Names : nameOf' = [nameOf EXCEPT ![i] = n]
  /\ life' = [life EXCEPT ![i] = "SUBMITTED"]

Advance(i) ==
  /\ \E s \in ParameterState :
       /\ <<life[i], s>> \in Edges
       /\ s = "CANONICAL" => Holders(nameOf[i]) = {}
       /\ life' = [life EXCEPT ![i] = s]
  /\ UNCHANGED nameOf

LifeNext == \E i \in Ids : Appear(i) \/ Advance(i)

LifeSpec == LifeInit /\ [][LifeNext]_<<life, nameOf>>
=============================================================================
