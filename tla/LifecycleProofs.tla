-------------------------- MODULE LifecycleProofs --------------------------
(***************************************************************************)
(* Proof that the server implements Lifecycle: the states of its rows only *)
(* ever move along the edges of the lifecycle, for every value of the      *)
(* constants.  The argument rests on IInv: a call finds its own row in the *)
(* state it left it in, and an id that was read as canonical still names a *)
(* canonical or a revoked row.                                             *)
(***************************************************************************)
EXTENDS LedgerProofs

USE DEF Calls

lifeVars == <<lifeOf, nameOfRow>>

\* A step that writes no row is a stuttering step of the lifecycle.
LEMMA RowsStutter ==
  ASSUME UNCHANGED params PROVE UNCHANGED lifeVars
BY DEF lifeVars, lifeOf, nameOfRow

\* The holders of a name in the lifecycle are the canonical rows of the table.
LEMMA HoldersAreRows ==
  ASSUME IInv, NEW n \in Names PROVE L!Holders(n) = CanonicalRows(n)
BY NoneAssumption
DEF L!Holders, CanonicalRows, lifeOf, nameOfRow, IInv, TypeOK, StoreTypeOK,
    ParameterState

(***************************************************************************)
(* UpdateAdvances: an UPDATE along an edge, or to the state the row is in, *)
(* is a step of the lifecycle; the unique index is what keeps a second     *)
(* holder of a name out.                                                   *)
(***************************************************************************)
LEMMA UpdateAdvances ==
  ASSUME IInv, NEW i \in DOMAIN params, NEW s \in ParameterState, NEW out,
         <<params[i].state, s>> \in L!Edges \/ params[i].state = s,
         UpdateParameterState(i, s, out)
  PROVE  [L!LifeNext]_lifeVars
<1>1. i \in Ids /\ params[i] \in Row
  BY DEF IInv, TypeOK, StoreTypeOK
<1>2. /\ DOMAIN params' = DOMAIN params
      /\ \A j \in DOMAIN params :
           /\ params'[j].name = params[j].name
           /\ j # i => params'[j].state = params[j].state
      /\ params'[i].state \in {params[i].state, s}
  BY StateUpdated
<1>3. UNCHANGED nameOfRow
  BY <1>2 DEF nameOfRow
<1>4. CASE params'[i].state = params[i].state
  <2>1. UNCHANGED lifeOf BY <1>2, <1>4 DEF lifeOf
  <2>2. QED BY <1>3, <2>1 DEF lifeVars
<1>5. CASE params'[i].state # params[i].state
  <2>1. params'[i].state = s /\ <<params[i].state, s>> \in L!Edges
    BY <1>2, <1>5
  <2>2. lifeOf[i] = params[i].state /\ nameOfRow[i] = params[i].name
    BY <1>1 DEF lifeOf, nameOfRow
  <2>3. lifeOf' = [lifeOf EXCEPT ![i] = s]
    BY <1>1, <1>2, <2>1 DEF lifeOf
  <2>4. s = "CANONICAL" => L!Holders(nameOfRow[i]) = {}
    <3>1. ~BreaksCanonicalIndex(i, s)
      BY <1>5 DEF UpdateParameterState
    <3>2. s = "CANONICAL" => params[i].state # "CANONICAL"
      BY <1>5, <2>1
    <3>3. s = "CANONICAL" => CanonicalRows(params[i].name) = {}
      BY <3>1, <3>2 DEF BreaksCanonicalIndex, CanonicalRows
    <3>4. params[i].name \in Names BY <1>1 DEF Row
    <3>5. QED BY <2>2, <3>3, <3>4, HoldersAreRows
  <2>5. L!Advance(i)
    BY <1>3, <2>1, <2>2, <2>3, <2>4 DEF L!Advance, L!ParameterState, ParameterState
  <2>6. QED BY <1>1, <2>5 DEF L!LifeNext
<1>6. QED BY <1>4, <1>5

\* CreateParameter makes a row appear, in SUBMITTED.
LEMMA CreateAppears ==
  ASSUME IInv, NEW c \in Calls, SubmitCreate(c)
  PROVE  [L!LifeNext]_lifeVars
<1>1. /\ \E out \in Outcomes : CreateParameter(c, NewParameter(c), out)
      /\ pc[c] = "create"
  BY DEF SubmitCreate
<1>2. c \notin DOMAIN params
  BY <1>1 DEF IInv, PrivateUntilPromoted, Private, NoRowYet
<1>3. CASE params' = params
  BY <1>3, RowsStutter
<1>4. CASE params' = [j \in DOMAIN params \cup {c} |->
                        IF j = c THEN NewParameter(c) ELSE params[j]]
  <2>1. /\ NewParameter(c).state = "SUBMITTED"
        /\ NewParameter(c).name = req[c].name
    BY DEF NewParameter
  <2>2. req[c].name \in Names
    BY <1>1, RequestsAssumption DEF IInv, TypeOK, Owned, Request
  <2>3. lifeOf[c] = None BY <1>2 DEF lifeOf
  <2>4. lifeOf' = [lifeOf EXCEPT ![c] = "SUBMITTED"]
    BY <1>2, <1>4, <2>1 DEF lifeOf
  <2>5. nameOfRow' = [nameOfRow EXCEPT ![c] = req[c].name]
    BY <1>2, <1>4, <2>1 DEF nameOfRow
  <2>6. L!Appear(c) BY <2>2, <2>3, <2>4, <2>5 DEF L!Appear
  <2>7. QED BY <2>6 DEF L!LifeNext
<1>5. QED BY <1>1, <1>3, <1>4 DEF CreateParameter

\* quorum.go: a call finds its own row where it left it and moves it on.
LEMMA EvaluateAdvances ==
  ASSUME IInv, NEW c \in Calls, Validate(c) \/ Reject(c) \/ Await(c) \/ Promote(c)
  PROVE  [L!LifeNext]_lifeVars
<1>1. PICK out \in Outcomes :
        \/ pc[c] = "validate" /\ UpdateParameterState(c, "VALIDATING", out)
        \/ pc[c] = "reject" /\ UpdateParameterState(c, "REJECTED", out)
        \/ pc[c] = "await" /\ UpdateParameterState(c, "CONSENSUS_PENDING", out)
        \/ pc[c] = "promote" /\ UpdateParameterState(c, "CANONICAL", out)
  BY DEF Validate, Reject, Await, Promote, Transition
<1>2. Private(c) BY DEF IInv, PrivateUntilPromoted
<1>3. /\ c \in DOMAIN params
      /\ pc[c] = "validate" => params[c].state = "SUBMITTED"
      /\ pc[c] \in {"reject", "await"} => params[c].state = "VALIDATING"
      /\ pc[c] = "promote" => params[c].state = "CONSENSUS_PENDING"
  BY <1>1, <1>2 DEF Private, NoRowYet, OwnStates
<1>4. QED
  BY <1>1, <1>3, UpdateAdvances
  DEF L!Edges, L!EvaluateEdges, L!RevokeEdge, ParameterState

\* ledger.go:89 and 159: what is revoked was canonical, or is revoked already.
LEMMA RevocationAdvances ==
  ASSUME IInv, NEW c \in Calls, Supersede(c) \/ RevokeUpdate(c)
  PROVE  [L!LifeNext]_lifeVars
<1>1. PICK i, out :
        /\ UpdateParameterState(i, "REVOKED", out)
        /\ \/ pc[c] = "supersede" /\ i = params[c].prev
           \/ pc[c] = "revoke" /\ i = seen[c].id
  BY DEF Supersede, RevokeUpdate, Transition
<1>2. i \in DOMAIN params /\ params[i].state \in Promoted
  <2>1. SeenWasCanonical(c) BY DEF IInv
  <2>2. CASE pc[c] = "supersede" /\ i = params[c].prev
    BY <2>1, <2>2 DEF SeenWasCanonical, IInv, VersionChain, InChain
  <2>3. CASE pc[c] = "revoke" /\ i = seen[c].id
    BY <2>1, <2>3 DEF SeenWasCanonical, WasCanonical
  <2>4. QED BY <1>1, <2>2, <2>3
<1>3. QED
  BY <1>1, <1>2, UpdateAdvances
  DEF L!Edges, L!EvaluateEdges, L!RevokeEdge, ParameterState, Promoted

\* Rows are created by Submit and updated on the way, and by nothing else.
LEMMA WhoWritesRows ==
  ASSUME NEW c \in Calls, Arrive(c) \/ Step(c)
  PROVE  \/ UNCHANGED params \/ SubmitCreate(c)
         \/ Validate(c) \/ Reject(c) \/ Await(c) \/ Promote(c)
         \/ Supersede(c) \/ RevokeUpdate(c)
<1>1. CASE Arrive(c)
  BY <1>1 DEF Arrive, Submit, Get, Revoke, Handle
<1>2. CASE SubmitStep(c)
  BY <1>2 DEF SubmitStep, SubmitLookup, SubmitRecord, SupersedeRecord, Record,
     SupersedeInvalidate, SubmitRefresh, SubmitFill, SubmitBroadcast
<1>3. CASE EvaluateStep(c)
  BY <1>3 DEF EvaluateStep, ValidateRecord, RejectRecord, ConsensusRecord,
     PromoteRecord, Record
<1>4. CASE GetStep(c)
  BY <1>4 DEF GetStep, GetHit, GetLoad, Find, GetRefill
<1>5. CASE RevokeStep(c)
  BY <1>5 DEF RevokeStep, RevokeFind, Find, RevokeRecord, Record,
     RevokeInvalidate
<1>6. QED BY <1>1, <1>2, <1>3, <1>4, <1>5 DEF Step

\* No other step writes a row.
LEMMA NextAdvances ==
  ASSUME IInv, [Next]_vars PROVE [L!LifeNext]_lifeVars
<1>1. CASE UNCHANGED params
  BY <1>1, RowsStutter
<1>2. CASE \E c \in Calls : SubmitCreate(c)
  BY <1>2, CreateAppears
<1>3. CASE \E c \in Calls : Validate(c) \/ Reject(c) \/ Await(c) \/ Promote(c)
  BY <1>3, EvaluateAdvances
<1>4. CASE \E c \in Calls : Supersede(c) \/ RevokeUpdate(c)
  BY <1>4, RevocationAdvances
<1>5. CASE UNCHANGED vars
  BY <1>1, <1>5 DEF vars
<1>6. CASE (\E k \in CacheKeys : Expire(k)) \/ (\E w \in Watchers : WatchStep(w)) \/ Crash
  BY <1>1, <1>6 DEF Expire, WatchStep, Crash
<1>7. QED
  BY <1>1, <1>2, <1>3, <1>4, <1>5, <1>6, WhoWritesRows DEF Next, Served

\* The name of a row never changes.
LEMMA NamesStay ==
  ASSUME IInv, [Next]_vars, NEW i \in DOMAIN params, i \in DOMAIN params'
  PROVE  params'[i].name = params[i].name
<1>1. i \in Ids /\ params[i].state \in ParameterState
  BY DEF IInv, TypeOK, StoreTypeOK, Row
<1>2. /\ lifeOf[i] = params[i].state /\ nameOfRow[i] = params[i].name
      /\ nameOfRow'[i] = params'[i].name
  BY <1>1 DEF lifeOf, nameOfRow
<1>3. CASE UNCHANGED lifeVars
  BY <1>2, <1>3 DEF lifeVars
<1>4. CASE L!LifeNext
  <2>1. PICK j \in Ids : L!Appear(j) \/ L!Advance(j)
    BY <1>4 DEF L!LifeNext
  <2>2. CASE L!Advance(j) BY <1>2, <2>2 DEF L!Advance
  <2>3. CASE L!Appear(j)
    <3>1. i # j BY <1>1, <1>2, <2>3, NoneAssumption DEF L!Appear
    <3>2. nameOfRow'[i] = nameOfRow[i]
      BY <1>1, <2>3, <3>1 DEF L!Appear, nameOfRow
    <3>3. QED BY <1>2, <3>2
  <2>4. QED BY <2>1, <2>2, <2>3
<1>5. QED BY <1>3, <1>4, NextAdvances

\* An empty table is a lifecycle in which nothing has appeared.
LEMMA InitAppears == Init => L!LifeInit
BY DEF Init, StoreInit, L!LifeInit, lifeOf, nameOfRow

(***************************************************************************)
(* LifecycleImplemented: every behaviour of the server, read as states of  *)
(* rows, is a behaviour of Lifecycle.  UpdateParameterState does not look  *)
(* at the state it replaces, Submit and Revoke update rows they read       *)
(* several round trips earlier, and still no row skips a stage, is         *)
(* revived, or becomes canonical beside another row of its name.           *)
(***************************************************************************)
THEOREM LifecycleImplemented == Spec => ImplementsLifecycle
<1>1. Init => L!LifeInit BY InitAppears
<1>2. IInv /\ [Next]_vars => [L!LifeNext]_<<lifeOf, nameOfRow>>
  BY NextAdvances DEF lifeVars
<1>3. QED BY <1>1, <1>2, InvariantHolds, PTL DEF Spec, ImplementsLifecycle, L!LifeSpec
=============================================================================
