----------------------------- MODULE AuditProofs -----------------------------
(***************************************************************************)
(* Proofs of the properties that relate the ledger and the live feed to    *)
(* the table: the ledger trails a row by at most one event, confirmed      *)
(* events are true, acknowledged work is audited, and the feed tells only  *)
(* of recorded promotions.  AuditInv is inductive relative to IInv.        *)
(***************************************************************************)
EXTENDS LifecycleProofs

USE DEF Calls

-----------------------------------------------------------------------------
(* How rows, events and calls change in any step *)

\* A row is there for good and moves along the lifecycle or stays.
RowsForward ==
  \A i \in DOMAIN params :
    /\ i \in DOMAIN params'
    /\ \/ params'[i].state = params[i].state
       \/ <<params[i].state, params'[i].state>> \in L!Edges

\* Rows only move along the edges, since the server implements Lifecycle.
LEMMA Forward ==
  ASSUME IInv, IInv', [Next]_vars, DOMAIN params \subseteq DOMAIN params'
  PROVE  RowsForward
<1> SUFFICES ASSUME NEW i \in DOMAIN params,
                    params'[i].state # params[i].state
             PROVE  <<params[i].state, params'[i].state>> \in L!Edges
  BY DEF RowsForward
<1>1. i \in Ids /\ i \in DOMAIN params' /\ params[i].state \in ParameterState
  BY DEF IInv, TypeOK, StoreTypeOK, Row
<1>2. lifeOf[i] = params[i].state /\ lifeOf'[i] = params'[i].state
  BY <1>1 DEF lifeOf
<1>3. L!LifeNext
  BY <1>2, NextAdvances DEF lifeVars
<1>4. PICK j \in Ids : L!Appear(j) \/ L!Advance(j)
  BY <1>3 DEF L!LifeNext
<1>5. i = j
  BY <1>1, <1>2, <1>4 DEF L!Appear, L!Advance, lifeOf
<1>6. ~L!Appear(j)
  BY <1>1, <1>2, <1>5, NoneAssumption DEF L!Appear
<1>7. QED
  BY <1>1, <1>2, <1>4, <1>5, <1>6 DEF L!Advance, lifeOf

\* AppendEvent only adds.
LEMMA LedgerGrows ==
  ASSUME NEW e, NEW out, AppendEvent(e, out)
  PROVE  /\ events \subseteq events' /\ events' \subseteq events \cup {e}
         /\ out = "ok" => e \in events'
BY DEF AppendEvent, Executed

\* What is recorded stays recorded.
LEMMA RecordedStable ==
  ASSUME events \subseteq events', NEW i, NEW t, Recorded(i, t)
  PROVE  Recorded(i, t)'
BY DEF Recorded

\* What has happened has happened, however the row moves on.
LEMMA HappenedStable ==
  ASSUME RowsForward, NEW e \in LedgerEvent, HasHappened(e)
  PROVE  HasHappened(e)'
<1> DEFINE i == e.parameter_id
<1>1. /\ i \in DOMAIN params /\ i \in DOMAIN params'
      /\ params[i].state \in StillPossible(e.to_state)
      /\ \/ params'[i].state = params[i].state
         \/ <<params[i].state, params'[i].state>> \in L!Edges
  BY DEF HasHappened, RowsForward
<1>2. e.to_state \in ParameterState BY DEF LedgerEvent
<1>3. ASSUME NEW old, NEW new, NEW to \in ParameterState,
             old \in StillPossible(to), <<old, new>> \in L!Edges
      PROVE  new \in StillPossible(to)
  <2>1. \/ old = "SUBMITTED" /\ new = "VALIDATING"
        \/ old = "VALIDATING" /\ new \in {"REJECTED", "CONSENSUS_PENDING"}
        \/ old = "CONSENSUS_PENDING" /\ new = "CANONICAL"
        \/ old = "CANONICAL" /\ new = "REVOKED"
    BY <1>3 DEF L!Edges, L!EvaluateEdges, L!RevokeEdge
  <2>2. QED BY <1>3, <2>1 DEF StillPossible, ParameterState, Promoted
<1>4. params'[i].state \in StillPossible(e.to_state)
  BY <1>1, <1>2, <1>3
<1>5. QED BY <1>1, <1>4 DEF HasHappened

\* What a call could claim about the ledger it can claim for good.
LEMMA AuditedStable ==
  ASSUME IInv, RowsForward, events \subseteq events', NEW d \in Calls,
         pc'[d] = pc[d], req'[d] = req[d], seen'[d] = seen[d],
         reply'[d] = reply[d], AuditedSoFar(d)
  PROVE  AuditedSoFar(d)'
<1>1. \A i, t : Recorded(i, t) => Recorded(i, t)'
  BY RecordedStable
<1>2. ASSUME seen[d] # None, params[seen[d].id].state = "REVOKED"
      PROVE  params'[seen[d].id].state = "REVOKED"
  BY <1>2 DEF IInv, SeenWasCanonical, WasCanonical, RowsForward, L!Edges,
         L!EvaluateEdges, L!RevokeEdge
<1>3. /\ pc[d] \in {"recordRevoked", "drop"} => seen[d] # None
      /\ reply[d] = "ok" => seen[d] # None
  BY DEF IInv, SeenWasCanonical
<1>4. \A t \in OwnEvents(pc[d]) : Recorded(d, t)'
  BY <1>1 DEF AuditedSoFar
<1>5. reply[d] = "ok" => Acknowledged(d)'
  BY <1>1, <1>2, <1>3 DEF AuditedSoFar, Acknowledged
<1>6. pc[d] = "drop" => Recorded(seen[d].id, "REVOKED")'
  BY <1>1 DEF AuditedSoFar
<1>7. QED BY <1>2, <1>3, <1>4, <1>5, <1>6 DEF AuditedSoFar

(***************************************************************************)
(* AuditFrame: a step preserves AuditInv if the calls it moves, the rows   *)
(* it changes, the events it writes and what it puts on the feed do.       *)
(***************************************************************************)
LEMMA AuditFrame ==
  ASSUME IInv, AuditInv, RowsForward, events \subseteq events',
         \A d \in Calls : AuditedSoFar(d)',
         \A i \in DOMAIN params' :
           \/ i \in DOMAIN params /\ params'[i].state = params[i].state
           \/ \A t \in DueEvents(params'[i].state) : Recorded(i, t)',
         \A e \in events' \ events :
           e.event_type \notin {"REJECTED", "SUPERSEDED"} => HasHappened(e)',
         \A e \in FeedEvents' :
           \/ e \in FeedEvents
           \/ Recorded(e.parameter_id, "PROMOTED")' /\ e.to_state \in Promoted
  PROVE  AuditInv'
<1>1. \A i, t : Recorded(i, t) => Recorded(i, t)'
  BY RecordedStable
<1>2. LedgerTrailsByOne'
  <2> SUFFICES ASSUME NEW i \in DOMAIN params', i \in DOMAIN params,
                      params'[i].state = params[i].state,
                      NEW t \in DueEvents(params[i].state)
               PROVE  Recorded(i, t)'
    BY DEF LedgerTrailsByOne
  <2>1. Recorded(i, t) BY DEF AuditInv, LedgerTrailsByOne
  <2>2. QED BY <1>1, <2>1
<1>3. CheckedEventsAreTrue'
  <2> SUFFICES ASSUME NEW e \in events,
                      e.event_type \notin {"REJECTED", "SUPERSEDED"}
               PROVE  HasHappened(e)'
    BY DEF CheckedEventsAreTrue
  <2>1. HasHappened(e) BY DEF AuditInv, CheckedEventsAreTrue
  <2>2. e \in LedgerEvent BY DEF IInv, TypeOK, StoreTypeOK
  <2>3. QED BY <2>1, <2>2, HappenedStable
<1>4. FeedTellsAudited'
  <2> SUFFICES ASSUME NEW e \in FeedEvents', e \in FeedEvents
               PROVE  Recorded(e.parameter_id, "PROMOTED")' /\ e.to_state \in Promoted
    BY DEF FeedTellsAudited
  <2>1. Recorded(e.parameter_id, "PROMOTED") /\ e.to_state \in Promoted
    BY DEF AuditInv, FeedTellsAudited
  <2>2. QED BY <1>1, <2>1
<1>5. QED BY <1>2, <1>3, <1>4 DEF AuditInv

(***************************************************************************)
(* StepLocal: a step of call c moves no other call, and rows and events    *)
(* only get more.                                                          *)
(***************************************************************************)
Local(c) ==
  /\ \A d \in Calls \ {c} :
       pc'[d] = pc[d] /\ req'[d] = req[d] /\ seen'[d] = seen[d] /\ reply'[d] = reply[d]
  /\ DOMAIN params \subseteq DOMAIN params'
  /\ events \subseteq events'

\* Every step of c is local to c.
LEMMA StepLocal ==
  ASSUME IInv, NEW c \in Calls, Arrive(c) \/ Step(c) PROVE Local(c)
<1>1. /\ pc \in [Calls -> Labels] /\ reply \in [Calls -> Replies]
      /\ req \in [Calls -> Requests \cup {None}]
      /\ seen \in [Calls -> Snapshot \cup {None}]
  BY DEF IInv, TypeOK
<1>2. \A l : Goto(c, l) => \A d \in Calls \ {c} : pc'[d] = pc[d] /\ reply'[d] = reply[d]
  BY <1>1 DEF Goto
<1>3. \A r : Return(c, r) => \A d \in Calls \ {c} : pc'[d] = pc[d] /\ reply'[d] = reply[d]
  BY <1>1 DEF Return
<1>4. CASE Arrive(c)
  BY <1>1, <1>2, <1>3, <1>4 DEF Arrive, Submit, Get, Revoke, Handle, Local
<1>5. CASE SubmitLookup(c)
  BY <1>1, <1>2, <1>3, <1>5 DEF SubmitLookup, Local
<1>6. CASE SubmitCreate(c)
  BY <1>1, <1>2, <1>3, <1>6 DEF SubmitCreate, CreateParameter, Local
<1>7. CASE SubmitRecord(c) \/ SupersedeRecord(c)
  BY <1>1, <1>2, <1>3, <1>7
  DEF SubmitRecord, SupersedeRecord, Record, AppendEvent, Local
<1>8. CASE Supersede(c)
  BY <1>1, <1>2, <1>3, <1>8 DEF Supersede, Transition, UpdateParameterState, Local
<1>9. CASE SupersedeInvalidate(c) \/ SubmitFill(c) \/ SubmitBroadcast(c)
  BY <1>1, <1>2, <1>3, <1>9
  DEF SupersedeInvalidate, SubmitFill, SubmitBroadcast, Local
<1>10. CASE SubmitRefresh(c)
  BY <1>1, <1>2, <1>3, <1>10 DEF SubmitRefresh, Local
<1>11. CASE Validate(c) \/ Reject(c) \/ Await(c) \/ Promote(c)
  BY <1>1, <1>2, <1>3, <1>11
  DEF Validate, Reject, Await, Promote, Transition, UpdateParameterState, Local
<1>12. CASE ValidateRecord(c) \/ RejectRecord(c) \/ ConsensusRecord(c) \/ PromoteRecord(c)
  BY <1>1, <1>2, <1>3, <1>12
  DEF ValidateRecord, RejectRecord, ConsensusRecord, PromoteRecord, Record,
      AppendEvent, Local
<1>13. CASE GetHit(c)
  BY <1>1, <1>2, <1>3, <1>13 DEF GetHit, Local
<1>14. CASE GetLoad(c) \/ RevokeFind(c)
  BY <1>1, <1>2, <1>3, <1>14 DEF GetLoad, RevokeFind, Find, Local
<1>15. CASE GetRefill(c)
  BY <1>1, <1>2, <1>3, <1>15 DEF GetRefill, Local
<1>16. CASE RevokeUpdate(c)
  BY <1>1, <1>2, <1>3, <1>16 DEF RevokeUpdate, Transition, UpdateParameterState, Local
<1>17. CASE RevokeRecord(c)
  BY <1>1, <1>2, <1>3, <1>17 DEF RevokeRecord, Record, AppendEvent, Local
<1>18. CASE RevokeInvalidate(c)
  BY <1>1, <1>2, <1>3, <1>18 DEF RevokeInvalidate, Local
<1>19. QED
  BY <1>4, <1>5, <1>6, <1>7, <1>8, <1>9, <1>10, <1>11, <1>12, <1>13, <1>14,
     <1>15, <1>16, <1>17, <1>18
  DEF Step, SubmitStep, EvaluateStep, GetStep, RevokeStep

(***************************************************************************)
(* AuditStep: AuditFrame for a step of call c, of which only c itself, the *)
(* rows it changes, the events it writes and what it offers to the feed    *)
(* have to be looked at.                                                   *)
(***************************************************************************)
LEMMA AuditStep ==
  ASSUME IInv, AuditInv, NEW c \in Calls, Arrive(c) \/ Step(c),
         AuditedSoFar(c)',
         \A i \in DOMAIN params' :
           \/ i \in DOMAIN params /\ params'[i].state = params[i].state
           \/ \A t \in DueEvents(params'[i].state) : Recorded(i, t)',
         \A e \in events' \ events :
           e.event_type \notin {"REJECTED", "SUPERSEDED"} => HasHappened(e)',
         \A e \in FeedEvents' :
           \/ e \in FeedEvents
           \/ Recorded(e.parameter_id, "PROMOTED")' /\ e.to_state \in Promoted
  PROVE  AuditInv'
<1>1. [Next]_vars BY DEF Next
<1>2. IInv' BY <1>1, NextInv
<1>3. Local(c) BY StepLocal
<1>4. RowsForward BY <1>1, <1>2, <1>3, Forward DEF Local
<1>5. ASSUME NEW d \in Calls PROVE AuditedSoFar(d)'
  <2>1. CASE d = c BY <2>1
  <2>2. CASE d # c
    <3>1. AuditedSoFar(d) BY DEF AuditInv
    <3>2. QED BY <1>3, <1>4, <2>2, <3>1, AuditedStable DEF Local
  <2>3. QED BY <2>1, <2>2
<1>6. events \subseteq events' BY <1>3 DEF Local
<1>7. QED BY <1>4, <1>5, <1>6, AuditFrame

\* A call that is over makes no step.
LEMMA StepOfActive ==
  ASSUME NEW c \in Calls, Arrive(c) \/ Step(c) PROVE pc[c] # "done"
<1>1. CASE Arrive(c) BY <1>1 DEF Arrive, Submit, Get, Revoke, Handle
<1>2. CASE SubmitStep(c)
  BY <1>2 DEF SubmitStep, SubmitLookup, SubmitCreate, SubmitRecord, Supersede,
     SupersedeRecord, SupersedeInvalidate, SubmitRefresh, SubmitFill,
     SubmitBroadcast, Record, Transition
<1>3. CASE EvaluateStep(c)
  BY <1>3 DEF EvaluateStep, Validate, ValidateRecord, Reject, RejectRecord,
     Await, ConsensusRecord, Promote, PromoteRecord, Record, Transition
<1>4. CASE GetStep(c)
  BY <1>4 DEF GetStep, GetHit, GetLoad, GetRefill, Find
<1>5. CASE RevokeStep(c)
  BY <1>5 DEF RevokeStep, RevokeFind, RevokeUpdate, RevokeRecord,
     RevokeInvalidate, Find, Record, Transition
<1>6. QED BY <1>1, <1>2, <1>3, <1>4, <1>5 DEF Step

\* The feed is a function of the variables of module Watch.
LEMMA FeedUnchanged ==
  ASSUME UNCHANGED watchVars PROVE FeedEvents' = FeedEvents
BY DEF watchVars, FeedEvents

\* Where Goto and Return leave the call.
LEMMA Moves ==
  ASSUME IInv, NEW c \in Calls, pc[c] # "done"
  PROVE  /\ \A l : Goto(c, l) => pc'[c] = l /\ reply'[c] # "ok"
         /\ \A r : Return(c, r) => pc'[c] = "done" /\ reply'[c] = r
BY DEF Goto, Return, IInv, TypeOK, SeenWasCanonical

\* A call that ends without an answer claims nothing.
LEMMA EndsUnanswered ==
  ASSUME NEW c, pc'[c] = "done", reply'[c] # "ok" PROVE AuditedSoFar(c)'
BY DEF AuditedSoFar, OwnEvents

-----------------------------------------------------------------------------
(* Steps that write neither rows nor events *)

\* What c knows of the ledger and the rows is known after such a step too.
LEMMA KnownStays ==
  ASSUME UNCHANGED <<params, events>>
  PROVE  /\ \A i, t : Recorded(i, t)' <=> Recorded(i, t)
         /\ \A i \in DOMAIN params' : i \in DOMAIN params /\ params'[i].state = params[i].state
         /\ events' \ events = {}
BY DEF Recorded

\* The case of AuditStep that also leaves the feed alone.
LEMMA QuietAudit ==
  ASSUME IInv, AuditInv, NEW c \in Calls, Arrive(c) \/ Step(c),
         AuditedSoFar(c)', UNCHANGED <<params, events, watchVars>>
  PROVE  AuditInv'
<1>1. FeedEvents' = FeedEvents BY FeedUnchanged
<1>2. QED BY <1>1, KnownStays, AuditStep

\* handler.go: a request is refused, or its method starts.
LEMMA ArriveAudit ==
  ASSUME IInv, AuditInv, NEW c \in Calls, Arrive(c) PROVE AuditInv'
<1>1. PICK op \in {"submit", "get", "revoke"}, first \in {"lookup", "hit", "find"},
           r \in Requests :
        /\ first = "lookup" => op = "submit"
        /\ first = "hit" => op = "get"
        /\ first = "find" => op = "revoke"
        /\ pc[c] = "idle" /\ r.op = op /\ req' = [req EXCEPT ![c] = r]
        /\ Return(c, "invalid_argument") \/ Goto(c, first)
        /\ UNCHANGED <<params, events, watchVars>>
  BY DEF Arrive, Submit, Get, Revoke, Handle
<1>2. req'[c].op = op BY <1>1 DEF IInv, TypeOK
<1>3. /\ pc'[c] \in {"done", first} /\ reply'[c] # "ok"
  BY <1>1, Moves
<1>4. AuditedSoFar(c)'
  BY <1>1, <1>2, <1>3, EndsUnanswered DEF AuditedSoFar, OwnEvents
<1>5. QED BY <1>1, <1>4, QuietAudit

\* Submit's, Get's and Revoke's SELECT by name, and the cache hit.
LEMMA ReadAudit ==
  ASSUME IInv, AuditInv, NEW c \in Calls,
         SubmitLookup(c) \/ GetHit(c) \/ GetLoad(c) \/ RevokeFind(c)
  PROVE  AuditInv'
<1>1. PICK at \in {"lookup", "hit", "load", "find"}, l \in {"create", "load", "refill", "revoke"} :
        /\ at = "lookup" => l = "create"
        /\ at = "hit" => l = "load"
        /\ at = "load" => l = "refill"
        /\ at = "find" => l = "revoke"
        /\ pc[c] = at
        /\ \/ Goto(c, l)
           \/ \E r \in Replies \ {"ok"} : Return(c, r)
           \/ Return(c, "ok") /\ at = "hit"
        /\ UNCHANGED <<params, events, watchVars, req>>
  <2>1. CASE SubmitLookup(c)
    BY <2>1 DEF SubmitLookup, Replies
  <2>2. CASE GetHit(c) BY <2>2 DEF GetHit
  <2>3. CASE GetLoad(c) BY <2>3 DEF GetLoad, Find, Replies
  <2>4. CASE RevokeFind(c) BY <2>4 DEF RevokeFind, Find, Replies
  <2>5. QED BY <2>1, <2>2, <2>3, <2>4
<1>2. AuditedSoFar(c) BY DEF AuditInv
<1>3. \/ pc'[c] = l /\ reply'[c] # "ok"
      \/ pc'[c] = "done" /\ reply'[c] # "ok"
      \/ pc'[c] = "done" /\ at = "hit"
  BY <1>1, Moves
<1>4. AuditedSoFar(c)'
  BY <1>1, <1>2, <1>3, EndsUnanswered DEF AuditedSoFar, OwnEvents, Acknowledged
<1>5. Step(c)
  BY DEF Step, SubmitStep, GetStep, RevokeStep
<1>6. QED BY <1>1, <1>4, <1>5, QuietAudit

\* SetCanonical in Get, InvalidateCanonical in Submit and in Revoke.
LEMMA CacheAudit ==
  ASSUME IInv, AuditInv, NEW c \in Calls,
         GetRefill(c) \/ SupersedeInvalidate(c) \/ SubmitFill(c) \/ RevokeInvalidate(c)
  PROVE  AuditInv'
<1>1. AuditedSoFar(c) BY DEF AuditInv
<1>2. /\ UNCHANGED <<params, events, watchVars, req>>
      /\ pc[c] \in {"refill", "invalidate", "fill", "drop"}
      /\ Step(c)
  BY DEF GetRefill, SupersedeInvalidate, SubmitFill, RevokeInvalidate, Step,
     SubmitStep, GetStep, RevokeStep
<1>3. CASE GetRefill(c)
  <2>1. pc[c] = "refill" /\ pc'[c] = "done"
    BY <1>3, Moves DEF GetRefill
  <2>2. AuditedSoFar(c)'
    BY <1>1, <1>2, <2>1 DEF AuditedSoFar, OwnEvents, Acknowledged
  <2>3. QED BY <1>2, <2>2, QuietAudit
<1>4. CASE SupersedeInvalidate(c)
  <2>1. pc[c] = "invalidate" /\ pc'[c] = "validate" /\ reply'[c] # "ok"
    BY <1>4, Moves DEF SupersedeInvalidate
  <2>2. AuditedSoFar(c)'
    BY <1>1, <1>2, <2>1, KnownStays DEF AuditedSoFar, OwnEvents
  <2>3. QED BY <1>2, <2>2, QuietAudit
<1>5. CASE SubmitFill(c)
  <2>1. /\ pc[c] = "fill" /\ pc'[c] = "broadcast" /\ reply'[c] # "ok"
        /\ UNCHANGED seen
    BY <1>5, Moves DEF SubmitFill
  <2>2. AuditedSoFar(c)'
    BY <1>1, <1>2, <2>1, KnownStays DEF AuditedSoFar, OwnEvents
  <2>3. QED BY <1>2, <2>2, QuietAudit
<1>6. CASE RevokeInvalidate(c)
  <2>1. /\ pc[c] = "drop" /\ pc'[c] = "done"
        /\ seen' = [seen EXCEPT ![c] = [seen[c] EXCEPT !.state = "REVOKED"]]
    BY <1>6, Moves DEF RevokeInvalidate, IInv, TypeOK
  <2>2. seen[c] \in Snapshot
    BY <2>1 DEF IInv, TypeOK, SeenWasCanonical
  <2>3. seen'[c].id = seen[c].id
    BY <2>1, <2>2 DEF Snapshot, IInv, TypeOK
  <2>4. AuditedSoFar(c)'
    BY <1>1, <1>2, <2>1, <2>3, KnownStays DEF AuditedSoFar, OwnEvents, Acknowledged
  <2>5. QED BY <1>2, <2>4, QuietAudit
<1>7. QED BY <1>3, <1>4, <1>5, <1>6

\* ledger.go:110-120: the row was promoted and its four events are recorded.
LEMMA SubmitRefreshAudit ==
  ASSUME IInv, AuditInv, NEW c \in Calls, SubmitRefresh(c) PROVE AuditInv'
<1>1. /\ pc[c] = "refresh" /\ Step(c)
      /\ UNCHANGED <<params, events, watchVars, req>>
  BY DEF SubmitRefresh, Step, SubmitStep
<1>2. AuditedSoFar(c) /\ Private(c) /\ Owned(c)
  BY DEF AuditInv, IInv, PrivateUntilPromoted
<1>3. c \in DOMAIN params /\ params[c].state \in Promoted /\ req[c].op = "submit"
  BY <1>1, <1>2 DEF Private, NoRowYet, OwnStates, Owned
<1>4. \A t \in {"SUBMITTED", "VALIDATED", "CONSENSUS_REACHED", "PROMOTED"} : Recorded(c, t)'
  BY <1>1, <1>2, KnownStays DEF AuditedSoFar, OwnEvents
<1>5. CASE /\ seen' = [seen EXCEPT ![c] = ScanParameter(c)]
           /\ Goto(c, IF params[c].state = "CANONICAL" THEN "fill" ELSE "broadcast")
  <2>1. pc'[c] \in {"fill", "broadcast"} /\ reply'[c] # "ok"
    BY <1>1, <1>5, Moves
  <2>2. seen'[c].state \in Promoted
    BY <1>3, <1>5 DEF IInv, TypeOK, ScanParameter
  <2>3. AuditedSoFar(c)'
    BY <1>4, <2>1, <2>2 DEF AuditedSoFar, OwnEvents
  <2>4. QED BY <1>1, <2>3, QuietAudit
<1>6. CASE Return(c, "ok")
  <2>1. pc'[c] = "done" BY <1>1, <1>6, Moves
  <2>2. AuditedSoFar(c)'
    BY <1>1, <1>3, <1>4, <2>1 DEF AuditedSoFar, OwnEvents, Acknowledged
  <2>3. QED BY <1>1, <2>2, QuietAudit
<1>7. QED BY <1>5, <1>6 DEF SubmitRefresh

\* ledger.go:176-182 and 121: what is offered to the feed is recorded.
LEMMA SubmitBroadcastAudit ==
  ASSUME IInv, AuditInv, NEW c \in Calls, SubmitBroadcast(c) PROVE AuditInv'
<1> DEFINE e == [parameter_id |-> seen[c].id, to_state |-> seen[c].state]
<1>1. /\ pc[c] = "broadcast" /\ Step(c) /\ Broadcast(e) /\ Return(c, "ok")
      /\ UNCHANGED <<params, events, req>>
  BY DEF SubmitBroadcast, Step, SubmitStep
<1>2. /\ AuditedSoFar(c) /\ Private(c) /\ Owned(c) /\ SeenWasCanonical(c)
      /\ feed \in Seq(FeedEvent)
  BY DEF AuditInv, IInv, PrivateUntilPromoted, TypeOK, WatchTypeOK
<1>3. \A t \in {"SUBMITTED", "VALIDATED", "CONSENSUS_REACHED", "PROMOTED"} : Recorded(c, t)'
  BY <1>1, <1>2, KnownStays DEF AuditedSoFar, OwnEvents
<1>4. req[c].op = "submit"
  BY <1>1, <1>2 DEF Private, NoRowYet, Owned
<1>5. pc'[c] = "done" BY <1>1, Moves
<1>6. AuditedSoFar(c)'
  BY <1>1, <1>3, <1>4, <1>5 DEF AuditedSoFar, OwnEvents, Acknowledged
<1>7. e.parameter_id = c /\ e.to_state \in Promoted
  BY <1>1, <1>2 DEF SeenWasCanonical, AuditedSoFar
<1>8. ASSUME NEW x \in FeedEvents' PROVE x \in FeedEvents \/ x = e
  <2> HIDE DEF e
  <2>1. /\ feed' \in {feed, Append(feed, e)}
        /\ UNCHANGED <<watch, held, got>>
    BY <1>1 DEF Broadcast
  <2>2. \A n \in 1..Len(feed') : feed'[n] = e \/ (n \in 1..Len(feed) /\ feed'[n] = feed[n])
    BY <1>2, <2>1
  <2>3. QED BY <1>8, <2>1, <2>2 DEF FeedEvents
<1>9. \A x \in FeedEvents' :
        \/ x \in FeedEvents
        \/ Recorded(x.parameter_id, "PROMOTED")' /\ x.to_state \in Promoted
  BY <1>3, <1>7, <1>8
<1>10. QED BY <1>1, <1>6, <1>9, KnownStays, AuditStep

-----------------------------------------------------------------------------
(* AppendEvent *)

(***************************************************************************)
(* RecordAudit: recording a transition preserves AuditInv if the event is  *)
(* true, or one of those written unchecked, and the call knows after it    *)
(* what it claims.                                                         *)
(***************************************************************************)
LEMMA RecordAudit ==
  ASSUME IInv, AuditInv, NEW c \in Calls, Step(c),
         UNCHANGED <<params, watchVars>>, AuditedSoFar(c)',
         NEW e, NEW out, AppendEvent(e, out),
         e.event_type \notin {"REJECTED", "SUPERSEDED"} => HasHappened(e)
  PROVE  AuditInv'
<1>1. \A x \in events' \ events : x = e
  BY DEF AppendEvent
<1>2. HasHappened(e)' <=> HasHappened(e)
  BY DEF HasHappened
<1>3. \A x \in events' \ events :
        x.event_type \notin {"REJECTED", "SUPERSEDED"} => HasHappened(x)'
  BY <1>1, <1>2
<1>4. FeedEvents' = FeedEvents BY FeedUnchanged
<1>5. QED BY <1>3, <1>4, AuditStep

(***************************************************************************)
(* RecordOwnAudit: a Submit call records the transition its row has made,  *)
(* and gives up if it cannot.                                              *)
(***************************************************************************)
LEMMA RecordOwnAudit ==
  ASSUME IInv, AuditInv, NEW c \in Calls, Step(c),
         UNCHANGED <<params, watchVars, req, seen>>,
         NEW t \in LedgerEventType, NEW from, NEW s \in ParameterState, NEW out,
         AppendEvent([writer |-> c, parameter_id |-> c, event_type |-> t,
                      from_state |-> from, to_state |-> s], out),
         NEW l \in {"validate", "supersede", "await", "reject", "promote", "refresh"},
         IF out = "ok" THEN Goto(c, l) ELSE Return(c, "internal"),
         pc[c] \notin NoRowYet \cup {"done"},
         OwnStates(pc[c]) \subseteq StillPossible(s),
         OwnEvents(l) \subseteq OwnEvents(pc[c]) \cup {t}
  PROVE  AuditInv'
<1> DEFINE e == [writer |-> c, parameter_id |-> c, event_type |-> t,
                 from_state |-> from, to_state |-> s]
<1>1. AuditedSoFar(c) /\ Private(c)
  BY DEF AuditInv, IInv, PrivateUntilPromoted
<1>2. HasHappened(e)
  BY <1>1 DEF Private, HasHappened
<1>3. AuditedSoFar(c)'
  <2>1. CASE out = "ok"
    <3>1. pc'[c] = l /\ reply'[c] # "ok" BY <2>1, Moves
    <3>2. Recorded(c, t)'
      BY <2>1, LedgerGrows DEF Recorded
    <3>3. \A x \in OwnEvents(l) : Recorded(c, x)'
      BY <1>1, <3>2, LedgerGrows, RecordedStable DEF AuditedSoFar
    <3>4. QED BY <3>1, <3>3 DEF AuditedSoFar
  <2>2. CASE out # "ok"
    BY <2>2, Moves, EndsUnanswered
  <2>3. QED BY <2>1, <2>2
<1>4. QED BY <1>2, <1>3, RecordAudit

\* ledger.go:72-85, quorum.go:35-40, 50-52, 57-59
LEMMA RecordsOwnAudit ==
  ASSUME IInv, AuditInv, NEW c \in Calls,
         SubmitRecord(c) \/ ValidateRecord(c) \/ ConsensusRecord(c) \/ PromoteRecord(c)
  PROVE  AuditInv'
<1>1. Step(c) BY DEF Step, SubmitStep, EvaluateStep
<1>2. CASE SubmitRecord(c)
  <2> DEFINE l == IF params[c].prev = None THEN "validate" ELSE "supersede"
  <2>1. pc[c] = "recordSubmitted" BY <1>2 DEF SubmitRecord, Record
  <2>2. /\ pc[c] \notin NoRowYet \cup {"done"}
        /\ OwnStates(pc[c]) \subseteq StillPossible("SUBMITTED")
        /\ OwnEvents(l) \subseteq OwnEvents(pc[c]) \cup {"SUBMITTED"}
        /\ l \in {"validate", "supersede", "await", "reject", "promote", "refresh"}
    BY <2>1 DEF NoRowYet, OwnStates, StillPossible, ParameterState, OwnEvents
  <2>3. /\ \E out \in Outcomes :
             /\ AppendEvent([writer |-> c, parameter_id |-> c,
                             event_type |-> "SUBMITTED", from_state |-> None,
                             to_state |-> "SUBMITTED"], out)
             /\ IF out = "ok" THEN Goto(c, l) ELSE Return(c, "internal")
        /\ UNCHANGED <<params, watchVars, req, seen>>
    BY <1>2 DEF SubmitRecord, Record
  <2>4. QED
    <3> HIDE DEF l
    <3>1. "SUBMITTED" \in LedgerEventType /\ "SUBMITTED" \in ParameterState
      BY DEF LedgerEventType, ParameterState
    <3>2. QED BY <1>1, <2>2, <2>3, <3>1, RecordOwnAudit
<1>3. CASE ValidateRecord(c)
  <2> DEFINE l == IF Valid(req[c]) THEN "await" ELSE "reject"
  <2>1. pc[c] = "recordValidated" BY <1>3 DEF ValidateRecord, Record
  <2>2. /\ pc[c] \notin NoRowYet \cup {"done"}
        /\ OwnStates(pc[c]) \subseteq StillPossible("VALIDATING")
        /\ OwnEvents(l) \subseteq OwnEvents(pc[c]) \cup {"VALIDATED"}
        /\ l \in {"validate", "supersede", "await", "reject", "promote", "refresh"}
    BY <2>1 DEF NoRowYet, OwnStates, StillPossible, ParameterState, OwnEvents
  <2>3. /\ \E out \in Outcomes :
             /\ AppendEvent([writer |-> c, parameter_id |-> c,
                             event_type |-> "VALIDATED", from_state |-> "SUBMITTED",
                             to_state |-> "VALIDATING"], out)
             /\ IF out = "ok" THEN Goto(c, l) ELSE Return(c, "internal")
        /\ UNCHANGED <<params, watchVars, req, seen>>
    BY <1>3 DEF ValidateRecord, Record
  <2>4. QED
    <3> HIDE DEF l
    <3>1. "VALIDATED" \in LedgerEventType /\ "VALIDATING" \in ParameterState
      BY DEF LedgerEventType, ParameterState
    <3>2. QED BY <1>1, <2>2, <2>3, <3>1, RecordOwnAudit
<1>4. CASE ConsensusRecord(c)
  <2>1. pc[c] = "recordConsensus" BY <1>4 DEF ConsensusRecord, Record
  <2>2. /\ pc[c] \notin NoRowYet \cup {"done"}
        /\ OwnStates(pc[c]) \subseteq StillPossible("CONSENSUS_PENDING")
        /\ OwnEvents("promote") \subseteq OwnEvents(pc[c]) \cup {"CONSENSUS_REACHED"}
    BY <2>1 DEF NoRowYet, OwnStates, StillPossible, OwnEvents
  <2>3. QED
    BY <1>1, <1>4, <2>2, RecordOwnAudit
    DEF ConsensusRecord, Record, LedgerEventType, ParameterState
<1>5. CASE PromoteRecord(c)
  <2>1. pc[c] = "recordPromoted" BY <1>5 DEF PromoteRecord, Record
  <2>2. /\ pc[c] \notin NoRowYet \cup {"done"}
        /\ OwnStates(pc[c]) \subseteq StillPossible("CANONICAL")
        /\ OwnEvents("refresh") \subseteq OwnEvents(pc[c]) \cup {"PROMOTED"}
    BY <2>1 DEF NoRowYet, OwnStates, StillPossible, OwnEvents
  <2>3. QED
    BY <1>1, <1>5, <2>2, RecordOwnAudit
    DEF PromoteRecord, Record, LedgerEventType, ParameterState
<1>6. QED BY <1>2, <1>3, <1>4, <1>5

\* ledger.go:90-100, quorum.go:42-44: events written unchecked.
LEMMA RecordsUncheckedAudit ==
  ASSUME IInv, AuditInv, NEW c \in Calls, SupersedeRecord(c) \/ RejectRecord(c)
  PROVE  AuditInv'
<1>1. Step(c) BY DEF Step, SubmitStep, EvaluateStep
<1>2. AuditedSoFar(c) BY DEF AuditInv
<1>3. CASE SupersedeRecord(c)
  <2> DEFINE e == [writer |-> c, parameter_id |-> params[c].prev,
                   event_type |-> "SUPERSEDED", from_state |-> "CANONICAL",
                   to_state |-> "REVOKED"]
  <2>1. PICK out \in Outcomes : AppendEvent(e, out)
    BY <1>3 DEF SupersedeRecord, Record
  <2>2. /\ pc[c] = "recordSuperseded" /\ Goto(c, "invalidate")
        /\ UNCHANGED <<params, watchVars>>
    BY <1>3 DEF SupersedeRecord, Record
  <2>3. pc'[c] = "invalidate" /\ reply'[c] # "ok" BY <2>2, Moves
  <2>4. AuditedSoFar(c)'
    BY <1>2, <2>1, <2>2, <2>3, LedgerGrows, RecordedStable DEF AuditedSoFar, OwnEvents
  <2>5. QED BY <1>1, <2>1, <2>2, <2>4, RecordAudit
<1>4. CASE RejectRecord(c)
  <2> DEFINE e == [writer |-> c, parameter_id |-> c, event_type |-> "REJECTED",
                   from_state |-> "VALIDATING", to_state |-> "REJECTED"]
  <2>1. PICK out \in Outcomes : AppendEvent(e, out)
    BY <1>4 DEF RejectRecord, Record
  <2>2. /\ pc[c] = "recordRejected" /\ Return(c, "internal")
        /\ UNCHANGED <<params, watchVars>>
    BY <1>4 DEF RejectRecord, Record
  <2>3. AuditedSoFar(c)' BY <2>2, Moves, EndsUnanswered
  <2>4. QED BY <1>1, <2>1, <2>2, <2>3, RecordAudit
<1>5. QED BY <1>3, <1>4

\* ledger.go:162-174: the row was revoked before, and so it is now.
LEMMA RevokeRecordAudit ==
  ASSUME IInv, AuditInv, NEW c \in Calls, RevokeRecord(c) PROVE AuditInv'
<1> DEFINE e == [writer |-> c, parameter_id |-> seen[c].id,
                 event_type |-> "REVOKED", from_state |-> "CANONICAL",
                 to_state |-> "REVOKED"]
<1>1. PICK out \in Outcomes :
        /\ AppendEvent(e, out)
        /\ IF out = "ok" THEN Goto(c, "drop") ELSE Return(c, "internal")
  BY DEF RevokeRecord, Record
<1>2. /\ pc[c] = "recordRevoked" /\ Step(c)
      /\ UNCHANGED <<params, watchVars, req, seen>>
  BY DEF RevokeRecord, Record, Step, RevokeStep
<1>3. AuditedSoFar(c) /\ SeenWasCanonical(c) BY DEF AuditInv, IInv
<1>4. seen[c].id \in DOMAIN params /\ params[seen[c].id].state = "REVOKED"
  BY <1>2, <1>3 DEF AuditedSoFar, SeenWasCanonical, WasCanonical
<1>5. HasHappened(e) BY <1>4 DEF HasHappened, StillPossible
<1>6. AuditedSoFar(c)'
  <2>1. CASE out = "ok"
    <3>1. pc'[c] = "drop" /\ reply'[c] # "ok" BY <1>1, <1>2, <2>1, Moves
    <3>2. Recorded(seen[c].id, "REVOKED")'
      BY <1>1, <1>2, <2>1, LedgerGrows DEF Recorded
    <3>3. QED BY <1>2, <1>3, <1>4, <3>1, <3>2 DEF AuditedSoFar, OwnEvents
  <2>2. CASE out # "ok"
    BY <1>1, <1>2, <2>2, Moves, EndsUnanswered
  <2>3. QED BY <2>1, <2>2
<1>7. QED BY <1>1, <1>2, <1>5, <1>6, RecordAudit

-----------------------------------------------------------------------------
(* UpdateParameterState and CreateParameter *)

(***************************************************************************)
(* UpdateAudit: an UPDATE preserves AuditInv if the events that are due in *)
(* the new state are recorded, and the call knows what it claims.          *)
(***************************************************************************)
LEMMA UpdateAudit ==
  ASSUME IInv, AuditInv, NEW c \in Calls, Step(c),
         UNCHANGED <<events, watchVars>>, AuditedSoFar(c)',
         NEW i \in DOMAIN params, NEW s \in ParameterState, NEW out,
         UpdateParameterState(i, s, out),
         \A t \in DueEvents(s) : Recorded(i, t)
  PROVE  AuditInv'
<1>1. /\ DOMAIN params' = DOMAIN params
      /\ \A j \in DOMAIN params : j # i => params'[j].state = params[j].state
      /\ params'[i].state \in {params[i].state, s}
  BY StateUpdated
<1>2. \A t : Recorded(i, t) => Recorded(i, t)'
  BY DEF Recorded
<1>3. \A j \in DOMAIN params' :
        \/ j \in DOMAIN params /\ params'[j].state = params[j].state
        \/ \A t \in DueEvents(params'[j].state) : Recorded(j, t)'
  BY <1>1, <1>2
<1>4. FeedEvents' = FeedEvents /\ events' \ events = {} BY FeedUnchanged
<1>5. QED BY <1>3, <1>4, AuditStep

\* quorum.go:32-34, 41, 47-49, 54-56: the last event is in before the next UPDATE.
LEMMA EvaluateUpdateAudit ==
  ASSUME IInv, AuditInv, NEW c \in Calls,
         Validate(c) \/ Reject(c) \/ Await(c) \/ Promote(c)
  PROVE  AuditInv'
<1>1. PICK s \in ParameterState, l \in Labels, out \in Outcomes :
        /\ \/ pc[c] = "validate" /\ s = "VALIDATING" /\ l = "recordValidated"
           \/ pc[c] = "reject" /\ s = "REJECTED" /\ l = "recordRejected"
           \/ pc[c] = "await" /\ s = "CONSENSUS_PENDING" /\ l = "recordConsensus"
           \/ pc[c] = "promote" /\ s = "CANONICAL" /\ l = "recordPromoted"
        /\ UpdateParameterState(c, s, out)
        /\ Goto(c, l) \/ Return(c, "internal")
        /\ UNCHANGED <<events, watchVars>>
  <2>1. CASE Validate(c)
    BY <2>1 DEF Validate, Transition, ParameterState, Labels
  <2>2. CASE Reject(c)
    BY <2>2 DEF Reject, Transition, ParameterState, Labels
  <2>3. CASE Await(c)
    BY <2>3 DEF Await, Transition, ParameterState, Labels
  <2>4. CASE Promote(c)
    BY <2>4 DEF Promote, Transition, ParameterState, Labels
  <2>5. QED BY <2>1, <2>2, <2>3, <2>4
<1>2. Step(c) BY DEF Step, EvaluateStep
<1>3. AuditedSoFar(c) /\ Private(c)
  BY DEF AuditInv, IInv, PrivateUntilPromoted
<1>4. c \in DOMAIN params
  BY <1>1, <1>3 DEF Private, NoRowYet
<1>5. OwnEvents(l) \subseteq OwnEvents(pc[c]) /\ DueEvents(s) \subseteq OwnEvents(pc[c])
  BY <1>1 DEF OwnEvents, DueEvents, Promoted
<1>6. \A t \in DueEvents(s) : Recorded(c, t)
  BY <1>3, <1>5 DEF AuditedSoFar
<1>7. AuditedSoFar(c)'
  <2>1. CASE Goto(c, l)
    <3>1. pc'[c] = l /\ reply'[c] # "ok" BY <1>1, <2>1, Moves
    <3>2. \A t \in OwnEvents(l) : Recorded(c, t)'
      BY <1>1, <1>3, <1>5, RecordedStable DEF AuditedSoFar
    <3>3. QED BY <1>1, <3>1, <3>2 DEF AuditedSoFar
  <2>2. CASE Return(c, "internal")
    BY <1>1, <2>2, Moves, EndsUnanswered
  <2>3. QED BY <1>1, <2>1, <2>2
<1>8. QED BY <1>1, <1>2, <1>4, <1>6, <1>7, UpdateAudit

\* ledger.go:89, 159: what is revoked was promoted, so its events are in.
LEMMA RevocationAudit ==
  ASSUME IInv, AuditInv, NEW c \in Calls, Supersede(c) \/ RevokeUpdate(c)
  PROVE  AuditInv'
<1>1. Step(c) BY DEF Step, SubmitStep, RevokeStep
<1>2. AuditedSoFar(c) /\ SeenWasCanonical(c) BY DEF AuditInv, IInv
<1>3. ASSUME NEW i \in DOMAIN params, params[i].state \in Promoted
      PROVE  \A t \in DueEvents("REVOKED") : Recorded(i, t)
  BY <1>3 DEF AuditInv, LedgerTrailsByOne, DueEvents, Promoted
<1>4. "REVOKED" \in ParameterState BY DEF ParameterState
<1>5. CASE Supersede(c)
  <2>1. /\ pc[c] = "supersede" /\ Goto(c, "recordSuperseded")
        /\ UNCHANGED <<events, watchVars>>
    BY <1>5 DEF Supersede, Transition
  <2>2. PICK out \in Outcomes : UpdateParameterState(params[c].prev, "REVOKED", out)
    BY <1>5 DEF Supersede, Transition
  <2>3. params[c].prev \in DOMAIN params /\ params[params[c].prev].state \in Promoted
    BY <1>2, <2>1 DEF SeenWasCanonical, IInv, VersionChain, InChain
  <2>4. pc'[c] = "recordSuperseded" /\ reply'[c] # "ok" BY <2>1, Moves
  <2>5. AuditedSoFar(c)'
    BY <1>2, <2>1, <2>4, RecordedStable DEF AuditedSoFar, OwnEvents
  <2>6. QED BY <1>1, <1>3, <1>4, <2>1, <2>2, <2>3, <2>5, UpdateAudit
<1>6. CASE RevokeUpdate(c)
  <2>1. /\ pc[c] = "revoke"
        /\ UNCHANGED <<events, watchVars, req, seen>>
    BY <1>6 DEF RevokeUpdate, Transition
  <2>2. PICK out \in Outcomes :
          /\ UpdateParameterState(seen[c].id, "REVOKED", out)
          /\ IF UpdateOk(seen[c].id, "REVOKED", out)
             THEN Goto(c, "recordRevoked") ELSE Return(c, "internal")
    BY <1>6 DEF RevokeUpdate, Transition
  <2>3. seen[c].id \in DOMAIN params /\ params[seen[c].id].state \in Promoted
    BY <1>2, <2>1 DEF SeenWasCanonical, WasCanonical
  <2>4. AuditedSoFar(c)'
    <3>1. CASE UpdateOk(seen[c].id, "REVOKED", out)
      <4>1. pc'[c] = "recordRevoked" /\ reply'[c] # "ok"
        BY <2>1, <2>2, <3>1, Moves
      <4>2. params'[seen[c].id].state = "REVOKED"
        BY <1>4, <2>2, <2>3, <3>1, StateUpdated
      <4>3. QED BY <1>2, <2>1, <4>1, <4>2 DEF AuditedSoFar, OwnEvents
    <3>2. CASE ~UpdateOk(seen[c].id, "REVOKED", out)
      BY <2>1, <2>2, <3>2, Moves, EndsUnanswered
    <3>3. QED BY <3>1, <3>2
  <2>5. QED BY <1>1, <1>3, <1>4, <2>1, <2>2, <2>3, <2>4, UpdateAudit
<1>7. QED BY <1>5, <1>6

\* ledger.go:66-70: a new row is SUBMITTED, and nothing is due yet.
LEMMA SubmitCreateAudit ==
  ASSUME IInv, AuditInv, NEW c \in Calls, SubmitCreate(c) PROVE AuditInv'
<1>1. /\ pc[c] = "create" /\ Step(c)
      /\ \E out \in Outcomes : CreateParameter(c, NewParameter(c), out)
      /\ Goto(c, "recordSubmitted") \/ Return(c, "internal")
      /\ UNCHANGED <<events, watchVars>>
  BY DEF SubmitCreate, Step, SubmitStep
<1>2. \A i \in DOMAIN params' :
        \/ i \in DOMAIN params /\ params'[i].state = params[i].state
        \/ params'[i].state = "SUBMITTED"
  BY <1>1 DEF CreateParameter, NewParameter
<1>3. DueEvents("SUBMITTED") = {} BY DEF DueEvents, Promoted
<1>4. pc'[c] \in {"recordSubmitted", "done"} /\ reply'[c] # "ok"
  BY <1>1, Moves
<1>5. AuditedSoFar(c)' BY <1>4 DEF AuditedSoFar, OwnEvents
<1>6. FeedEvents' = FeedEvents /\ events' \ events = {}
  BY <1>1, FeedUnchanged
<1>7. QED BY <1>1, <1>2, <1>3, <1>5, <1>6, AuditStep

-----------------------------------------------------------------------------
(* Steps that belong to no call *)

\* Such a step preserves AuditInv if it puts nothing new on the feed.
LEMMA IdleAudit ==
  ASSUME IInv, AuditInv, UNCHANGED <<params, events>>,
         \A d \in Calls : AuditedSoFar(d)',
         FeedEvents' \subseteq FeedEvents
  PROVE  AuditInv'
<1>1. RowsForward BY DEF RowsForward
<1>2. QED BY <1>1, KnownStays, AuditFrame

\* A call that stays where it is knows what it knew.
LEMMA CallStays ==
  ASSUME IInv, AuditInv, UNCHANGED <<params, events>>, NEW d \in Calls,
         pc'[d] = pc[d], req'[d] = req[d], seen'[d] = seen[d], reply'[d] = reply[d]
  PROVE  AuditedSoFar(d)'
<1>1. RowsForward BY DEF RowsForward
<1>2. AuditedSoFar(d) BY DEF AuditInv
<1>3. QED BY <1>1, <1>2, AuditedStable

\* handler.go:130-145: a stream only passes on what the channel held.
LEMMA WatchMovesEvents ==
  ASSUME IInv, NEW w \in Watchers, WatchStep(w)
  PROVE  FeedEvents' \subseteq FeedEvents
<1>1. /\ feed \in Seq(FeedEvent)
      /\ watch \in [Watchers -> {"closed", "waiting", "sending"}]
      /\ held \in [Watchers -> FeedEvent \cup {None}]
      /\ got \in [Watchers -> Seq(FeedEvent)]
      /\ watch[w] = "sending" => held[w] \in FeedEvent
  BY DEF IInv, TypeOK, WatchTypeOK
<1>2. CASE OpenWatch(w) \/ CloseWatch(w)
  BY <1>2 DEF OpenWatch, CloseWatch, FeedEvents
<1>3. CASE TakeEvent(w)
  <2>1. /\ feed # <<>> /\ feed' = Tail(feed) /\ got' = got
        /\ held' = [held EXCEPT ![w] = Head(feed)]
    BY <1>3 DEF TakeEvent
  <2>2. Head(feed) = feed[1] /\ 1 \in 1..Len(feed)
    BY <1>1, <2>1
  <2>3. \A n \in 1..Len(feed') : n + 1 \in 1..Len(feed) /\ feed'[n] = feed[n + 1]
    BY <1>1, <2>1
  <2>4. \A v \in Watchers : held'[v] = held[v] \/ held'[v] = feed[1]
    BY <1>1, <2>1, <2>2
  <2>5. QED BY <2>1, <2>2, <2>3, <2>4 DEF FeedEvents
<1>4. CASE SendEvent(w)
  <2>1. /\ watch[w] = "sending" /\ feed' = feed
        /\ held' = [held EXCEPT ![w] = None]
        /\ got' = got \/ got' = [got EXCEPT ![w] = Append(got[w], held[w])]
    BY <1>4 DEF SendEvent
  <2>2. held[w] # None
    BY <1>1, <2>1, NoFeedEventAssumption
  <2>3. \A v \in Watchers : \A n \in 1..Len(got'[v]) :
          \/ n \in 1..Len(got[v]) /\ got'[v][n] = got[v][n]
          \/ got'[v][n] = held[w]
    <3>1. CASE got' = got BY <3>1
    <3>2. CASE got' = [got EXCEPT ![w] = Append(got[w], held[w])]
      <4>1. got[w] \in Seq(FeedEvent) /\ held[w] \in FeedEvent
        BY <1>1, <2>1
      <4>2. \A v \in Watchers :
              got'[v] = IF v = w THEN Append(got[w], held[w]) ELSE got[v]
        BY <1>1, <3>2
      <4>3. \A n \in 1..Len(Append(got[w], held[w])) :
              \/ n \in 1..Len(got[w]) /\ Append(got[w], held[w])[n] = got[w][n]
              \/ Append(got[w], held[w])[n] = held[w]
        BY <4>1
      <4>4. QED BY <4>2, <4>3
    <3>3. QED BY <2>1, <3>1, <3>2
  <2>4. \A v \in Watchers : held'[v] = held[v] \/ held'[v] = None
    BY <1>1, <2>1
  <2>5. QED BY <2>1, <2>2, <2>3, <2>4 DEF FeedEvents
<1>5. QED BY <1>2, <1>3, <1>4 DEF WatchStep

\* So a stream tells nobody of a promotion that is not recorded.
LEMMA WatchAudit ==
  ASSUME IInv, AuditInv, NEW w \in Watchers, WatchStep(w) PROVE AuditInv'
<1>1. UNCHANGED <<params, events, cache, callVars>> BY DEF WatchStep
<1>2. \A d \in Calls : AuditedSoFar(d)'
  BY <1>1, CallStays DEF callVars
<1>3. QED BY <1>1, <1>2, WatchMovesEvents, IdleAudit

\* A crash takes the channel and the streams; the ledger stays.
LEMMA CrashAudit ==
  ASSUME IInv, AuditInv, Crash PROVE AuditInv'
<1>1. /\ UNCHANGED <<params, events, req, seen>>
      /\ pc' = [c \in Calls |-> IF c \in InFlight THEN "done" ELSE pc[c]]
      /\ reply' = [c \in Calls |-> IF c \in InFlight THEN "crashed" ELSE reply[c]]
      /\ LoseFeed
  BY DEF Crash
<1>2. ASSUME NEW d \in Calls PROVE AuditedSoFar(d)'
  <2>1. CASE d \in InFlight BY <1>1, <2>1, EndsUnanswered
  <2>2. CASE d \notin InFlight BY <1>1, <2>2, CallStays
  <2>3. QED BY <2>1, <2>2
<1>3. FeedEvents' \subseteq FeedEvents
  <2>1. /\ feed' = <<>> /\ got' = got
        /\ \A w \in Watchers : held'[w] = None
    BY <1>1 DEF LoseFeed
  <2>2. QED BY <2>1 DEF FeedEvents
<1>4. QED BY <1>1, <1>2, <1>3, IdleAudit

-----------------------------------------------------------------------------
(* The theorems *)

\* Every step of a call preserves AuditInv.
LEMMA StepAudit ==
  ASSUME IInv, AuditInv, NEW c \in Calls, Step(c) PROVE AuditInv'
<1>1. CASE SubmitStep(c)
  BY <1>1, ReadAudit, SubmitCreateAudit, RecordsOwnAudit, RevocationAudit,
     RecordsUncheckedAudit, CacheAudit, SubmitRefreshAudit, SubmitBroadcastAudit
  DEF SubmitStep
<1>2. CASE EvaluateStep(c)
  BY <1>2, EvaluateUpdateAudit, RecordsOwnAudit, RecordsUncheckedAudit
  DEF EvaluateStep
<1>3. CASE GetStep(c)
  BY <1>3, ReadAudit, CacheAudit DEF GetStep
<1>4. CASE RevokeStep(c)
  BY <1>4, ReadAudit, RevocationAudit, RevokeRecordAudit, CacheAudit
  DEF RevokeStep
<1>5. QED BY <1>1, <1>2, <1>3, <1>4 DEF Step

\* AuditInv is inductive relative to IInv.
LEMMA NextAudit ==
  ASSUME IInv, AuditInv, [Next]_vars PROVE AuditInv'
<1>1. CASE \E c \in Calls : Arrive(c) \/ Step(c)
  BY <1>1, ArriveAudit, StepAudit
<1>2. CASE \E w \in Watchers : WatchStep(w)
  BY <1>2, WatchAudit
<1>3. CASE Crash
  BY <1>3, CrashAudit
<1>4. CASE UNCHANGED <<params, events, watchVars, callVars>>
  <2>1. \A d \in Calls : AuditedSoFar(d)' BY <1>4, CallStays DEF callVars
  <2>2. FeedEvents' = FeedEvents BY <1>4, FeedUnchanged
  <2>3. QED BY <1>4, <2>1, <2>2, IdleAudit
<1>5. CASE UNCHANGED vars
  BY <1>4, <1>5 DEF vars, callVars, watchVars
<1>6. CASE \E k \in CacheKeys : Expire(k)
  BY <1>4, <1>6 DEF Expire
<1>7. QED BY <1>1, <1>2, <1>3, <1>5, <1>6 DEF Next, Served

\* Nothing has happened, nothing is recorded, nothing was told.
LEMMA InitAudit == Init => AuditInv
<1> SUFFICES ASSUME Init PROVE AuditInv
  OBVIOUS
<1>1. /\ DOMAIN params = {} /\ events = {}
      /\ \A c \in Calls : pc[c] = "idle" /\ reply[c] = "none"
      /\ feed = <<>>
      /\ \A w \in Watchers : held[w] = None /\ got[w] = <<>>
  BY DEF Init, StoreInit, WatchInit
<1>2. \A c \in Calls : AuditedSoFar(c)
  BY <1>1 DEF AuditedSoFar, OwnEvents
<1>3. LedgerTrailsByOne /\ CheckedEventsAreTrue
  BY <1>1 DEF LedgerTrailsByOne, CheckedEventsAreTrue
<1>4. FeedEvents = {} BY <1>1 DEF FeedEvents
<1>5. QED BY <1>2, <1>3, <1>4 DEF AuditInv, FeedTellsAudited

(***************************************************************************)
(* AuditHolds: AuditInv is an invariant of the server, for every value of  *)
(* the constants: what each program counter says about the ledger, and the *)
(* four properties below.                                                  *)
(***************************************************************************)
THEOREM AuditHolds == Spec => []AuditInv
<1>1. Init => AuditInv BY InitAudit
<1>2. IInv /\ AuditInv /\ [Next]_vars => AuditInv' BY NextAudit
<1>3. QED BY <1>1, <1>2, InvariantHolds, PTL DEF Spec

(***************************************************************************)
(* LedgerTrails: a row that is not revoked lacks no event but that of its  *)
(* last transition, and a revoked row none before PROMOTED, whatever       *)
(* AppendEvent failed and wherever a call died.                            *)
(***************************************************************************)
THEOREM LedgerTrails == Spec => []LedgerTrailsByOne
<1>1. AuditInv => LedgerTrailsByOne BY DEF AuditInv
<1>2. QED BY <1>1, AuditHolds, PTL

(***************************************************************************)
(* CheckedEventsTrue: an event written after a confirmed UPDATE tells of a *)
(* transition that took place and was never undone.                        *)
(***************************************************************************)
THEOREM CheckedEventsTrue == Spec => []CheckedEventsAreTrue
<1>1. AuditInv => CheckedEventsAreTrue BY DEF AuditInv
<1>2. QED BY <1>1, AuditHolds, PTL

(***************************************************************************)
(* AcknowledgedAudited: an answered Submit or Revoke is in the ledger.     *)
(***************************************************************************)
THEOREM AcknowledgedAudited == Spec => []AcknowledgedIsAudited
<1>1. AuditInv => AcknowledgedIsAudited
  BY DEF AuditInv, AuditedSoFar, AcknowledgedIsAudited
<1>2. QED BY <1>1, AuditHolds, PTL

(***************************************************************************)
(* FeedAudited: the live feed and its clients only ever see promotions     *)
(* that are recorded.                                                      *)
(***************************************************************************)
THEOREM FeedAudited == Spec => []FeedTellsAudited
<1>1. AuditInv => FeedTellsAudited BY DEF AuditInv
<1>2. QED BY <1>1, AuditHolds, PTL
=============================================================================
