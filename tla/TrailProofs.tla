---------------------------- MODULE TrailProofs -----------------------------
(***************************************************************************)
(* Proofs, for any number of calls and readers, of who wrote which event   *)
(* of the ledger and at what time (TrailInv).  A reader changes nothing,   *)
(* so the invariants of the server (IInv, AuditInv) hold beside it.        *)
(***************************************************************************)
EXTENDS ReadersInvariant, AuditProofs, FiniteSetTheorems

USE DEF Calls

-----------------------------------------------------------------------------
(* The server does not notice its readers *)

\* A step of the composition is a step of the server or leaves it alone.
LEMMA ServerSteps ==
  ASSUME [ReadersNext]_allVars PROVE [Next]_vars
<1>1. CASE \E c \in Calls : CallStep(c)
  BY <1>1 DEF CallStep, Next
<1>2. CASE ExpireStep
  BY <1>2 DEF ExpireStep, Next
<1>3. CASE (\E r \in Clients : ReaderStep(r)) \/ (\E c \in Calls : ReadClock(c))
  BY <1>3 DEF ReaderStep, ReadClock
<1>4. CASE UNCHANGED allVars
  BY <1>4 DEF allVars
<1>5. QED BY <1>1, <1>2, <1>3, <1>4 DEF ReadersNext

(***************************************************************************)
(* ReadersAreServed: whatever is proved of the server holds beside any     *)
(* number of readers, with the clock running.                              *)
(***************************************************************************)
THEOREM ReadersAreServed == ReadersSpec => Spec
<1>1. ReadersInit => Init BY DEF ReadersInit
<1>2. [ReadersNext]_allVars => [Next]_vars BY ServerSteps
<1>3. QED BY <1>1, <1>2, PTL DEF ReadersSpec, Spec

-----------------------------------------------------------------------------
(* Where a call goes and what it writes *)

\* Where a call goes on to, if it does not end.
Successors(l) ==
  CASE l = "idle" -> {"lookup", "hit", "find"}
    [] l = "lookup" -> {"create"}
    [] l = "create" -> {"recordSubmitted"}
    [] l = "recordSubmitted" -> {"validate", "supersede"}
    [] l = "supersede" -> {"recordSuperseded"}
    [] l = "recordSuperseded" -> {"invalidate"}
    [] l = "invalidate" -> {"validate"}
    [] l = "validate" -> {"recordValidated"}
    [] l = "recordValidated" -> {"await", "reject"}
    [] l = "reject" -> {"recordRejected"}
    [] l = "await" -> {"recordConsensus"}
    [] l = "recordConsensus" -> {"promote"}
    [] l = "promote" -> {"recordPromoted"}
    [] l = "recordPromoted" -> {"refresh"}
    [] l = "refresh" -> {"fill", "broadcast"}
    [] l = "fill" -> {"broadcast"}
    [] l = "hit" -> {"load"}
    [] l = "load" -> {"refill"}
    [] l = "find" -> {"revoke"}
    [] l = "revoke" -> {"recordRevoked"}
    [] l = "recordRevoked" -> {"drop"}
    [] OTHER -> {}

\* A call's step ends it or moves it on.
LEMMA Flow ==
  ASSUME IInv, NEW c \in Calls, Arrive(c) \/ Step(c)
  PROVE  pc'[c] \in Successors(pc[c]) \cup {"done"}
<1>1. pc[c] # "done" BY StepOfActive
<1>2. /\ \A l : Goto(c, l) => pc'[c] = l
      /\ \A r : Return(c, r) => pc'[c] = "done"
  BY <1>1, Moves
<1>3. CASE Arrive(c)
  BY <1>2, <1>3 DEF Arrive, Submit, Get, Revoke, Handle, Successors
<1>4. CASE SubmitLookup(c) \/ SubmitCreate(c)
  BY <1>2, <1>4 DEF SubmitLookup, SubmitCreate, Successors
<1>5. CASE SubmitRecord(c)
  BY <1>2, <1>5 DEF SubmitRecord, Record, Successors
<1>6. CASE Supersede(c)
  BY <1>2, <1>6 DEF Supersede, Transition, Successors
<1>7. CASE SupersedeRecord(c)
  BY <1>2, <1>7 DEF SupersedeRecord, Record, Successors
<1>8. CASE SupersedeInvalidate(c) \/ SubmitFill(c) \/ SubmitBroadcast(c)
  BY <1>2, <1>8 DEF SupersedeInvalidate, SubmitFill, SubmitBroadcast, Successors
<1>9. CASE SubmitRefresh(c)
  BY <1>2, <1>9 DEF SubmitRefresh, Successors
<1>10. CASE Validate(c) \/ Reject(c) \/ Await(c) \/ Promote(c)
  BY <1>2, <1>10 DEF Validate, Reject, Await, Promote, Transition, Successors
<1>11. CASE ValidateRecord(c) \/ RejectRecord(c)
  BY <1>2, <1>11 DEF ValidateRecord, RejectRecord, Record, Successors
<1>12. CASE ConsensusRecord(c) \/ PromoteRecord(c)
  BY <1>2, <1>12 DEF ConsensusRecord, PromoteRecord, Record, Successors
<1>13. CASE GetHit(c)
  BY <1>2, <1>13 DEF GetHit, Successors
<1>14. CASE GetLoad(c) \/ RevokeFind(c)
  BY <1>2, <1>14 DEF GetLoad, RevokeFind, Find, Successors
<1>15. CASE GetRefill(c) \/ RevokeInvalidate(c)
  BY <1>2, <1>15 DEF GetRefill, RevokeInvalidate, Successors
<1>16. CASE RevokeUpdate(c)
  BY <1>2, <1>16 DEF RevokeUpdate, Transition, Successors
<1>17. CASE RevokeRecord(c)
  BY <1>2, <1>17 DEF RevokeRecord, Record, Successors
<1>18. QED
  BY <1>3, <1>4, <1>5, <1>6, <1>7, <1>8, <1>9, <1>10, <1>11, <1>12, <1>13,
     <1>14, <1>15, <1>16, <1>17
  DEF Step, SubmitStep, EvaluateStep, GetStep, RevokeStep

\* The event call c is about to append: its type and the row it is about.
Appends(c, e) ==
  /\ e.writer = c
  /\ \/ /\ e.parameter_id = c
        /\ \/ pc[c] = "recordSubmitted" /\ e.event_type = "SUBMITTED"
           \/ pc[c] = "recordValidated" /\ e.event_type = "VALIDATED"
           \/ pc[c] = "recordRejected" /\ e.event_type = "REJECTED"
           \/ pc[c] = "recordConsensus" /\ e.event_type = "CONSENSUS_REACHED"
           \/ pc[c] = "recordPromoted" /\ e.event_type = "PROMOTED"
     \/ /\ pc[c] = "recordSuperseded" /\ e.event_type = "SUPERSEDED"
        /\ e.parameter_id = params[c].prev
     \/ /\ pc[c] = "recordRevoked" /\ e.event_type = "REVOKED"
        /\ e.parameter_id = seen[c].id

\* The row an event is about exists, and is canonical or revoked if foreign.
LEMMA AppendsAboutARow ==
  ASSUME IInv, NEW c \in Calls, NEW e, Appends(c, e) PROVE AboutARow(e)
<1>1. Private(c) /\ SeenWasCanonical(c)
  BY DEF IInv, PrivateUntilPromoted
<1>2. CASE e.parameter_id = c /\ e.event_type \notin Foreign
  <2>1. c \in DOMAIN params
    BY <1>1, <1>2 DEF Appends, Private, NoRowYet, Foreign
  <2>2. QED BY <1>2, <2>1 DEF AboutARow, Appends
<1>3. CASE pc[c] = "recordSuperseded" /\ e.parameter_id = params[c].prev
  <2>1. c \in DOMAIN params /\ params[c].prev # None
    BY <1>1, <1>3 DEF SeenWasCanonical
  <2>2. InChain(c) BY <2>1 DEF IInv, VersionChain
  <2>3. e.event_type \in Foreign BY <1>3 DEF Appends, Foreign
  <2>4. QED BY <1>3, <2>1, <2>2, <2>3 DEF AboutARow, InChain
<1>4. CASE pc[c] = "recordRevoked" /\ e.parameter_id = seen[c].id
  <2>1. WasCanonical(seen[c].id)
    BY <1>1, <1>4 DEF SeenWasCanonical
  <2>2. e.event_type \in Foreign BY <1>4 DEF Appends, Foreign
  <2>3. QED BY <1>4, <2>1, <2>2 DEF AboutARow, WasCanonical
<1>5. QED BY <1>2, <1>3, <1>4 DEF Appends, Foreign

\* A step appends no event, or the one its program counter names.
LEMMA AppendsOne ==
  ASSUME IInv, NEW c \in Calls, Arrive(c) \/ Step(c)
  PROVE  \/ UNCHANGED events
         \/ /\ \E e : Appends(c, e) /\ events' = events \cup {e}
            /\ UNCHANGED params
<1> DEFINE Shown == \/ UNCHANGED events
                    \/ /\ \E e : Appends(c, e) /\ events' = events \cup {e}
                       /\ UNCHANGED params
<1>1. ASSUME NEW i, NEW type, NEW from, NEW to, NEW at0, NEW next, NEW failed,
             Record(c, at0, i, type, from, to, next, failed),
             \A e : (/\ e.writer = c /\ e.parameter_id = i
                     /\ e.event_type = type /\ pc[c] = at0) => Appends(c, e)
      PROVE  Shown
  <2> DEFINE e == [writer |-> c, parameter_id |-> i, event_type |-> type,
                   from_state |-> from, to_state |-> to]
  <2>1. /\ UNCHANGED events \/ events' = events \cup {e}
        /\ UNCHANGED params /\ pc[c] = at0
    BY <1>1 DEF Record, AppendEvent
  <2>2. /\ e.writer = c /\ e.parameter_id = i /\ e.event_type = type
    OBVIOUS
  <2> HIDE DEF e
  <2>3. Appends(c, e) BY <1>1, <2>1, <2>2
  <2>4. QED BY <2>1, <2>3
<1>2. CASE SubmitRecord(c)
  BY <1>1, <1>2 DEF SubmitRecord, Appends
<1>3. CASE SupersedeRecord(c)
  BY <1>1, <1>3 DEF SupersedeRecord, Appends
<1>4. CASE ValidateRecord(c)
  BY <1>1, <1>4 DEF ValidateRecord, Appends
<1>5. CASE RejectRecord(c)
  BY <1>1, <1>5 DEF RejectRecord, Appends
<1>6. CASE ConsensusRecord(c)
  BY <1>1, <1>6 DEF ConsensusRecord, Appends
<1>7. CASE PromoteRecord(c)
  BY <1>1, <1>7 DEF PromoteRecord, Appends
<1>8. CASE RevokeRecord(c)
  BY <1>1, <1>8 DEF RevokeRecord, Appends
<1>9. ASSUME ~SubmitRecord(c), ~SupersedeRecord(c), ~ValidateRecord(c),
             ~RejectRecord(c), ~ConsensusRecord(c), ~PromoteRecord(c), ~RevokeRecord(c)
      PROVE  UNCHANGED events
  <2>1. CASE Arrive(c)
    BY <2>1 DEF Arrive, Submit, Get, Revoke, Handle
  <2>2. CASE SubmitStep(c)
    BY <1>9, <2>2 DEF SubmitStep, SubmitLookup, SubmitCreate, Supersede,
       SupersedeInvalidate, SubmitRefresh, SubmitFill, SubmitBroadcast, Transition
  <2>3. CASE EvaluateStep(c)
    BY <1>9, <2>3 DEF EvaluateStep, Validate, Reject, Await, Promote, Transition
  <2>4. CASE GetStep(c)
    BY <2>4 DEF GetStep, GetHit, GetLoad, GetRefill, Find
  <2>5. CASE RevokeStep(c)
    BY <1>9, <2>5 DEF RevokeStep, RevokeFind, RevokeUpdate, RevokeInvalidate,
       Find, Transition
  <2>6. QED BY <2>1, <2>2, <2>3, <2>4, <2>5 DEF Step
<1>10. QED BY <1>2, <1>3, <1>4, <1>5, <1>6, <1>7, <1>8, <1>9

\* The predecessor of a row never changes, and a promoted row stays promoted.
LEMMA RowsKept ==
  ASSUME IInv, NEW c \in Calls, Arrive(c) \/ Step(c), NEW i \in DOMAIN params
  PROVE  /\ i \in DOMAIN params'
         /\ params'[i].prev = params[i].prev
         /\ params[i].state \in Promoted => params'[i].state \in Promoted
<1>1. [Next]_vars BY DEF Next
<1>2. Local(c) /\ IInv' BY <1>1, StepLocal, NextInv
<1>3. RowsForward BY <1>1, <1>2, Forward DEF Local
<1>4. i \in DOMAIN params' BY <1>3 DEF RowsForward
<1>5. params[i].state \in Promoted => params'[i].state \in Promoted
  BY <1>3 DEF RowsForward, Promoted, L!Edges, L!EvaluateEdges, L!RevokeEdge
<1>6. params \in [DOMAIN params -> Row]
  BY DEF IInv, TypeOK, StoreTypeOK
<1>7. \A j, s, out : UpdateParameterState(j, s, out) => params'[i].prev = params[i].prev
  BY <1>6 DEF UpdateParameterState
<1>8. CASE SubmitCreate(c)
  <2>1. pc[c] = "create" /\ \E out \in Outcomes : CreateParameter(c, NewParameter(c), out)
    BY <1>8 DEF SubmitCreate
  <2>2. i # c
    BY <2>1 DEF IInv, PrivateUntilPromoted, Private, NoRowYet
  <2>3. params'[i] = params[i]
    BY <2>1, <2>2 DEF CreateParameter
  <2>4. QED BY <1>4, <1>5, <2>3
<1>9. CASE Validate(c) \/ Reject(c) \/ Await(c) \/ Promote(c) \/ Supersede(c) \/ RevokeUpdate(c)
  <2>1. \E j, s, out : UpdateParameterState(j, s, out)
    BY <1>9 DEF Validate, Reject, Await, Promote, Supersede, RevokeUpdate, Transition
  <2>2. QED BY <1>4, <1>5, <1>7, <2>1
<1>10. CASE UNCHANGED params BY <1>10
<1>11. QED BY <1>8, <1>9, <1>10, WhoWritesRows

-----------------------------------------------------------------------------
(* Who wrote which events *)

\* What a call may have written only grows, and what it writes is new.
LEMMA WrittenGrows ==
  ASSUME NEW l \in Labels, NEW m \in Successors(l) \cup {"done"}
  PROVE  Written(l) \subseteq Written(m)
<1>1. CASE m = "done"
  BY <1>1 DEF Written, LedgerEventType
<1>2. CASE m # "done"
  BY <1>2 DEF Successors, Written, Labels
<1>3. QED BY <1>1, <1>2

LEMMA AppendsNew ==
  ASSUME NEW c \in Calls, NEW e, Appends(c, e), IInv, Arrive(c) \/ Step(c)
  PROVE  e.event_type \in Written(pc'[c]) /\ e.event_type \notin Written(pc[c])
<1>1. pc'[c] \in Successors(pc[c]) \cup {"done"} BY Flow
<1>2. e.event_type \notin Written(pc[c])
  BY DEF Appends, Written
<1>3. CASE pc'[c] = "done"
  BY <1>2, <1>3 DEF Appends, Written, LedgerEventType
<1>4. CASE pc'[c] \in Successors(pc[c])
  BY <1>2, <1>4 DEF Appends, Written, Successors
<1>5. QED BY <1>1, <1>2, <1>3, <1>4

\* What is about a row stays so.
LEMMA AboutStays ==
  ASSUME IInv, NEW c \in Calls, Arrive(c) \/ Step(c), NEW e, AboutARow(e)
  PROVE  AboutARow(e)'
BY RowsKept DEF AboutARow

\* A call's step keeps the account of who wrote what.
LEMMA WritersStep ==
  ASSUME IInv, WritersInv, NEW c \in Calls, Arrive(c) \/ Step(c)
  PROVE  WritersInv'
<1>1. /\ \A d \in Calls \ {c} : pc'[d] = pc[d]
      /\ events \subseteq events'
  BY StepLocal DEF Local
<1>2. pc'[c] \in Successors(pc[c]) \cup {"done"} /\ pc[c] \in Labels
  BY Flow DEF IInv, TypeOK
<1>3. Written(pc[c]) \subseteq Written(pc'[c]) BY <1>2, WrittenGrows
<1>4. events \subseteq LedgerEvent BY DEF IInv, TypeOK, StoreTypeOK
<1>5. \A e \in events : e.event_type \in Written(pc'[e.writer]) /\ AboutARow(e)'
  <2> SUFFICES ASSUME NEW e \in events
               PROVE  e.event_type \in Written(pc'[e.writer]) /\ AboutARow(e)'
    OBVIOUS
  <2>1. e.event_type \in Written(pc[e.writer]) /\ AboutARow(e) /\ e.writer \in Calls
    BY <1>4 DEF WritersInv, LedgerEvent
  <2>2. AboutARow(e)' BY <2>1, AboutStays
  <2>3. QED BY <1>1, <1>3, <2>1, <2>2
<1>6. CASE UNCHANGED events
  BY <1>5, <1>6 DEF WritersInv
<1>7. ASSUME NEW e, Appends(c, e), events' = events \cup {e}
      PROVE  WritersInv'
  <2>1. e.writer = c BY <1>7 DEF Appends
  <2>2. /\ e.event_type \in Written(pc'[c])
        /\ e.event_type \notin Written(pc[c])
    BY <1>7, AppendsNew
  <2>3. AboutARow(e)' BY <1>7, AppendsAboutARow, AboutStays
  <2>4. IsFiniteSet(events') BY <1>7, FS_AddElement DEF WritersInv
  <2>5. \A f \in events : f.writer = c => f.event_type # e.event_type
    BY <2>2 DEF WritersInv
  <2>6. QED BY <1>5, <1>7, <2>1, <2>2, <2>3, <2>4, <2>5 DEF WritersInv
<1>8. QED BY <1>6, <1>7, AppendsOne

-----------------------------------------------------------------------------
(* When events occurred *)

(***************************************************************************)
(* Stamps: what a call's step does to the clock, the call's stamp and the  *)
(* times of events, and whom a new event names.                            *)
(***************************************************************************)
Stamps(c) ==
  /\ \A d \in Calls \ {c} :
       stamp'[d] = stamp[d] /\ pc'[d] = pc[d] /\ seen'[d] = seen[d]
  /\ stamp'[c] # None => pc'[c] \notin Stamped /\ stamp'[c] = stamp[c]
  /\ clock' = clock
  /\ events \subseteq events'
  /\ \A e \in events : occurredAt'[e] = occurredAt[e]
  /\ \A e \in events' \ events :
       /\ Appends(c, e) /\ AboutARow(e)
       /\ occurredAt'[e] = stamp[c] /\ Has(c)

\* What its step holds on to, the call has held before.
LEMMA HoldsTime ==
  ASSUME IInv, NEW c \in Calls, CallStep(c), pc'[c] \in Holding \ Stamped
  PROVE  pc[c] \in Holding
<1>1. Arrive(c) \/ Step(c) BY DEF CallStep
<1>2. pc'[c] \in Successors(pc[c]) \cup {"done"} BY <1>1, Flow
<1>3. pc'[c] \in {"recordSubmitted", "supersede", "recordSuperseded"}
  BY DEF Holding
<1>4. pc'[c] \in Successors(pc[c]) /\ pc[c] \in Labels
  BY <1>2, <1>3 DEF IInv, TypeOK
<1>5. QED BY <1>3, <1>4 DEF Successors, Labels, Holding, Stamped

LEMMA CallTimes ==
  ASSUME IInv, ClockInv, NEW c \in Calls, CallStep(c)
  PROVE  /\ Stamps(c) /\ Local(c)
         /\ stamp' \in [Calls -> Times \cup {None}]
         /\ occurredAt' \in [events' -> Times]
<1>1. /\ Arrive(c) \/ Step(c)
      /\ pc[c] \in Stamped => stamp[c] # None
      /\ stamp' = [stamp EXCEPT ![c] =
                     IF pc'[c] \in Stamped \cup {"done"} THEN None ELSE stamp[c]]
      /\ occurredAt' = [e \in events' |->
                          IF e \in events THEN occurredAt[e] ELSE stamp[e.writer]]
      /\ clock' = clock
  BY DEF CallStep
<1>2. Local(c) BY <1>1, StepLocal
<1>3. /\ stamp \in [Calls -> Times \cup {None}] /\ occurredAt \in [events -> Times]
      /\ pc[c] \in Holding \ Stamped => stamp[c] # None
  BY DEF ClockInv
<1>4. \A e \in events' \ events : Appends(c, e) /\ AboutARow(e) /\ e.writer = c
  BY <1>1, AppendsOne, AppendsAboutARow DEF Appends
<1>5. /\ stamp' \in [Calls -> Times \cup {None}]
      /\ \A d \in Calls \ {c} : stamp'[d] = stamp[d]
      /\ stamp'[c] = IF pc'[c] \in Stamped \cup {"done"} THEN None ELSE stamp[c]
  BY <1>1, <1>3
<1>6. \A e \in events' \ events : occurredAt'[e] = stamp[c]
  BY <1>1, <1>4
<1>7. \A e \in events : occurredAt'[e] = occurredAt[e]
  BY <1>1, <1>2 DEF Local
<1>8. \A e \in events' \ events : Has(c)
  <2> SUFFICES ASSUME NEW e \in events' \ events PROVE Has(c)
    OBVIOUS
  <2>1. pc[c] \in Holding BY <1>4 DEF Appends, Holding, Stamped
  <2>2. QED BY <1>1, <1>3, <2>1 DEF Has
<1>9. occurredAt' \in [events' -> Times]
  <2>1. \A e \in events' \ events : stamp[c] \in Times
    BY <1>3, <1>8 DEF Has
  <2>2. \A e \in events' : occurredAt'[e] \in Times
    BY <1>3, <1>6, <1>7, <2>1
  <2>3. QED BY <1>1, <2>2
<1>10. Stamps(c)
  BY <1>1, <1>2, <1>4, <1>5, <1>6, <1>7, <1>8 DEF Stamps, Local
<1>11. QED BY <1>2, <1>5, <1>9, <1>10

LEMMA ClockStep ==
  ASSUME IInv, ClockInv, NEW c \in Calls, CallStep(c)
  PROVE  ClockInv'
<1>1. /\ Stamps(c)
      /\ stamp' \in [Calls -> Times \cup {None}]
      /\ occurredAt' \in [events' -> Times]
  BY CallTimes
<1>2. ASSUME NEW d \in Calls, pc'[d] \in Holding \ Stamped
      PROVE  stamp'[d] # None
  <2>1. CASE d # c
    BY <1>1, <1>2, <2>1 DEF Stamps, ClockInv
  <2>2. CASE d = c
    <3>1. pc[c] \in Holding BY <1>2, <2>2, HoldsTime
    <3>2. stamp[c] # None BY <3>1 DEF ClockInv, CallStep
    <3>3. pc'[c] \notin Stamped \cup {"done"}
      BY <1>2, <2>2 DEF Holding
    <3>4. stamp'[c] = stamp[c]
      BY <3>3 DEF CallStep, ClockInv
    <3>5. QED BY <2>2, <3>2, <3>4
  <2>3. QED BY <2>1, <2>2
<1>3. clock' \in Nat BY <1>1 DEF Stamps, ClockInv
<1>4. QED BY <1>1, <1>2, <1>3 DEF ClockInv

\* No time is later than the latest that was read.
LEMMA LaterStep ==
  ASSUME IInv, ClockInv, NothingLater, NEW c \in Calls, CallStep(c)
  PROVE  NothingLater'
<1>1. Stamps(c) BY CallTimes
<1>2. ASSUME NEW d \in Calls, stamp'[d] # None PROVE stamp'[d] <= clock'
  <2>1. stamp'[d] = stamp[d] BY <1>1, <1>2 DEF Stamps
  <2>2. QED BY <1>1, <1>2, <2>1 DEF Stamps, NothingLater
<1>3. ASSUME NEW e \in events' PROVE occurredAt'[e] <= clock'
  <2>1. CASE e \in events
    BY <1>1, <2>1 DEF Stamps, NothingLater
  <2>2. CASE e \notin events
    <3>1. occurredAt'[e] = stamp[c] /\ stamp[c] # None /\ clock' = clock
      BY <1>1, <1>3, <2>2 DEF Stamps, Has
    <3>2. QED BY <3>1 DEF NothingLater
  <2>3. QED BY <2>1, <2>2
<1>4. QED BY <1>2, <1>3 DEF NothingLater

\* Only SubmitCreate starts where a row is about to be created.
LEMMA CreatesAt ==
  ASSUME NEW c \in Calls, Arrive(c) \/ Step(c), pc[c] = "create" PROVE SubmitCreate(c)
<1>1. ~Arrive(c)
  BY DEF Arrive, Submit, Get, Revoke, Handle
<1>2. ~EvaluateStep(c)
  BY DEF EvaluateStep, Validate, ValidateRecord, Reject, RejectRecord,
     Await, ConsensusRecord, Promote, PromoteRecord, Record, Transition
<1>3. ~GetStep(c) BY DEF GetStep, GetHit, GetLoad, GetRefill, Find
<1>4. ~RevokeStep(c)
  BY DEF RevokeStep, RevokeFind, RevokeUpdate, RevokeRecord,
     RevokeInvalidate, Find, Record, Transition
<1>5. QED
  BY <1>1, <1>2, <1>3, <1>4
  DEF Step, SubmitStep, SubmitLookup, SubmitRecord, Supersede,
     SupersedeRecord, SupersedeInvalidate, SubmitRefresh, SubmitFill,
     SubmitBroadcast, Record, Transition

\* The events of the stages before a row's end are its own call's.
LEMMA EarlyIsOwn ==
  ASSUME WritersInv, NEW e \in events, Stage(e) < 4
  PROVE  e.parameter_id = e.writer
BY DEF WritersInv, AboutARow, Foreign, Stage

\* No row is ended while its own call still writes such events.
LEMMA EarlyNotPromoted ==
  ASSUME IInv, NEW c \in Calls, NEW e, Appends(c, e), Stage(e) < 4
  PROVE  ~(c \in DOMAIN params /\ params[c].state \in Promoted)
<1>1. pc[c] \in {"recordSubmitted", "recordValidated", "recordRejected",
                 "recordConsensus"}
  BY DEF Appends, Stage
<1>2. Private(c) BY DEF IInv, PrivateUntilPromoted
<1>3. QED BY <1>1, <1>2 DEF Private, NoRowYet, OwnStates, Promoted

\* A row that a call is about to end has been canonical.
LEMMA EndsPromoted ==
  ASSUME IInv, NEW c \in Calls, NEW i, EndsRow(c, i)
  PROVE  i \in DOMAIN params /\ params[i].state \in Promoted
<1>1. Private(c) /\ SeenWasCanonical(c)
  BY DEF IInv, PrivateUntilPromoted
<1>2. CASE seen[c] # None /\ i = seen[c].id
  BY <1>1, <1>2 DEF SeenWasCanonical, WasCanonical
<1>3. CASE /\ pc[c] \in {"recordSubmitted", "supersede", "recordSuperseded"}
           /\ params[c].prev # None /\ i = params[c].prev
  <2>1. c \in DOMAIN params BY <1>1, <1>3 DEF Private, NoRowYet
  <2>2. InChain(c) BY <2>1 DEF IInv, VersionChain
  <2>3. QED BY <1>3, <2>2 DEF InChain
<1>4. QED BY <1>2, <1>3 DEF EndsRow

\* A call's step keeps what calls hold younger than what they have written.
LEMMA OwnStep ==
  ASSUME IInv, ClockInv, \A d \in Calls : OwnIsOlder(d), NEW c \in Calls, CallStep(c),
         NEW d \in Calls
  PROVE  OwnIsOlder(d)'
<1>1. Stamps(c) BY CallTimes
<1>2. SUFFICES ASSUME Has(d)', pc'[d] \in Stamped \ {"create", "recordRevoked"},
                      NEW e \in events', e.writer = d
               PROVE  occurredAt'[e] <= stamp'[d]
  BY DEF OwnIsOlder
<1>3. d # c BY <1>1, <1>2 DEF Stamps, Has
<1>4. e \in events BY <1>1, <1>2, <1>3 DEF Stamps, Appends
<1>5. pc'[d] = pc[d] /\ stamp'[d] = stamp[d] /\ occurredAt'[e] = occurredAt[e]
  BY <1>1, <1>3, <1>4 DEF Stamps
<1>6. QED BY <1>2, <1>4, <1>5 DEF OwnIsOlder, Has

\* The row a call will end is the one it found, until it looks again.
LEMMA EndsSame ==
  ASSUME IInv, ClockInv, NEW c \in Calls, CallStep(c), NEW d \in Calls, NEW i \in Ids,
         EndsRow(d, i)', d # c \/ pc'[c] \notin Stamped
  PROVE  EndsRow(d, i)
<1>1. Stamps(c) /\ (Arrive(c) \/ Step(c)) BY CallTimes DEF CallStep
<1>2. Private(d) BY DEF IInv, PrivateUntilPromoted
<1>3. CASE d # c
  <2>1. pc'[d] = pc[d] /\ seen'[d] = seen[d] BY <1>1, <1>3 DEF Stamps
  <2>2. pc[d] \in {"recordSubmitted", "supersede", "recordSuperseded"} =>
          d \in DOMAIN params
    BY <1>2 DEF Private, NoRowYet
  <2>3. d \in DOMAIN params => params'[d].prev = params[d].prev
    BY <1>1, RowsKept
  <2>4. QED BY <2>1, <2>2, <2>3 DEF EndsRow
<1>4. CASE d = c /\ pc'[c] \notin Stamped
  <2>1. /\ pc'[c] \in {"recordSubmitted", "supersede", "recordSuperseded"}
        /\ params'[c].prev # None /\ i = params'[c].prev
    BY <1>4 DEF EndsRow, Stamped
  <2>2. pc'[c] \in Successors(pc[c]) BY <1>1, <2>1, Flow
  <2>3. pc[c] \in {"create", "recordSubmitted", "supersede"}
    <3>1. pc[c] \in Labels BY DEF IInv, TypeOK
    <3>2. QED BY <2>1, <2>2, <3>1 DEF Successors, Labels
  <2>4. CASE pc[c] = "create"
    <3>1. SubmitCreate(c)
      BY <1>1, <2>1, <2>4, CreatesAt
    <3>2. PICK out \in Outcomes :
            /\ CreateParameter(c, NewParameter(c), out)
            /\ IF out = "ok" THEN Goto(c, "recordSubmitted") ELSE Return(c, "internal")
      BY <3>1 DEF SubmitCreate
    <3>3. out = "ok"
      BY <2>1, <2>4, <3>2, Moves
    <3>4. params'[c] = NewParameter(c)
      BY <3>2, <3>3 DEF CreateParameter, Executed
    <3>5. seen[c] # None /\ i = seen[c].id
      BY <2>1, <3>4 DEF NewParameter
    <3>6. QED BY <1>4, <2>4, <3>5 DEF EndsRow
  <2>5. CASE pc[c] \in {"recordSubmitted", "supersede"}
    <3>1. c \in DOMAIN params
      BY <1>2, <1>4, <2>5 DEF Private, NoRowYet
    <3>2. params'[c].prev = params[c].prev BY <1>1, <3>1, RowsKept
    <3>3. QED BY <1>4, <2>1, <2>5, <3>2 DEF EndsRow
  <2>6. QED BY <2>3, <2>4, <2>5
<1>5. QED BY <1>3, <1>4

\* So the events of its way to CANONICAL are older than its end.
LEMMA EndsStep ==
  ASSUME IInv, ClockInv, \A d \in Calls : EndsLater(d), NEW c \in Calls, CallStep(c),
         NEW d \in Calls
  PROVE  EndsLater(d)'
<1>1. Stamps(c) BY CallTimes
<1>2. SUFFICES ASSUME NEW i \in Ids, Has(d)', EndsRow(d, i)', NEW e \in events',
                      e.writer = i, Stage(e) < 4
               PROVE  occurredAt'[e] <= stamp'[d]
  BY DEF EndsLater, Settled, Stage
<1>3. stamp'[d] # None BY <1>2 DEF Has
<1>4. d # c \/ pc'[c] \notin Stamped BY <1>1, <1>3 DEF Stamps
<1>5. EndsRow(d, i) BY <1>2, <1>4, EndsSame
<1>6. stamp'[d] = stamp[d] BY <1>1, <1>3 DEF Stamps
<1>7. Has(d)
  <2>1. pc[d] \in Holding BY <1>5 DEF EndsRow, Holding, Stamped
  <2>2. QED BY <1>3, <1>6, <2>1 DEF Has
<1>8. i \in DOMAIN params /\ params[i].state \in Promoted
  BY <1>5, EndsPromoted
<1>9. e \in events
  BY <1>1, <1>2, <1>8, EarlyNotPromoted DEF Stamps, Appends
<1>10. occurredAt[e] <= stamp[d]
  BY <1>2, <1>5, <1>7, <1>9 DEF EndsLater, Settled
<1>11. occurredAt'[e] = occurredAt[e]
  BY <1>1, <1>9 DEF Stamps
<1>12. QED BY <1>6, <1>10, <1>11

\* Two events that one step appends are one event.
LEMMA OneAppended ==
  ASSUME IInv, NEW c \in Calls, Arrive(c) \/ Step(c),
         NEW e \in events' \ events, NEW f \in events' \ events
  PROVE  e = f
BY AppendsOne

\* The stages of one row's events are in the order of their times.
LEMMA StagesStep ==
  ASSUME IInv, WritersInv, ClockInv, InTime, NEW c \in Calls, CallStep(c)
  PROVE  StagesInTime'
<1>1. Stamps(c) /\ (Arrive(c) \/ Step(c))
  BY CallTimes DEF CallStep
<1>2. SUFFICES ASSUME NEW e \in events', NEW f \in events',
                      e.parameter_id = f.parameter_id, Stage(e) < Stage(f)
               PROVE  occurredAt'[e] <= occurredAt'[f]
  BY DEF StagesInTime, Stage
<1>3. Stage(e) \in 1..4 /\ Stage(f) \in 1..4 BY DEF Stage
<1>4. Stage(e) < 4 BY <1>2, <1>3
<1>5. CASE e \in events /\ f \in events
  BY <1>1, <1>2, <1>5 DEF Stamps, InTime, StagesInTime
<1>6. CASE e \notin events /\ f \notin events
  BY <1>1, <1>2, <1>3, <1>6, OneAppended
<1>7. CASE e \in events /\ f \notin events
  <2>1. /\ Appends(c, f) /\ occurredAt'[f] = stamp[c] /\ Has(c)
        /\ occurredAt'[e] = occurredAt[e]
    BY <1>1, <1>7 DEF Stamps
  <2>2. e.parameter_id = e.writer BY <1>4, <1>7, EarlyIsOwn
  <2>3. e.event_type \in Written(pc[e.writer]) BY <1>7 DEF WritersInv
  <2>4. SeenWasCanonical(c) /\ OwnIsOlder(c) /\ EndsLater(c)
    BY DEF IInv, InTime
  <2>5. CASE f.parameter_id = c /\ f.event_type \notin Foreign
    <3>1. e.writer = c BY <1>2, <2>2, <2>5
    <3>2. pc[c] # "recordSubmitted"
      BY <2>3, <3>1 DEF Written
    <3>3. occurredAt[e] <= stamp[c]
      BY <1>7, <2>1, <2>4, <2>5, <3>1, <3>2 DEF Appends, OwnIsOlder, Foreign, Stamped
    <3>4. QED BY <2>1, <3>3
  <2>6. CASE EndsRow(c, f.parameter_id) /\ f.parameter_id \in Ids
    <3>1. Settled(f.parameter_id, stamp[c])
      BY <2>1, <2>4, <2>6 DEF EndsLater
    <3>2. occurredAt[e] <= stamp[c]
      BY <1>2, <1>4, <1>7, <2>2, <3>1 DEF Settled
    <3>3. QED BY <2>1, <3>2
  <2>7. f.event_type \in Foreign => EndsRow(c, f.parameter_id)
    BY <2>1, <2>4 DEF Appends, Foreign, EndsRow, SeenWasCanonical
  <2>8. f.parameter_id \in Ids
    <3>1. f.parameter_id \in DOMAIN params
      BY <1>1, <1>7 DEF Stamps, AboutARow
    <3>2. QED BY <3>1 DEF IInv, TypeOK, StoreTypeOK
  <2>9. f.event_type \notin Foreign => f.parameter_id = c
    BY <2>1 DEF Appends, Foreign
  <2>10. QED BY <2>5, <2>6, <2>7, <2>8, <2>9
<1>8. CASE e \notin events /\ f \in events
  <2>1. Appends(c, e) /\ AboutARow(f)
    BY <1>1, <1>8 DEF Stamps, WritersInv
  <2>2. e.parameter_id = c
    BY <1>4, <2>1 DEF Appends, Stage
  <2>3. f.event_type \notin Foreign /\ f.writer = c
    BY <1>2, <1>4, <2>1, <2>2, EarlyNotPromoted DEF AboutARow
  <2>4. f.event_type \in Written(pc[c])
    BY <1>8, <2>3 DEF WritersInv
  <2>5. Stage(e) >= Stage(f)
    BY <1>4, <2>1, <2>3, <2>4 DEF Appends, Written, Stage, Foreign
  <2>6. QED BY <1>2, <1>3, <2>5
<1>9. QED BY <1>5, <1>6, <1>7, <1>8

\* TimeInv is preserved by every call's step.
LEMMA TimeStep ==
  ASSUME IInv, WritersInv, TimeInv, NEW c \in Calls, CallStep(c)
  PROVE  TimeInv'
<1>1. ClockInv /\ ClockInv' BY ClockStep DEF TimeInv
<1>2. ASSUME InTime PROVE InTime'
  <2>1. NothingLater' BY <1>1, <1>2, LaterStep DEF InTime
  <2>2. \A d \in Calls : OwnIsOlder(d)' BY <1>1, <1>2, OwnStep DEF InTime
  <2>3. \A d \in Calls : EndsLater(d)' BY <1>1, <1>2, EndsStep DEF InTime
  <2>4. StagesInTime' BY <1>1, <1>2, StagesStep
  <2>5. QED BY <2>1, <2>2, <2>3, <2>4 DEF InTime
<1>3. QED BY <1>1, <1>2 DEF TimeInv

\* And when a call reads the clock.
LEMMA ReadStep ==
  ASSUME WritersInv, TimeInv, NEW c \in Calls, ReadClock(c)
  PROVE  WritersInv' /\ TimeInv'
<1>1. /\ UNCHANGED <<params, events, pc, seen, occurredAt>>
      /\ pc[c] \in Stamped
  BY DEF ReadClock, vars
<1>2. PICK t \in Times :
        /\ SetBack \/ clock <= t
        /\ stamp' = [stamp EXCEPT ![c] = t]
        /\ clock' = IF clock <= t THEN t ELSE clock
  BY DEF ReadClock
<1>3. /\ clock \in Nat /\ t \in Nat /\ t # None
      /\ stamp \in [Calls -> Times \cup {None}]
      /\ occurredAt \in [events -> Times] /\ Times \subseteq Nat
  BY TimesAssumption DEF TimeInv, ClockInv
<1>4. WritersInv' BY <1>1 DEF WritersInv, AboutARow
<1>5. /\ stamp'[c] = t /\ stamp' \in [Calls -> Times \cup {None}]
      /\ \A d \in Calls \ {c} : stamp'[d] = stamp[d]
  BY <1>2, <1>3
<1>6. ClockInv'
  BY <1>1, <1>2, <1>3, <1>5 DEF TimeInv, ClockInv
<1>7. ASSUME ~SetBack, InTime PROVE InTime'
  <2>1. clock <= t /\ clock' = t BY <1>2, <1>7
  <2>2. /\ \A d \in Calls : stamp[d] # None => stamp[d] <= clock
        /\ \A e \in events : occurredAt[e] <= clock
    BY <1>7 DEF InTime, NothingLater
  <2>3. \A e \in events : occurredAt'[e] = occurredAt[e] /\ occurredAt[e] <= t
    <3>1. \A e \in events : occurredAt[e] \in Nat BY <1>3
    <3>2. QED BY <1>1, <1>3, <2>1, <2>2, <3>1
  <2>4. NothingLater'
    <3>1. ASSUME NEW d \in Calls, stamp'[d] # None PROVE stamp'[d] <= t
      <4>1. CASE d = c BY <1>3, <1>5, <4>1
      <4>2. CASE d # c
        <5>1. stamp'[d] = stamp[d] /\ stamp[d] \in Nat /\ stamp[d] <= clock
          BY <1>3, <1>5, <2>2, <3>1, <4>2
        <5>2. QED BY <1>3, <2>1, <5>1
      <4>3. QED BY <4>1, <4>2
    <3>2. QED BY <1>1, <2>1, <2>3, <3>1 DEF NothingLater
  <2>5. ASSUME NEW d \in Calls PROVE OwnIsOlder(d)'
    <3>1. CASE d = c BY <1>1, <1>5, <2>3, <3>1 DEF OwnIsOlder
    <3>2. CASE d # c
      BY <1>1, <1>5, <1>7, <2>3, <3>2 DEF InTime, OwnIsOlder, Has
    <3>3. QED BY <3>1, <3>2
  <2>6. ASSUME NEW d \in Calls PROVE EndsLater(d)'
    <3>1. CASE d = c
      BY <1>1, <1>5, <2>3, <3>1 DEF EndsLater, Settled, Stage
    <3>2. CASE d # c
      <4>1. EndsLater(d) /\ stamp'[d] = stamp[d]
        BY <1>5, <1>7, <3>2 DEF InTime
      <4>2. QED BY <1>1, <2>3, <4>1 DEF EndsLater, EndsRow, Settled, Has, Stage
    <3>3. QED BY <3>1, <3>2
  <2>7. StagesInTime' BY <1>1, <1>7 DEF InTime, StagesInTime
  <2>8. QED BY <2>4, <2>5, <2>6, <2>7 DEF InTime
<1>8. QED BY <1>4, <1>6, <1>7 DEF TimeInv

\* Steps that call nobody change none of it.
LEMMA TrailStays ==
  ASSUME WritersInv, TimeInv, UNCHANGED <<params, events, callVars, timeVars>>
  PROVE  WritersInv' /\ TimeInv'
<1>1. UNCHANGED <<params, events, pc, seen, clock, stamp, occurredAt>>
  BY DEF callVars, timeVars
<1>2. WritersInv' BY <1>1 DEF WritersInv, AboutARow
<1>3. ClockInv' BY <1>1 DEF TimeInv, ClockInv
<1>4. ASSUME InTime PROVE InTime'
  <2>1. NothingLater' BY <1>1, <1>4 DEF InTime, NothingLater
  <2>2. \A c \in Calls : OwnIsOlder(c)'
    BY <1>1, <1>4 DEF InTime, OwnIsOlder, Has
  <2>3. \A c \in Calls : EndsLater(c)'
    BY <1>1, <1>4 DEF InTime, EndsLater, EndsRow, Settled, Has, Stage
  <2>4. StagesInTime' BY <1>1, <1>4 DEF InTime, StagesInTime
  <2>5. QED BY <2>1, <2>2, <2>3, <2>4 DEF InTime
<1>5. QED BY <1>2, <1>3, <1>4 DEF TimeInv

\* TrailInv is inductive.
LEMMA TrailStep ==
  ASSUME TrailInv, [ReadersNext]_allVars PROVE TrailInv'
<1>1. [Next]_vars BY ServerSteps
<1>2. IInv' /\ AuditInv' BY <1>1, NextInv, NextAudit DEF TrailInv
<1>3. CASE \E c \in Calls : CallStep(c)
  <2>1. PICK c \in Calls : CallStep(c) BY <1>3
  <2>2. WritersInv' BY <2>1, WritersStep DEF TrailInv, CallStep
  <2>3. TimeInv' BY <2>1, TimeStep DEF TrailInv
  <2>4. QED BY <1>2, <2>2, <2>3 DEF TrailInv
<1>4. CASE \E c \in Calls : ReadClock(c)
  BY <1>2, <1>4, ReadStep DEF TrailInv
<1>5. CASE UNCHANGED <<params, events, callVars, timeVars>>
  BY <1>2, <1>5, TrailStays DEF TrailInv
<1>6. CASE ExpireStep
  BY <1>5, <1>6 DEF ExpireStep, Expire
<1>7. CASE \E r \in Clients : ReaderStep(r)
  BY <1>5, <1>7 DEF ReaderStep, vars, callVars, timeVars
<1>8. CASE UNCHANGED allVars
  BY <1>5, <1>8 DEF allVars, vars, callVars, timeVars
<1>9. QED BY <1>3, <1>4, <1>6, <1>7, <1>8 DEF ReadersNext

\* Nothing was written yet.
LEMMA TrailInit == ReadersInit => TrailInv
<1> SUFFICES ASSUME ReadersInit PROVE TrailInv
  OBVIOUS
<1>1. IInv /\ AuditInv BY InitInv, InitAudit DEF ReadersInit
<1>2. /\ events = {} /\ clock = 0 /\ stamp = [c \in Calls |-> None]
      /\ occurredAt = [e \in {} |-> 0]
      /\ \A c \in Calls : pc[c] = "idle"
  BY DEF ReadersInit, Init, StoreInit
<1>3. WritersInv BY <1>2, FS_EmptySet DEF WritersInv
<1>4. ClockInv BY <1>2 DEF ClockInv, Holding, Stamped
<1>5. \A c \in Calls : OwnIsOlder(c) /\ EndsLater(c)
  BY <1>2 DEF OwnIsOlder, EndsLater, Has
<1>6. NothingLater /\ StagesInTime BY <1>2 DEF NothingLater, StagesInTime
<1>7. QED BY <1>1, <1>3, <1>4, <1>5, <1>6 DEF TrailInv, TimeInv, InTime

(***************************************************************************)
(* TrailInTime: TrailInv is an invariant of the composition: every event   *)
(* names its writer and a row, no call writes two of a type, and, if no    *)
(* clock is set back, the stages of a row are recorded in the order of     *)
(* their times, ties apart, whoever wrote them: every call takes its time  *)
(* after the events it must not be older than were recorded, and stores it *)
(* any number of other calls' steps later.                                 *)
(***************************************************************************)
THEOREM TrailInTime == ReadersSpec => []TrailInv
<1>1. TrailInv /\ [ReadersNext]_allVars => TrailInv' BY TrailStep
<1>2. QED BY <1>1, TrailInit, PTL DEF ReadersSpec
=============================================================================
