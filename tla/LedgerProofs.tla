---------------------------- MODULE LedgerProofs ----------------------------
(***************************************************************************)
(* Proofs, for any number of calls, names, watchers and any feed capacity, *)
(* of the safety properties of module LedgerSafety that speak of rows,     *)
(* cache entries and replies.                                              *)
(***************************************************************************)
EXTENDS LedgerInvariant, TLAPS

USE DEF Calls

-----------------------------------------------------------------------------
(* What one step of call c may do to the rest of the state *)

\* Other calls' variables and other rows' columns stay; a promoted row stays
\* promoted; the only new row is c's own; a request stays once it has a row.
StepOf(c) ==
  /\ \A d \in Calls \ {c} :
       pc'[d] = pc[d] /\ req'[d] = req[d] /\ seen'[d] = seen[d] /\ reply'[d] = reply[d]
  /\ DOMAIN params \subseteq DOMAIN params'
  /\ DOMAIN params' \subseteq DOMAIN params \cup {c}
  /\ \A i \in DOMAIN params :
       /\ req'[i] = req[i]
       /\ params'[i].name = params[i].name
       /\ params'[i].version = params[i].version
       /\ params'[i].prev = params[i].prev
       /\ params[i].state \in Promoted => params'[i].state \in Promoted
       /\ \/ params'[i].state = params[i].state
          \/ i = c
          \/ params[i].state \in Promoted

\* A row that was canonical once stays so.
LEMMA WasCanonicalStable ==
  ASSUME NEW c \in Calls, StepOf(c), NEW i, WasCanonical(i)
  PROVE  WasCanonical(i)'
BY DEF StepOf, WasCanonical

(***************************************************************************)
(* Frame: to show that a step of call c preserves IInv it is enough to     *)
(* look at c, at c's row and at the cache entries the step writes.         *)
(***************************************************************************)
LEMMA Frame ==
  ASSUME IInv, NEW c \in Calls, StepOf(c), TypeOK',
         Private(c)', Owned(c)', SeenWasCanonical(c)',
         c \in DOMAIN params' => InChain(c)',
         \A k \in CacheKeys :
           cache'[k] = cache[k] \/ cache'[k] = None \/ CachedWasCanonical(k)'
  PROVE  IInv'
<1>1. PrivateUntilPromoted'
  <2> SUFFICES ASSUME NEW d \in Calls, d # c PROVE Private(d)'
    BY DEF PrivateUntilPromoted
  <2>1. Private(d) BY DEF IInv, PrivateUntilPromoted
  <2>2. pc'[d] = pc[d] /\ (d \in DOMAIN params' <=> d \in DOMAIN params)
    BY DEF StepOf
  <2>3. d \in DOMAIN params =>
          \/ params'[d].state = params[d].state
          \/ params[d].state \in Promoted /\ params'[d].state \in Promoted
    BY DEF StepOf
  <2>4. \A l \in Labels : OwnStates(l) \cap Promoted # {} => OwnStates(l) = Promoted
    BY DEF OwnStates, Promoted, Labels
  <2>5. pc[d] \in Labels BY DEF IInv, TypeOK
  <2>6. QED BY <2>1, <2>2, <2>3, <2>4, <2>5 DEF Private
<1>2. \A d \in Calls : Owned(d)'
  <2> SUFFICES ASSUME NEW d \in Calls, d # c PROVE Owned(d)'
    OBVIOUS
  <2>1. Owned(d) BY DEF IInv
  <2>2. QED BY <2>1 DEF StepOf, Owned
<1>3. \A d \in Calls : SeenWasCanonical(d)'
  <2> SUFFICES ASSUME NEW d \in Calls, d # c PROVE SeenWasCanonical(d)'
    OBVIOUS
  <2>1. SeenWasCanonical(d) BY DEF IInv
  <2>2. /\ pc'[d] = pc[d] /\ req'[d] = req[d]
        /\ seen'[d] = seen[d] /\ reply'[d] = reply[d]
    BY DEF StepOf
  <2>3. seen[d] # None =>
          /\ WasCanonical(seen[d].id)'
          /\ params'[seen[d].id].name = params[seen[d].id].name
    BY <2>1, WasCanonicalStable DEF SeenWasCanonical, StepOf, WasCanonical
  <2>4. d \in DOMAIN params =>
          d \in DOMAIN params' /\ params'[d].prev = params[d].prev
    BY DEF StepOf
  <2>5. (seen[d] # None => WasCanonical(seen[d].id))'
    BY <2>2, <2>3
  <2>6. QED BY <2>1, <2>2, <2>3, <2>4, <2>5 DEF SeenWasCanonical
<1>4. VersionChain'
  <2> SUFFICES ASSUME NEW i \in DOMAIN params', i # c PROVE InChain(i)'
    BY DEF VersionChain
  <2>1. i \in DOMAIN params /\ InChain(i)
    BY DEF IInv, VersionChain, StepOf
  <2>2. QED BY <2>1 DEF StepOf, InChain
<1>5. \A k \in CacheKeys : CachedWasCanonical(k)'
  <2> SUFFICES ASSUME NEW k \in CacheKeys, cache'[k] = cache[k]
               PROVE  CachedWasCanonical(k)'
    BY DEF CachedWasCanonical
  <2>1. CachedWasCanonical(k) BY DEF IInv
  <2>2. cache[k] # None =>
          /\ WasCanonical(cache[k].id)'
          /\ params'[cache[k].id].name = params[cache[k].id].name
    BY <2>1, WasCanonicalStable DEF CachedWasCanonical, StepOf, WasCanonical
  <2>3. (cache[k] # None => WasCanonical(cache[k].id))'
    BY <2>2
  <2>4. QED BY <2>1, <2>2, <2>3 DEF CachedWasCanonical, cacheKey
<1>6. QED BY <1>1, <1>2, <1>3, <1>4, <1>5 DEF IInv

-----------------------------------------------------------------------------
(* Steps that write neither a row nor a cache entry *)

\* The handlers of the feed are typed; a step that leaves them alone is too.
LEMMA WatchUnchanged ==
  ASSUME WatchTypeOK, UNCHANGED watchVars
  PROVE  WatchTypeOK'
BY DEF WatchTypeOK, watchVars

(***************************************************************************)
(* RowlessStep: a step of c that leaves rows and requests alone preserves  *)
(* IInv if IInv holds of c where it arrives and of the cache entries it    *)
(* wrote.  QuietStep is the case where it wrote none.                      *)
(***************************************************************************)
LEMMA RowlessStep ==
  ASSUME IInv, NEW c \in Calls, NEW l \in Labels, NEW r \in Replies,
         NEW s \in Snapshot \cup {None},
         UNCHANGED <<params, req>>,
         events' \subseteq LedgerEvent, WatchTypeOK', CacheTypeOK',
         \A k \in CacheKeys :
           cache'[k] = cache[k] \/ cache'[k] = None \/ CachedWasCanonical(k)',
         pc' = [pc EXCEPT ![c] = l],
         reply' = [reply EXCEPT ![c] = r],
         seen' = [seen EXCEPT ![c] = s],
         Private(c)', Owned(c)', SeenWasCanonical(c)'
  PROVE  IInv'
<1>1. StepOf(c)
  BY DEF StepOf, IInv, TypeOK
<1>2. TypeOK'
  BY DEF IInv, TypeOK, StoreTypeOK
<1>3. c \in DOMAIN params' => InChain(c)'
  BY DEF IInv, VersionChain, InChain
<1>4. QED BY <1>1, <1>2, <1>3, Frame

\* The case of RowlessStep that writes no cache entry.
LEMMA QuietStep ==
  ASSUME IInv, NEW c \in Calls, NEW l \in Labels, NEW r \in Replies,
         NEW s \in Snapshot \cup {None},
         UNCHANGED <<params, cache, req>>,
         events' \subseteq LedgerEvent, WatchTypeOK',
         pc' = [pc EXCEPT ![c] = l],
         reply' = [reply EXCEPT ![c] = r],
         seen' = [seen EXCEPT ![c] = s],
         Private(c)', Owned(c)', SeenWasCanonical(c)'
  PROVE  IInv'
<1>1. CacheTypeOK' BY DEF IInv, TypeOK, CacheTypeOK
<1>2. QED BY <1>1, RowlessStep

\* A call may return an error from anywhere.
LEMMA ReturnsError ==
  ASSUME IInv, NEW c \in Calls, pc[c] # "idle",
         UNCHANGED <<params, cache, req, seen>>,
         events' \subseteq LedgerEvent, WatchTypeOK',
         NEW r \in Replies \ {"ok"}, Return(c, r)
  PROVE  IInv'
<1>1. /\ pc' = [pc EXCEPT ![c] = "done"] /\ pc'[c] = "done"
      /\ reply' = [reply EXCEPT ![c] = r] /\ reply'[c] = r
      /\ seen' = [seen EXCEPT ![c] = seen[c]]
      /\ seen[c] \in Snapshot \cup {None}
  BY DEF Return, IInv, TypeOK
<1>2. Private(c)'
  BY <1>1 DEF Private, NoRowYet
<1>3. Owned(c)'
  BY <1>1 DEF Owned, Accepted, IInv
<1>4. SeenWasCanonical(c)'
  BY <1>1 DEF SeenWasCanonical, WasCanonical, IInv
<1>5. "done" \in Labels BY DEF Labels
<1>6. QED BY <1>1, <1>2, <1>3, <1>4, <1>5, QuietStep

\* A call may go on to a label whose claims about its row already hold.
LEMMA GoesOn ==
  ASSUME IInv, NEW c \in Calls, pc[c] # "idle",
         UNCHANGED <<params, cache, req, seen>>,
         events' \subseteq LedgerEvent, WatchTypeOK',
         NEW l \in Labels, Goto(c, l),
         Private(c)', Owned(c)', SeenWasCanonical(c)'
  PROVE  IInv'
<1>1. /\ pc' = [pc EXCEPT ![c] = l]
      /\ reply' = [reply EXCEPT ![c] = reply[c]]
      /\ seen' = [seen EXCEPT ![c] = seen[c]]
      /\ seen[c] \in Snapshot \cup {None} /\ reply[c] \in Replies
  BY DEF Goto, IInv, TypeOK
<1>2. QED BY <1>1, QuietStep

-----------------------------------------------------------------------------
(* AppendEvent *)

\* Whatever its outcome, AppendEvent leaves a table of well-formed events.
LEMMA EventsTyped ==
  ASSUME IInv, NEW c \in Calls, NEW i \in Ids, NEW t \in LedgerEventType,
         NEW f \in ParameterState \cup {None}, NEW s \in ParameterState, NEW out,
         AppendEvent([writer |-> c, parameter_id |-> i, event_type |-> t,
                      from_state |-> f, to_state |-> s], out)
  PROVE  events' \subseteq LedgerEvent
BY DEF AppendEvent, LedgerEvent, IInv, TypeOK, StoreTypeOK

\* A Submit call that records a transition of its row, and goes on or gives up.
LEMMA RecordsOwn ==
  ASSUME IInv, NEW c \in Calls, pc[c] \notin NoRowYet \cup {"done"},
         UNCHANGED <<params, cache, watchVars, req, seen>>,
         events' \subseteq LedgerEvent,
         NEW l \in Labels \ (NoRowYet \cup {"done", "fill", "broadcast"}),
         Goto(c, l) \/ Return(c, "internal"),
         OwnStates(pc[c]) \subseteq OwnStates(l),
         l \in Accepted => Valid(req[c]),
         l \in {"supersede", "recordSuperseded"} => params[c].prev # None
  PROVE  IInv'
<1>1. WatchTypeOK' BY WatchUnchanged DEF IInv, TypeOK
<1>2. pc[c] # "idle" BY DEF NoRowYet
<1>3. CASE Return(c, "internal")
  <2>1. "internal" \in Replies \ {"ok"} BY DEF Replies
  <2>2. QED BY <1>1, <1>2, <1>3, <2>1, ReturnsError
<1>4. CASE Goto(c, l)
  <2>1. pc'[c] = l /\ reply' = reply
    BY <1>4 DEF Goto, IInv, TypeOK
  <2>2. Private(c) /\ Owned(c) /\ SeenWasCanonical(c)
    BY DEF IInv, PrivateUntilPromoted
  <2>3. Private(c)' BY <2>1, <2>2 DEF Private
  <2>4. Owned(c)' BY <1>2, <2>1, <2>2 DEF Owned, NoRowYet
  <2>5. SeenWasCanonical(c)'
    BY <2>1, <2>2 DEF SeenWasCanonical, WasCanonical, Private, NoRowYet
  <2>6. QED BY <1>1, <1>2, <1>4, <2>3, <2>4, <2>5, GoesOn
<1>5. QED BY <1>3, <1>4

\* ledger.go:72-85
LEMMA SubmitRecordInv ==
  ASSUME IInv, NEW c \in Calls, SubmitRecord(c) PROVE IInv'
<1> DEFINE l == IF params[c].prev = None THEN "validate" ELSE "supersede"
<1>1. /\ pc[c] = "recordSubmitted"
      /\ UNCHANGED <<params, cache, watchVars, req, seen>>
      /\ Goto(c, l) \/ Return(c, "internal")
  BY DEF SubmitRecord, Record
<1>2. events' \subseteq LedgerEvent
  BY EventsTyped DEF SubmitRecord, Record, LedgerEventType, ParameterState
<1>3. /\ pc[c] \notin NoRowYet \cup {"done"}
      /\ l \in Labels \ (NoRowYet \cup {"done", "fill", "broadcast"})
      /\ OwnStates(pc[c]) \subseteq OwnStates(l)
      /\ l \notin Accepted
      /\ l \in {"supersede", "recordSuperseded"} => params[c].prev # None
  BY <1>1 DEF NoRowYet, Labels, OwnStates, Accepted
<1>4. QED BY <1>1, <1>2, <1>3, RecordsOwn

\* ledger.go:90-100; the event names the row that was superseded.
LEMMA SupersedeRecordInv ==
  ASSUME IInv, NEW c \in Calls, SupersedeRecord(c) PROVE IInv'
<1>1. /\ pc[c] = "recordSuperseded"
      /\ UNCHANGED <<params, cache, watchVars, req, seen>>
      /\ Goto(c, "invalidate")
  BY DEF SupersedeRecord, Record
<1>2. params[c].prev \in Ids
  <2>1. c \in DOMAIN params /\ params[c].prev # None
    BY <1>1 DEF IInv, SeenWasCanonical
  <2>2. QED BY <2>1 DEF IInv, TypeOK, StoreTypeOK, Row
<1>3. events' \subseteq LedgerEvent
  BY <1>2, EventsTyped DEF SupersedeRecord, Record, LedgerEventType, ParameterState
<1>4. /\ pc[c] \notin NoRowYet \cup {"done"}
      /\ "invalidate" \in Labels \ (NoRowYet \cup {"done", "fill", "broadcast"})
      /\ OwnStates(pc[c]) \subseteq OwnStates("invalidate")
      /\ "invalidate" \notin Accepted
  BY <1>1 DEF NoRowYet, Labels, OwnStates, Accepted
<1>5. QED BY <1>1, <1>3, <1>4, RecordsOwn

\* quorum.go:35-40
LEMMA ValidateRecordInv ==
  ASSUME IInv, NEW c \in Calls, ValidateRecord(c) PROVE IInv'
<1> DEFINE l == IF Valid(req[c]) THEN "await" ELSE "reject"
<1>1. /\ pc[c] = "recordValidated"
      /\ UNCHANGED <<params, cache, watchVars, req, seen>>
      /\ Goto(c, l) \/ Return(c, "internal")
  BY DEF ValidateRecord, Record
<1>2. events' \subseteq LedgerEvent
  BY EventsTyped DEF ValidateRecord, Record, LedgerEventType, ParameterState
<1>3. /\ pc[c] \notin NoRowYet \cup {"done"}
      /\ l \in Labels \ (NoRowYet \cup {"done", "fill", "broadcast"})
      /\ OwnStates(pc[c]) \subseteq OwnStates(l)
      /\ l \in Accepted => Valid(req[c])
      /\ l \notin {"supersede", "recordSuperseded"}
  BY <1>1 DEF NoRowYet, Labels, OwnStates, Accepted
<1>4. QED BY <1>1, <1>2, <1>3, RecordsOwn

\* quorum.go:42-44
LEMMA RejectRecordInv ==
  ASSUME IInv, NEW c \in Calls, RejectRecord(c) PROVE IInv'
<1>1. /\ pc[c] = "recordRejected"
      /\ UNCHANGED <<params, cache, watchVars, req, seen>>
      /\ Return(c, "internal")
  BY DEF RejectRecord, Record
<1>2. events' \subseteq LedgerEvent
  BY EventsTyped DEF RejectRecord, Record, LedgerEventType, ParameterState
<1>3. WatchTypeOK' BY <1>1, WatchUnchanged DEF IInv, TypeOK
<1>4. "internal" \in Replies \ {"ok"} BY DEF Replies
<1>5. QED BY <1>1, <1>2, <1>3, <1>4, ReturnsError

\* quorum.go:50-52
LEMMA ConsensusRecordInv ==
  ASSUME IInv, NEW c \in Calls, ConsensusRecord(c) PROVE IInv'
<1>1. /\ pc[c] = "recordConsensus"
      /\ UNCHANGED <<params, cache, watchVars, req, seen>>
      /\ Goto(c, "promote") \/ Return(c, "internal")
  BY DEF ConsensusRecord, Record
<1>2. events' \subseteq LedgerEvent
  BY EventsTyped DEF ConsensusRecord, Record, LedgerEventType, ParameterState
<1>3. /\ pc[c] \notin NoRowYet \cup {"done"}
      /\ "promote" \in Labels \ (NoRowYet \cup {"done", "fill", "broadcast"})
      /\ OwnStates(pc[c]) \subseteq OwnStates("promote")
      /\ pc[c] \in Accepted
  BY <1>1 DEF NoRowYet, Labels, OwnStates, Accepted
<1>4. Valid(req[c]) BY <1>3 DEF IInv, Owned
<1>5. QED BY <1>1, <1>2, <1>3, <1>4, RecordsOwn

\* quorum.go:57-59
LEMMA PromoteRecordInv ==
  ASSUME IInv, NEW c \in Calls, PromoteRecord(c) PROVE IInv'
<1>1. /\ pc[c] = "recordPromoted"
      /\ UNCHANGED <<params, cache, watchVars, req, seen>>
      /\ Goto(c, "refresh") \/ Return(c, "internal")
  BY DEF PromoteRecord, Record
<1>2. events' \subseteq LedgerEvent
  BY EventsTyped DEF PromoteRecord, Record, LedgerEventType, ParameterState
<1>3. /\ pc[c] \notin NoRowYet \cup {"done"}
      /\ "refresh" \in Labels \ (NoRowYet \cup {"done", "fill", "broadcast"})
      /\ OwnStates(pc[c]) \subseteq OwnStates("refresh")
      /\ pc[c] \in Accepted
  BY <1>1 DEF NoRowYet, Labels, OwnStates, Accepted
<1>4. Valid(req[c]) BY <1>3 DEF IInv, Owned
<1>5. QED BY <1>1, <1>2, <1>3, <1>4, RecordsOwn

\* ledger.go:162-174; the event names the row that Revoke has read.
LEMMA RevokeRecordInv ==
  ASSUME IInv, NEW c \in Calls, RevokeRecord(c) PROVE IInv'
<1>1. /\ pc[c] = "recordRevoked"
      /\ UNCHANGED <<params, cache, watchVars, req, seen>>
      /\ Goto(c, "drop") \/ Return(c, "internal")
  BY DEF RevokeRecord, Record
<1>2. seen[c] # None /\ seen[c].id \in Ids
  <2>1. seen[c] # None BY <1>1 DEF IInv, SeenWasCanonical
  <2>2. QED BY <2>1 DEF IInv, TypeOK, Snapshot
<1>3. events' \subseteq LedgerEvent
  BY <1>2, EventsTyped DEF RevokeRecord, Record, LedgerEventType, ParameterState
<1>4. WatchTypeOK' BY <1>1, WatchUnchanged DEF IInv, TypeOK
<1>5. CASE Return(c, "internal")
  <2>1. "internal" \in Replies \ {"ok"} BY DEF Replies
  <2>2. QED BY <1>1, <1>3, <1>4, <1>5, <2>1, ReturnsError
<1>6. CASE Goto(c, "drop")
  <2>1. pc'[c] = "drop" /\ reply' = reply
    BY <1>6 DEF Goto, IInv, TypeOK
  <2>2. Private(c) /\ Owned(c) /\ SeenWasCanonical(c)
    BY DEF IInv, PrivateUntilPromoted
  <2>3. Private(c)' BY <1>1, <2>1, <2>2 DEF Private, NoRowYet
  <2>4. Owned(c)' BY <1>1, <2>1, <2>2 DEF Owned, Accepted
  <2>5. SeenWasCanonical(c)'
    BY <1>1, <1>2, <2>1, <2>2 DEF SeenWasCanonical, WasCanonical
  <2>6. "drop" \in Labels BY DEF Labels
  <2>7. QED BY <1>1, <1>3, <1>4, <1>6, <2>3, <2>4, <2>5, <2>6, GoesOn
<1>7. QED BY <1>1, <1>5, <1>6

-----------------------------------------------------------------------------
(* Arrivals and reads *)

\* handler.go: a call that arrives has no row yet.
LEMMA ArriveInv ==
  ASSUME IInv, NEW c \in Calls, Arrive(c) PROVE IInv'
<1>1. PICK op \in {"submit", "get", "revoke"},
           first \in {"lookup", "hit", "find"} :
        Handle(c, op, first) /\ (first = "lookup" => op = "submit")
  BY DEF Arrive, Submit, Get, Revoke
<1>2. /\ pc[c] = "idle"
      /\ UNCHANGED <<params, events, cache, watchVars, seen>>
  BY <1>1 DEF Handle
<1>3. PICK r \in Requests :
        /\ r.op = op
        /\ req' = [req EXCEPT ![c] = r]
        /\ Return(c, "invalid_argument") \/ Goto(c, first)
  BY <1>1 DEF Handle
<1>4. /\ req'[c] = r /\ req'[c] # None
      /\ pc'[c] \in {"done", "lookup", "hit", "find"}
      /\ pc'[c] = "lookup" => req'[c].op = "submit"
      /\ reply'[c] \in {reply[c], "invalid_argument"}
  BY <1>1, <1>3, RequestsAssumption, NoRequestAssumption
  DEF IInv, TypeOK, Goto, Return
<1>5. Private(c) /\ Owned(c) /\ SeenWasCanonical(c) /\ c \notin DOMAIN params
  BY <1>2 DEF IInv, PrivateUntilPromoted, Private, NoRowYet
<1>6. Private(c)' BY <1>2, <1>4, <1>5 DEF Private, NoRowYet
<1>7. Owned(c)' BY <1>2, <1>4, <1>5 DEF Owned, Accepted
<1>8. StepOf(c)
  BY <1>2, <1>3, <1>5 DEF StepOf, IInv, TypeOK, StoreTypeOK, Goto, Return
<1>9. SeenWasCanonical(c)'
  <2>1. (seen[c] # None => WasCanonical(seen[c].id))'
    BY <1>2, <1>5, <1>8, WasCanonicalStable DEF SeenWasCanonical
  <2>2. QED BY <1>2, <1>4, <1>5, <2>1 DEF SeenWasCanonical
<1>10. TypeOK'
  <2>1. WatchTypeOK' BY <1>2, WatchUnchanged DEF IInv, TypeOK
  <2>2. StoreTypeOK' /\ CacheTypeOK'
    BY <1>2 DEF IInv, TypeOK, StoreTypeOK, CacheTypeOK
  <2>3. QED
    BY <1>2, <1>3, <2>1, <2>2 DEF IInv, TypeOK, Goto, Return, Labels, Replies
<1>11. c \in DOMAIN params' => InChain(c)'
  BY <1>2, <1>5
<1>12. QED BY <1>2, <1>6, <1>7, <1>8, <1>9, <1>10, <1>11, Frame

\* What GetParameter returns is a canonical row of the name it was asked for.
LEMMA FoundIsCanonical ==
  ASSUME IInv, NEW n, NEW i \in GetParameter(n)
  PROVE  /\ i \in Ids /\ WasCanonical(i) /\ params[i].name = n
         /\ ScanParameter(i) \in Snapshot
         /\ ScanParameter(i).id = i /\ ScanParameter(i).state = "CANONICAL"
<1>1. i \in DOMAIN params /\ params[i].name = n /\ params[i].state = "CANONICAL"
  BY DEF GetParameter, CanonicalRows
<1>2. i \in Ids /\ Valid(req[i])
  BY <1>1 DEF IInv, TypeOK, StoreTypeOK, Owned, Promoted
<1>3. QED
  BY <1>1, <1>2 DEF WasCanonical, Promoted, ScanParameter, Snapshot, ParameterState

\* A call that read a canonical row by name and goes on with it.
LEMMA ReadsCanonical ==
  ASSUME IInv, NEW c \in Calls, pc[c] \in NoRowYet \ {"idle"},
         UNCHANGED <<params, events, cache, watchVars, req>>,
         NEW i \in GetParameter(req[c].name),
         seen' = [seen EXCEPT ![c] = ScanParameter(i)],
         NEW l \in {"create", "refill", "revoke"}, Goto(c, l),
         l = "create" => pc[c] = "lookup"
  PROVE  IInv'
<1>1. /\ i \in Ids /\ WasCanonical(i) /\ params[i].name = req[c].name
      /\ ScanParameter(i) \in Snapshot
      /\ ScanParameter(i).id = i /\ ScanParameter(i).state = "CANONICAL"
  BY FoundIsCanonical
<1>2. /\ pc' = [pc EXCEPT ![c] = l] /\ pc'[c] = l
      /\ reply' = [reply EXCEPT ![c] = reply[c]] /\ reply[c] \in Replies
      /\ seen'[c] = ScanParameter(i) /\ seen'[c] # None
  BY <1>1, NoSnapshotAssumption DEF Goto, IInv, TypeOK
<1>3. Private(c) /\ Owned(c) /\ SeenWasCanonical(c)
  BY DEF IInv, PrivateUntilPromoted
<1>4. Private(c)' BY <1>2, <1>3 DEF Private, NoRowYet
<1>5. Owned(c)' BY <1>2, <1>3 DEF Owned, Accepted
<1>6. SeenWasCanonical(c)'
  <2>1. reply'[c] # "ok" BY <1>2, <1>3 DEF SeenWasCanonical, NoRowYet
  <2>2. QED BY <1>1, <1>2, <2>1 DEF SeenWasCanonical, WasCanonical
<1>7. WatchTypeOK' BY WatchUnchanged DEF IInv, TypeOK
<1>8. l \in Labels /\ events' \subseteq LedgerEvent
  BY DEF Labels, IInv, TypeOK, StoreTypeOK
<1>9. QED BY <1>1, <1>2, <1>4, <1>5, <1>6, <1>7, <1>8, QuietStep

\* ledger.go:34-45
LEMMA SubmitLookupInv ==
  ASSUME IInv, NEW c \in Calls, SubmitLookup(c) PROVE IInv'
<1>1. /\ pc[c] = "lookup"
      /\ UNCHANGED <<params, events, cache, watchVars, req>>
  BY DEF SubmitLookup
<1>2. /\ WatchTypeOK' /\ events' \subseteq LedgerEvent
      /\ Private(c) /\ Owned(c) /\ SeenWasCanonical(c)
  BY <1>1, WatchUnchanged
  DEF IInv, TypeOK, StoreTypeOK, PrivateUntilPromoted
<1>3. CASE \E i \in GetParameter(req[c].name) :
             seen' = [seen EXCEPT ![c] = ScanParameter(i)] /\ Goto(c, "create")
  BY <1>1, <1>3, ReadsCanonical DEF NoRowYet
<1>4. CASE UNCHANGED seen /\ seen[c] = None /\ Goto(c, "create")
  <2>1. pc'[c] = "create" /\ reply' = reply
    BY <1>4 DEF Goto, IInv, TypeOK
  <2>2. Private(c)' BY <1>1, <1>2, <2>1 DEF Private, NoRowYet
  <2>3. Owned(c)' BY <1>1, <1>2, <2>1 DEF Owned, Accepted
  <2>4. SeenWasCanonical(c)'
    BY <1>1, <1>2, <1>4, <2>1 DEF SeenWasCanonical
  <2>5. QED BY <1>1, <1>2, <1>4, <2>2, <2>3, <2>4, GoesOn DEF Labels
<1>5. CASE UNCHANGED seen /\ (Return(c, "panic") \/ Return(c, "internal"))
  <2>1. {"panic", "internal"} \subseteq Replies \ {"ok"} BY DEF Replies
  <2>2. QED BY <1>1, <1>2, <1>5, <2>1, ReturnsError
<1>6. seen[c] = None BY <1>1, <1>2 DEF SeenWasCanonical
<1>7. QED BY <1>3, <1>4, <1>5, <1>6 DEF SubmitLookup

\* store.GetParameter in Get and Revoke: ledger.go:140-143, 155-158.
LEMMA FindInv ==
  ASSUME IInv, NEW c \in Calls, GetLoad(c) \/ RevokeFind(c) PROVE IInv'
<1>1. PICK at \in {"load", "find"}, l \in {"refill", "revoke"} : Find(c, at, l)
  BY DEF GetLoad, RevokeFind
<1>2. /\ pc[c] = at
      /\ UNCHANGED <<params, events, cache, watchVars, req>>
  BY <1>1 DEF Find
<1>3. CASE \E i \in GetParameter(req[c].name) :
             seen' = [seen EXCEPT ![c] = ScanParameter(i)] /\ Goto(c, l)
  BY <1>2, <1>3, ReadsCanonical DEF NoRowYet
<1>4. CASE UNCHANGED seen /\ (Return(c, "not_found") \/ Return(c, "internal"))
  <2>1. {"not_found", "internal"} \subseteq Replies \ {"ok"} BY DEF Replies
  <2>2. WatchTypeOK' /\ events' \subseteq LedgerEvent
    BY <1>2, WatchUnchanged DEF IInv, TypeOK, StoreTypeOK
  <2>3. QED BY <1>2, <1>4, <2>1, <2>2, ReturnsError
<1>5. QED BY <1>1, <1>3, <1>4 DEF Find

\* ledger.go:136-139
LEMMA GetHitInv ==
  ASSUME IInv, NEW c \in Calls, GetHit(c) PROVE IInv'
<1>1. PICK out \in Outcomes : LET p == GetCanonical(req[c].name, out) IN
        /\ seen' = [seen EXCEPT ![c] = p]
        /\ IF p # None THEN Return(c, "ok") ELSE Goto(c, "load")
  BY DEF GetHit
<1> DEFINE p == GetCanonical(req[c].name, out)
           k == cacheKey(req[c].name)
<1>2. /\ pc[c] = "hit"
      /\ UNCHANGED <<params, events, cache, watchVars, req>>
  BY DEF GetHit
<1>3. Private(c) /\ Owned(c) /\ SeenWasCanonical(c)
  BY DEF IInv, PrivateUntilPromoted
<1>4. req[c] # None /\ req[c].name \in Names
  BY <1>2, <1>3, RequestsAssumption DEF Owned, IInv, TypeOK, Request
<1>5. k \in CacheKeys BY <1>4 DEF CacheKeys
<1>6. /\ p \in Snapshot \cup {None}
      /\ p # None => WasCanonical(p.id)
  BY <1>5 DEF GetCanonical, IInv, TypeOK, CacheTypeOK, CachedWasCanonical
<1>7. WatchTypeOK' /\ events' \subseteq LedgerEvent
  BY <1>2, WatchUnchanged DEF IInv, TypeOK, StoreTypeOK
<1> HIDE DEF p
<1>8. PICK l \in Labels, r \in Replies :
        /\ pc' = [pc EXCEPT ![c] = l]
        /\ reply' = [reply EXCEPT ![c] = r]
        /\ \/ l = "load" /\ p = None /\ r = reply[c]
           \/ l = "done" /\ p # None /\ r = "ok"
  <2>1. CASE p # None
    <3>1. Return(c, "ok") BY <1>1, <2>1 DEF p
    <3>2. QED BY <2>1, <3>1 DEF Return, Labels, Replies
  <2>2. CASE p = None
    <3>1. Goto(c, "load") BY <1>1, <2>2 DEF p
    <3>2. reply[c] \in Replies /\ reply' = [reply EXCEPT ![c] = reply[c]]
      BY <3>1 DEF Goto, IInv, TypeOK
    <3>3. QED BY <2>2, <3>1, <3>2 DEF Goto, Labels
  <2>3. QED BY <2>1, <2>2
<1>9. seen' = [seen EXCEPT ![c] = p] BY <1>1 DEF p
<1>10. pc'[c] = l /\ reply'[c] = r /\ seen'[c] = p
  BY <1>8, <1>9 DEF IInv, TypeOK
<1>11. Private(c)' BY <1>2, <1>3, <1>8, <1>10 DEF Private, NoRowYet
<1>12. Owned(c)' BY <1>2, <1>3, <1>8, <1>10 DEF Owned, Accepted
<1>13. SeenWasCanonical(c)'
  <2>1. reply[c] # "ok" BY <1>2, <1>3 DEF SeenWasCanonical
  <2>2. QED BY <1>2, <1>6, <1>8, <1>10, <2>1 DEF SeenWasCanonical, WasCanonical
<1>14. QED
  BY <1>2, <1>6, <1>7, <1>8, <1>9, <1>11, <1>12, <1>13, QuietStep

\* ledger.go:111-115: Submit reads its row back, or answers what it believes.
LEMMA SubmitRefreshInv ==
  ASSUME IInv, NEW c \in Calls, SubmitRefresh(c) PROVE IInv'
<1>1. /\ pc[c] = "refresh"
      /\ UNCHANGED <<params, events, cache, watchVars, req>>
  BY DEF SubmitRefresh
<1>2. Private(c) /\ Owned(c) /\ SeenWasCanonical(c)
  BY DEF IInv, PrivateUntilPromoted
<1>3. c \in DOMAIN params /\ params[c].state \in Promoted
  BY <1>1, <1>2 DEF Private, NoRowYet, OwnStates
<1>4. WasCanonical(c) BY <1>2, <1>3 DEF Owned, WasCanonical
<1>5. PICK l \in {"fill", "broadcast", "done"}, r \in Replies, s \in Snapshot :
        /\ pc' = [pc EXCEPT ![c] = l]
        /\ reply' = [reply EXCEPT ![c] = r]
        /\ seen' = [seen EXCEPT ![c] = s]
        /\ s.id = c
        /\ l = "fill" => s.state = "CANONICAL"
        /\ r = "ok" => l = "done"
  <2>1. ScanParameter(c) \in Snapshot /\ [id |-> c, state |-> "CANONICAL"] \in Snapshot
    BY <1>3 DEF ScanParameter, Snapshot, IInv, TypeOK, StoreTypeOK, Row, ParameterState
  <2>2. reply[c] \in Replies /\ reply[c] # "ok" /\ reply = [reply EXCEPT ![c] = reply[c]]
    BY <1>1, <1>2 DEF SeenWasCanonical, IInv, TypeOK
  <2>3. CASE /\ seen' = [seen EXCEPT ![c] = ScanParameter(c)]
             /\ Goto(c, IF params[c].state = "CANONICAL" THEN "fill" ELSE "broadcast")
    BY <2>1, <2>2, <2>3 DEF ScanParameter, Goto
  <2>4. CASE /\ seen' = [seen EXCEPT ![c] = [id |-> c, state |-> "CANONICAL"]]
             /\ Return(c, "ok")
    BY <2>1, <2>4 DEF Return, Replies
  <2>5. QED BY <2>3, <2>4 DEF SubmitRefresh
<1>6. pc'[c] = l /\ reply'[c] = r /\ seen'[c] = s /\ s # None
  BY <1>5, NoSnapshotAssumption DEF IInv, TypeOK
<1>7. Private(c)'
  BY <1>1, <1>3, <1>6 DEF Private, NoRowYet, OwnStates
<1>8. Owned(c)' BY <1>1, <1>2, <1>6 DEF Owned, Accepted
<1>9. SeenWasCanonical(c)'
  BY <1>1, <1>4, <1>5, <1>6 DEF SeenWasCanonical, WasCanonical
<1>10. WatchTypeOK' /\ events' \subseteq LedgerEvent
  BY <1>1, WatchUnchanged DEF IInv, TypeOK, StoreTypeOK
<1>11. l \in Labels BY DEF Labels
<1>12. QED
  BY <1>1, <1>5, <1>7, <1>8, <1>9, <1>10, <1>11, QuietStep

\* ledger.go:121-133: the channel takes the event only while it has room.
LEMMA SubmitBroadcastInv ==
  ASSUME IInv, NEW c \in Calls, SubmitBroadcast(c) PROVE IInv'
<1> DEFINE e == [parameter_id |-> seen[c].id, to_state |-> seen[c].state]
<1>1. /\ pc[c] = "broadcast" /\ Broadcast(e) /\ Return(c, "ok")
      /\ UNCHANGED <<params, events, cache, req, seen>>
  BY DEF SubmitBroadcast
<1>2. Private(c) /\ Owned(c) /\ SeenWasCanonical(c)
  BY DEF IInv, PrivateUntilPromoted
<1>3. seen[c] # None /\ seen[c] \in Snapshot \cup {None}
  BY <1>1, <1>2 DEF SeenWasCanonical, IInv, TypeOK
<1>4. e \in FeedEvent BY <1>3 DEF FeedEvent, Snapshot
<1>5. WatchTypeOK'
  <2> HIDE DEF e
  <2>1. Len(feed) < FeedCap =>
          Append(feed, e) \in Seq(FeedEvent) /\ Len(Append(feed, e)) <= FeedCap
    BY <1>4, FeedCapAssumption DEF IInv, TypeOK, WatchTypeOK
  <2>2. QED BY <1>1, <2>1 DEF Broadcast, IInv, TypeOK, WatchTypeOK
<1>6. /\ pc' = [pc EXCEPT ![c] = "done"] /\ pc'[c] = "done"
      /\ reply' = [reply EXCEPT ![c] = "ok"] /\ reply'[c] = "ok"
      /\ seen' = [seen EXCEPT ![c] = seen[c]]
  BY <1>1 DEF Return, IInv, TypeOK
<1>7. Private(c)' BY <1>6 DEF Private, NoRowYet
<1>8. Owned(c)' BY <1>1, <1>2, <1>6 DEF Owned, Accepted
<1>9. SeenWasCanonical(c)'
  BY <1>1, <1>2, <1>3, <1>6 DEF SeenWasCanonical, WasCanonical
<1>10. "done" \in Labels /\ "ok" \in Replies /\ events' \subseteq LedgerEvent
  BY <1>1 DEF Labels, Replies, IInv, TypeOK, StoreTypeOK
<1>11. QED
  BY <1>1, <1>3, <1>5, <1>6, <1>7, <1>8, <1>9, <1>10, QuietStep

-----------------------------------------------------------------------------
(* Cache writes *)

\* SetCanonical stores a parameter that was canonical under its own key.
LEMMA CacheFilled ==
  ASSUME IInv, NEW p \in Snapshot, WasCanonical(p.id), p.state = "CANONICAL",
         NEW out, SetCanonical(p, out), UNCHANGED <<params, req>>
  PROVE  /\ CacheTypeOK'
         /\ \A k \in CacheKeys : cache'[k] = cache[k] \/ CachedWasCanonical(k)'
<1> DEFINE own == cacheKey(params[p.id].name)
<1>1. own \in CacheKeys
  BY DEF WasCanonical, CacheKeys, IInv, TypeOK, StoreTypeOK, Row
<1>2. cache' = cache \/ cache' = [cache EXCEPT ![own] = p]
  BY DEF SetCanonical
<1>3. cacheKey(params'[p.id].name) = own /\ WasCanonical(p.id)'
  BY DEF WasCanonical
<1> HIDE DEF own
<1>4. CacheTypeOK' BY <1>1, <1>2 DEF IInv, TypeOK, CacheTypeOK
<1>5. ASSUME NEW k \in CacheKeys
      PROVE  cache'[k] = cache[k] \/ CachedWasCanonical(k)'
  <2>1. cache'[k] = cache[k] \/ (k = own /\ cache'[k] = p)
    BY <1>1, <1>2 DEF IInv, TypeOK, CacheTypeOK
  <2>2. QED BY <1>3, <2>1 DEF CachedWasCanonical, cacheKey, WasCanonical
<1>6. QED BY <1>4, <1>5

\* InvalidateCanonical can only remove an entry.
LEMMA CacheDropped ==
  ASSUME IInv, NEW n \in Names, NEW out, InvalidateCanonical(n, out)
  PROVE  /\ CacheTypeOK'
         /\ \A k \in CacheKeys : cache'[k] = cache[k] \/ cache'[k] = None
<1>1. cacheKey(n) \in CacheKeys BY DEF CacheKeys
<1>2. QED BY <1>1 DEF InvalidateCanonical, IInv, TypeOK, CacheTypeOK

\* ledger.go:117-119 and 144: the cache is filled with the row read before.
LEMMA FillInv ==
  ASSUME IInv, NEW c \in Calls, SubmitFill(c) \/ GetRefill(c) PROVE IInv'
<1>1. /\ pc[c] \in {"fill", "refill"}
      /\ UNCHANGED <<params, events, watchVars, req, seen>>
  BY DEF SubmitFill, GetRefill
<1>2. PICK out : SetCanonical(seen[c], out)
  BY DEF SubmitFill, GetRefill
<1>3. Private(c) /\ Owned(c) /\ SeenWasCanonical(c)
  BY DEF IInv, PrivateUntilPromoted
<1>4. /\ seen[c] # None /\ seen[c] \in Snapshot
      /\ WasCanonical(seen[c].id) /\ seen[c].state = "CANONICAL"
  BY <1>1, <1>3 DEF SeenWasCanonical, IInv, TypeOK
<1>5. /\ CacheTypeOK'
      /\ \A k \in CacheKeys : cache'[k] = cache[k] \/ CachedWasCanonical(k)'
  BY <1>1, <1>2, <1>4, CacheFilled
<1>6. reply[c] \in Replies /\ reply[c] # "ok"
  BY <1>1, <1>3 DEF SeenWasCanonical, IInv, TypeOK
<1>7. PICK l \in Labels, r \in Replies :
        /\ pc' = [pc EXCEPT ![c] = l]
        /\ reply' = [reply EXCEPT ![c] = r]
        /\ \/ pc[c] = "fill" /\ l = "broadcast" /\ r = reply[c]
           \/ pc[c] = "refill" /\ l = "done" /\ r = "ok"
  <2>1. CASE SubmitFill(c)
    <3>1. /\ pc[c] = "fill" /\ pc' = [pc EXCEPT ![c] = "broadcast"]
          /\ reply' = [reply EXCEPT ![c] = reply[c]]
      BY <2>1 DEF SubmitFill, Goto, IInv, TypeOK
    <3>2. QED BY <1>6, <3>1 DEF Labels
  <2>2. CASE GetRefill(c)
    BY <2>2 DEF GetRefill, Return, Labels, Replies
  <2>3. QED BY <2>1, <2>2
<1>8. pc'[c] = l /\ reply'[c] = r
  BY <1>7 DEF IInv, TypeOK
<1>9. Private(c)' BY <1>1, <1>3, <1>7, <1>8 DEF Private, NoRowYet, OwnStates
<1>10. Owned(c)' BY <1>1, <1>3, <1>7, <1>8 DEF Owned, Accepted
<1>11. SeenWasCanonical(c)'
  BY <1>1, <1>3, <1>4, <1>6, <1>7, <1>8 DEF SeenWasCanonical, WasCanonical
<1>12. /\ WatchTypeOK' /\ events' \subseteq LedgerEvent
       /\ seen' = [seen EXCEPT ![c] = seen[c]]
  BY <1>1, WatchUnchanged DEF IInv, TypeOK, StoreTypeOK
<1>13. QED
  BY <1>1, <1>4, <1>5, <1>7, <1>9, <1>10, <1>11, <1>12, RowlessStep

\* ledger.go:101
LEMMA SupersedeInvalidateInv ==
  ASSUME IInv, NEW c \in Calls, SupersedeInvalidate(c) PROVE IInv'
<1>1. /\ pc[c] = "invalidate" /\ Goto(c, "validate")
      /\ UNCHANGED <<params, events, watchVars, req, seen>>
  BY DEF SupersedeInvalidate
<1>2. PICK out : InvalidateCanonical(req[c].name, out)
  BY DEF SupersedeInvalidate
<1>3. Private(c) /\ Owned(c) /\ SeenWasCanonical(c)
  BY DEF IInv, PrivateUntilPromoted
<1>4. req[c].name \in Names
  BY <1>1, <1>3, RequestsAssumption DEF Owned, IInv, TypeOK, Request
<1>5. /\ CacheTypeOK'
      /\ \A k \in CacheKeys : cache'[k] = cache[k] \/ cache'[k] = None
  BY <1>2, <1>4, CacheDropped
<1>6. /\ pc' = [pc EXCEPT ![c] = "validate"] /\ pc'[c] = "validate"
      /\ reply' = [reply EXCEPT ![c] = reply[c]]
      /\ seen' = [seen EXCEPT ![c] = seen[c]]
      /\ reply[c] \in Replies /\ seen[c] \in Snapshot \cup {None}
  BY <1>1 DEF Goto, IInv, TypeOK
<1>7. Private(c)' BY <1>1, <1>3, <1>6 DEF Private, NoRowYet, OwnStates
<1>8. Owned(c)' BY <1>1, <1>3, <1>6 DEF Owned, Accepted
<1>9. SeenWasCanonical(c)'
  BY <1>1, <1>3, <1>6 DEF SeenWasCanonical, WasCanonical, Goto
<1>10. /\ WatchTypeOK' /\ events' \subseteq LedgerEvent /\ "validate" \in Labels
  BY <1>1, WatchUnchanged DEF IInv, TypeOK, StoreTypeOK, Labels
<1>11. QED
  BY <1>1, <1>5, <1>6, <1>7, <1>8, <1>9, <1>10, RowlessStep

\* ledger.go:175-177
LEMMA RevokeInvalidateInv ==
  ASSUME IInv, NEW c \in Calls, RevokeInvalidate(c) PROVE IInv'
<1>1. /\ pc[c] = "drop" /\ Return(c, "ok")
      /\ UNCHANGED <<params, events, watchVars, req>>
      /\ seen' = [seen EXCEPT ![c].state = "REVOKED"]
  BY DEF RevokeInvalidate
<1>2. PICK out : InvalidateCanonical(req[c].name, out)
  BY DEF RevokeInvalidate
<1>3. Private(c) /\ Owned(c) /\ SeenWasCanonical(c)
  BY DEF IInv, PrivateUntilPromoted
<1>4. req[c].name \in Names
  BY <1>1, <1>3, RequestsAssumption DEF Owned, IInv, TypeOK, Request
<1>5. /\ CacheTypeOK'
      /\ \A k \in CacheKeys : cache'[k] = cache[k] \/ cache'[k] = None
  BY <1>2, <1>4, CacheDropped
<1>6. seen[c] # None /\ seen[c] \in Snapshot /\ WasCanonical(seen[c].id)
  BY <1>1, <1>3 DEF SeenWasCanonical, IInv, TypeOK
<1> DEFINE s == [seen[c] EXCEPT !.state = "REVOKED"]
<1>7. s \in Snapshot /\ s.id = seen[c].id /\ s # None
  BY <1>6, NoSnapshotAssumption DEF Snapshot, ParameterState
<1>8. seen' = [seen EXCEPT ![c] = s] BY <1>1
<1> HIDE DEF s
<1>9. /\ pc' = [pc EXCEPT ![c] = "done"] /\ pc'[c] = "done"
      /\ reply' = [reply EXCEPT ![c] = "ok"]
      /\ seen'[c] = s
  BY <1>1, <1>8 DEF Return, IInv, TypeOK
<1>10. Private(c)' BY <1>9 DEF Private, NoRowYet
<1>11. Owned(c)' BY <1>1, <1>3, <1>9 DEF Owned, Accepted
<1>12. SeenWasCanonical(c)'
  BY <1>1, <1>6, <1>7, <1>9 DEF SeenWasCanonical, WasCanonical
<1>13. /\ WatchTypeOK' /\ events' \subseteq LedgerEvent
       /\ "done" \in Labels /\ "ok" \in Replies
  BY <1>1, WatchUnchanged DEF IInv, TypeOK, StoreTypeOK, Labels, Replies
<1>14. QED
  BY <1>1, <1>5, <1>7, <1>8, <1>9, <1>10, <1>11, <1>12, <1>13, RowlessStep

-----------------------------------------------------------------------------
(* Row writes *)

\* UpdateParameterState writes one column of one row, or nothing.
LEMMA StateUpdated ==
  ASSUME IInv, NEW i \in DOMAIN params, NEW s \in ParameterState, NEW out,
         UpdateParameterState(i, s, out)
  PROVE  /\ DOMAIN params' = DOMAIN params
         /\ params' \in [DOMAIN params' -> Row]
         /\ \A j \in DOMAIN params :
              /\ params'[j].name = params[j].name
              /\ params'[j].version = params[j].version
              /\ params'[j].prev = params[j].prev
              /\ j # i => params'[j].state = params[j].state
         /\ params'[i].state \in {params[i].state, s}
         /\ UpdateOk(i, s, out) => params'[i].state = s
<1>1. CASE params' = params
  BY <1>1 DEF IInv, TypeOK, StoreTypeOK, UpdateParameterState, UpdateOk, Executed, Row
<1>2. CASE params' = [params EXCEPT ![i].state = s]
  <2>1. params[i] \in Row /\ params' = [params EXCEPT ![i] = [params[i] EXCEPT !.state = s]]
    BY <1>2 DEF IInv, TypeOK, StoreTypeOK
  <2>2. [params[i] EXCEPT !.state = s] \in Row
    BY <2>1 DEF Row
  <2>3. QED BY <2>1, <2>2 DEF IInv, TypeOK, StoreTypeOK, Row
<1>3. QED BY <1>1, <1>2 DEF UpdateParameterState

(***************************************************************************)
(* UpdatesRow: a call that updates its own unpromoted row, or revokes a    *)
(* promoted one, preserves IInv if IInv holds of the call where it goes.   *)
(***************************************************************************)
LEMMA UpdatesRow ==
  ASSUME IInv, NEW c \in Calls, NEW i \in DOMAIN params, NEW s \in ParameterState,
         \/ i = c /\ params[i].state \notin Promoted
         \/ params[i].state \in Promoted /\ s \in Promoted,
         NEW out, UpdateParameterState(i, s, out),
         UNCHANGED <<events, cache, watchVars, req, seen>>,
         NEW l \in Labels, NEW r \in Replies,
         pc' = [pc EXCEPT ![c] = l], reply' = [reply EXCEPT ![c] = r],
         Private(c)', Owned(c)',
         l \notin {"create", "fill", "broadcast", "refill"},
         l \in {"idle", "lookup"} => seen[c] = None,
         l \in {"revoke", "recordRevoked", "drop"} => seen[c] # None,
         l \in {"supersede", "recordSuperseded"} =>
           c \in DOMAIN params /\ params[c].prev # None,
         r # "ok"
  PROVE  IInv'
<1>1. /\ DOMAIN params' = DOMAIN params
      /\ params' \in [DOMAIN params' -> Row]
      /\ \A j \in DOMAIN params :
           /\ params'[j].name = params[j].name
           /\ params'[j].version = params[j].version
           /\ params'[j].prev = params[j].prev
           /\ j # i => params'[j].state = params[j].state
      /\ params'[i].state \in {params[i].state, s}
  BY StateUpdated
<1>2. StepOf(c)
  BY <1>1 DEF StepOf, IInv, TypeOK, StoreTypeOK
<1>3. TypeOK'
  <2>1. WatchTypeOK' BY WatchUnchanged DEF IInv, TypeOK
  <2>2. StoreTypeOK' BY <1>1 DEF IInv, TypeOK, StoreTypeOK
  <2>3. QED BY <2>1, <2>2 DEF IInv, TypeOK, CacheTypeOK
<1>4. SeenWasCanonical(c)'
  <2>1. pc'[c] = l /\ reply'[c] = r BY DEF IInv, TypeOK
  <2>2. (seen[c] # None => WasCanonical(seen[c].id))'
    BY <1>2, WasCanonicalStable DEF IInv, SeenWasCanonical
  <2>3. c \in DOMAIN params => c \in DOMAIN params' /\ params'[c].prev = params[c].prev
    BY <1>1
  <2>4. QED BY <2>1, <2>2, <2>3 DEF SeenWasCanonical
<1>5. c \in DOMAIN params' => InChain(c)'
  BY <1>1, <1>2 DEF IInv, VersionChain, InChain, StepOf
<1>6. QED BY <1>2, <1>3, <1>4, <1>5, Frame
\* ledger.go:47-70: the new row continues the chain of the row that was read.
LEMMA SubmitCreateInv ==
  ASSUME IInv, NEW c \in Calls, SubmitCreate(c) PROVE IInv'
<1> DEFINE row == NewParameter(c)
<1>1. /\ pc[c] = "create"
      /\ UNCHANGED <<events, cache, watchVars, req, seen>>
  BY DEF SubmitCreate
<1>2. PICK out \in Outcomes :
        /\ CreateParameter(c, row, out)
        /\ IF out = "ok" THEN Goto(c, "recordSubmitted") ELSE Return(c, "internal")
  BY DEF SubmitCreate
<1>3. Private(c) /\ Owned(c) /\ SeenWasCanonical(c) /\ c \notin DOMAIN params
  BY <1>1 DEF IInv, PrivateUntilPromoted, Private, NoRowYet
<1>4. req[c] # None /\ req[c].op = "submit" /\ req[c].name \in Names
  BY <1>1, <1>3, RequestsAssumption DEF Owned, IInv, TypeOK, Request
<1>5. seen[c] # None =>
        /\ seen[c].id \in DOMAIN params /\ params[seen[c].id] \in Row
        /\ params[seen[c].id].state \in Promoted
        /\ params[seen[c].id].name = req[c].name
        /\ seen[c].id \in Ids /\ seen[c].id # c
  BY <1>1, <1>3 DEF SeenWasCanonical, WasCanonical, IInv, TypeOK, StoreTypeOK
<1>6. /\ row \in Row /\ row.name = req[c].name /\ row.state = "SUBMITTED"
      /\ seen[c] = None => row.prev = None /\ row.version = 1
      /\ seen[c] # None => /\ row.prev = seen[c].id /\ row.prev # None
                           /\ row.version = params[row.prev].version + 1
  <2>1. CASE seen[c] = None
    BY <1>4, <2>1 DEF NewParameter, Row, ParameterState
  <2>2. CASE seen[c] # None
    <3>1. row = [name |-> req[c].name, version |-> params[seen[c].id].version + 1,
                 prev |-> seen[c].id, state |-> "SUBMITTED"]
      BY <2>2 DEF NewParameter
    <3>2. params[seen[c].id].version \in Nat BY <1>5, <2>2 DEF Row
    <3>3. QED BY <1>4, <1>5, <2>2, <3>1, <3>2, NoneAssumption DEF Row, ParameterState
  <2>3. QED BY <2>1, <2>2
<1> HIDE DEF row
<1>7. PICK l \in {"recordSubmitted", "done"}, r \in Replies \ {"ok"} :
        /\ pc' = [pc EXCEPT ![c] = l] /\ pc'[c] = l
        /\ reply' = [reply EXCEPT ![c] = r] /\ reply'[c] = r
        /\ l = "recordSubmitted" => out = "ok"
  <2>1. reply[c] \in Replies \ {"ok"} /\ reply = [reply EXCEPT ![c] = reply[c]]
    BY <1>1, <1>3 DEF SeenWasCanonical, IInv, TypeOK
  <2>2. CASE out = "ok"
    BY <1>2, <2>1, <2>2 DEF Goto, IInv, TypeOK
  <2>3. CASE out # "ok"
    BY <1>2, <2>3 DEF Return, Replies, IInv, TypeOK
  <2>4. QED BY <2>2, <2>3
<1>8. \/ params' = params /\ l = "done"
      \/ params' = [j \in DOMAIN params \cup {c} |-> IF j = c THEN row ELSE params[j]]
  BY <1>2, <1>7 DEF CreateParameter, Executed
<1>9. CASE params' = params /\ l = "done"
  <2>1. /\ WatchTypeOK' /\ events' \subseteq LedgerEvent
    BY <1>1, WatchUnchanged DEF IInv, TypeOK, StoreTypeOK
  <2>2. Return(c, r) BY <1>7, <1>9 DEF Return
  <2>3. QED BY <1>1, <1>7, <1>9, <2>1, <2>2, ReturnsError
<1>10. CASE params' = [j \in DOMAIN params \cup {c} |-> IF j = c THEN row ELSE params[j]]
  <2>1. /\ DOMAIN params' = DOMAIN params \cup {c}
        /\ params'[c] = row
        /\ \A j \in DOMAIN params : params'[j] = params[j]
    BY <1>3, <1>10
  <2>2. StoreTypeOK'
    BY <1>1, <1>6, <2>1, <1>10 DEF IInv, TypeOK, StoreTypeOK
  <2>3. TypeOK'
    <3>1. WatchTypeOK' BY <1>1, WatchUnchanged DEF IInv, TypeOK
    <3>2. QED
      BY <1>1, <1>7, <2>2, <3>1 DEF IInv, TypeOK, CacheTypeOK, Labels
  <2>4. StepOf(c)
    BY <1>1, <1>7, <2>1 DEF StepOf, IInv, TypeOK, StoreTypeOK
  <2>5. Private(c)'
    BY <1>6, <1>7, <2>1 DEF Private, NoRowYet, OwnStates
  <2>6. Owned(c)'
    BY <1>1, <1>4, <1>6, <1>7, <2>1 DEF Owned, Accepted, Promoted
  <2>7. SeenWasCanonical(c)'
    <3>1. (seen[c] # None => WasCanonical(seen[c].id))'
      BY <1>1, <1>3, <2>4, WasCanonicalStable DEF SeenWasCanonical
    <3>2. QED BY <1>7, <3>1 DEF SeenWasCanonical
  <2>8. InChain(c)'
    BY <1>5, <1>6, <2>1 DEF InChain
  <2>9. QED BY <1>1, <2>3, <2>4, <2>5, <2>6, <2>7, <2>8, Frame
<1>11. QED BY <1>8, <1>9, <1>10

\* Where a call that updated a row goes, and what it has not answered yet.
LEMMA AfterUpdate ==
  ASSUME IInv, NEW c \in Calls, pc[c] # "done", NEW l \in Labels,
         Goto(c, l) \/ Return(c, "internal")
  PROVE  \E m \in {l, "done"}, r \in Replies \ {"ok"} :
           /\ pc' = [pc EXCEPT ![c] = m] /\ pc'[c] = m
           /\ reply' = [reply EXCEPT ![c] = r]
           /\ m # "done" => Goto(c, l)
<1>1. reply[c] \in Replies \ {"ok"} /\ reply = [reply EXCEPT ![c] = reply[c]]
  BY DEF SeenWasCanonical, IInv, TypeOK
<1>2. QED BY <1>1 DEF Goto, Return, Replies, IInv, TypeOK

\* quorum.go:32-34, 41, 47-49, 54-56: a call moves its own row forward.
LEMMA EvaluateUpdateInv ==
  ASSUME IInv, NEW c \in Calls, Validate(c) \/ Reject(c) \/ Await(c) \/ Promote(c)
  PROVE  IInv'
<1>1. PICK at \in {"validate", "reject", "await", "promote"},
           s \in ParameterState, l \in Labels, out \in Outcomes :
        /\ pc[c] = at
        /\ UpdateParameterState(c, s, out)
        /\ Goto(c, l) \/ Return(c, "internal")
        /\ (Goto(c, l) /\ at # "reject") => UpdateOk(c, s, out) \/ Return(c, "internal")
        /\ at = "validate" => s = "VALIDATING" /\ l = "recordValidated"
        /\ at = "reject" => s = "REJECTED" /\ l = "recordRejected"
        /\ at = "await" => s = "CONSENSUS_PENDING" /\ l = "recordConsensus"
        /\ at = "promote" => s = "CANONICAL" /\ l = "recordPromoted"
        /\ UNCHANGED <<events, cache, watchVars, req, seen>>
  <2>1. CASE Validate(c)
    BY <2>1 DEF Validate, Transition, ParameterState, Labels
  <2>2. CASE Reject(c)
    BY <2>2 DEF Reject, Transition, ParameterState, Labels
  <2>3. CASE Await(c)
    BY <2>3 DEF Await, Transition, ParameterState, Labels
  <2>4. CASE Promote(c)
    BY <2>4 DEF Promote, Transition, ParameterState, Labels
  <2>5. QED BY <2>1, <2>2, <2>3, <2>4
<1>2. Private(c) /\ Owned(c) /\ SeenWasCanonical(c)
  BY DEF IInv, PrivateUntilPromoted
<1>3. /\ c \in DOMAIN params /\ params[c].state \notin Promoted
      /\ params[c].state \in OwnStates(at)
  BY <1>1, <1>2 DEF Private, NoRowYet, OwnStates, Promoted
<1>4. /\ DOMAIN params' = DOMAIN params
      /\ params'[c].name = params[c].name
      /\ params'[c].state \in {params[c].state, s}
      /\ UpdateOk(c, s, out) => params'[c].state = s
  BY <1>1, <1>3, StateUpdated
<1>5. PICK m \in {l, "done"}, r \in Replies \ {"ok"} :
        /\ pc' = [pc EXCEPT ![c] = m] /\ pc'[c] = m
        /\ reply' = [reply EXCEPT ![c] = r]
        /\ m # "done" => Goto(c, l)
  BY <1>1, AfterUpdate
<1>6. m # "done" /\ at # "reject" => params'[c].state = s
  <2>1. m # "done" => ~Return(c, "internal")
    BY <1>5 DEF Return, IInv, TypeOK
  <2>2. QED BY <1>1, <1>4, <1>5, <2>1
<1>7. Private(c)'
  BY <1>1, <1>3, <1>4, <1>5, <1>6 DEF Private, NoRowYet, OwnStates, Promoted
<1>8. Owned(c)'
  BY <1>1, <1>2, <1>3, <1>4, <1>5 DEF Owned, Accepted, Promoted
<1>9. /\ m \notin {"create", "fill", "broadcast", "refill", "idle", "lookup"}
      /\ m \notin {"revoke", "recordRevoked", "drop", "supersede", "recordSuperseded"}
      /\ m \in Labels
  BY <1>1 DEF Labels
<1>10. QED
  BY <1>1, <1>3, <1>5, <1>7, <1>8, <1>9, UpdatesRow

\* ledger.go:89: the predecessor may be revoked already; it stays revoked.
LEMMA SupersedeInv ==
  ASSUME IInv, NEW c \in Calls, Supersede(c) PROVE IInv'
<1> DEFINE i == params[c].prev
<1>1. PICK out \in Outcomes :
        /\ pc[c] = "supersede"
        /\ UpdateParameterState(i, "REVOKED", out)
        /\ Goto(c, "recordSuperseded")
        /\ UNCHANGED <<events, cache, watchVars, req, seen>>
  BY DEF Supersede, Transition
<1>2. Private(c) /\ Owned(c) /\ SeenWasCanonical(c)
  BY DEF IInv, PrivateUntilPromoted
<1>3. c \in DOMAIN params /\ i # None /\ params[c].state = "SUBMITTED"
  BY <1>1, <1>2 DEF Private, NoRowYet, OwnStates, SeenWasCanonical
<1>4. i \in DOMAIN params /\ params[i].state \in Promoted /\ i # c
  BY <1>3 DEF IInv, VersionChain, InChain, Promoted
<1> HIDE DEF i
<1>5. /\ DOMAIN params' = DOMAIN params
      /\ params'[c].name = params[c].name
      /\ params'[c].state = params[c].state
  BY <1>1, <1>3, <1>4, StateUpdated DEF ParameterState
<1>6. /\ pc' = [pc EXCEPT ![c] = "recordSuperseded"] /\ pc'[c] = "recordSuperseded"
      /\ reply' = [reply EXCEPT ![c] = reply[c]] /\ reply[c] \in Replies \ {"ok"}
  BY <1>1, <1>2 DEF Goto, SeenWasCanonical, IInv, TypeOK
<1>7. Private(c)' BY <1>3, <1>5, <1>6 DEF Private, NoRowYet, OwnStates
<1>8. Owned(c)' BY <1>1, <1>2, <1>3, <1>5, <1>6 DEF Owned, Accepted
<1>9. /\ "REVOKED" \in ParameterState \cap Promoted /\ "recordSuperseded" \in Labels
      /\ params[c].prev # None
  BY <1>3 DEF ParameterState, Promoted, Labels, i
<1>10. QED
  BY <1>1, <1>3, <1>4, <1>6, <1>7, <1>8, <1>9, UpdatesRow

\* ledger.go:159-161: the row that was read may be revoked already.
LEMMA RevokeUpdateInv ==
  ASSUME IInv, NEW c \in Calls, RevokeUpdate(c) PROVE IInv'
<1> DEFINE i == seen[c].id
<1>1. PICK out \in Outcomes :
        /\ pc[c] = "revoke"
        /\ UpdateParameterState(i, "REVOKED", out)
        /\ Goto(c, "recordRevoked") \/ Return(c, "internal")
        /\ UNCHANGED <<events, cache, watchVars, req, seen>>
  BY DEF RevokeUpdate, Transition
<1>2. Private(c) /\ Owned(c) /\ SeenWasCanonical(c)
  BY DEF IInv, PrivateUntilPromoted
<1>3. seen[c] # None /\ i \in DOMAIN params /\ params[i].state \in Promoted
  BY <1>1, <1>2 DEF SeenWasCanonical, WasCanonical
<1> HIDE DEF i
<1>4. DOMAIN params' = DOMAIN params /\ c \notin DOMAIN params
  BY <1>1, <1>2, <1>3, StateUpdated DEF Private, NoRowYet, ParameterState
<1>5. "REVOKED" \in ParameterState \cap Promoted /\ "recordRevoked" \in Labels
      /\ "done" \in Labels
  BY DEF ParameterState, Promoted, Labels
<1>6. PICK m \in {"recordRevoked", "done"}, r \in Replies \ {"ok"} :
        /\ pc' = [pc EXCEPT ![c] = m] /\ pc'[c] = m
        /\ reply' = [reply EXCEPT ![c] = r]
  BY <1>1, <1>5, AfterUpdate
<1>7. Private(c)' BY <1>4, <1>6 DEF Private, NoRowYet
<1>8. Owned(c)' BY <1>1, <1>2, <1>4, <1>6 DEF Owned, Accepted
<1>9. QED
  BY <1>1, <1>3, <1>5, <1>6, <1>7, <1>8, UpdatesRow

-----------------------------------------------------------------------------
(* The rest of the next-state relation *)

\* A step that leaves the tables, the cache and the calls alone.
LEMMA IdleStep ==
  ASSUME IInv, UNCHANGED <<params, events, cache, callVars>>, WatchTypeOK'
  PROVE  IInv'
<1>1. TypeOK' BY DEF IInv, TypeOK, StoreTypeOK, CacheTypeOK, callVars
<1>2. PrivateUntilPromoted' /\ VersionChain'
  BY DEF IInv, PrivateUntilPromoted, Private, VersionChain, InChain, callVars
<1>3. \A c \in Calls : Owned(c)' /\ SeenWasCanonical(c)'
  BY DEF IInv, Owned, SeenWasCanonical, WasCanonical, callVars
<1>4. \A k \in CacheKeys : CachedWasCanonical(k)'
  BY DEF IInv, CachedWasCanonical, WasCanonical, cacheKey, callVars
<1>5. QED BY <1>1, <1>2, <1>3, <1>4 DEF IInv

\* handler.go:130-145: streams open, take, send and close.
LEMMA WatchStepInv ==
  ASSUME IInv, NEW w \in Watchers, WatchStep(w) PROVE IInv'
<1>1. WatchTypeOK BY DEF IInv, TypeOK
<1>2. CASE OpenWatch(w) \/ CloseWatch(w)
  <2>1. WatchTypeOK'
    BY <1>1, <1>2 DEF OpenWatch, CloseWatch, WatchTypeOK
  <2>2. QED BY <2>1, IdleStep DEF WatchStep
<1>3. CASE TakeEvent(w)
  <2>1. /\ Head(feed) \in FeedEvent /\ Tail(feed) \in Seq(FeedEvent)
        /\ Len(Tail(feed)) <= FeedCap
    BY <1>1, <1>3, FeedCapAssumption DEF TakeEvent, WatchTypeOK
  <2>2. WatchTypeOK'
    BY <1>1, <1>3, <2>1 DEF TakeEvent, WatchTypeOK
  <2>3. QED BY <2>2, IdleStep DEF WatchStep
<1>4. CASE SendEvent(w)
  <2>1. Append(got[w], held[w]) \in Seq(FeedEvent)
    BY <1>1, <1>4 DEF SendEvent, WatchTypeOK
  <2>2. WatchTypeOK'
    BY <1>1, <1>4, <2>1 DEF SendEvent, WatchTypeOK
  <2>3. QED BY <2>2, IdleStep DEF WatchStep
<1>5. QED BY <1>2, <1>3, <1>4 DEF WatchStep

\* canonicalTTL passes: an entry disappears.
LEMMA ExpireInv ==
  ASSUME IInv, NEW k \in CacheKeys, Expire(k) PROVE IInv'
<1>1. /\ UNCHANGED <<params, events, watchVars, callVars>>
      /\ cache' = [cache EXCEPT ![k] = None]
  BY DEF Expire, ExpireEntry
<1>2. TypeOK'
  <2>1. WatchTypeOK' BY <1>1, WatchUnchanged DEF IInv, TypeOK
  <2>2. QED BY <1>1, <2>1 DEF IInv, TypeOK, StoreTypeOK, CacheTypeOK, callVars
<1>3. PrivateUntilPromoted' /\ VersionChain'
  BY <1>1
  DEF IInv, PrivateUntilPromoted, Private, VersionChain, InChain, callVars
<1>4. \A c \in Calls : Owned(c)' /\ SeenWasCanonical(c)'
  BY <1>1 DEF IInv, Owned, SeenWasCanonical, WasCanonical, callVars
<1>5. ASSUME NEW h \in CacheKeys PROVE CachedWasCanonical(h)'
  <2>1. cache'[h] = cache[h] \/ cache'[h] = None
    BY <1>1 DEF IInv, TypeOK, CacheTypeOK
  <2>2. CachedWasCanonical(h) BY DEF IInv
  <2>3. QED BY <1>1, <2>1, <2>2
    DEF CachedWasCanonical, WasCanonical, cacheKey, callVars
<1>6. QED BY <1>2, <1>3, <1>4, <1>5 DEF IInv

\* The process dies between any two round trips.
LEMMA CrashInv ==
  ASSUME IInv, Crash PROVE IInv'
<1>1. /\ UNCHANGED <<params, events, cache, req, seen>>
      /\ pc' = [c \in Calls |-> IF c \in InFlight THEN "done" ELSE pc[c]]
      /\ reply' = [c \in Calls |-> IF c \in InFlight THEN "crashed" ELSE reply[c]]
      /\ LoseFeed
  BY DEF Crash
<1>2. TypeOK'
  <2>1. WatchTypeOK'
    BY <1>1, FeedCapAssumption DEF LoseFeed, WatchTypeOK, IInv, TypeOK
  <2>2. QED
    BY <1>1, <2>1
    DEF IInv, TypeOK, StoreTypeOK, CacheTypeOK, Labels, Replies
<1>3. ASSUME NEW c \in Calls
      PROVE  Private(c)' /\ Owned(c)' /\ SeenWasCanonical(c)'
  <2>1. Private(c) /\ Owned(c) /\ SeenWasCanonical(c)
    BY DEF IInv, PrivateUntilPromoted
  <2>2. CASE c \in InFlight
    <3>1. pc'[c] = "done" /\ reply'[c] = "crashed" /\ pc[c] # "idle"
      BY <1>1, <2>2 DEF InFlight
    <3>2. Private(c)' BY <3>1 DEF Private, NoRowYet
    <3>3. Owned(c)' BY <1>1, <2>1, <3>1 DEF Owned, Accepted
    <3>4. SeenWasCanonical(c)'
      BY <1>1, <2>1, <3>1 DEF SeenWasCanonical, WasCanonical
    <3>5. QED BY <3>2, <3>3, <3>4
  <2>3. CASE c \notin InFlight
    <3>1. pc'[c] = pc[c] /\ reply'[c] = reply[c] BY <1>1, <2>3
    <3>2. Private(c)' BY <1>1, <2>1, <3>1 DEF Private
    <3>3. Owned(c)' BY <1>1, <2>1, <3>1 DEF Owned
    <3>4. SeenWasCanonical(c)'
      BY <1>1, <2>1, <3>1 DEF SeenWasCanonical, WasCanonical
    <3>5. QED BY <3>2, <3>3, <3>4
  <2>4. QED BY <2>2, <2>3
<1>4. VersionChain' BY <1>1 DEF IInv, VersionChain, InChain
<1>5. \A k \in CacheKeys : CachedWasCanonical(k)'
  BY <1>1 DEF IInv, CachedWasCanonical, WasCanonical, cacheKey
<1>6. QED BY <1>2, <1>3, <1>4, <1>5 DEF IInv, PrivateUntilPromoted

\* Every step of a call preserves the invariant.
LEMMA StepInv ==
  ASSUME IInv, NEW c \in Calls, Step(c) PROVE IInv'
<1>1. CASE SubmitStep(c)
  BY <1>1, SubmitLookupInv, SubmitCreateInv, SubmitRecordInv, SupersedeInv,
     SupersedeRecordInv, SupersedeInvalidateInv, SubmitRefreshInv, FillInv,
     SubmitBroadcastInv
  DEF SubmitStep
<1>2. CASE EvaluateStep(c)
  BY <1>2, EvaluateUpdateInv, ValidateRecordInv, RejectRecordInv,
     ConsensusRecordInv, PromoteRecordInv
  DEF EvaluateStep
<1>3. CASE GetStep(c)
  BY <1>3, GetHitInv, FindInv, FillInv DEF GetStep
<1>4. CASE RevokeStep(c)
  BY <1>4, FindInv, RevokeUpdateInv, RevokeRecordInv, RevokeInvalidateInv
  DEF RevokeStep
<1>5. QED BY <1>1, <1>2, <1>3, <1>4 DEF Step

\* IInv is inductive.
LEMMA NextInv ==
  ASSUME IInv, [Next]_vars PROVE IInv'
<1>1. CASE \E c \in Calls : Arrive(c) \/ Step(c)
  BY <1>1, ArriveInv, StepInv
<1>2. CASE \E k \in CacheKeys : Expire(k)
  BY <1>2, ExpireInv
<1>3. CASE \E w \in Watchers : WatchStep(w)
  BY <1>3, WatchStepInv
<1>4. CASE Crash
  BY <1>4, CrashInv
<1>5. CASE UNCHANGED vars
  <2>1. UNCHANGED <<params, events, cache, callVars>> /\ UNCHANGED watchVars
    BY <1>5 DEF vars, callVars, watchVars
  <2>2. QED BY <2>1, WatchUnchanged, IdleStep DEF IInv, TypeOK
<1>6. QED BY <1>1, <1>2, <1>3, <1>4, <1>5 DEF Next, Served

\* The empty tables, cache and channel satisfy the invariant.
LEMMA InitInv == Init => IInv
<1> SUFFICES ASSUME Init PROVE IInv
  OBVIOUS
<1>1. /\ DOMAIN params = {} /\ params \in [{} -> Row] /\ events = {}
      /\ \A k \in CacheKeys : cache[k] = None
      /\ \A c \in Calls : pc[c] = "idle" /\ seen[c] = None /\ reply[c] = "none"
  BY DEF Init, StoreInit, CacheInit
<1>2. StoreTypeOK BY <1>1 DEF StoreTypeOK
<1>3. CacheTypeOK BY DEF Init, CacheInit, CacheTypeOK
<1>4. WatchTypeOK
  BY FeedCapAssumption DEF Init, WatchInit, WatchTypeOK
<1>5. TypeOK BY <1>2, <1>3, <1>4 DEF Init, TypeOK, Labels, Replies
<1>6. PrivateUntilPromoted /\ VersionChain
  BY <1>1 DEF PrivateUntilPromoted, Private, NoRowYet, VersionChain
<1>7. \A c \in Calls : Owned(c) /\ SeenWasCanonical(c)
  BY <1>1 DEF Owned, Accepted, SeenWasCanonical
<1>8. \A k \in CacheKeys : CachedWasCanonical(k)
  BY <1>1 DEF CachedWasCanonical
<1>9. QED BY <1>5, <1>6, <1>7, <1>8 DEF IInv

(***************************************************************************)
(* InvariantHolds: IInv is an invariant of the server, for every number of *)
(* calls and watchers, every set of names and requests, every capacity of  *)
(* the feed, with or without lost answers, errors and crashes, and whether *)
(* or not errors.As panics and PostgreSQL refuses the COALESCE.            *)
(***************************************************************************)
THEOREM InvariantHolds == Spec => []IInv
BY InitInv, NextInv, PTL DEF Spec

(***************************************************************************)
(* TypeCorrect: every variable keeps its type; in particular the channel   *)
(* of the feed never holds more than its capacity.                         *)
(***************************************************************************)
THEOREM TypeCorrect == Spec => []TypeOK
<1>1. IInv => TypeOK BY DEF IInv
<1>2. QED BY <1>1, InvariantHolds, PTL

(***************************************************************************)
(* RowsArePrivate: until its own call promotes it, no other call changes   *)
(* the state of a row.                                                     *)
(***************************************************************************)
THEOREM RowsArePrivate == Spec => []PrivateUntilPromoted
<1>1. IInv => PrivateUntilPromoted BY DEF IInv
<1>2. QED BY <1>1, InvariantHolds, PTL

(***************************************************************************)
(* VersionsChain: every row has version 1 and no predecessor, or is one    *)
(* version above a once canonical row of the same name.                    *)
(***************************************************************************)
THEOREM VersionsChain == Spec => []VersionChain
<1>1. IInv => VersionChain BY DEF IInv
<1>2. QED BY <1>1, InvariantHolds, PTL

(***************************************************************************)
(* ServedIsValidated: what is or was canonical, what the cache holds and   *)
(* what a successful call returns passed validateValueType.                *)
(***************************************************************************)
THEOREM ServedIsValidated == Spec => []OnlyValidatedServed
<1>1. IInv => OnlyValidatedServed
  <2> SUFFICES ASSUME IInv PROVE OnlyValidatedServed
    OBVIOUS
  <2>1. \A i \in DOMAIN params : params[i].state \in Promoted => WasCanonical(i)
    BY DEF IInv, TypeOK, StoreTypeOK, Owned, WasCanonical
  <2>2. \A c \in Calls : reply[c] = "ok" => WasCanonical(seen[c].id)
    BY DEF IInv, SeenWasCanonical
  <2>3. QED BY <2>1, <2>2 DEF IInv, OnlyValidatedServed
<1>2. QED BY <1>1, InvariantHolds, PTL
=============================================================================
