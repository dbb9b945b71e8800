------------------------------- MODULE Ledger -------------------------------
(***************************************************************************)
(* TruthMetal's request handlers, composed: the RPC methods of             *)
(* internal/api, the orchestration of ledger.Service, the transitions of   *)
(* consensus.SimpleQuorum, the store, the cache and the live feed.         *)
(*                                                                         *)
(* A call c is one RPC, served by one goroutine.  Calls interleave at      *)
(* every round trip to PostgreSQL or Redis; pc[c] names the round trip the *)
(* call makes next.  A Submit call creates at most one row, and that row's *)
(* UUID is abstracted to c itself, so Calls is the set Ids.                *)
(***************************************************************************)
EXTENDS Cache, Watch, Validate

CONSTANTS
  Requests,        \* requests the clients may send
  ErrorsAsPanics,  \* errors.As(err, &store.ErrNotFound{}) panics
  CanCrash         \* may the server process die

Calls == Ids

(***************************************************************************)
(* The fields of a request that a handler or validateValueType branches    *)
(* on; a client may leave a field empty or ask for a type nobody knows.    *)
(***************************************************************************)
Request ==
  [op: {"submit", "get", "revoke"}, name: Names,
   value: Value \cup {None}, value_type: ValueType \cup {"unknown", None}]

ASSUME RequestsAssumption == Requests \subseteq Request
ASSUME NoRequestAssumption == None \notin Request
ASSUME NoSnapshotAssumption == None \notin Snapshot
ASSUME SwitchAssumption == ErrorsAsPanics \in BOOLEAN /\ CanCrash \in BOOLEAN

VARIABLES
  pc,     \* pc[c]: the next round trip of call c
  req,    \* req[c]: the request call c serves
  seen,   \* seen[c]: the parameter call c read last, or returns
  reply   \* reply[c]: how call c ended

callVars == <<pc, req, seen, reply>>
vars == <<params, events, cache, feed, watch, held, got, pc, req, seen, reply>>

Labels ==
  {"idle", "done",
   \* Service.Submit up to the call of Evaluate
   "lookup", "create", "recordSubmitted", "supersede", "recordSuperseded",
   "invalidate",
   \* SimpleQuorum.Evaluate
   "validate", "recordValidated", "reject", "recordRejected", "await",
   "recordConsensus", "promote", "recordPromoted",
   \* Service.Submit after Evaluate
   "refresh", "fill", "broadcast",
   \* Service.Get
   "hit", "load", "refill",
   \* Service.Revoke
   "find", "revoke", "recordRevoked", "drop"}

\* Connect codes, a recovered panic, and the fate of a call cut off by a crash.
Replies ==
  {"none", "ok", "invalid_argument", "not_found", "internal", "panic",
   "crashed"}

TypeOK ==
  /\ StoreTypeOK /\ CacheTypeOK /\ WatchTypeOK
  /\ pc \in [Calls -> Labels]
  /\ req \in [Calls -> Requests \cup {None}]
  /\ seen \in [Calls -> Snapshot \cup {None}]
  /\ reply \in [Calls -> Replies]

Init ==
  /\ StoreInit /\ CacheInit /\ WatchInit
  /\ pc = [c \in Calls |-> "idle"]
  /\ req = [c \in Calls |-> None]
  /\ seen = [c \in Calls |-> None]
  /\ reply = [c \in Calls |-> "none"]

-----------------------------------------------------------------------------
(* Control flow of one call *)

Goto(c, l) == pc' = [pc EXCEPT ![c] = l] /\ UNCHANGED reply

Return(c, r) ==
  /\ pc' = [pc EXCEPT ![c] = "done"]
  /\ reply' = [reply EXCEPT ![c] = r]

\* UpdateParameterState(i, s), then `next` if it succeeded, else `failed`.
Transition(c, at, i, s, next, failed) ==
  /\ pc[c] = at
  /\ \E out \in Outcomes :
       /\ UpdateParameterState(i, s, out)
       /\ IF UpdateOk(i, s, out) THEN next ELSE failed
  /\ UNCHANGED <<events, cache, watchVars, req, seen>>

\* AppendEvent, then `next` if it succeeded, else `failed`.
Record(c, at, i, type, from, to, next, failed) ==
  /\ pc[c] = at
  /\ \E out \in Outcomes :
       /\ AppendEvent([writer |-> c, parameter_id |-> i, event_type |-> type,
                       from_state |-> from, to_state |-> to], out)
       /\ IF out = "ok" THEN next ELSE failed
  /\ UNCHANGED <<params, cache, watchVars, req, seen>>

-----------------------------------------------------------------------------
(* internal/api/handler.go: the checks before the service is called *)

NoName(n) == n.namespace = <<>> \/ n.key = <<>>

\* Submit also refuses an empty value.
Refused(r) == NoName(r.name) \/ (r.op = "submit" /\ r.value = None)

\* A request without a type means a string.
TypeOf(r) == IF r.value_type = None THEN "string" ELSE r.value_type

Valid(r) == validateValueType(r.value, TypeOf(r))

Handle(c, op, first) ==
  /\ pc[c] = "idle"
  /\ \E r \in Requests :
       /\ r.op = op
       /\ req' = [req EXCEPT ![c] = r]
       /\ IF Refused(r) THEN Return(c, "invalid_argument") ELSE Goto(c, first)
  /\ UNCHANGED <<params, events, cache, watchVars, seen>>

Submit(c) == Handle(c, "submit", "lookup")
Get(c) == Handle(c, "get", "hit")
Revoke(c) == Handle(c, "revoke", "find")

-----------------------------------------------------------------------------
(* ledger.Service.Submit *)

SubmitLookup(c) ==
  /\ pc[c] = "lookup"
  /\ \E out \in Outcomes :
       \/ /\ ReadOk(out)
          /\ \E i \in GetParameter(req[c].name) :
               seen' = [seen EXCEPT ![c] = ScanParameter(i)]
          /\ Goto(c, "create")
       \/ /\ ReadOk(out)
          /\ GetParameter(req[c].name) = {}
          /\ IF ErrorsAsPanics THEN Return(c, "panic") ELSE Goto(c, "create")
          /\ UNCHANGED seen
       \/ /\ ~ReadOk(out)
          /\ Return(c, IF ErrorsAsPanics THEN "panic" ELSE "internal")
          /\ UNCHANGED seen
  /\ UNCHANGED <<params, events, cache, watchVars, req>>

\* Mutant: version = existing.Version.
NewParameterSameVersion(c) ==
  IF seen[c] = None
  THEN [name |-> req[c].name, version |-> 1, prev |-> None,
        state |-> "SUBMITTED"]
  ELSE [name |-> req[c].name, version |-> params[seen[c].id].version,
        prev |-> seen[c].id, state |-> "SUBMITTED"]

\* The Parameter that Submit builds from its request and the row it found.
NewParameter(c) ==
  IF seen[c] = None
  THEN [name |-> req[c].name, version |-> 1, prev |-> None,
        state |-> "SUBMITTED"]
  ELSE [name |-> req[c].name, version |-> params[seen[c].id].version + 1,
        prev |-> seen[c].id, state |-> "SUBMITTED"]

SubmitCreate(c) ==
  /\ pc[c] = "create"
  /\ \E out \in Outcomes :
       /\ CreateParameter(c, NewParameter(c), out)
       /\ IF out = "ok" THEN Goto(c, "recordSubmitted") ELSE Return(c, "internal")
  /\ UNCHANGED <<events, cache, watchVars, req, seen>>

\* Mutant: the error of AppendEvent is discarded.
SubmitRecordUnchecked(c) ==
  Record(c, "recordSubmitted", c, "SUBMITTED", None, "SUBMITTED",
         Goto(c, IF params[c].prev = None THEN "validate" ELSE "supersede"),
         Goto(c, IF params[c].prev = None THEN "validate" ELSE "supersede"))

SubmitRecord(c) ==
  Record(c, "recordSubmitted", c, "SUBMITTED", None, "SUBMITTED",
         Goto(c, IF params[c].prev = None THEN "validate" ELSE "supersede"),
         Return(c, "internal"))

\* Three calls whose errors Submit discards.
Supersede(c) ==
  Transition(c, "supersede", params[c].prev, "REVOKED",
             Goto(c, "recordSuperseded"), Goto(c, "recordSuperseded"))

SupersedeRecord(c) ==
  Record(c, "recordSuperseded", params[c].prev, "SUPERSEDED", "CANONICAL",
         "REVOKED", Goto(c, "invalidate"), Goto(c, "invalidate"))

SupersedeInvalidate(c) ==
  /\ pc[c] = "invalidate"
  /\ \E out \in Outcomes : InvalidateCanonical(req[c].name, out)
  /\ Goto(c, "validate")
  /\ UNCHANGED <<params, events, watchVars, req, seen>>

-----------------------------------------------------------------------------
(* consensus.SimpleQuorum.Evaluate *)

Validate(c) ==
  Transition(c, "validate", c, "VALIDATING",
             Goto(c, "recordValidated"), Return(c, "internal"))

\* The event, then validateValueType, which makes no round trip.
ValidateRecord(c) ==
  Record(c, "recordValidated", c, "VALIDATED", "SUBMITTED", "VALIDATING",
         Goto(c, IF Valid(req[c]) THEN "await" ELSE "reject"),
         Return(c, "internal"))

\* Both errors are discarded; the caller gets the validation error.
Reject(c) ==
  Transition(c, "reject", c, "REJECTED",
             Goto(c, "recordRejected"), Goto(c, "recordRejected"))

RejectRecord(c) ==
  Record(c, "recordRejected", c, "REJECTED", "VALIDATING", "REJECTED",
         Return(c, "internal"), Return(c, "internal"))

Await(c) ==
  Transition(c, "await", c, "CONSENSUS_PENDING",
             Goto(c, "recordConsensus"), Return(c, "internal"))

ConsensusRecord(c) ==
  Record(c, "recordConsensus", c, "CONSENSUS_REACHED", "VALIDATING",
         "CONSENSUS_PENDING", Goto(c, "promote"), Return(c, "internal"))

Promote(c) ==
  Transition(c, "promote", c, "CANONICAL",
             Goto(c, "recordPromoted"), Return(c, "internal"))

\* Mutant: the error of AppendEvent is discarded.
PromoteRecordUnchecked(c) ==
  Record(c, "recordPromoted", c, "PROMOTED", "CONSENSUS_PENDING", "CANONICAL",
         Goto(c, "refresh"), Goto(c, "refresh"))

PromoteRecord(c) ==
  Record(c, "recordPromoted", c, "PROMOTED", "CONSENSUS_PENDING", "CANONICAL",
         Goto(c, "refresh"), Return(c, "internal"))

-----------------------------------------------------------------------------
(* The rest of ledger.Service.Submit *)

\* Mutant: the fresh row is cached whatever its state.
SubmitRefreshAnyState(c) ==
  /\ pc[c] = "refresh"
  /\ \E out \in Outcomes :
       \/ /\ ReadOk(out)
          /\ seen' = [seen EXCEPT ![c] = ScanParameter(c)]
          /\ Goto(c, "fill")
       \/ /\ ~ReadOk(out)
          /\ seen' = [seen EXCEPT ![c] = [id |-> c, state |-> "CANONICAL"]]
          /\ Return(c, "ok")
  /\ UNCHANGED <<params, events, cache, watchVars, req>>

\* GetParameterByID; on an error the caller gets p with p.State = CANONICAL.
SubmitRefresh(c) ==
  /\ pc[c] = "refresh"
  /\ \E out \in Outcomes :
       \/ /\ ReadOk(out)
          /\ seen' = [seen EXCEPT ![c] = ScanParameter(c)]
          /\ Goto(c, IF params[c].state = "CANONICAL" THEN "fill" ELSE "broadcast")
       \/ /\ ~ReadOk(out)
          /\ seen' = [seen EXCEPT ![c] = [id |-> c, state |-> "CANONICAL"]]
          /\ Return(c, "ok")
  /\ UNCHANGED <<params, events, cache, watchVars, req>>

SubmitFill(c) ==
  /\ pc[c] = "fill"
  /\ \E out \in Outcomes : SetCanonical(seen[c], out)
  /\ Goto(c, "broadcast")
  /\ UNCHANGED <<params, events, watchVars, req, seen>>

SubmitBroadcast(c) ==
  /\ pc[c] = "broadcast"
  /\ Broadcast([parameter_id |-> seen[c].id, to_state |-> seen[c].state])
  /\ Return(c, "ok")
  /\ UNCHANGED <<params, events, cache, req, seen>>

-----------------------------------------------------------------------------
(* ledger.Service.Get *)

GetHit(c) ==
  /\ pc[c] = "hit"
  /\ \E out \in Outcomes :
       LET p == GetCanonical(req[c].name, out) IN
       /\ seen' = [seen EXCEPT ![c] = p]
       /\ IF p # None THEN Return(c, "ok") ELSE Goto(c, "load")
  /\ UNCHANGED <<params, events, cache, watchVars, req>>

\* store.GetParameter as Get and Revoke use it: the handler maps its errors.
Find(c, at, next) ==
  /\ pc[c] = at
  /\ \E out \in Outcomes :
       \/ /\ ReadOk(out)
          /\ \E i \in GetParameter(req[c].name) :
               seen' = [seen EXCEPT ![c] = ScanParameter(i)]
          /\ Goto(c, next)
       \/ /\ ReadOk(out)
          /\ GetParameter(req[c].name) = {}
          /\ Return(c, "not_found")
          /\ UNCHANGED seen
       \/ /\ ~ReadOk(out)
          /\ Return(c, "internal")
          /\ UNCHANGED seen
  /\ UNCHANGED <<params, events, cache, watchVars, req>>

GetLoad(c) == Find(c, "load", "refill")

GetRefill(c) ==
  /\ pc[c] = "refill"
  /\ \E out \in Outcomes : SetCanonical(seen[c], out)
  /\ Return(c, "ok")
  /\ UNCHANGED <<params, events, watchVars, req, seen>>

-----------------------------------------------------------------------------
(* ledger.Service.Revoke *)

RevokeFind(c) == Find(c, "find", "revoke")

\* Mutant: the error of UpdateParameterState is discarded.
RevokeUpdateUnchecked(c) ==
  Transition(c, "revoke", seen[c].id, "REVOKED",
             Goto(c, "recordRevoked"), Goto(c, "recordRevoked"))

RevokeUpdate(c) ==
  Transition(c, "revoke", seen[c].id, "REVOKED",
             Goto(c, "recordRevoked"), Return(c, "internal"))

\* Mutant: the error of AppendEvent is discarded.
RevokeRecordUnchecked(c) ==
  Record(c, "recordRevoked", seen[c].id, "REVOKED", "CANONICAL", "REVOKED",
         Goto(c, "drop"), Goto(c, "drop"))

RevokeRecord(c) ==
  Record(c, "recordRevoked", seen[c].id, "REVOKED", "CANONICAL", "REVOKED",
         Goto(c, "drop"), Return(c, "internal"))

RevokeInvalidate(c) ==
  /\ pc[c] = "drop"
  /\ \E out \in Outcomes : InvalidateCanonical(req[c].name, out)
  /\ seen' = [seen EXCEPT ![c].state = "REVOKED"]
  /\ Return(c, "ok")
  /\ UNCHANGED <<params, events, watchVars, req>>

-----------------------------------------------------------------------------
(* The whole server *)

InFlight == {c \in Calls : pc[c] \notin {"idle", "done"}}

\* The process dies: calls stop where they are, the tables and Redis stay.
Crash ==
  /\ CanCrash
  /\ InFlight # {}
  /\ pc' = [c \in Calls |-> IF c \in InFlight THEN "done" ELSE pc[c]]
  /\ reply' = [c \in Calls |-> IF c \in InFlight THEN "crashed" ELSE reply[c]]
  /\ LoseFeed
  /\ UNCHANGED <<params, events, cache, req, seen>>

Expire(k) == ExpireEntry(k) /\ UNCHANGED <<params, events, watchVars, callVars>>

WatchStep(w) ==
  /\ OpenWatch(w) \/ CloseWatch(w) \/ TakeEvent(w) \/ SendEvent(w)
  /\ UNCHANGED <<params, events, cache, callVars>>

Arrive(c) == Submit(c) \/ Get(c) \/ Revoke(c)

SubmitStep(c) ==
  \/ SubmitLookup(c) \/ SubmitCreate(c) \/ SubmitRecord(c)
  \/ Supersede(c) \/ SupersedeRecord(c) \/ SupersedeInvalidate(c)
  \/ SubmitRefresh(c) \/ SubmitFill(c) \/ SubmitBroadcast(c)

EvaluateStep(c) ==
  \/ Validate(c) \/ ValidateRecord(c) \/ Reject(c) \/ RejectRecord(c)
  \/ Await(c) \/ ConsensusRecord(c) \/ Promote(c) \/ PromoteRecord(c)

GetStep(c) == GetHit(c) \/ GetLoad(c) \/ GetRefill(c)

RevokeStep(c) ==
  RevokeFind(c) \/ RevokeUpdate(c) \/ RevokeRecord(c) \/ RevokeInvalidate(c)

Step(c) == SubmitStep(c) \/ EvaluateStep(c) \/ GetStep(c) \/ RevokeStep(c)

\* Every call has been served: the server waits for the next one.
Served == (\A c \in Calls : pc[c] = "done") /\ UNCHANGED vars

Next ==
  \/ \E c \in Calls : Arrive(c) \/ Step(c)
  \/ \E k \in CacheKeys : Expire(k)
  \/ \E w \in Watchers : WatchStep(w)
  \/ Crash
  \/ Served

Spec == Init /\ [][Next]_vars

(***************************************************************************)
(* A goroutine that can run does run, and a round trip to PostgreSQL or    *)
(* Redis ends, with or without an error; an entry's TTL passes.  Clients   *)
(* owe nothing: arrivals and Watch streams are not fair.                   *)
(***************************************************************************)
FairSpec ==
  /\ Spec
  /\ \A c \in Calls : WF_vars(Step(c))
  /\ \A k \in CacheKeys : WF_vars(Expire(k))
=============================================================================
