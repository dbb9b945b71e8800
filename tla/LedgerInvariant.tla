-------------------------- MODULE LedgerInvariant --------------------------
(***************************************************************************)
(* The inductive invariant behind the safety properties of LedgerSafety:   *)
(* what each program counter says about the call's own row and about the   *)
(* row it has read.                                                        *)
(***************************************************************************)
EXTENDS LedgerSafety

\* A call at one of these has created no row.
NoRowYet ==
  {"idle", "lookup", "create", "hit", "load", "refill", "find", "revoke",
   "recordRevoked", "drop"}

\* The states a Submit call's own row can be in, by what the call does next.
OwnStates(l) ==
  CASE l \in {"recordSubmitted", "supersede", "recordSuperseded",
              "invalidate", "validate"} -> {"SUBMITTED"}
    [] l \in {"recordValidated", "reject", "await"} -> {"VALIDATING"}
    [] l = "recordRejected" -> {"VALIDATING", "REJECTED"}
    [] l \in {"recordConsensus", "promote"} -> {"CONSENSUS_PENDING"}
    [] l \in {"recordPromoted", "refresh", "fill", "broadcast"} -> Promoted
    [] OTHER -> {}

Accepted ==
  {"await", "recordConsensus", "promote", "recordPromoted", "refresh", "fill",
   "broadcast"}

(***************************************************************************)
(* PrivateUntilPromoted: until its own call has promoted it, a row is in   *)
(* the state that call has put it in: nobody else finds it, since every    *)
(* query by name asks for a canonical row.                                 *)
(***************************************************************************)
Private(c) ==
  IF pc[c] \in NoRowYet
  THEN c \notin DOMAIN params
  ELSE pc[c] # "done" =>
         c \in DOMAIN params /\ params[c].state \in OwnStates(pc[c])

PrivateUntilPromoted == \A c \in Calls : Private(c)

\* A row belongs to the Submit call that created it, and to its request.
Owned(c) ==
  /\ pc[c] # "idle" => req[c] # None
  /\ pc[c] \in {"lookup", "create"} => req[c].op = "submit"
  /\ pc[c] \in Accepted => Valid(req[c])
  /\ c \in DOMAIN params =>
       /\ req[c] # None /\ req[c].op = "submit"
       /\ params[c].name = req[c].name
       /\ params[c].state \in Promoted => Valid(req[c])

\* The row a call has read, or returns, was canonical then.
SeenWasCanonical(c) ==
  /\ pc[c] \in {"idle", "lookup"} => seen[c] = None
  /\ seen[c] # None => WasCanonical(seen[c].id)
  /\ pc[c] \in {"fill", "broadcast"} => seen[c] # None /\ seen[c].id = c
  /\ pc[c] \in {"refill", "revoke", "recordRevoked", "drop"} => seen[c] # None
  /\ pc[c] \in {"fill", "refill"} => seen[c].state = "CANONICAL"
  /\ (pc[c] = "create" /\ seen[c] # None) =>
       params[seen[c].id].name = req[c].name
  /\ pc[c] \in {"supersede", "recordSuperseded"} =>
       c \in DOMAIN params /\ params[c].prev # None
  /\ reply[c] = "ok" => pc[c] = "done" /\ seen[c] # None

IInv ==
  /\ TypeOK
  /\ PrivateUntilPromoted
  /\ \A c \in Calls : Owned(c) /\ SeenWasCanonical(c)
  /\ VersionChain
  /\ \A k \in CacheKeys : CachedWasCanonical(k)

-----------------------------------------------------------------------------
(* What each program counter says about the ledger *)

\* The events of its own row a Submit call has seen recorded.
OwnEvents(l) ==
  CASE l \in {"supersede", "recordSuperseded", "invalidate", "validate",
              "recordValidated"} -> {"SUBMITTED"}
    [] l \in {"reject", "recordRejected", "await", "recordConsensus"} ->
         {"SUBMITTED", "VALIDATED"}
    [] l \in {"promote", "recordPromoted"} ->
         {"SUBMITTED", "VALIDATED", "CONSENSUS_REACHED"}
    [] l \in {"refresh", "fill", "broadcast"} ->
         {"SUBMITTED", "VALIDATED", "CONSENSUS_REACHED", "PROMOTED"}
    [] OTHER -> {}

AuditedSoFar(c) ==
  /\ \A t \in OwnEvents(pc[c]) : Recorded(c, t)
  /\ pc[c] \in {"find", "revoke", "recordRevoked", "drop"} => req[c].op = "revoke"
  /\ pc[c] \in {"hit", "load", "refill"} => req[c].op = "get"
  /\ pc[c] \in {"recordRevoked", "drop"} => params[seen[c].id].state = "REVOKED"
  /\ pc[c] = "drop" => Recorded(seen[c].id, "REVOKED")
  /\ pc[c] \in {"fill", "broadcast"} => seen[c].state \in Promoted
  /\ reply[c] = "ok" => Acknowledged(c)

AuditInv ==
  /\ \A c \in Calls : AuditedSoFar(c)
  /\ LedgerTrailsByOne
  /\ CheckedEventsAreTrue
  /\ FeedTellsAudited

-----------------------------------------------------------------------------
(* Where the live feed has the events it was offered *)

\* No two events of the feed, wherever they are, are about the same parameter.
ToldOnce ==
  /\ \A m, n \in 1..Len(feed) :
       feed[m].parameter_id = feed[n].parameter_id => m = n
  /\ \A v, w \in {u \in Watchers : held[u] # None} :
       held[v].parameter_id = held[w].parameter_id => v = w
  /\ \A v, w \in Watchers : \A m \in 1..Len(got[v]), n \in 1..Len(got[w]) :
       got[v][m].parameter_id = got[w][n].parameter_id => v = w /\ m = n
  /\ \A v \in {u \in Watchers : held[u] # None} : \A n \in 1..Len(feed) :
       feed[n].parameter_id # held[v].parameter_id
  /\ \A v \in Watchers : \A m \in 1..Len(got[v]), n \in 1..Len(feed) :
       got[v][m].parameter_id # feed[n].parameter_id
  /\ \A v \in {u \in Watchers : held[u] # None}, w \in Watchers :
       \A n \in 1..Len(got[w]) : got[w][n].parameter_id # held[v].parameter_id

\* Submit offers its event last, so a call that was told of is over.
ToldCallsEnded == \A e \in FeedEvents : pc[e.parameter_id] = "done"

FeedInv == ToldOnce /\ ToldCallsEnded

-----------------------------------------------------------------------------
(* Whose row a Get returns *)

\* The row a Get has loaded, or answers with, has the name it was asked for.
LoadedItsName(c) ==
  (req[c] # None /\ req[c].op = "get" /\ (pc[c] = "refill" \/ reply[c] = "ok")) =>
    params[seen[c].id].name = req[c].name

NameInv == \A c \in Calls : LoadedItsName(c)
=============================================================================
