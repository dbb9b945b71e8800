---------------------------- MODULE LedgerSafety ----------------------------
(***************************************************************************)
(* What the composed server of module Ledger is required to do.            *)
(***************************************************************************)
EXTENDS Ledger

Recorded(i, t) == \E e \in events : e.parameter_id = i /\ e.event_type = t

-----------------------------------------------------------------------------
(* Properties that hold *)

(***************************************************************************)
(* ImplementsLifecycle: read as states of rows, every behaviour of the     *)
(* server is a behaviour of Lifecycle.  The unconditional UPDATE of        *)
(* UpdateParameterState never revives a revoked or rejected row, never     *)
(* skips a stage and never revokes a row that was not canonical, although  *)
(* Submit and Revoke act on an id they read several round trips earlier.   *)
(***************************************************************************)
lifeOf == [i \in Ids |-> IF i \in DOMAIN params THEN params[i].state ELSE None]
nameOfRow == [i \in Ids |-> IF i \in DOMAIN params THEN params[i].name ELSE None]

L == INSTANCE Lifecycle WITH life <- lifeOf, nameOf <- nameOfRow

ImplementsLifecycle == L!LifeSpec

(***************************************************************************)
(* OnlyValidatedServed: a row that is or was canonical, and everything     *)
(* that the cache holds or a successful call returns, passed               *)
(* validateValueType and was canonical once; a cache entry says CANONICAL  *)
(* and sits under the key of its own row.  SetCanonical is called with     *)
(* what was read earlier, so this is about stale snapshots.                *)
(***************************************************************************)
WasCanonical(i) ==
  i \in DOMAIN params /\ params[i].state \in Promoted /\ Valid(req[i])

CachedWasCanonical(k) ==
  cache[k] # None =>
    /\ WasCanonical(cache[k].id)
    /\ cache[k].state = "CANONICAL"
    /\ cacheKey(params[cache[k].id].name) = k

OnlyValidatedServed ==
  /\ \A i \in DOMAIN params : params[i].state \in Promoted => WasCanonical(i)
  /\ \A k \in CacheKeys : CachedWasCanonical(k)
  /\ \A c \in Calls : reply[c] = "ok" => WasCanonical(seen[c].id)

(***************************************************************************)
(* VersionChain: a row without a predecessor has version 1; any other is   *)
(* one version above a row of the same name that was canonical, and so the *)
(* chain of previous_version_id never loops.                               *)
(***************************************************************************)
InChain(i) ==
  IF params[i].prev = None
  THEN params[i].version = 1
  ELSE LET prev == params[i].prev IN
       /\ prev \in DOMAIN params
       /\ params[prev].name = params[i].name
       /\ params[prev].state \in Promoted
       /\ params[i].version = params[prev].version + 1

VersionChain == \A i \in DOMAIN params : InChain(i)

(***************************************************************************)
(* LedgerTrailsByOne: whatever call failed or died, the ledger misses at   *)
(* most the last transition of a row on its way to CANONICAL or REJECTED,  *)
(* because Submit and Evaluate stop when an event cannot be recorded.  Of  *)
(* a revoked row it has the events up to CONSENSUS_REACHED: PROMOTED may   *)
(* be missing, and so may the revocation (EveryTransitionRecorded).        *)
(***************************************************************************)
DueEvents(s) ==
  CASE s = "SUBMITTED" -> {}
    [] s = "VALIDATING" -> {"SUBMITTED"}
    [] s \in {"REJECTED", "CONSENSUS_PENDING"} -> {"SUBMITTED", "VALIDATED"}
    [] s \in Promoted -> {"SUBMITTED", "VALIDATED", "CONSENSUS_REACHED"}

LedgerTrailsByOne ==
  \A i \in DOMAIN params : \A t \in DueEvents(params[i].state) : Recorded(i, t)

(***************************************************************************)
(* CheckedEventsAreTrue: an event that is written only after its           *)
(* transition was confirmed tells of a transition that did take place.     *)
(* (REJECTED and SUPERSEDED events follow an UPDATE whose error is         *)
(* discarded: see RecordedTransitionsHappened.)                            *)
(***************************************************************************)
StillPossible(s) ==
  CASE s = "SUBMITTED" -> ParameterState
    [] s = "VALIDATING" -> ParameterState \ {"SUBMITTED"}
    [] s = "CONSENSUS_PENDING" -> {"CONSENSUS_PENDING"} \cup Promoted
    [] s = "CANONICAL" -> Promoted
    [] s \in {"REJECTED", "REVOKED"} -> {s}

HasHappened(e) ==
  /\ e.parameter_id \in DOMAIN params
  /\ params[e.parameter_id].state \in StillPossible(e.to_state)

CheckedEventsAreTrue ==
  \A e \in events :
    e.event_type \notin {"REJECTED", "SUPERSEDED"} => HasHappened(e)

(***************************************************************************)
(* AcknowledgedIsAudited: a Submit that was answered with a parameter left *)
(* the four events of its promotion in the ledger; a Revoke that was       *)
(* answered left its event, and the row it names stays REVOKED for good.   *)
(***************************************************************************)
Acknowledged(c) ==
  /\ req[c].op = "submit" =>
       \A t \in {"SUBMITTED", "VALIDATED", "CONSENSUS_REACHED", "PROMOTED"} :
         Recorded(c, t)
  /\ req[c].op = "revoke" =>
       /\ Recorded(seen[c].id, "REVOKED")
       /\ params[seen[c].id].state = "REVOKED"

AcknowledgedIsAudited == \A c \in Calls : reply[c] = "ok" => Acknowledged(c)

(***************************************************************************)
(* FeedTellsAudited: what the live feed carries, and what any Watch client *)
(* was sent, is a promotion the ledger has recorded.                       *)
(***************************************************************************)
FeedEvents ==
  {feed[n] : n \in 1..Len(feed)} \cup
  {held[w] : w \in {v \in Watchers : held[v] # None}} \cup
  UNION {{got[w][n] : n \in 1..Len(got[w])} : w \in Watchers}

FeedTellsAudited ==
  \A e \in FeedEvents :
    Recorded(e.parameter_id, "PROMOTED") /\ e.to_state \in Promoted

(***************************************************************************)
(* ClientToldOnce: no client is sent the promotion of a parameter twice,   *)
(* however calls, the channel and the streams are interleaved, and whether *)
(* or not a stream breaks off: Submit offers its event once, and a handler *)
(* that takes an event never puts it back.                                 *)
(* Nothing is asked of other clients: ledger.go:121 says "Broadcast to     *)
(* Watch subscribers", but the streams share a channel, and one of those   *)
(* that wait is told.                                                      *)
(***************************************************************************)
ClientToldOnce ==
  \A w \in Watchers : \A m, n \in 1..Len(got[w]) :
    got[w][m].parameter_id = got[w][n].parameter_id => m = n

(***************************************************************************)
(* GetReturnsItsName: an answered Get returns a parameter of the name it   *)
(* was asked for, from the cache or the table, if no two names have one    *)
(* cache key.  The code does not see to that: "a" / "b:c" and "a:b" / "c"  *)
(* share an entry, and a Get of one is answered with the other.            *)
(***************************************************************************)
GetReturnsItsName ==
  \A c \in Calls :
    (reply[c] = "ok" /\ req[c].op = "get") =>
      params[seen[c].id].name = req[c].name

(***************************************************************************)
(* EveryCallReturns: a call that was accepted ends, even when the feed is  *)
(* full and nobody watches: Submit never waits for a Watch client.         *)
(***************************************************************************)
EveryCallReturns == \A c \in Calls : (pc[c] # "idle") ~> (pc[c] = "done")

(***************************************************************************)
(* CacheConverges: once calls stop arriving, an entry that outlived the    *)
(* revocation of its row is gone for good, because it was set with a TTL   *)
(* and a hit does not renew it.                                            *)
(***************************************************************************)
Stale(k) == cache[k] # None /\ params[cache[k].id].state # "CANONICAL"

CacheConverges == <>[](\A k \in CacheKeys : ~Stale(k))

-----------------------------------------------------------------------------
(* What comments of the code say and the code does not do *)

Quiet == InFlight = {}

(***************************************************************************)
(* ValidSubmissionPromoted (quorum.go:21, "It validates the value type and *)
(* immediately promotes to CANONICAL"): with a working database and one    *)
(* client, the Submit of a valid value is answered with a parameter.       *)
(***************************************************************************)
ValidSubmissionPromoted ==
  \A c \in Calls :
    (pc[c] = "done" /\ req[c].op = "submit" /\ Valid(req[c])) =>
      reply[c] = "ok"

(***************************************************************************)
(* SupersededBySuccessor (parameter.go:31, "updates create a new version   *)
(* that supersedes the previous one"): a row is marked superseded only if  *)
(* the version named as its successor became canonical.                    *)
(***************************************************************************)
SupersededBySuccessor ==
  Quiet => \A e \in events :
    e.event_type = "SUPERSEDED" => params[e.writer].state \in Promoted

(***************************************************************************)
(* EvaluateDecides (quorum.go:16, "Evaluate runs consensus for the given   *)
(* parameter and promotes or rejects it").                                 *)
(***************************************************************************)
EvaluateDecides ==
  \A c \in DOMAIN params :
    pc[c] = "done" => params[c].state \in Promoted \cup {"REJECTED"}

(***************************************************************************)
(* EveryTransitionRecorded (002_create_ledger.up.sql:1, "append-only audit *)
(* trail of every state transition"): when no call is in flight, a revoked *)
(* row has an event that says so.                                          *)
(***************************************************************************)
EveryTransitionRecorded ==
  Quiet => \A i \in DOMAIN params :
    params[i].state = "REVOKED" =>
      Recorded(i, "REVOKED") \/ Recorded(i, "SUPERSEDED")

(***************************************************************************)
(* RecordedTransitionsHappened (parameter.go:61, "LedgerEvent is an        *)
(* immutable record of a single state transition"): no event tells of a    *)
(* transition that did not take place.                                     *)
(***************************************************************************)
RecordedTransitionsHappened == \A e \in events : HasHappened(e)

(***************************************************************************)
(* RevokedNotCached (ledger.go:153, "Revoke invalidates the canonical      *)
(* value"): when no call is in flight, no revoked value is left in the     *)
(* cache for Get to return.                                                *)
(***************************************************************************)
RevokedNotCached == Quiet => \A k \in CacheKeys : ~Stale(k)
=============================================================================
