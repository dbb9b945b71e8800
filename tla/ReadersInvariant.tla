-------------------------- MODULE ReadersInvariant --------------------------
(***************************************************************************)
(* The inductive invariants behind the properties of module Readers: what  *)
(* the ledger holds at what time, what a reader's answer still says of the *)
(* table, and how far a walk through an audit has come.  They are          *)
(* inductive relative to IInv and AuditInv of LedgerInvariant.             *)
(***************************************************************************)
EXTENDS Readers, LedgerInvariant

-----------------------------------------------------------------------------
(* Who wrote which events *)

\* The events a call may have written, by what it does next.
Written(l) ==
  CASE l \in {"supersede", "recordSuperseded"} -> {"SUBMITTED"}
    [] l \in {"invalidate", "validate", "recordValidated"} ->
         {"SUBMITTED", "SUPERSEDED"}
    [] l \in {"reject", "recordRejected", "await", "recordConsensus"} ->
         {"SUBMITTED", "SUPERSEDED", "VALIDATED"}
    [] l \in {"promote", "recordPromoted"} ->
         {"SUBMITTED", "SUPERSEDED", "VALIDATED", "CONSENSUS_REACHED"}
    [] l \in {"refresh", "fill", "broadcast"} ->
         {"SUBMITTED", "SUPERSEDED", "VALIDATED", "CONSENSUS_REACHED", "PROMOTED"}
    [] l = "drop" -> {"REVOKED"}
    [] l = "done" -> LedgerEventType
    [] OTHER -> {}

\* Only these are about another call's row, which was canonical.
Foreign == {"SUPERSEDED", "REVOKED"}

AboutARow(e) ==
  /\ e.parameter_id \in DOMAIN params
  /\ IF e.event_type \in Foreign
     THEN params[e.parameter_id].state \in Promoted
     ELSE e.parameter_id = e.writer

WritersInv ==
  /\ IsFiniteSet(events)
  /\ \A e \in events : e.event_type \in Written(pc[e.writer]) /\ AboutARow(e)
  /\ \A e, f \in events :
       e.writer = f.writer /\ e.event_type = f.event_type => e = f

-----------------------------------------------------------------------------
(* When events occurred *)

\* At these a call holds a time it is about to write.
Holding ==
  Stamped \cup {"recordSubmitted", "supersede", "recordSuperseded"}

ClockInv ==
  /\ clock \in Nat
  /\ stamp \in [Calls -> Times \cup {None}]
  /\ occurredAt \in [events -> Times]
  /\ \A c \in Calls : pc[c] \in Holding \ Stamped => stamp[c] # None

\* No time that was read is later than the latest.
NothingLater ==
  /\ \A c \in Calls : stamp[c] # None => stamp[c] <= clock
  /\ \A e \in events : occurredAt[e] <= clock

\* Call c has the time of its next event.
Has(c) == pc[c] \in Holding /\ stamp[c] # None

\* What call c wrote of its own row is not younger than what it writes next.
OwnIsOlder(c) ==
  (Has(c) /\ pc[c] \in Stamped \ {"create", "recordRevoked"}) =>
    \A e \in events : e.writer = c => occurredAt[e] <= stamp[c]

\* Nor is what row i's own call wrote before row i became canonical.
Settled(i, time) ==
  \A e \in events : (e.writer = i /\ Stage(e) < 4) => occurredAt[e] <= time

\* Row i when call c is about to tell of its end.
EndsRow(c, i) ==
  \/ pc[c] \in {"create", "recordRevoked"} /\ seen[c] # None /\ i = seen[c].id
  \/ /\ pc[c] \in {"recordSubmitted", "supersede", "recordSuperseded"}
     /\ params[c].prev # None /\ i = params[c].prev

EndsLater(c) ==
  \A i \in Ids : (Has(c) /\ EndsRow(c, i)) => Settled(i, stamp[c])

StagesInTime ==
  \A e, f \in events :
    (e.parameter_id = f.parameter_id /\ Stage(e) < Stage(f)) =>
      occurredAt[e] <= occurredAt[f]

\* If no clock is set back, a time that is read later is not earlier.
InTime ==
  /\ NothingLater
  /\ \A c \in Calls : OwnIsOlder(c) /\ EndsLater(c)
  /\ StagesInTime

TimeInv == ClockInv /\ (~SetBack => InTime)

\* What the ledger holds, whoever reads it.
TrailInv == IInv /\ AuditInv /\ WritersInv /\ TimeInv

-----------------------------------------------------------------------------
(* What a reader holds *)

Asks(r, op) == question[r] # None /\ question[r].op = op

\* A question is of the kind its next statement is for; a page is an answer.
Asked(r) ==
  /\ at[r] \in {"count", "page"} => Asks(r, "audit")
  /\ at[r] = "select" => Asks(r, "version")
  /\ at[r] \in {"answered", "failed"} => question[r] # None
  /\ at[r] # "answered" => rows[r] = <<>>
  /\ rows[r] # <<>> => Asks(r, "audit")

\* The row has been in state s, or has not been seen.
WasIn(i, s) ==
  s # None => i \in DOMAIN params /\ params[i].state \in StillPossible(s)

Told(r) ==
  Asks(r, "version") =>
    WasIn(question[r].id, version[r]) /\ WasIn(question[r].id, floor[r])

\* What the COUNT returned is still there for the page.
Counted(r) ==
  at[r] = "page" => total[r] <= Cardinality(Trail(question[r].name))

AnswerInv ==
  /\ ReadersTypeOK
  /\ \A r \in Clients :
       Asked(r) /\ Told(r) /\ Counted(r) /\ NeverBack(r) /\ WithinReach(r)

NewestFirst(r) ==
  \A j, k \in 1..Len(rows[r]) :
    j < k => occurredAt[rows[r][j]] >= occurredAt[rows[r][k]]

\* How many events of a trail are newer than e.
Depth(e, n) == Cardinality(Newer(Trail(n), e))

\* An event that was not yet shown lies beyond what was shown.
Walked(r) ==
  Asks(r, "audit") =>
    \A e \in unseen[r] :
      /\ e \in Trail(question[r].name)
      /\ \/ Tied(e, question[r].name)
         \/ question[r].offset + Len(rows[r]) <= Depth(e, question[r].name)

WalkInv ==
  \A r \in Clients : NewestFirst(r) /\ Walked(r) /\ MissesOnlyTies(r)
=============================================================================
