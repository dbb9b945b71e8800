------------------------------ MODULE Readers ------------------------------
(***************************************************************************)
(* The calls that only read, composed with the server of module Ledger:    *)
(* GetVersion, one SELECT, and QueryAudit, which counts the events of a    *)
(* name in one statement and reads a page of them in a second one.  A      *)
(* reader r is a client that makes one such call after another and may     *)
(* walk through an audit page by page.                                     *)
(*                                                                         *)
(* Events carry times here.  Submit reads the clock once, after its        *)
(* lookup, for SUBMITTED and SUPERSEDED; every other event is stamped      *)
(* between the reply of the UPDATE before it and its own INSERT.  To read  *)
(* the clock is a step of its own, and what it returns, a wall clock's     *)
(* time cut to the microseconds of a TIMESTAMPTZ, may be any time: two     *)
(* readings may be equal, and a clock may be set back.  No stream of the   *)
(* live feed is open here; none would touch the tables.  The death of the  *)
(* process is a reader's failed call and calls that make no further step,  *)
(* so it is no action of its own.                                          *)
(***************************************************************************)
EXTENDS LedgerSafety, Integers, FiniteSets

CONSTANTS
  Clients,    \* the readers
  Walkers,    \* those that go on from page to page
  Questions,  \* what they may ask
  Times,      \* what time.Now() may return
  SetBack     \* may it return less than it did before

VARIABLES
  clock,       \* history: the latest time that was read
  stamp,       \* stamp[c]: the time call c will write into its next event
  occurredAt,  \* occurredAt[e]: column occurred_at of event e
  at,          \* at[r]: the next statement or step of reader r
  question,    \* question[r]: the request it has sent
  total,       \* total[r]: what the COUNT returned
  rows,        \* rows[r]: the page, newest first
  version,     \* version[r]: the state GetVersion read, None if there is no row
  unseen,      \* history: events older than r's walk it was not yet shown
  floor        \* history: the state r was told of this id by its last call

timeVars == <<clock, stamp, occurredAt>>
readVars == <<at, question, total, rows, version, unseen, floor>>
allVars == <<vars, timeVars, readVars>>

Question ==
  [op: {"version"}, id: Ids \cup {None}] \cup
  [op: {"audit"}, name: Names, limit: Int, offset: Int]

ASSUME QuestionsAssumption == Questions \subseteq Question
ASSUME NoQuestionAssumption == None \notin Question
ASSUME TimesAssumption == Times \subseteq Nat /\ None \notin Times
ASSUME SetBackAssumption == SetBack \in BOOLEAN

-----------------------------------------------------------------------------
(* What the ledger answers *)

\* FROM ledger_events JOIN parameters WHERE namespace and key match.
Trail(n) == {e \in events : params[e.parameter_id].name = n}

\* What the order puts before e, and what it does not put after e.
Newer(T, e) == {f \in T : occurredAt[f] > occurredAt[e]}
AsNew(T, e) == {f \in T : occurredAt[f] >= occurredAt[e]}

Least(m, n) == IF m < n THEN m ELSE n
Size(rest, limit) == IF rest < 0 THEN 0 ELSE Least(rest, limit)

\* The sequences that show size rows of T, the first at position offset.
\* Rows with equal times come in any order, in every statement anew.
Slices(T, size, offset) ==
  {P \in [1..size -> T] :
     /\ \A j, k \in 1..size : P[j] = P[k] => j = k
     /\ \A k \in 1..size :
          /\ Cardinality(Newer(T, P[k])) < offset + k
          /\ offset + k <= Cardinality(AsNew(T, P[k]))}

\* Mutant: the offset counts pages.
PagesByNumber(T, limit, offset) ==
  Slices(T, Size(Cardinality(T) - limit * offset, limit), limit * offset)

\* Mutant: the statement has lost its LIMIT.
PagesUnlimited(T, limit, offset) ==
  LET rest == Cardinality(T) - offset IN Slices(T, Size(rest, rest), offset)

\* ORDER BY occurred_at DESC LIMIT limit OFFSET offset
Pages(T, limit, offset) ==
  Slices(T, Size(Cardinality(T) - offset, limit), offset)

\* Service.QueryAudit: a limit that is not positive means 50.
LimitOf(q) == IF q.limit <= 0 THEN 50 ELSE q.limit

-----------------------------------------------------------------------------
(* Reader r *)

\* The handlers refuse an empty id and an empty name.  Offset 0 begins a walk.
RefusedQuestion(q) ==
  IF q.op = "version" THEN q.id = None ELSE NoName(q.name)

AskQuestion(r) ==
  /\ at[r] \in {"idle", "answered", "failed"}
  /\ \E q \in Questions :
       /\ question' = [question EXCEPT ![r] =
                         IF RefusedQuestion(q) THEN None ELSE q]
       /\ at' = [at EXCEPT ![r] = IF RefusedQuestion(q) THEN "idle"
                                  ELSE IF q.op = "version" THEN "select"
                                  ELSE "count"]
       /\ unseen' = [unseen EXCEPT ![r] =
                       IF q.op = "audit" /\ q.offset <= 0
                       THEN Trail(q.name) ELSE {}]
       /\ floor' = [floor EXCEPT ![r] =
                      IF question[r] # q THEN None
                      ELSE IF version[r] = None THEN @ ELSE version[r]]
  /\ total' = [total EXCEPT ![r] = 0]
  /\ rows' = [rows EXCEPT ![r] = <<>>]
  /\ version' = [version EXCEPT ![r] = None]

\* The client asks for what follows the page it was sent.
AskNextPage(r) ==
  /\ r \in Walkers
  /\ at[r] = "answered" /\ question[r].op = "audit" /\ rows[r] # <<>>
  /\ question' = [question EXCEPT ![r].offset = @ + Len(rows[r])]
  /\ at' = [at EXCEPT ![r] = "count"]
  /\ total' = [total EXCEPT ![r] = 0]
  /\ rows' = [rows EXCEPT ![r] = <<>>]
  /\ UNCHANGED <<version, unseen, floor>>

\* Mutant: the cache is asked first.
SelectVersionCached(r) ==
  /\ at[r] = "select"
  /\ LET i == question[r].id
         cached == {k \in CacheKeys : cache[k] # None /\ cache[k].id = i} IN
       version' = [version EXCEPT ![r] =
         IF cached # {} THEN "CANONICAL"
         ELSE IF i \in DOMAIN params THEN params[i].state ELSE None]
  /\ at' = [at EXCEPT ![r] = "answered"]
  /\ UNCHANGED <<question, total, rows, unseen, floor>>

\* GetParameterByID; no row is answered not_found.
SelectVersion(r) ==
  /\ at[r] = "select"
  /\ LET i == question[r].id IN
       version' = [version EXCEPT ![r] =
         IF i \in DOMAIN params THEN params[i].state ELSE None]
  /\ at' = [at EXCEPT ![r] = "answered"]
  /\ UNCHANGED <<question, total, rows, unseen, floor>>

AuditCount(r, here, next) ==
  /\ at[r] = here
  /\ total' = [total EXCEPT ![r] = Cardinality(Trail(question[r].name))]
  /\ at' = [at EXCEPT ![r] = next]
  /\ UNCHANGED <<question, rows, version, unseen, floor>>

AuditPage(r, here, next) ==
  /\ at[r] = here
  /\ question[r].offset >= 0
  /\ \E P \in Pages(Trail(question[r].name), LimitOf(question[r]),
                   question[r].offset) :
       rows' = [rows EXCEPT ![r] = P]
  /\ unseen' = [unseen EXCEPT ![r] =
                  @ \ {rows'[r][k] : k \in 1..Len(rows'[r])}]
  /\ at' = [at EXCEPT ![r] = next]
  /\ UNCHANGED <<question, total, version, floor>>

\* PostgreSQL refuses a negative OFFSET, which no handler checks.
AuditRefused(r) ==
  /\ at[r] = "page"
  /\ question[r].offset < 0
  /\ at' = [at EXCEPT ![r] = "idle"]
  /\ question' = [question EXCEPT ![r] = None]
  /\ total' = [total EXCEPT ![r] = 0]
  /\ unseen' = [unseen EXCEPT ![r] = {}]
  /\ UNCHANGED <<rows, version, floor>>

\* Mutant: the page is read before the count.
AuditStatementSwapped(r) ==
  AuditPage(r, "count", "page") \/ AuditCount(r, "page", "answered")

AuditStatement(r) ==
  AuditCount(r, "count", "page") \/ AuditPage(r, "page", "answered")

\* The statement in flight fails, or the client gives up: the call has no
\* effect, and a page may be asked for again.
FailQuestion(r) ==
  /\ at[r] \in {"select", "count", "page"}
  /\ at' = [at EXCEPT ![r] = "failed"]
  /\ total' = [total EXCEPT ![r] = 0]
  /\ UNCHANGED <<question, rows, version, unseen, floor>>

RetryPage(r) ==
  /\ at[r] = "failed" /\ question[r].op = "audit"
  /\ at' = [at EXCEPT ![r] = "count"]
  /\ UNCHANGED <<question, total, rows, version, unseen, floor>>

ReaderStep(r) ==
  /\ \/ AskQuestion(r) \/ AskNextPage(r) \/ RetryPage(r)
     \/ SelectVersion(r) \/ AuditStatement(r)
     \/ AuditRefused(r) \/ FailQuestion(r)
  /\ UNCHANGED <<vars, timeVars>>

-----------------------------------------------------------------------------
(* The server, with the clock, and its readers *)

\* Mutant: Submit takes its time before the lookup.
StampedOnArrival ==
  {"lookup", "recordValidated", "recordRejected", "recordConsensus",
   "recordPromoted", "recordRevoked"}

\* Where a call is about to take a time with time.Now():
\* before the row of Submit, and before each event that takes a new time.
Stamped ==
  {"create", "recordValidated", "recordRejected", "recordConsensus",
   "recordPromoted", "recordRevoked"}

ReadClock(c) ==
  /\ pc[c] \in Stamped /\ stamp[c] = None
  /\ \E t \in Times :
       /\ SetBack \/ clock <= t
       /\ stamp' = [stamp EXCEPT ![c] = t]
       /\ clock' = IF clock <= t THEN t ELSE clock
  /\ UNCHANGED <<vars, occurredAt, readVars>>

\* A call goes on with the time it has read; an INSERT stores it.
CallStep(c) ==
  /\ Arrive(c) \/ Step(c)
  /\ pc[c] \in Stamped => stamp[c] # None
  /\ stamp' = [stamp EXCEPT ![c] =
                 IF pc'[c] \in Stamped \cup {"done"} THEN None ELSE @]
  /\ occurredAt' = [e \in events' |->
                      IF e \in events THEN occurredAt[e] ELSE stamp[e.writer]]
  /\ UNCHANGED <<clock, readVars>>

ExpireStep == (\E k \in CacheKeys : Expire(k)) /\ UNCHANGED <<timeVars, readVars>>

ReadersInit ==
  /\ Init
  /\ clock = 0
  /\ stamp = [c \in Calls |-> None]
  /\ occurredAt = [e \in {} |-> 0]
  /\ at = [r \in Clients |-> "idle"]
  /\ question = [r \in Clients |-> None]
  /\ total = [r \in Clients |-> 0]
  /\ rows = [r \in Clients |-> <<>>]
  /\ version = [r \in Clients |-> None]
  /\ unseen = [r \in Clients |-> {}]
  /\ floor = [r \in Clients |-> None]

ReadersNext ==
  \/ \E c \in Calls : ReadClock(c) \/ CallStep(c)
  \/ ExpireStep
  \/ \E r \in Clients : ReaderStep(r)

ReadersSpec == ReadersInit /\ [][ReadersNext]_allVars

-----------------------------------------------------------------------------
(* Properties *)

ReadersTypeOK ==
  /\ TypeOK
  /\ clock \in Nat
  /\ stamp \in [Calls -> Times \cup {None}]
  /\ occurredAt \in [events -> Times]
  /\ at \in [Clients -> {"idle", "select", "count", "page", "answered",
                         "failed"}]
  /\ question \in [Clients -> Question \cup {None}]
  /\ total \in [Clients -> Nat]
  /\ rows \in [Clients -> Seq(events)]
  /\ version \in [Clients -> ParameterState \cup {None}]
  /\ unseen \in [Clients -> SUBSET events]
  /\ floor \in [Clients -> ParameterState \cup {None}]
  /\ \A r \in Clients : rows[r] # <<>> => Len(rows[r]) <= LimitOf(question[r])

(***************************************************************************)
(* TotalWithinReach: an audit answer never promises events its page does   *)
(* not show: QueryAudit counts first and the ledger only grows, so the     *)
(* page reaches at least as far as the total says.                         *)
(***************************************************************************)
WithinReach(r) ==
  (at[r] = "answered" /\ question[r].op = "audit") =>
    Len(rows[r]) >= Least(LimitOf(question[r]), total[r] - question[r].offset)

TotalWithinReach == \A r \in Clients : WithinReach(r)

(***************************************************************************)
(* WalkMissesOnlyTies: a client that asks page after page from offset 0,   *)
(* until a page is empty, has seen every event that was in the ledger when *)
(* it began, though events are appended meanwhile, with times older than   *)
(* some it was shown.  The exception is an event that shares its time with *)
(* another of the same name: the order of those two may differ from        *)
(* statement to statement.  Nothing is asked of the clock.                 *)
(***************************************************************************)
Tied(e, n) == \E f \in Trail(n) \ {e} : occurredAt[f] = occurredAt[e]

MissesOnlyTies(r) ==
  (at[r] = "answered" /\ question[r].op = "audit" /\ rows[r] = <<>>) =>
    \A e \in unseen[r] : Tied(e, question[r].name)

WalkMissesOnlyTies == \A r \in Clients : MissesOnlyTies(r)

(***************************************************************************)
(* HistoryInOrder: if no clock is set back, an audit, newest first, shows  *)
(* no promotion or revocation of a row as older than the row's consensus,  *)
(* nor that as older than its validation, nor that as older than its       *)
(* submission, whoever wrote the events, unless both have one time.  It    *)
(* rests on where the code reads the clock.  (A promotion and a revocation *)
(* of one row may be out of order: PROMOTED takes its time when the row    *)
(* can be found already.)                                                  *)
(***************************************************************************)
Stage(e) ==
  CASE e.event_type = "SUBMITTED" -> 1
    [] e.event_type = "VALIDATED" -> 2
    [] e.event_type \in {"REJECTED", "CONSENSUS_REACHED"} -> 3
    [] OTHER -> 4

\* d and e are events a page shows in this order.
InOrder(d, e) ==
  d.parameter_id = e.parameter_id =>
    Stage(d) >= Stage(e) \/ occurredAt[d] = occurredAt[e]

HistoryInOrder ==
  ~SetBack => \A r \in Clients : \A k \in 1..Len(rows[r]) : \A j \in 1..(k - 1) :
                InOrder(rows[r][j], rows[r][k])

(***************************************************************************)
(* VersionsNeverGoBack: a client that asks for the same id again is never  *)
(* told an earlier state than before, nor that the id is unknown now: what *)
(* it reads is the row, and no call takes a row back.                      *)
(***************************************************************************)
NeverBack(r) ==
  (at[r] = "answered" /\ question[r].op = "version" /\ floor[r] # None) =>
    version[r] # None /\ version[r] \in StillPossible(floor[r])

VersionsNeverGoBack == \A r \in Clients : NeverBack(r)
=============================================================================
