# TruthMetal: models, checks and proofs

TruthMetal keeps *canonical parameters*: a client submits a value for a
namespace and key, the server validates it, promotes it to CANONICAL, serves it
from a cache, and records every state transition in an append-only ledger. This
directory holds TLA+ models of the server and of the golden-suite validator that lives
beside it, the TLC runs that check them, and TLAPS proofs.

## 1. Inventory

| Component | Source | State | Operations | What makes it correct |
|---|---|---|---|---|
| Data model | `internal/model/parameter.go` | – | – | a row moves only along its lifecycle |
| Store | `internal/store`, `migrations` | tables `parameters`, `ledger_events`; partial unique index | `CreateParameter`, `GetParameter`, `GetParameterByID`, `UpdateParameterState`, `AppendEvent`, `ListParameterVersions`, one statement each; `QueryAudit`, two; no transactions across them | one canonical row per name; versions chain; audit pages agree with each other |
| Cache | `internal/cache/redis.go` | Redis key -> marshalled parameter, TTL 5 min | `GetCanonical`, `SetCanonical`, `InvalidateCanonical` | serves only what was canonical, under its own name; stale entries vanish |
| Consensus | `internal/consensus/quorum.go` | – (rows) | `Evaluate`: VALIDATING, validation, CONSENSUS_PENDING, CANONICAL, an event after each | promotes only validated values; the ledger follows the table |
| Validation | `internal/consensus/validate.go` | – | `validateValueType` | a value is promoted only if its type's parser takes it |
| Ledger service | `internal/ledger/ledger.go` | the feed's channel | `Submit`, `Get`, `GetByID`, `Revoke`, `QueryAudit` | acknowledged work is in the table and in the ledger |
| Feed and Watch | `ledger.go`, `internal/api/handler.go` | channel of 256 events, open streams | non-blocking send; receive, `stream.Send` | never blocks Submit; tells a client of a promotion at most once, and of recorded ones only |
| Handlers | `internal/api/handler.go` | – | argument checks, error codes | every accepted call is answered |
| Server | `cmd/server/main.go`, `migrations` | processes, connections, schema version | start-up, migrations, listening, shutdown | serves only a migrated database; ends on a signal; exit code 0 means that what `Shutdown` knows of was served |
| Golden suite validator | `internal/goldensuite/contract.go`, `cmd/validate-golden-suite` | three JSON files of somebody else | `ValidateDir`, exit code | accepts only one whole release, and a sound one |
| Generated code | `gen/` | – | protobuf, Connect | – |

How they interact: a handler calls the service; the service calls the store, the
cache and consensus; consensus calls the store; the service offers an event to
the channel, and the `Watch` handlers take events from that same channel. Each
RPC runs in its own goroutine, nothing holds a lock or a transaction across two
statements, and several calls on one name interleave freely at every round trip
to PostgreSQL or Redis. What is hard here follows from that: rows read several
round trips before they are updated, an `UPDATE` that does not look at the state
it replaces, a row and its event written by two statements, errors that are
discarded, a cache filled with what was read earlier, and a process that may die
anywhere. The audit is read by two statements and by offset while it grows;
several processes migrate one database; a shutdown meets calls in flight; and the
validator reads three files, piece by piece, that a publisher may be replacing or
rewriting. `PROJECT.json` lists these hazards line by line.

## 2. Modules

| Module | Models | State |
|---|---|---|
| `Parameter` | the vocabulary of `parameter.go` | – |
| `Store` | `PostgresStore`, the tables and the unique index | `params`, `events` |
| `Cache` | `redis.go` (extends `Store`) | `cache` |
| `Watch` | the channel and the `Watch` handler | `feed`, `watch`, `held`, `got` |
| `Validate` | `validateValueType` | – |
| `Ledger` | handlers, service and consensus composed over `Cache` and `Watch` | `pc`, `req`, `seen`, `reply` per call |
| `Lifecycle` | the abstract specification: the life of a row | `life`, `nameOf` |
| `LedgerSafety` | the properties, and the refinement mapping to `Lifecycle` | – |
| `LedgerInvariant` | the inductive invariants `IInv`, `AuditInv`, `FeedInv` and `NameInv` | – |
| `LedgerProofs` | `IInv` is inductive; the safety theorems | – |
| `LifecycleProofs` | `Ledger` implements `Lifecycle` | – |
| `AuditProofs` | `AuditInv` is inductive; the theorems on the ledger and the feed | – |
| `FeedProofs` | `FeedInv` and `NameInv` are inductive; the theorems on Watch and Get | – |
| `Readers` | `GetVersion` and `QueryAudit` composed with `Ledger`, and the clock | `clock`, `stamp`, `occurredAt`; per reader `at`, `question`, `total`, `rows`, `version` |
| `ReadersInvariant` | the inductive invariants `TrailInv`, `AnswerInv` and `WalkInv` | – |
| `TrailProofs` | `TrailInv` is inductive: who wrote which event, and when | – |
| `ReadersProofs` | `AnswerInv` and `WalkInv` are inductive; the theorems on readers | – |
| `GoldenContract` | the checks of `contract.go` on decoded documents | – |
| `GoldenSuite` | `ValidateDir` and its command, beside a publisher | `dir`, `disk`, `release`, `pending`; `at`, `file`, `handle`, `got`, `bytes`, `exit` |
| `GoldenProofs` | the invariant `GInv` is inductive; the theorems on the validator | – |
| `Server` | processes from start to exit, on one database | `at`, `signalled`, `listener`, `exit`; `version`, `dirty`, `applied`, `lock`; `conn` |
| `ServerProofs` | the invariant `SInv` is inductive; the theorems on processes | – |
| `MCLedger`, `MCReaders`, `MCGolden`, `MCServer` | instances for TLC | – |

### How `Ledger` corresponds to the code

A *call* is one RPC. `pc[c]` names the round trip the call makes next; one action
is one round trip together with all the local code up to the next one, with the
code's branches and early returns. `req[c]` is the request, `seen[c]` the
parameter the call read last or returns (an id and the state it had *then*), and
`reply[c]` how the call ended (a Connect code, a panic, or cut off by a crash).

* A Submit call creates at most one row; its UUID is abstracted to the call
  itself, so `Calls = Ids`. The UUID of an event is abstracted to its writer: no
  call writes two events of one type.
* A value is the set of grammars its text belongs to (number, bool, JSON,
  timestamp), or none when it is empty; module `Validate` decides from that and
  the requested type, as `validateValueType` does, and `TypeOf` is the handler's
  default. Names are records of
  two sequences, because `cacheKey` concatenates them.
* Every round trip has an outcome from `Outcomes`: `ok`; `err`, nothing happened;
  `lost`, the statement took effect and the caller sees an error. A client that
  disconnects cancels the context, which is a run of `err` outcomes.
* `UpdateParameterState` refuses a second canonical row (the unique index); it
  checks nothing else, like the code.
* `Crash` ends every call in flight and empties the feed; the tables and Redis
  stay. It also stands for a shutdown whose deadline passes. Nothing in the code
  resumes a half-done Submit, so there is no recovery action.
* `Expire` removes a cache entry at any time: the TTL is untimed.
* The `!ok` branch of `Watch` is dead code (nothing closes the channel) and has no
  action. A stream whose client is gone may still take an event; its `Send` then
  fails and the event is gone.
* `Served` is the idle server: with a finite set of calls it replaces a deadlock.

### `Readers`

A reader is a client that asks for a version by id, or for the audit of a name,
and may ask for page after page. `QueryAudit` is two actions, the count and the
page, with every step of the writers between them. To read the clock is an action of
its own, `ReadClock`: `Stamped` lists where a call is about to do so, after the reply of
the statement before and before its own INSERT, so that other calls may read the clock
and write on either side of it. `SUBMITTED` and `SUPERSEDED` share one reading. What
`time.Now()` returns, as a TIMESTAMPTZ keeps it, is any member of `Times`: readings may
be equal, and with `SetBack` they may be less than earlier ones. `clock`, the latest time
read, is a history variable that only says what it means for a clock not to be set back.
Rows with equal times come in either order, chosen anew at each statement (`Slices`).
`unseen` and `floor` are history variables for the properties. No stream is open and no
process dies in this composition: neither touches what a reader reads.

### `GoldenContract` and `GoldenSuite`

A check of `contract.go` ends in an error or goes on, so each is a predicate, and
the order of the checks only chooses the message. `GoldenSuite` makes one action
of each system call: `Inspect` is `Lstat`; `Open` is `Open` with `SameFile`; `Read` is one
`read` of the loop in `io.ReadAll`, which takes one of the `Size` pieces of a file; and
`Decode`, which makes no system call, is the decoder at the end of the file. A file's
content is a sequence of pieces, each the name of the content it is a piece of, or `Torn`
where the file is cut off or half overwritten. `Decoded` gives the document that a
sequence of pieces decodes to, or nothing; nothing is assumed of it for pieces of several
files, and in the instance a manifest spliced from two does decode. A hash is a record
that holds the content it is of, so equal hashes mean equal bytes.

The publisher is not part of this repository: it brings the directory from one release to
the next path by path, by a rename, a link, a removal, or, for the paths in `InPlace`, by
truncating and writing the file where it is, piece by piece, between any two reads of the
validator. `Numbers` says which inode numbers the files of a path may get; a number is
used again as soon as no entry and no open file has it, so a new file may have the
number that `Lstat` saw. `patched`, `seen` and `reused` are history variables for the
properties. Of the publisher and of JSON two things are assumed, by name: a release has
the three files (`HistoriesAssumption`), and a document that decodes has lists where the
Go type has a slice (`ListsAssumption`). TLC evaluates them on the instance. Two more fix
the shape of the constants: `NumbersAssumption` and `SizeAssumption`.

### `Server`

A process goes through `run` of `main.go`: `at[p]` names what it does next. The database
side is golang-migrate's: a version is marked dirty, run, and marked clean, under
an advisory lock that dies with its session. A connection is HTTP/1.1, for which
`Shutdown` waits, or h2c, which `h2c.NewHandler` takes over and `Shutdown` forgets.
A call is between two statements or inside one; `Ledger` says what it does with
them, and its action `Crash` is what a process that is gone leaves behind. `Exit`
waits for running statements as `pool.Close` does. A failed listener leaves the
process up, as the code does.

Two CONSTANTS are switches for behaviour of the platform the code runs on:

* `ErrorsAsPanics`: Go's `errors.As` panics when its target does not point to a
  type that implements `error`. `ledger.go:41` passes `&store.ErrNotFound{}`, a
  pointer to a struct whose `Error` has a pointer receiver. TRUE is what Go does.
* `UuidCoalesceFails`: PostgreSQL types `COALESCE(<uuid>, '')` as uuid and refuses
  `''`. All three SELECTs on `parameters` carry it. TRUE is what PostgreSQL does.

With both TRUE no Submit gets past its first statement (run `as_built`), and
nothing behind it could be examined. The other runs set both to FALSE, which is
the program with these two expressions meaning what was intended. The proofs
make no choice: every theorem holds for all four combinations.

## 3. Runs

| Run | Instance | Shows |
|---|---|---|
| `ledger_faults` | 3 calls of any kind on one name, all outcomes, crash | eight safety properties, among them the refinement of `Lifecycle` |
| `fair_calls` | 2 calls, 2 names and a refused one, 2 watchers, capacity 1, all outcomes, crash, fairness | every call ends; a stale cache entry goes for good; no name gets another's value; no client is told a promotion twice or before it is recorded |
| `audit_reads` | 1 Submit, 1 reader that walks by pages of two or the default, refused questions, failures and retries; 4 times, the clock may be set back | what a client that reads an audit page by page can rely on |
| `audit_order` | 2 calls that submit or revoke, 1 reader of two neighbours in a history and of versions; 2 times, the clock is not set back | the stages of a row are shown in their order, and a version never goes back |
| `golden_suite` | 4,200 suites at rest; a pair of releases, the second published meanwhile; files of two pieces, the manifest written in place, two inode numbers for each path | what is accepted is sound, and one release as far as pins can tell |
| `server` | 2 processes, 2 connections, 2 migrations, fairness | start-up and shutdown, with faults, kills and signals anywhere |

Properties of `ledger_faults`:

* `PrivateUntilPromoted`: a row that is not yet promoted is in the state its own
  call has put it in. Queries by name ask for canonical rows, so no other call
  finds it; if one could, it would revoke a row under evaluation.
* `OnlyValidatedServed`: rows that are or were canonical, cache entries and
  successful answers passed validation and were canonical, although `SetCanonical`
  is called with snapshots.
* `VersionChain`: version 1 without predecessor, or one above a once canonical row
  of the same name.
* `LedgerTrailsByOne`: on its way to CANONICAL or REJECTED a row is at most one
  event ahead of the ledger, whatever failed. Of a revoked row the ledger has the events
  up to CONSENSUS_REACHED; PROMOTED and the revocation may both be missing.
* `CheckedEventsAreTrue`: an event written after a checked UPDATE is true.
* `AcknowledgedIsAudited`: what was answered with success is in the ledger, and
  what Revoke acknowledged stays revoked.
* `ImplementsLifecycle`: the rows behave as `Lifecycle` says.

Properties of `fair_calls`:

* `EveryCallReturns`: every call that was accepted ends, whatever fails, however full the
  feed is and whether or not anybody reads it.
* `CacheConverges`: from some time on no cache entry is of a row that is no longer
  canonical, although invalidations fail and fills come late.
* `GetReturnsItsName`: a Get returns a parameter of the name it was asked for. It depends
  on names with different cache keys: see below for names that share one.
* `ClientToldOnce`: no client is sent a promotion twice, however streams take events,
  break off and come back. It says nothing of other clients: see below.
* `FeedTellsAudited`: the channel carries, and the streams send, only recorded promotions.

Properties of `audit_reads` and `audit_order`:

* `TotalWithinReach`: an answer never promises events that its page does not show. It
  holds because the count comes first and nothing is ever deleted.
* `WalkMissesOnlyTies`: a client that walks from offset 0 to an empty page has seen
  every event there was when it began, except perhaps one of two with equal times.
  New events push the old ones further down, never up, so a walk repeats events but
  does not skip them, whatever the clock does; a tie may change its order between two
  pages.
* `HistoryInOrder`: if no clock is set back, an audit shows the stages of one row in
  their order, but for equal times, whoever wrote the events and however late. It rests on
  where the code reads the clock. PROMOTED and REVOKED are one stage for it: PROMOTED is
  stamped when the row can already be found, so it may carry a later time than the REVOKED
  or SUPERSEDED of another call.
* `VersionsNeverGoBack`: asked again, a version is never in an earlier state and never
  unknown.

Properties of `golden_suite`:

* `AcceptedIsOneRelease`: an accepted manifest that nobody wrote to where it is is the
  manifest of one release; and if a release pins its own companions and its manifest is
  accepted, so are its companions and no others, though files are replaced and rewritten
  between any two reads and releases may share files. The hashes in the manifest exclude
  the mixtures; nothing pins the manifest itself, so a manifest written in place between
  two reads, a prefix of the old one and a suffix of the new, can decode and be accepted.
* `ReadWasThere`: every piece that was read was at its place in the file at the path, a
  regular one, since the path was inspected; nothing is read through a link and nothing
  that had been replaced by then. The exception is a file that got the number of the
  inspected one before the path was opened, which `SameFile` cannot tell from it. That all
  pieces were there at *one* instant is not claimed, and is not so.
* `AcceptedIsSound`: what the running counts and maps of three functions come to for an
  accepted suite: ids partition the source's cases, the gate can be met, no two cases
  ask the same, every metric is gated once, no blocked evidence, a key exactly when
  the anchor is accepted, no rollout.

Properties of `server`:

* `ServesMigrated`: whoever serves has a clean database with both migrations, although
  two processes migrate it and either may die between any two statements.
* `SuccessMeansServed`: with exit code 0 only h2c calls can have been cut off.
* `ExitsAfterSignal`: a signal at any point ends the process.

Six runs show a comment of the code and the code disagreeing; each names the
line it quotes (see `findings`):

| Run | Disagreement |
|---|---|
| `as_built` | the Submit of a valid value panics |
| `superseded_by_rejected` | the canonical version is revoked before its successor is validated; an invalid Submit leaves the name without a value |
| `evaluate_undecided` | the loser of two concurrent Submits stays CONSENSUS_PENDING |
| `unrecorded_revocation` | a revoked row without an event |
| `false_event` | an event of a transition that did not happen |
| `revoked_cached` | a Submit fills the cache with the row it read back, after a Revoke has cleared it: a revoked value in the cache after every call has ended |

Two more disagreements are not runs; the properties that touch them take neither side:

* `ledger.go:121` says "Broadcast to Watch subscribers", but every `Watch` handler receives
  from the one channel (`handler.go:136`), so the event of a promotion reaches one of the
  streams that wait, and the others never. `ClientToldOnce` is therefore about each client
  by itself.
* `ledger.go:135` says that Get returns "the current canonical parameter", but `cacheKey`
  (`redis.go:47`) joins namespace and key with `:` and escapes neither: `a` / `b:c` and
  `a:b` / `c` share an entry, and a Get of one is answered with the other's parameter. In
  `Cache`, names are pairs of sequences and `cacheKey` concatenates them, so an instance with
  these two names violates `GetReturnsItsName`; `fair_calls` has names with different keys,
  and the theorem has a hypothesis (section 4).

Seen while modelling and not made runs: two calls that read the same canonical
row both record its revocation; after a Revoke the next Submit starts again at
version 1, so `ListParameterVersions` is not chronological; `Watch` ignores the filter of
its request; Get has the race of `revoked_cached` too, between its SELECT and its fill; a
history may show a promotion as newer than the revocation of the same row; a page may
repeat events of the page before; a manifest spliced from two may be accepted; a
migration cut off by a kill leaves a dirty version, and no process comes up until
somebody repairs it; a process whose listener fails stays up;
a Watch stream on HTTP/1.1 makes every shutdown end by its deadline, with exit
code 1; `validate.go:34` announces a semver pattern and any text passes;
`golden-suite-v1.md` calls the JSON shape exact, and Go's decoder takes missing
fields and field names in another case.

**Bounds.** Three calls are the fewest in which a value is canonical while two
calls race about it; with symmetry and every fault this is about 380,000 states.
Calls on different names share nothing but the cache and the feed, so one name is
enough for `ledger_faults`, and two names appear where the cache key matters. A
capacity of 1 makes the channel fill. In `as_built`, `evaluate_undecided`
and the others one or two calls are enough for the counterexample. A call is
served once, so versions and the ledger stay finite without a counter bound, and so do
the walks of `audit_reads`; a reading of the clock comes from the finite set `Times`. One
Submit writes four events, two pages of two and an empty one, and four times let all of
them differ, tie or come in any order. Two times are enough for `audit_order`: readings
that put two events of a row in the wrong order do so still when every time up to the
earlier of the two becomes 1 and every later one 2. The suites of `golden_suite` vary what
one check compares with another document (counts, excluded ids, signing status, thresholds, inputs,
evidence) exhaustively over small lists, and single fields one at a time; suites
have up to two accepted cases, the fewest in which ids and inputs can collide. Two
releases are the fewest that can be mixed, and two pieces the fewest between which a file
can be rewritten; two numbers for each path are the fewest with which a file can be
replaced while it is open and the number of a closed one can come back. Only the manifest
is written in place in the instance, because nothing else pins it; the proofs allow it
for every path. Two processes are the fewest that compete for the migration lock, and the
second also stands for the restart of the first; two connections are one of each
kind, or two of one.

**Fairness** (`FairSpec`): a goroutine that can run does run, and a round trip
ends, with or without an error, because drivers report a broken connection
(`WF` of every `Step(c)`); a TTL passes (`WF` of `Expire`). Arrivals, Watch
streams and crashes have no fairness: a client may never call, read or reconnect.
In `Server` the main goroutine is fair (`WF` of `Run`), which includes that golang-migrate
gives up waiting for its lock and that ten seconds pass, and so is the end of a
statement; starts, signals, clients and handlers are not, so a Watch stream may stay
open for good.

**Symmetry** is used in `ledger_faults`, `audit_reads` and `audit_order`, which have no
liveness: calls and readers are only compared for equality.

**Deadlock** is checked except in `golden_suite` and `server`, where the command and the
processes end.

## 4. Proofs

Eight modules hold proofs. They are about every set of calls, names, requests, watchers
and readers, every capacity, every subset of outcomes, with or without crashes; every
number of processes, connections and migrations; every set of documents and releases.

| Module | Theorem | Statement |
|---|---|---|
| `LedgerProofs` | `InvariantHolds` | `Spec => []IInv` |
| | `TypeCorrect` | `Spec => []TypeOK` |
| | `RowsArePrivate` | `Spec => []PrivateUntilPromoted` |
| | `VersionsChain` | `Spec => []VersionChain` |
| | `ServedIsValidated` | `Spec => []OnlyValidatedServed` |
| `LifecycleProofs` | `LifecycleImplemented` | `Spec => ImplementsLifecycle` |
| `AuditProofs` | `AuditHolds` | `Spec => []AuditInv` |
| | `LedgerTrails` | `Spec => []LedgerTrailsByOne` |
| | `CheckedEventsTrue` | `Spec => []CheckedEventsAreTrue` |
| | `AcknowledgedAudited` | `Spec => []AcknowledgedIsAudited` |
| | `FeedAudited` | `Spec => []FeedTellsAudited` |
| `FeedProofs` | `FeedHolds` | `Spec => []FeedInv` |
| | `NotifiedOnce` | `Spec => []ClientToldOnce` |
| | `GetsItsName` | `NoSeparator` implies `Spec => []GetReturnsItsName` |
| `TrailProofs` | `ReadersAreServed` | `ReadersSpec => Spec` |
| | `TrailInTime` | `ReadersSpec => []TrailInv` |
| `ReadersProofs` | `ReadersAnswered` | `ReadersSpec => [](TrailInv /\ AnswerInv /\ WalkInv)` |
| | `ReadersTypeCorrect` | `ReadersSpec => []ReadersTypeOK` |
| | `TotalIsReached` | `ReadersSpec => []TotalWithinReach` |
| | `VersionsAdvance` | `ReadersSpec => []VersionsNeverGoBack` |
| | `WalkIsComplete` | `ReadersSpec => []WalkMissesOnlyTies` |
| | `AuditInOrder` | `ReadersSpec => []HistoryInOrder` |
| `GoldenProofs` | `GoldenInvariant` | `Spec => []GInv` |
| | `GoldenTypeCorrect` | `Spec => []TypeOK` |
| | `NothingElseRead` | `Spec => []ReadWasThere` |
| | `NoMixtureAccepted` | `Spec => []AcceptedIsOneRelease` |
| | `OnlySoundAccepted` | `Spec => []AcceptedIsSound` |
| `ServerProofs` | `ServerInvariant` | `Spec => []SInv` |
| | `ServerTypeCorrect` | `Spec => []TypeOK` |
| | `OnlyMigratedServes` | `Spec => []ServesMigrated` |
| | `CodeZeroServes` | `Spec => []SuccessMeansServed` |

**Assumptions.** `None` is none of the values it is used beside (ids, states, requests,
snapshots, events, questions, processes, exit codes, contents); requests and questions are
well formed; times are natural numbers; the capacity and the number of migrations are
positive; the switches are Boolean; and those of `GoldenSuite` (section 2). All are named
ASSUMEs that TLC evaluates in the runs. One theorem has a hypothesis of its own, `NoSeparator`: a namespace
holds no colon. `cacheKey` joins namespace and key with one, so without it two
names can have the same cache key and Get can return the wrong parameter (section 3);
with it the keys are distinct (`KeysApart`), whatever the keys hold.
`HistoryInOrder` has the hypothesis `~SetBack` in its statement: with a clock that is set
back, or with several processes whose clocks disagree, it does not hold.

**Rows (`LedgerProofs`, `LifecycleProofs`).** None of the properties is inductive.
`TypeOK` is not: that
`Submit` can supersede `params[c].prev` needs to know that it is an id and not
NULL. `IInv` says what each program counter implies: which state the call's own
row is in (`Private`), that the row belongs to the call's request and was
validated before it was promoted (`Owned`), and that an id the call has read
names a row that is canonical or revoked *now* (`SeenWasCanonical`); the last is
stable because no step takes a row out of {CANONICAL, REVOKED}. The lemma `Frame`
reduces a step of call c to c itself: other calls' variables do not change, and
other rows change only from promoted to promoted. `RowlessStep`, `RecordsOwn` and
`UpdatesRow` specialise it to the kinds of round trip, and one lemma per action
remains. `LifecycleProofs` then reads every UPDATE as an edge of the lifecycle
or a stutter; that no second row of a name becomes canonical is where the unique
index is used (`UpdateAdvances`).

**Ledger (`AuditProofs`).** `AuditInv` adds what each program counter implies about the
ledger: the events of
its own row the call has seen recorded (`OwnEvents`), that a revocation about to
be recorded has happened, and that what is about to be offered to the feed was
promoted (`AuditedSoFar`). It is inductive relative to `IInv`, and it needs the
refinement: that an event stays true rests on rows moving only along the edges of
`Lifecycle` (`Forward`, `HappenedStable`). `AuditStep` leaves four questions of a
step: what its call now claims, which rows it changed, which events it wrote and
what it put on the feed.

**Feed and Get (`FeedProofs`).** That no client is told twice is not inductive: a call could
offer an event that is already somewhere. `FeedInv` adds that an event is in one place at a
time, the channel, a stream's hand or one client, and that a call anybody was told of is
over (not the converse: events are dropped and lost); `SubmitBroadcast` offers as its last act, so its event is nowhere yet, and a stream
only moves events from the channel to its hand and from its hand to its client. `NameInv`
says that the row a Get holds has the name it asked for; the cache gives it because an entry
sits under the key of its own row (`OnlyValidatedServed`, part of `IInv`).

**Times (`TrailProofs`).** `Readers` adds the clock and the readers and takes nothing away
(`ReadersAreServed`), so all the above holds in it. `WritersInv` says which types of events
a call can have written when it is at a given label, hence that no call writes one
type twice, and which events can be about a row of another call. `ClockInv` says which
calls have read their clock, whatever it shows, and `InTime`, for a clock that is not set
back, what their times are later than. `HistoryInOrder` is about events of *different* calls on one
row: the SUPERSEDED or REVOKED that another call writes. It rests on `EndsLater`: a call
that is about to end a row found it canonical, when everything that row's own call had
written, but PROMOTED, was in the ledger (`AuditInv`), and it read its clock after that.

**Readers (`ReadersProofs`).** Everything a reader was told is read as a bound that only the
growth of the table can loosen: rows move along the lifecycle, trails get larger, no event
gets newer (`WorldGrows`, `TrailGrows`, `DepthGrows`). `ReaderHolds` says that such a step
keeps what any reader holds true, so that one lemma per action of one reader remains. Two
facts about the statement carry the walk: its ORDER BY, with ties broken either way, is
a strict total order of a trail (`NewerOrders`), so positions 0, 1, ... are each taken by one
event (`Rank`, a counting argument over finite sets); and an event with a time of its own
stands at its `Depth`, the number of newer events, in every such order (`PlaceIsDepth`).
`Walked` is the invariant: an event not yet shown is tied or lies at least as deep as the
offset the walk has reached.

**Validator (`GoldenProofs`).** `GInv` says what a file of a path may hold (`Holds`): pieces of
that path's contents, and those of one release if it is a manifest that nobody wrote to in
place. `EntryInv` says it of the directory, `ReadInv` of the file that is open, also when
its entry has gone, and `BytesInv` of what was read. `SeenInv` and `HandleInv` carry
`ReadWasThere`: whatever the path shows is in `seen`, and an entry with the number that was
inspected is a regular file, unless the number was used again; `SameFile`, in `Open`, is what
turns this into a fact about the file that is opened, and excludes a link put there after
`Lstat`. That two paths never share a file keeps a write to one out of the other. An
accepted suite passed all checks on what was read; the pins then force its companions
into the manifest's release, and `AcceptedIsSound` follows from lemmas on repetitions and
cardinalities.

**Processes (`ServerProofs`).** `SInv` says what the label of a process that migrates implies
about the version table it shares (`DatabaseInv`: a clean version has exactly its
migrations; once a process has found the last version clean, it stays so), which uses that
only the holder of the advisory lock changes it; and which connections may live at each
label of a shutdown (`ConnInv`).

All invariants were checked with TLC on the instances of the runs, or on smaller ones of
the same shape, before they were proved. Two repairs of the models came from the proofs: in
`Server`, a killed process now closes its listener; in `Readers`, the next step after a
refused question was a CASE with two true guards, of which TLC takes the first
and TLA+ either.

**Only model-checked.** Liveness (`EveryCallReturns`, `CacheConverges`,
`ExitsAfterSignal`), which is out of this prover's reach, and the counterexamples of the
six runs. Every safety property of the passing runs is a theorem.

## 5. Not modelled, and the plan

Not modelled: generated code; protobuf layout (`toProto`, `eventToProto`,
`stateToProto`); actors and reasons; logging; configuration; `ListParameterVersions`,
which no code calls; what Go's JSON decoder does with a document, beyond whether
it takes it. The clocks of several processes, which may disagree, are one clock that may
be set back in `Readers`. Several server processes behave for `Ledger`
as more calls, except that each has a feed of its own.

What remains, in this order:

1. What a walk may *repeat*: a page holds again an event of the page before only if events
   were appended in between, at most as many as were; checked first, then proved from
   `DepthGrows`.
2. A safety core for `EveryCallReturns`: a variant that every step of a call decreases,
   as an action property, so that only the fairness argument is left to TLC.
3. `Server` and `Ledger` composed: `Crash` of `Ledger` as what `Kill` or `Exit` of a process does
   to the calls of its connections, shown as a refinement.
