------------------------------- MODULE Server -------------------------------
(***************************************************************************)
(* The life of server processes (cmd/server/main.go): start-up with the    *)
(* migrations of a database they share, serving, and shutdown after a      *)
(* signal, with the connections that are open meanwhile.  Module Ledger    *)
(* says what the calls do; here a call is only between two statements or   *)
(* inside one.  A process that is started again is another member of       *)
(* Processes.                                                              *)
(*                                                                         *)
(* Outside this repository: golang-migrate (its Up marks the version dirty *)
(* before it runs a migration and clean after it, under an advisory lock   *)
(* that dies with its session), net/http (Shutdown waits for HTTP/1.1      *)
(* connections and forgets those h2c has taken over), and pgxpool (Close   *)
(* refuses new statements and waits for those that run).                   *)
(***************************************************************************)
EXTENDS Naturals

CONSTANTS
  Processes,   \* processes ever started on the database
  Conns,       \* client connections, each with one call
  Last,        \* the number of migrations
  None

ASSUME LastAssumption == Last \in Nat \ {0}
ASSUME NoneAssumption ==
  None \notin Processes \cup {"success", "failure", "killed"}

VARIABLES
  at,        \* at[p]: what process p does next
  signalled, \* signalled[p]: SIGINT or SIGTERM has cancelled ctx
  listener,  \* listener[p]: the goroutine of ListenAndServe
  exit,      \* exit[p]: exit code 0 or 1, or killed
  version, dirty, applied,  \* schema_migrations, and what has been run
  lock,      \* the process that holds the migration lock
  conn       \* conn[k]: connection k

database == <<version, dirty, applied, lock>>
vars == <<at, signalled, listener, exit, version, dirty, applied, lock, conn>>

Labels ==
  {"off", "pingDatabase", "lock", "migrate", "apply", "markClean",
   "pingRedis", "serving", "draining", "closing", "exited"}

Migrating == {"migrate", "apply", "markClean"}
Up == {"serving", "draining", "closing"}

\* An open connection waits for its request, or its call runs; "cut" ended
\* with the process.
ConnStates == {"open", "between", "querying", "closed", "cut"}
Live == {"open", "between", "querying"}

Conn == [process: Processes, kind: {"http1", "h2c"}, at: ConnStates]

Goto(p, l) == at' = [at EXCEPT ![p] = l] /\ UNCHANGED exit

\* The connections of p when it is gone.
CutOff(p) ==
  conn' = [k \in Conns |->
             IF conn[k] = None \/ conn[k].process # p \/ conn[k].at \notin Live
             THEN conn[k]
             ELSE [conn[k] EXCEPT !.at = "cut"]]

\* run has returned; main turns an error into exit code 1.
Leave(p, code) ==
  /\ at' = [at EXCEPT ![p] = "exited"]
  /\ exit' = [exit EXCEPT ![p] = code]

-----------------------------------------------------------------------------
(* Start-up: the first half of run *)

\* pgxpool.New connects lazily; a malformed URL is an error here too.
Start(p) ==
  /\ at[p] = "off"
  /\ Goto(p, "pingDatabase") \/ Leave(p, "failure")
  /\ UNCHANGED <<signalled, listener, database, conn>>

\* Ping with a context that a signal cancels.
Ping(p, from, to) ==
  /\ at[p] = from
  /\ \/ ~signalled[p] /\ Goto(p, to)
     \/ Leave(p, "failure")
  /\ UNCHANGED <<signalled, listener, database, conn>>

PingDatabase(p) == Ping(p, "pingDatabase", "lock")
PingRedis(p) == Ping(p, "pingRedis", "serving")

\* Mutant: the error of runMigrations is only logged.
MigrationsFailLogged(p) ==
  /\ lock' = None
  /\ Goto(p, "pingRedis")

\* runMigrations returns an error.
MigrationsFail(p) ==
  /\ lock' = None
  /\ Leave(p, "failure")

\* migrate.New and the lock, for which Up waits for some time.
LockMigrations(p) ==
  /\ at[p] = "lock"
  /\ \/ lock = None /\ lock' = p /\ Goto(p, "migrate")
     \/ Leave(p, "failure") /\ UNCHANGED lock
  /\ UNCHANGED <<signalled, listener, version, dirty, applied, conn>>

\* A dirty version is an error; nothing left to do, at once (ErrNoChange) or
\* after some migrations, is none.  A statement that fails may have run.
NextMigration(p) ==
  /\ at[p] = "migrate"
  /\ \/ /\ MigrationsFail(p)
        /\ UNCHANGED <<version, dirty>>
     \/ /\ ~dirty /\ version = Last
        /\ lock' = None
        /\ Goto(p, "pingRedis")
        /\ UNCHANGED <<version, dirty>>
     \/ /\ ~dirty /\ version < Last
        /\ version' = version + 1 /\ dirty' = TRUE
        /\ \/ Goto(p, "apply") /\ UNCHANGED lock
           \/ MigrationsFail(p)
  /\ UNCHANGED <<signalled, listener, applied, conn>>

\* One file is one implicit transaction.
ApplyMigration(p) ==
  /\ at[p] = "apply"
  /\ \/ applied' = applied \cup {version} /\ Goto(p, "markClean") /\ UNCHANGED lock
     \/ applied' \in {applied, applied \cup {version}} /\ MigrationsFail(p)
  /\ UNCHANGED <<signalled, listener, version, dirty, conn>>

MarkClean(p) ==
  /\ at[p] = "markClean"
  /\ \/ dirty' = FALSE /\ Goto(p, "migrate") /\ UNCHANGED lock
     \/ dirty' \in BOOLEAN /\ MigrationsFail(p)
  /\ UNCHANGED <<signalled, listener, version, applied, conn>>

-----------------------------------------------------------------------------
(* Serving *)

\* Mutant: the server listens even when Shutdown has begun.
ListenLate(p) ==
  /\ at[p] \in Up /\ listener[p] = "none"
  /\ \E l \in {"open", "failed"} : listener' = [listener EXCEPT ![p] = l]
  /\ UNCHANGED <<at, signalled, exit, database, conn>>

\* The goroutine of ListenAndServe; a failure is only logged.
Listen(p) ==
  /\ at[p] \in Up /\ listener[p] = "none"
  /\ \E l \in IF at[p] = "serving" THEN {"open", "failed"} ELSE {"closed"} :
       listener' = [listener EXCEPT ![p] = l]
  /\ UNCHANGED <<at, signalled, exit, database, conn>>

Accept(p, k) ==
  /\ listener[p] = "open"
  /\ conn[k] = None
  /\ \E kind \in {"http1", "h2c"} :
       conn' = [conn EXCEPT ![k] = [process |-> p, kind |-> kind, at |-> "open"]]
  /\ UNCHANGED <<at, signalled, listener, exit, database>>

Move(k, from, to) ==
  /\ conn[k] # None
  /\ conn[k].at = from
  /\ conn' = [conn EXCEPT ![k].at = to]
  /\ UNCHANGED <<at, signalled, listener, exit, database>>

\* A request arrives, also while the server drains; its handler runs.
Request(k) == Move(k, "open", "between")

\* pgxpool acquires a connection; a closed pool refuses, which ends the call.
BeginStatement(k) ==
  Move(k, "between",
       IF at[conn[k].process] = "closing" THEN "closed" ELSE "querying")

EndStatement(k) == Move(k, "querying", "between")

\* The handler returns and the connection closes, or it closes while idle.
Finish(k) == Move(k, "between", "closed") \/ Move(k, "open", "closed")

-----------------------------------------------------------------------------
(* Shutdown: the second half of run *)

Signal(p) ==
  /\ at[p] \notin {"off", "exited"} /\ ~signalled[p]
  /\ signalled' = [signalled EXCEPT ![p] = TRUE]
  /\ UNCHANGED <<at, listener, exit, database, conn>>

\* <-ctx.Done(), and Shutdown closes the listener.
Shutdown(p) ==
  /\ at[p] = "serving" /\ signalled[p]
  /\ listener' = [listener EXCEPT ![p] = IF @ = "open" THEN "closed" ELSE @]
  /\ Goto(p, "draining")
  /\ UNCHANGED <<signalled, database, conn>>

Awaited(p) ==
  {k \in Conns : conn[k] # None /\ conn[k].process = p
                 /\ conn[k].kind = "http1" /\ conn[k].at \in Live}

\* Shutdown has closed its idle connections and knows no other.
Drained(p) ==
  /\ at[p] = "draining" /\ Awaited(p) = {}
  /\ at' = [at EXCEPT ![p] = "closing"] /\ exit' = [exit EXCEPT ![p] = "success"]
  /\ UNCHANGED <<signalled, listener, database, conn>>

\* Mutant: Shutdown gets a context without a deadline.
DeadlineNever(p) == FALSE /\ UNCHANGED vars

\* Mutant: the error of Shutdown is not returned.
DeadlineDiscarded(p) ==
  /\ at[p] = "draining"
  /\ at' = [at EXCEPT ![p] = "closing"] /\ exit' = [exit EXCEPT ![p] = "success"]
  /\ UNCHANGED <<signalled, listener, database, conn>>

\* Ten seconds are over: Shutdown returns the error of its context.
Deadline(p) ==
  /\ at[p] = "draining"
  /\ at' = [at EXCEPT ![p] = "closing"] /\ exit' = [exit EXCEPT ![p] = "failure"]
  /\ UNCHANGED <<signalled, listener, database, conn>>

\* The deferred redisClient.Close and pool.Close, and the end of main.
Exit(p) ==
  /\ at[p] = "closing"
  /\ \A k \in Conns :
       conn[k] # None /\ conn[k].process = p => conn[k].at # "querying"
  /\ Leave(p, exit[p])
  /\ CutOff(p)
  /\ UNCHANGED <<signalled, listener, database>>

\* SIGKILL, a panic outside a handler, the machine.
Kill(p) ==
  /\ at[p] \notin {"off", "exited"}
  /\ Leave(p, "killed")
  /\ lock' = IF lock = p THEN None ELSE lock
  /\ listener' = [listener EXCEPT ![p] = "closed"]
  /\ CutOff(p)
  /\ UNCHANGED <<signalled, version, dirty, applied>>

-----------------------------------------------------------------------------

Init ==
  /\ at = [p \in Processes |-> "off"]
  /\ signalled = [p \in Processes |-> FALSE]
  /\ listener = [p \in Processes |-> "none"]
  /\ exit = [p \in Processes |-> None]
  /\ version = 0 /\ dirty = FALSE /\ applied = {} /\ lock = None
  /\ conn = [k \in Conns |-> None]

RunMigrations(p) ==
  \/ LockMigrations(p) \/ NextMigration(p) \/ ApplyMigration(p) \/ MarkClean(p)

Run(p) ==
  \/ PingDatabase(p) \/ RunMigrations(p) \/ PingRedis(p)
  \/ Shutdown(p) \/ Drained(p) \/ Deadline(p) \/ Exit(p)

Serve(k) ==
  \/ \E p \in Processes : Accept(p, k)
  \/ Request(k) \/ BeginStatement(k) \/ EndStatement(k) \/ Finish(k)

Next ==
  \/ \E p \in Processes : Start(p) \/ Run(p) \/ Listen(p) \/ Signal(p) \/ Kill(p)
  \/ \E k \in Conns : Serve(k)

(***************************************************************************)
(* The main goroutine runs, its calls to PostgreSQL and Redis end with or  *)
(* without an error, Up gives up waiting for its lock, ten seconds pass,   *)
(* and PostgreSQL answers a statement that runs.  Starts, signals, clients *)
(* and handlers are not fair: a Watch stream may stay open for good.       *)
(***************************************************************************)
Spec ==
  /\ Init /\ [][Next]_vars
  /\ \A p \in Processes : WF_vars(Run(p))
  /\ \A k \in Conns : WF_vars(EndStatement(k))

-----------------------------------------------------------------------------
(* Properties *)

TypeOK ==
  /\ at \in [Processes -> Labels] /\ signalled \in [Processes -> BOOLEAN]
  /\ listener \in [Processes -> {"none", "open", "failed", "closed"}]
  /\ \A p \in Processes :
       /\ listener[p] = "open" => at[p] = "serving"
       /\ lock = p <=> at[p] \in Migrating
       /\ exit[p] # None <=> at[p] \in {"closing", "exited"}
  /\ exit \in [Processes -> {None, "success", "failure", "killed"}]
  /\ version \in 0..Last /\ dirty \in BOOLEAN /\ applied \subseteq 1..Last
  /\ conn \in [Conns -> Conn \cup {None}]

(***************************************************************************)
(* ServesMigrated: a process that answers calls does so on a database with *)
(* every migration run and none of them in doubt, although several         *)
(* processes migrate it together, each of which may fail or die between    *)
(* two of them.                                                            *)
(***************************************************************************)
ServesMigrated ==
  \A p \in Processes :
    at[p] \in Up => version = Last /\ ~dirty /\ applied = 1..Last

(***************************************************************************)
(* SuccessMeansServed: a process that exits with code 0 has answered every *)
(* call on the connections Shutdown waits for; only h2c calls were cut.    *)
(***************************************************************************)
SuccessMeansServed ==
  \A k \in Conns :
    conn[k] # None /\ conn[k].at = "cut" /\ exit[conn[k].process] = "success"
      => conn[k].kind = "h2c"

(***************************************************************************)
(* ExitsAfterSignal: a signal ends the process, wherever it arrives: in    *)
(* the middle of the migrations, which do not look at ctx, before the      *)
(* listener is up, or with streams open that nobody closes.                *)
(***************************************************************************)
ExitsAfterSignal ==
  \A p \in Processes : signalled[p] ~> at[p] = "exited"
=============================================================================
