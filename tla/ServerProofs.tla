---------------------------- MODULE ServerProofs ----------------------------
(***************************************************************************)
(* Proofs about the life of server processes, for every number of          *)
(* processes, connections and migrations.  SInv says what the label of a   *)
(* process that migrates implies about the version table it shares with    *)
(* the others, and which connections may still live when a process is at   *)
(* a given point of its shutdown.                                          *)
(***************************************************************************)
EXTENDS Server, TLAPS

\* Processes whose migrations are behind them.
Migrated == {"pingRedis"} \cup Up

(***************************************************************************)
(* DatabaseInv: a clean version has exactly the migrations up to it, a     *)
(* dirty one may lack the last; the holder of the lock knows how far it    *)
(* has got; and once a process has found the last version clean it stays   *)
(* that.                                                                   *)
(***************************************************************************)
DatabaseInv ==
  /\ ~dirty => applied = 1..version
  /\ dirty => version > 0 /\ applied \in {1..(version - 1), 1..version}
  /\ \A p \in Processes :
       /\ at[p] \in {"apply", "markClean"} => dirty
       /\ at[p] = "markClean" => applied = 1..version
       /\ at[p] \in Migrated => version = Last /\ ~dirty

(***************************************************************************)
(* ConnInv: only a process that is up has live connections; one that has   *)
(* drained has none that Shutdown waits for; and what was cut off belongs  *)
(* to a process that is gone.                                              *)
(***************************************************************************)
ConnInv ==
  /\ \A p \in Processes : exit[p] = "killed" => at[p] = "exited"
  /\ \A k \in Conns : conn[k] # None =>
       /\ conn[k].at \in Live => at[conn[k].process] \in Up
       /\ /\ conn[k].at \in Live
          /\ at[conn[k].process] = "closing"
          /\ exit[conn[k].process] = "success"
          => conn[k].kind = "h2c"
       /\ conn[k].at = "cut" => at[conn[k].process] = "exited"

SInv ==
  TypeOK /\ DatabaseInv /\ ConnInv /\ SuccessMeansServed

USE LastAssumption, NoneAssumption

\* What a step of p that goes to label l, or leaves, does to the labels.
LEMMA Goes ==
  ASSUME TypeOK, NEW p \in Processes, NEW l \in Labels, Goto(p, l)
  PROVE  /\ at' \in [Processes -> Labels] /\ exit' = exit
         /\ at'[p] = l
         /\ \A q \in Processes : q # p => at'[q] = at[q]
BY DEF TypeOK, Goto

LEMMA Leaves ==
  ASSUME TypeOK, NEW p \in Processes, NEW code \in {"success", "failure", "killed"},
         Leave(p, code)
  PROVE  /\ at' \in [Processes -> Labels]
         /\ exit' \in [Processes -> {None, "success", "failure", "killed"}]
         /\ at'[p] = "exited" /\ exit'[p] = code
         /\ \A q \in Processes : q # p => at'[q] = at[q] /\ exit'[q] = exit[q]
BY DEF TypeOK, Leave, Labels

(***************************************************************************)
(* StartingUp: while a process starts up it has no connection and no exit  *)
(* code, so a step of its start-up leaves everything said of connections   *)
(* as it was.                                                              *)
(***************************************************************************)
LEMMA StartingUp ==
  ASSUME SInv, NEW p \in Processes,
         at[p] \notin Up \cup {"exited"},
         UNCHANGED <<signalled, listener, conn>>,
         \/ \E l \in Labels \ {"closing", "exited"} : Goto(p, l)
         \/ Leave(p, "failure")
  PROVE  ConnInv' /\ SuccessMeansServed'
<1>1. /\ exit[p] = None
      /\ at'[p] # "closing"
      /\ exit'[p] = IF at'[p] = "exited" THEN "failure" ELSE None
      /\ \A q \in Processes : q # p => at'[q] = at[q] /\ exit'[q] = exit[q]
  BY Goes, Leaves DEF SInv, TypeOK, Up
<1>2. \A k \in Conns : conn[k] # None =>
        /\ conn[k].process \in Processes
        /\ conn[k].at \in Live \cup {"cut"} => conn[k].process # p
  BY DEF SInv, TypeOK, ConnInv, Conn, ConnStates, Live
<1>3. ConnInv'
  BY <1>1, <1>2 DEF SInv, ConnInv, Up
<1>4. SuccessMeansServed'
  BY <1>1, <1>2 DEF SInv, SuccessMeansServed
<1>5. QED BY <1>3, <1>4

-----------------------------------------------------------------------------
(* Start-up *)

LEMMA StartKeeps ==
  ASSUME SInv, NEW p \in Processes, Start(p) PROVE SInv'
<1>1. ConnInv' /\ SuccessMeansServed'
  BY StartingUp DEF Start, Labels, Up
<1>2. /\ exit[p] = None /\ at[p] \notin Migrating
      /\ at'[p] = "pingDatabase" \/ at'[p] = "exited"
      /\ exit'[p] = IF at'[p] = "exited" THEN "failure" ELSE None
      /\ \A q \in Processes : q # p => at'[q] = at[q] /\ exit'[q] = exit[q]
      /\ at' \in [Processes -> Labels]
      /\ exit' \in [Processes -> {None, "success", "failure", "killed"}]
  BY Goes, Leaves DEF SInv, TypeOK, Start, Labels, Migrating
<1>3. TypeOK' BY <1>2 DEF SInv, TypeOK, Start, Migrating, database
<1>4. DatabaseInv'
  BY <1>2 DEF SInv, DatabaseInv, Start, Migrated, Up, database
<1>5. QED BY <1>1, <1>3, <1>4 DEF SInv

\* A ping leads away from the migrations or towards them, and never fails
\* for a reason in the database.
LEMMA PingKeeps ==
  ASSUME SInv, NEW p \in Processes, PingDatabase(p) \/ PingRedis(p) PROVE SInv'
<1>1. ConnInv' /\ SuccessMeansServed'
  BY StartingUp DEF PingDatabase, PingRedis, Ping, Labels, Up
<1>2. /\ exit[p] = None /\ at[p] \notin Migrating /\ at'[p] \notin Migrating
      /\ at'[p] \in Migrated => at[p] \in Migrated
      /\ at'[p] # "closing" /\ listener[p] # "open"
      /\ exit'[p] = IF at'[p] = "exited" THEN "failure" ELSE None
      /\ \A q \in Processes : q # p => at'[q] = at[q] /\ exit'[q] = exit[q]
      /\ at' \in [Processes -> Labels]
      /\ exit' \in [Processes -> {None, "success", "failure", "killed"}]
  BY Goes, Leaves
  DEF SInv, TypeOK, PingDatabase, PingRedis, Ping, Labels, Migrating, Migrated, Up
<1>3. UNCHANGED <<signalled, listener, version, dirty, applied, lock, conn>>
  BY DEF PingDatabase, PingRedis, Ping, database
<1>4. TypeOK' BY <1>2, <1>3 DEF SInv, TypeOK, Migrating
<1>5. DatabaseInv'
  BY <1>2, <1>3 DEF SInv, DatabaseInv, Migrating
<1>6. QED BY <1>1, <1>4, <1>5 DEF SInv

(***************************************************************************)
(* MigrationLabels: what a step of the migrations may do to the labels and *)
(* the lock: p goes on with the lock, or leaves without it.                *)
(***************************************************************************)
LEMMA MigrationLabels ==
  ASSUME TypeOK, NEW p \in Processes,
         at[p] \in Migrating \cup {"lock"},
         UNCHANGED <<signalled, listener, conn>>,
         version' \in 0..Last, dirty' \in BOOLEAN, applied' \subseteq 1..Last,
         \/ Leave(p, "failure") /\ lock' = IF lock = p THEN None ELSE lock
         \/ Goto(p, "pingRedis") /\ lock' = None /\ lock = p
         \/ \E l \in Migrating :
              /\ Goto(p, l) /\ lock' = p
              /\ lock \in {None, p}
  PROVE  /\ TypeOK'
         /\ \A q \in Processes : q # p => at'[q] = at[q]
         /\ \A q \in Processes : q # p /\ lock = p => at[q] \notin Migrating
<1>1. /\ exit[p] = None /\ listener[p] # "open"
      /\ \A q \in Processes : q # p => at'[q] = at[q] /\ exit'[q] = exit[q]
      /\ at' \in [Processes -> Labels]
      /\ exit' \in [Processes -> {None, "success", "failure", "killed"}]
  BY Goes, Leaves DEF TypeOK, Labels, Migrating
<1>2. \A q \in Processes : q # p /\ lock = p => at[q] \notin Migrating
  BY DEF TypeOK
<1>3. /\ at'[p] # "closing"
      /\ lock' = p <=> at'[p] \in Migrating
      /\ exit'[p] = IF at'[p] = "exited" THEN "failure" ELSE None
      /\ \A q \in Processes : q # p => (lock' = q <=> at'[q] \in Migrating)
  BY <1>1, <1>2, Goes, Leaves DEF TypeOK, Labels, Migrating
<1>4. TypeOK' BY <1>1, <1>3 DEF TypeOK
<1>5. QED BY <1>1, <1>2, <1>4

LEMMA LockKeeps ==
  ASSUME SInv, NEW p \in Processes, LockMigrations(p) PROVE SInv'
<1>1. ConnInv' /\ SuccessMeansServed'
  BY StartingUp DEF LockMigrations, Labels, Up
<1>2. /\ TypeOK'
      /\ \A q \in Processes : q # p => at'[q] = at[q]
  <2>1. lock # p /\ version \in 0..Last /\ dirty \in BOOLEAN /\ applied \subseteq 1..Last
    BY DEF SInv, TypeOK, LockMigrations, Migrating
  <2>2. QED BY <2>1, MigrationLabels DEF SInv, LockMigrations, Migrating
<1>3. at'[p] \in {"migrate", "exited"}
  BY Goes, Leaves DEF SInv, LockMigrations, Labels
<1>4. DatabaseInv'
  BY <1>2, <1>3 DEF SInv, DatabaseInv, LockMigrations, Migrated, Up
<1>5. QED BY <1>1, <1>2, <1>4 DEF SInv

\* The lock keeps the others out, and a process that has migrated before
\* knows that there is no next migration.
LEMMA NextMigrationKeeps ==
  ASSUME SInv, NEW p \in Processes, NextMigration(p) PROVE SInv'
<1>1. ConnInv' /\ SuccessMeansServed'
  BY StartingUp DEF NextMigration, MigrationsFail, Labels, Up
<1>2. /\ version \in 0..Last /\ dirty \in BOOLEAN /\ applied \subseteq 1..Last
      /\ lock = p
  BY DEF SInv, TypeOK, NextMigration, Migrating
<1>3. /\ TypeOK'
      /\ \A q \in Processes : q # p => at'[q] = at[q]
      /\ \A q \in Processes : q # p => at[q] \notin Migrating
  <2>1. version' \in 0..Last /\ dirty' \in BOOLEAN /\ applied' \subseteq 1..Last
    <3>1. \/ UNCHANGED <<version, dirty, applied>>
          \/ version < Last /\ version' = version + 1 /\ dirty' = TRUE /\ applied' = applied
      BY DEF NextMigration
    <3>2. version' \in 0..Last BY <1>2, <3>1
    <3>3. dirty' \in BOOLEAN BY <1>2, <3>1
    <3>4. QED BY <1>2, <3>1, <3>2, <3>3
  <2>2. QED
    BY <1>2, <2>1, MigrationLabels
    DEF SInv, NextMigration, MigrationsFail, Migrating
<1>4. \/ /\ at'[p] = "exited"
         /\ UNCHANGED <<version, dirty, applied>>
      \/ /\ at'[p] = "pingRedis" /\ version = Last /\ ~dirty
         /\ UNCHANGED <<version, dirty, applied>>
      \/ /\ at'[p] \in {"apply", "exited"} /\ version < Last /\ ~dirty
         /\ version' = version + 1 /\ dirty' = TRUE /\ applied' = applied
  BY Goes, Leaves DEF SInv, NextMigration, MigrationsFail, Labels
<1>5. DatabaseInv'
  <2>1. CASE UNCHANGED <<version, dirty, applied>>
    BY <1>3, <1>4, <2>1 DEF SInv, DatabaseInv, Migrated, Up
  <2>2. CASE /\ at'[p] \in {"apply", "exited"} /\ version < Last /\ ~dirty
             /\ version' = version + 1 /\ dirty' = TRUE /\ applied' = applied
    <3>1. applied' = 1..(version' - 1) /\ version' > 0
      BY <1>2, <2>2 DEF SInv, DatabaseInv
    <3>2. \A q \in Processes : at[q] \notin Migrated
      BY <1>2, <2>2 DEF SInv, DatabaseInv
    <3>3. \A q \in Processes : at'[q] \notin Migrated \cup {"markClean"}
      BY <1>3, <2>2, <3>2 DEF Migrated, Up, Migrating
    <3>4. QED BY <2>2, <3>1, <3>3 DEF DatabaseInv
  <2>3. QED BY <1>4, <2>1, <2>2
<1>6. QED BY <1>1, <1>3, <1>5 DEF SInv

\* One migration more, or perhaps, is in.
LEMMA ApplyKeeps ==
  ASSUME SInv, NEW p \in Processes, ApplyMigration(p) PROVE SInv'
<1>1. ConnInv' /\ SuccessMeansServed'
  BY StartingUp DEF ApplyMigration, MigrationsFail, Labels, Up
<1>2. /\ version \in 0..Last /\ dirty = TRUE /\ applied \subseteq 1..Last
      /\ lock = p /\ version > 0
      /\ applied \in {1..(version - 1), 1..version}
  BY DEF SInv, TypeOK, DatabaseInv, ApplyMigration, Migrating
<1>3. /\ applied \cup {version} = 1..version
      /\ applied' \in {applied, applied \cup {version}}
      /\ applied' \subseteq 1..Last
  BY <1>2 DEF ApplyMigration
<1>4. /\ TypeOK'
      /\ \A q \in Processes : q # p => at'[q] = at[q]
      /\ \A q \in Processes : q # p => at[q] \notin Migrating
  BY <1>2, <1>3, MigrationLabels
  DEF SInv, ApplyMigration, MigrationsFail, Migrating
<1>5. /\ at'[p] \in {"markClean", "exited"}
      /\ at'[p] = "markClean" => applied' = applied \cup {version}
  BY Goes, Leaves DEF SInv, ApplyMigration, MigrationsFail, Labels
<1>6. DatabaseInv'
  <2>1. UNCHANGED <<version, dirty>> BY DEF ApplyMigration
  <2>2. \A q \in Processes : at'[q] \notin Migrated
    BY <1>2, <1>4, <1>5 DEF SInv, DatabaseInv, Migrated, Up
  <2>3. \A q \in Processes : at'[q] = "markClean" => q = p
    BY <1>4 DEF Migrating
  <2>4. QED BY <1>2, <1>3, <1>5, <2>1, <2>2, <2>3 DEF DatabaseInv
<1>7. QED BY <1>1, <1>4, <1>6 DEF SInv

LEMMA MarkCleanKeeps ==
  ASSUME SInv, NEW p \in Processes, MarkClean(p) PROVE SInv'
<1>1. ConnInv' /\ SuccessMeansServed'
  BY StartingUp DEF MarkClean, MigrationsFail, Labels, Up
<1>2. /\ version \in 0..Last /\ dirty = TRUE /\ applied \subseteq 1..Last
      /\ lock = p /\ version > 0 /\ applied = 1..version
  BY DEF SInv, TypeOK, DatabaseInv, MarkClean, Migrating
<1>3. /\ TypeOK'
      /\ \A q \in Processes : q # p => at'[q] = at[q]
      /\ \A q \in Processes : q # p => at[q] \notin Migrating
  <2>1. dirty' \in BOOLEAN BY DEF MarkClean
  <2>2. QED
    BY <1>2, <2>1, MigrationLabels DEF SInv, MarkClean, MigrationsFail, Migrating
<1>4. at'[p] \in {"migrate", "exited"}
  BY Goes, Leaves DEF SInv, MarkClean, MigrationsFail, Labels
<1>5. DatabaseInv'
  <2>1. UNCHANGED <<version, applied>> BY DEF MarkClean
  <2>2. \A q \in Processes :
          at'[q] \notin Migrated \cup {"apply", "markClean"}
    BY <1>2, <1>3, <1>4 DEF SInv, DatabaseInv, Migrated, Up, Migrating
  <2>3. QED BY <1>2, <2>1, <2>2 DEF DatabaseInv
<1>6. QED BY <1>1, <1>3, <1>5 DEF SInv

-----------------------------------------------------------------------------
(* Serving *)

LEMMA ListenKeeps ==
  ASSUME SInv, NEW p \in Processes, Listen(p) PROVE SInv'
<1>1. TypeOK' BY DEF SInv, TypeOK, Listen, database, Up, Migrating
<1>2. DatabaseInv' BY DEF SInv, DatabaseInv, Listen, database
<1>3. ConnInv' /\ SuccessMeansServed'
  BY DEF SInv, ConnInv, SuccessMeansServed, Listen
<1>4. QED BY <1>1, <1>2, <1>3 DEF SInv

\* A listener is open only while its process serves.
LEMMA AcceptKeeps ==
  ASSUME SInv, NEW p \in Processes, NEW k \in Conns, Accept(p, k) PROVE SInv'
<1> PICK kind \in {"http1", "h2c"} :
      conn' = [conn EXCEPT ![k] = [process |-> p, kind |-> kind, at |-> "open"]]
  BY DEF Accept
<1>1. /\ at[p] = "serving" /\ conn \in [Conns -> Conn \cup {None}]
      /\ UNCHANGED <<at, signalled, listener, exit, version, dirty, applied, lock>>
  BY DEF SInv, TypeOK, Accept, database
<1>2. /\ conn'[k] = [process |-> p, kind |-> kind, at |-> "open"]
      /\ conn'[k] \in Conn
      /\ \A j \in Conns : j # k => conn'[j] = conn[j]
      /\ conn' \in [Conns -> Conn \cup {None}]
  BY <1>1 DEF Conn, ConnStates
<1>3. TypeOK' BY <1>1, <1>2 DEF SInv, TypeOK
<1>4. DatabaseInv' BY <1>1 DEF SInv, DatabaseInv
<1>5. ConnInv' BY <1>1, <1>2 DEF SInv, ConnInv, Up, Live
<1>6. SuccessMeansServed'
  BY <1>1, <1>2 DEF SInv, SuccessMeansServed
<1>7. QED BY <1>3, <1>4, <1>5, <1>6 DEF SInv

\* A live connection that moves stays where it was, or closes.
LEMMA MoveKeeps ==
  ASSUME SInv, NEW k \in Conns, NEW from \in Live,
         NEW to \in {"between", "querying", "closed"}, Move(k, from, to)
  PROVE  SInv'
<1>1. /\ conn[k] \in Conn /\ conn[k] # None /\ conn[k].at \in Live
      /\ conn \in [Conns -> Conn \cup {None}]
      /\ UNCHANGED <<at, signalled, listener, exit, version, dirty, applied, lock>>
  BY DEF SInv, TypeOK, Move, database
<1>2. /\ conn'[k] \in Conn /\ conn'[k].at = to
      /\ conn'[k].process = conn[k].process /\ conn'[k].kind = conn[k].kind
      /\ \A j \in Conns : j # k => conn'[j] = conn[j]
      /\ conn' \in [Conns -> Conn \cup {None}]
  BY <1>1 DEF Move, Conn, ConnStates
<1>3. TypeOK' BY <1>1, <1>2 DEF SInv, TypeOK
<1>4. DatabaseInv' BY <1>1 DEF SInv, DatabaseInv
<1>5. ConnInv' BY <1>1, <1>2 DEF SInv, ConnInv, Up, Live
<1>6. SuccessMeansServed'
  BY <1>1, <1>2 DEF SInv, SuccessMeansServed
<1>7. QED BY <1>3, <1>4, <1>5, <1>6 DEF SInv

LEMMA ServeKeeps ==
  ASSUME SInv, NEW k \in Conns, Serve(k) PROVE SInv'
<1>1. CASE \E p \in Processes : Accept(p, k) BY <1>1, AcceptKeeps
<1>2. CASE Request(k) BY <1>2, MoveKeeps DEF Request, Live
<1>3. CASE BeginStatement(k) BY <1>3, MoveKeeps DEF BeginStatement, Live
<1>4. CASE EndStatement(k) BY <1>4, MoveKeeps DEF EndStatement, Live
<1>5. CASE Finish(k) BY <1>5, MoveKeeps DEF Finish, Live
<1>6. QED BY <1>1, <1>2, <1>3, <1>4, <1>5 DEF Serve

-----------------------------------------------------------------------------
(* Shutdown *)

LEMMA SignalKeeps ==
  ASSUME SInv, NEW p \in Processes, Signal(p) PROVE SInv'
<1>1. TypeOK' BY DEF SInv, TypeOK, Signal, database
<1>2. DatabaseInv' BY DEF SInv, DatabaseInv, Signal, database
<1>3. ConnInv' /\ SuccessMeansServed'
  BY DEF SInv, ConnInv, SuccessMeansServed, Signal
<1>4. QED BY <1>1, <1>2, <1>3 DEF SInv

(***************************************************************************)
(* ShuttingDown: a process that stays up on its way to its end keeps the   *)
(* database and its connections; if it has decided on code 0, none of them *)
(* is one that Shutdown waits for.                                         *)
(***************************************************************************)
LEMMA ShuttingDown ==
  ASSUME SInv, NEW p \in Processes, at[p] \in Up \ {"closing"},
         NEW l \in {"draining", "closing"}, NEW code,
         at' = [at EXCEPT ![p] = l], exit' = [exit EXCEPT ![p] = code],
         IF l = "draining" THEN code = None ELSE code \in {"success", "failure"},
         code = "success" => Awaited(p) = {},
         listener'[p] # "open",
         listener' \in [Processes -> {"none", "open", "failed", "closed"}],
         \A q \in Processes : q # p => listener'[q] = listener[q],
         UNCHANGED <<signalled, database, conn>>
  PROVE  SInv'
<1>1. /\ at' \in [Processes -> Labels]
      /\ exit' \in [Processes -> {None, "success", "failure", "killed"}]
      /\ at'[p] = l /\ exit'[p] = code /\ code # "killed"
      /\ at[p] \notin Migrating /\ at[p] # "exited" /\ l \in Up
      /\ \A q \in Processes : q # p => at'[q] = at[q] /\ exit'[q] = exit[q]
      /\ UNCHANGED <<version, dirty, applied, lock>>
  BY DEF SInv, TypeOK, Labels, Up, Migrating, database
<1>2. TypeOK'
  BY <1>1 DEF SInv, TypeOK, Migrating
<1>3. DatabaseInv'
  BY <1>1 DEF SInv, DatabaseInv, Migrated, Up
<1>4. ConnInv'
  <2> SUFFICES ASSUME NEW k \in Conns, conn[k] # None
               PROVE /\ conn[k].at \in Live => at'[conn[k].process] \in Up
                     /\ /\ conn[k].at \in Live
                        /\ at'[conn[k].process] = "closing"
                        /\ exit'[conn[k].process] = "success"
                        => conn[k].kind = "h2c"
                     /\ conn[k].at = "cut"
                          => at'[conn[k].process] = "exited"
    BY <1>1 DEF SInv, ConnInv
  <2>1. conn[k].process \in Processes /\ conn[k].kind \in {"http1", "h2c"}
    BY DEF SInv, TypeOK, Conn
  <2>2. CASE conn[k].process = p
    BY <1>1, <2>1, <2>2 DEF SInv, ConnInv, Awaited
  <2>3. CASE conn[k].process # p
    BY <1>1, <2>1, <2>3 DEF SInv, ConnInv
  <2>4. QED BY <2>2, <2>3
<1>5. SuccessMeansServed'
  <2>1. \A k \in Conns : conn[k] # None =>
          /\ conn[k].process \in Processes
          /\ conn[k].at = "cut" => conn[k].process # p
    BY <1>1 DEF SInv, TypeOK, Conn, ConnInv
  <2>2. QED BY <1>1, <2>1 DEF SInv, SuccessMeansServed
<1>6. QED BY <1>2, <1>3, <1>4, <1>5 DEF SInv

LEMMA ShutdownKeeps ==
  ASSUME SInv, NEW p \in Processes, Shutdown(p) PROVE SInv'
<1>1. /\ exit[p] = None /\ at[p] \in Up \ {"closing"}
      /\ exit' = [exit EXCEPT ![p] = None]
      /\ at' = [at EXCEPT ![p] = "draining"]
  BY DEF SInv, TypeOK, Shutdown, Goto, Up
<1>2. /\ listener' \in [Processes -> {"none", "open", "failed", "closed"}]
      /\ listener'[p] # "open"
      /\ \A q \in Processes : q # p => listener'[q] = listener[q]
  BY DEF SInv, TypeOK, Shutdown
<1>3. None # "success" BY DEF SInv
<1>4. QED BY <1>1, <1>2, <1>3, ShuttingDown DEF Shutdown

LEMMA DrainedKeeps ==
  ASSUME SInv, NEW p \in Processes, Drained(p) \/ Deadline(p) PROVE SInv'
<1>1. /\ at[p] \in Up \ {"closing"} /\ listener[p] # "open"
      /\ listener \in [Processes -> {"none", "open", "failed", "closed"}]
      /\ UNCHANGED <<signalled, listener, database, conn>>
  BY DEF SInv, TypeOK, Drained, Deadline, Up
<1>2. CASE Drained(p) BY <1>1, <1>2, ShuttingDown DEF Drained
<1>3. CASE Deadline(p) BY <1>1, <1>3, ShuttingDown DEF Deadline
<1>4. QED BY <1>2, <1>3

(***************************************************************************)
(* Gone: a process that ends, with its exit code or killed, cuts its       *)
(* connections off.  A call that Shutdown waits for is not cut by an exit  *)
(* with code 0.                                                            *)
(***************************************************************************)
LEMMA Gone ==
  ASSUME SInv, NEW p \in Processes, at[p] \notin {"off", "exited"},
         NEW code \in {"success", "failure", "killed"}, Leave(p, code), CutOff(p),
         code = "success" => at[p] = "closing" /\ exit[p] = "success",
         lock' = IF lock = p THEN None ELSE lock,
         listener'[p] # "open",
         listener' \in [Processes -> {"none", "open", "failed", "closed"}],
         \A q \in Processes : q # p => listener'[q] = listener[q],
         UNCHANGED <<signalled, version, dirty, applied>>
  PROVE  SInv'
<1>1. /\ at' \in [Processes -> Labels] /\ at'[p] = "exited"
      /\ exit' \in [Processes -> {None, "success", "failure", "killed"}]
      /\ exit'[p] = code
      /\ \A q \in Processes : q # p => at'[q] = at[q] /\ exit'[q] = exit[q]
  BY Leaves DEF SInv
<1>2. \A k \in Conns : conn[k] # None =>
        conn[k] \in Conn /\ conn[k].process \in Processes
  BY DEF SInv, TypeOK, Conn
<1>3. ASSUME NEW k \in Conns
      PROVE \/ /\ conn'[k] = conn[k]
               /\ conn[k] # None =>
                    conn[k].process # p \/ conn[k].at \notin Live
            \/ /\ conn[k] # None /\ conn[k].process = p /\ conn[k].at \in Live
               /\ conn'[k] \in Conn
               /\ conn'[k].process = p /\ conn'[k].kind = conn[k].kind
               /\ conn'[k].at = "cut"
  BY <1>2, <1>3 DEF CutOff, Conn, ConnStates
<1>4. TypeOK'
  <2>1. conn' \in [Conns -> Conn \cup {None}]
    <3>1. \A k \in Conns : conn'[k] \in Conn \cup {None}
      BY <1>2, <1>3
    <3>2. conn' = [k \in Conns |-> conn'[k]] BY DEF CutOff
    <3>3. QED BY <3>1, <3>2
  <2>2. \A q \in Processes : lock' = q <=> at'[q] \in Migrating
    BY <1>1 DEF SInv, TypeOK, Migrating
  <2>3. QED BY <1>1, <2>1, <2>2 DEF SInv, TypeOK
<1>5. DatabaseInv'
  BY <1>1 DEF SInv, DatabaseInv, Migrated, Up
<1>6. ASSUME NEW k \in Conns, conn'[k] # None
      PROVE  /\ conn'[k].at \in Live =>
                  at'[conn'[k].process] \in Up
             /\ /\ conn'[k].at \in Live
                /\ at'[conn'[k].process] = "closing"
                /\ exit'[conn'[k].process] = "success"
                => conn'[k].kind = "h2c"
             /\ conn'[k].at = "cut" =>
                  at'[conn'[k].process] = "exited"
             /\ conn'[k].at = "cut" /\ exit'[conn'[k].process] = "success"
                  => conn'[k].kind = "h2c"
  <2>1. CASE /\ conn'[k] = conn[k]
             /\ conn[k] # None =>
                  conn[k].process # p \/ conn[k].at \notin Live
    <3>1. CASE conn[k].process # p
      BY <1>1, <1>2, <1>6, <2>1, <3>1
      DEF SInv, ConnInv, SuccessMeansServed
    <3>2. CASE conn[k].process = p
      <4>1. conn[k].at \notin Live \cup {"cut"}
        BY <1>2, <1>6, <2>1, <3>2 DEF SInv, ConnInv
      <4>2. QED BY <2>1, <4>1
    <3>3. QED BY <3>1, <3>2
  <2>2. CASE /\ conn[k] # None /\ conn[k].process = p /\ conn[k].at \in Live
             /\ conn'[k].process = p /\ conn'[k].kind = conn[k].kind
             /\ conn'[k].at = "cut"
    <3>1. conn'[k].at = "cut" /\ conn'[k].at \notin Live
      BY <2>2 DEF Live
    <3>2. code = "success" => conn[k].kind = "h2c"
      BY <2>2 DEF SInv, ConnInv
    <3>4. QED BY <1>1, <2>2, <3>1, <3>2
  <2>3. QED BY <1>3, <2>1, <2>2
<1>7. ConnInv'
  <2>1. \A q \in Processes : exit'[q] = "killed" => at'[q] = "exited"
    BY <1>1 DEF SInv, ConnInv
  <2>2. QED BY <1>6, <2>1 DEF ConnInv
<1>8. SuccessMeansServed'
  BY <1>6 DEF SuccessMeansServed
<1>9. QED BY <1>4, <1>5, <1>7, <1>8 DEF SInv

LEMMA ExitKeeps ==
  ASSUME SInv, NEW p \in Processes, Exit(p) PROVE SInv'
<1>1. /\ at[p] = "closing" /\ exit[p] \in {"success", "failure"}
      /\ listener[p] # "open" /\ lock # p
      /\ listener \in [Processes -> {"none", "open", "failed", "closed"}]
  BY DEF SInv, TypeOK, ConnInv, Exit, Migrating
<1>2. /\ Leave(p, exit[p]) /\ CutOff(p)
      /\ UNCHANGED <<signalled, listener, version, dirty, applied, lock>>
  BY DEF Exit, database
<1>3. QED BY <1>1, <1>2, Gone

LEMMA KillKeeps ==
  ASSUME SInv, NEW p \in Processes, Kill(p) PROVE SInv'
<1>1. /\ listener'[p] # "open"
      /\ listener' \in [Processes -> {"none", "open", "failed", "closed"}]
      /\ \A q \in Processes : q # p => listener'[q] = listener[q]
  BY DEF SInv, TypeOK, Kill
<1>2. QED BY <1>1, Gone DEF Kill

-----------------------------------------------------------------------------
(* The theorems *)

LEMMA SInvStarts == Init => SInv
<1> SUFFICES ASSUME Init PROVE SInv OBVIOUS
<1>1. TypeOK
  <2>1. version \in 0..Last /\ applied \subseteq 1..Last BY DEF Init
  <2>2. dirty \in BOOLEAN BY DEF Init
  <2>3. QED BY <2>1, <2>2 DEF Init, TypeOK, Labels, Migrating
<1>2. DatabaseInv
  <2>1. applied = 1..version BY DEF Init
  <2>2. QED BY <2>1 DEF Init, DatabaseInv, Migrated, Up
<1>3. ConnInv /\ SuccessMeansServed
  BY DEF Init, ConnInv, SuccessMeansServed
<1>4. QED BY <1>1, <1>2, <1>3 DEF SInv

LEMMA SInvKept == SInv /\ [Next]_vars => SInv'
<1> SUFFICES ASSUME SInv, [Next]_vars PROVE SInv' OBVIOUS
<1>1. ASSUME NEW p \in Processes, Run(p) PROVE SInv'
  BY <1>1, PingKeeps, LockKeeps, NextMigrationKeeps, ApplyKeeps, MarkCleanKeeps,
     ShutdownKeeps, DrainedKeeps, ExitKeeps
  DEF Run, RunMigrations
<1>2. ASSUME NEW p \in Processes,
             Start(p) \/ Listen(p) \/ Signal(p) \/ Kill(p)
      PROVE  SInv'
  BY <1>2, StartKeeps, ListenKeeps, SignalKeeps, KillKeeps
<1>3. ASSUME NEW k \in Conns, Serve(k) PROVE SInv'
  BY <1>3, ServeKeeps
<1>4. CASE UNCHANGED vars
  BY <1>4
  DEF vars, SInv, TypeOK, DatabaseInv, ConnInv, SuccessMeansServed
<1>5. QED BY <1>1, <1>2, <1>3, <1>4 DEF Next

(***************************************************************************)
(* ServerInvariant: the strengthening holds in every state of every run of *)
(* the processes, whatever fails and whoever is killed.                    *)
(***************************************************************************)
THEOREM ServerInvariant == Spec => []SInv
BY SInvStarts, SInvKept, PTL DEF Spec

(***************************************************************************)
(* ServerTypeCorrect: the state of start-up and shutdown is well formed;   *)
(* in particular the migration lock is held by the process that migrates   *)
(* and by no other, and only a process that serves accepts connections.    *)
(***************************************************************************)
THEOREM ServerTypeCorrect == Spec => []TypeOK
<1>1. SInv => TypeOK BY DEF SInv
<1>2. QED BY <1>1, ServerInvariant, PTL

(***************************************************************************)
(* OnlyMigratedServes: runMigrations comes before the listener, and its    *)
(* error ends run; so whoever is up has every migration run, for any       *)
(* number of processes that migrate the database together.                 *)
(***************************************************************************)
THEOREM OnlyMigratedServes == Spec => []ServesMigrated
<1>1. SInv => ServesMigrated
  BY DEF SInv, DatabaseInv, ServesMigrated, Migrated
<1>2. QED BY <1>1, ServerInvariant, PTL

(***************************************************************************)
(* CodeZeroServes: run returns the error of Shutdown, so exit code 0 means *)
(* that every call Shutdown waits for has been answered.                   *)
(***************************************************************************)
THEOREM CodeZeroServes == Spec => []SuccessMeansServed
<1>1. SInv => SuccessMeansServed BY DEF SInv
<1>2. QED BY <1>1, ServerInvariant, PTL
=============================================================================
