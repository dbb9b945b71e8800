------------------------------- MODULE Store -------------------------------
(***************************************************************************)
(* The PostgreSQL store: the tables `parameters` and `ledger_events`, the  *)
(* partial unique index on canonical rows, and the methods of              *)
(* PostgresStore.  Every method is one statement in its own implicit       *)
(* transaction, so every method is one atomic step.                        *)
(*                                                                         *)
(* `params` maps the id of each row to the row; a row keeps the columns    *)
(* that decide anything (value, source, metadata and timestamps do not).   *)
(* `events` is the set of ledger rows; the UUID of an event is abstracted  *)
(* to the call that wrote it, since no call writes two events of one type. *)
(***************************************************************************)
EXTENDS Naturals, Parameter

CONSTANTS
  Names,              \* [namespace, key] pairs
  Outcomes,           \* what can become of a call to PostgreSQL or Redis
  UuidCoalesceFails   \* PostgreSQL refuses COALESCE(<uuid column>, '')

(***************************************************************************)
(* A remote call is executed and reported ("ok"), fails without effect     *)
(* ("err"), or is executed while its answer is lost and an error is        *)
(* reported ("lost").                                                      *)
(***************************************************************************)
ASSUME OutcomesAssumption == Outcomes \subseteq {"ok", "err", "lost"}
ASSUME UuidAssumption == UuidCoalesceFails \in BOOLEAN

VARIABLES
  params,   \* table parameters
  events    \* table ledger_events

Row == [name: Names, version: Nat, prev: Ids \cup {None}, state: ParameterState]

\* A Parameter as a query returned it: the row and the state it had then.
Snapshot == [id: Ids, state: ParameterState]

LedgerEvent ==
  [writer: Ids, parameter_id: Ids, event_type: LedgerEventType,
   from_state: ParameterState \cup {None}, to_state: ParameterState]

Executed(out) == out # "err"

\* The three SELECTs on parameters all carry COALESCE(previous_version_id, '').
ReadOk(out) == out = "ok" /\ ~UuidCoalesceFails

CanonicalRows(n) ==
  {i \in DOMAIN params : params[i].name = n /\ params[i].state = "CANONICAL"}

\* Mutant: the WHERE clause forgets state='CANONICAL'.
GetLatest(n) ==
  {i \in DOMAIN params : params[i].name = n /\
     \A j \in DOMAIN params :
       params[j].name = n => params[j].version <= params[i].version}

\* ORDER BY version DESC LIMIT 1; empty when the query finds no row.
GetParameter(n) ==
  {i \in CanonicalRows(n) :
     \A j \in CanonicalRows(n) : params[j].version <= params[i].version}

\* The row an id names, as GetParameterByID and GetParameter scan it.
ScanParameter(i) == [id |-> i, state |-> params[i].state]

CreateParameter(i, row, out) ==
  params' = IF Executed(out)
            THEN [j \in DOMAIN params \cup {i} |->
                    IF j = i THEN row ELSE params[j]]
            ELSE params

\* Mutant: the index is not UNIQUE.
BreaksPlainIndex(i, s) == FALSE

\* idx_parameters_canonical: one CANONICAL row per namespace and key.
BreaksCanonicalIndex(i, s) ==
  /\ s = "CANONICAL"
  /\ CanonicalRows(params[i].name) \ {i} # {}

UpdateParameterState(i, s, out) ==
  params' = IF Executed(out) /\ ~BreaksCanonicalIndex(i, s)
            THEN [params EXCEPT ![i].state = s]
            ELSE params

UpdateOk(i, s, out) == out = "ok" /\ ~BreaksCanonicalIndex(i, s)

AppendEvent(e, out) ==
  events' = IF Executed(out) THEN events \cup {e} ELSE events

StoreTypeOK ==
  /\ DOMAIN params \subseteq Ids
  /\ params \in [DOMAIN params -> Row]
  /\ events \subseteq LedgerEvent

StoreInit ==
  /\ params = [i \in {} |-> None]
  /\ events = {}
=============================================================================
