--------------------------- MODULE StorageRouting ---------------------------
(***************************************************************************)
(* The events domains of the store when Postgres is the backend: every     *)
(* call goes to Postgres and spills to the SQLite buffer when Postgres     *)
(* cannot be reached (storage/routing/facade), the health flag and its     *)
(* probe (storage/routing/health), and the drain that copies the buffer    *)
(* back into Postgres and deletes it (storage/routing/reconcile), over the *)
(* one SQLite connection all calls share (storage/events/sqlite_backend).  *)
(*                                                                         *)
(* A row is its key; what a table holds of it is 0 (no row) or a value.    *)
(* The retention sweeps, the user's CLI (another process) and the tables   *)
(* without a foreign key beyond user_prefs are left out.                   *)
(***************************************************************************)
EXTENDS Integers, FiniteSets

CONSTANTS
    Events,         \* rows of event_payloads
    Proposals,      \* rows of proposals
    Prefs,          \* rows of user_prefs, and of the other tables without a parent
    Asks,           \* rows of pending_asks, which no TableSpec drains
    EventOf,        \* proposals.event_id
    Clients,        \* the tasks of the daemon that write
    Batch,          \* reconcile._BATCH
    MaxPuts,        \* bound: the times a row is written over
    MaxOutages,     \* bound: the times Postgres goes away
    MaxRestarts,    \* bound: the restarts of the daemon
    None

Upserted == Events \cup Prefs           \* ON CONFLICT DO UPDATE
Decided == Proposals \cup Asks          \* ON CONFLICT DO NOTHING, then a compare-and-set
Rows == Upserted \cup Decided

\* The order of the drain: parents first.
Tables == <<Events, Proposals, Prefs>>
LastTable == 3

Pending == 1
Settled == 2
Values == 1..(IF MaxPuts < Settled THEN Settled ELSE MaxPuts)
Cell == {0} \cup Values
NoRows == [r \in Rows |-> 0]

ASSUME RowsAssumption ==
    /\ Events \cap Proposals = {} /\ Events \cap Prefs = {} /\ Proposals \cap Prefs = {}
    /\ Asks \cap (Upserted \cup Proposals) = {}
    /\ EventOf \in [Proposals -> Events]
ASSUME BoundsAssumption ==
    /\ Batch \in Nat \ {0} /\ MaxPuts \in Nat \ {0}
    /\ MaxOutages \in Nat /\ MaxRestarts \in Nat
ASSUME NoneAssumption == None \notin Rows \cup Clients

VARIABLES
    up,         \* Postgres answers
    outages, restarts,
    pg,         \* the tables of Postgres
    buf,        \* the tables of the SQLite buffer, as its one connection sees them
    tx,         \* the client inside SqliteEventsBackend.transaction
    fk,         \* PRAGMA foreign_keys of that connection
    degraded,   \* StorageHealth.degraded
    probe,      \* StorageHealth._probe_task: the probe, then the drain it runs
    table, batch, left,     \* the table being drained, its rows as read, those still to do
    call,       \* what each client is doing
    puts,       \* how often each row was put
    acked,      \* history: the rows whose put returned
    cascaded    \* history: the rows a cascade took out of the buffer

drain == <<table, batch, left>>
world == <<up, outages, restarts>>
history == <<acked, cascaded>>
vars == <<up, outages, restarts, pg, buf, tx, fk, degraded, probe, table, batch,
          left, call, puts, acked, cascaded>>

Idle == [pc |-> "idle", op |-> "put", row |-> None, value |-> 0, undo |-> 0]

Init ==
    /\ up = TRUE /\ outages = 0 /\ restarts = 0
    /\ pg = NoRows /\ buf = NoRows
    /\ tx = None /\ fk = TRUE
    /\ degraded = FALSE /\ probe = "none"
    /\ table = 1 /\ batch = NoRows /\ left = {}
    /\ call = [c \in Clients |-> Idle]
    /\ puts = [r \in Rows |-> 0]
    /\ acked = {} /\ cascaded = {}

At(c, pc) == call[c].pc = pc
Goto(c, pc) == call' = [call EXCEPT ![c].pc = pc]
Return(c) == call' = [call EXCEPT ![c] = Idle]

Stored == {r \in Rows : pg[r] # 0 \/ buf[r] # 0}

-----------------------------------------------------------------------------
(* The statements of the unified stores, the same on either database *)

\* What a call leaves in the cell of its row.
Written(k, cell) ==
    IF k.op = "put"
    THEN IF k.row \in Upserted \/ cell = 0 THEN k.value ELSE cell
    ELSE IF cell = Pending THEN Settled ELSE cell

\* The row the call inserts refers to an event the database does not have.
Orphans(k, rows) ==
    k.op = "put" /\ k.row \in Proposals /\ rows[k.row] = 0 /\ rows[EventOf[k.row]] = 0

\* The caller gets the result.
Told(c) ==
    LET k == call[c]
    IN  /\ acked' = IF k.op = "put" THEN acked \cup {k.row} ELSE acked
        /\ UNCHANGED cascaded

-----------------------------------------------------------------------------
(* RoutedStore *)

Route(c, k) ==
    /\ At(c, "idle")
    /\ call' = [call EXCEPT ![c] =
                  [k EXCEPT !.pc = IF degraded THEN "spill" ELSE "primary"]]
    /\ UNCHANGED <<world, pg, buf, tx, fk, degraded, probe, drain, history>>

\* An event is stored before a proposal is made of it; a proposal and an ask
\* get a fresh id, an event may be delivered again and a preference set again.
Put(c, r) ==
    /\ puts[r] < (IF r \in Upserted THEN MaxPuts ELSE 1)
    /\ r \in Proposals => EventOf[r] \in acked
    /\ Route(c, [Idle EXCEPT !.row = r, !.value = puts[r] + 1])
    /\ puts' = [puts EXCEPT ![r] = @ + 1]

\* ProposalStore.try_set_status, PendingAskStore.resolve.
Settle(c, r) ==
    /\ r \in Decided \cap acked
    /\ Route(c, [Idle EXCEPT !.op = "settle", !.row = r])
    /\ UNCHANGED puts

\* Postgres runs the statement and commits it.
PgApply(c) ==
    LET k == call[c]
    IN  /\ At(c, "primary") /\ up /\ ~Orphans(k, pg)
        /\ pg' = [pg EXCEPT ![k.row] = Written(k, @)]
        /\ Goto(c, "applied")
        /\ UNCHANGED <<world, buf, tx, fk, degraded, probe, drain, puts, history>>

PgReply(c) ==
    /\ At(c, "applied") /\ Told(c) /\ Return(c)
    /\ UNCHANGED <<world, pg, buf, tx, fk, degraded, probe, drain, puts>>

\* A constraint violation is not in PG_RUNTIME_ERRORS: the caller gets it.
PgRefuses(c) ==
    /\ At(c, "primary") /\ up /\ Orphans(call[c], pg) /\ Return(c)
    /\ UNCHANGED <<world, pg, buf, tx, fk, degraded, probe, drain, puts, history>>

\* The call fails: mark_degraded starts a probe unless the task of the last one
\* has not ended, and the same call goes to the buffer.
PgFails(c) ==
    /\ At(c, "failing") \/ (At(c, "primary") /\ ~up)
    /\ degraded' = TRUE
    /\ probe' = IF probe = "none" THEN "poll" ELSE probe
    /\ Goto(c, "spill")
    /\ UNCHANGED <<world, pg, buf, tx, fk, drain, puts, history>>

\* BEGIN IMMEDIATE under the write lock, and the statement.
BufferWrite(c) ==
    LET k == call[c]
    IN  /\ At(c, "spill") /\ tx = None /\ ~(fk /\ Orphans(k, buf))
        /\ tx' = c
        /\ buf' = [buf EXCEPT ![k.row] = Written(k, @)]
        /\ call' = [call EXCEPT ![c].pc = "written", ![c].undo = buf[k.row]]
        /\ UNCHANGED <<world, pg, fk, degraded, probe, drain, puts, history>>

\* The foreign key refuses the row, the transaction is rolled back.
BufferRefuses(c) ==
    /\ At(c, "spill") /\ tx = None /\ fk /\ Orphans(call[c], buf) /\ Return(c)
    /\ UNCHANGED <<world, pg, buf, tx, fk, degraded, probe, drain, puts, history>>

BufferCommit(c) ==
    /\ At(c, "written") /\ tx' = None /\ Told(c) /\ Return(c)
    /\ UNCHANGED <<world, pg, buf, fk, degraded, probe, drain, puts>>

\* The caller's task is cancelled; an open transaction is rolled back.
Abandon(c) ==
    /\ ~At(c, "idle") /\ Return(c)
    /\ IF At(c, "written")
       THEN tx' = None /\ buf' = [buf EXCEPT ![call[c].row] = call[c].undo]
       ELSE UNCHANGED <<tx, buf>>
    /\ UNCHANGED <<world, pg, fk, degraded, probe, drain, puts, history>>

-----------------------------------------------------------------------------
(* StorageHealth._probe_loop and Reconciler.reconcile *)

\* Mutant: no recovery callback is wired.
Probe_NoCallback ==
    /\ probe = "poll" /\ up
    /\ degraded' = FALSE
    /\ probe' = "none"
    /\ UNCHANGED <<world, pg, buf, tx, fk, drain, call, puts, history>>

\* SELECT 1 is answered: the flag is cleared and the recovery callback runs.
Probe ==
    /\ probe = "poll" /\ up
    /\ degraded' = FALSE
    /\ probe' = "opening"
    /\ UNCHANGED <<world, pg, buf, tx, fk, drain, call, puts, history>>

\* SQLite ignores the pragma while a transaction is open on the connection.
Pragma(value) == fk' = IF tx = None THEN value ELSE fk

KeysOff ==
    /\ probe = "opening" /\ Pragma(FALSE)
    /\ probe' = "select" /\ table' = 1
    /\ UNCHANGED <<world, pg, buf, tx, degraded, batch, left, call, puts, history>>

\* Mutant: the end of the list is overlooked.
NextTable_PastEnd ==
    batch' = NoRows /\ left' = {} /\ probe' = "select" /\ table' = table + 1

NextTable ==
    /\ batch' = NoRows /\ left' = {}
    /\ IF table = LastTable
       THEN probe' = "closing" /\ UNCHANGED table
       ELSE probe' = "select" /\ table' = table + 1

\* Mutant: the batch is deleted before it is copied.
Select_DeletesFirst ==
    LET held == {r \in Tables[table] : buf[r] # 0}
    IN  /\ probe = "select"
        /\ \/ /\ held = {} /\ NextTable
           \/ /\ held # {}
              /\ batch' = [r \in Rows |-> IF r \in held THEN buf[r] ELSE 0]
              /\ left' = held /\ probe' = "delete" /\ UNCHANGED table
        /\ UNCHANGED <<world, pg, buf, tx, fk, degraded, call, puts, history>>

\* SELECT ... LIMIT: whatever rows the connection returns, committed or not.
Select ==
    LET held == {r \in Tables[table] : buf[r] # 0}
    IN  /\ probe = "select"
        /\ \/ /\ held = {} /\ NextTable
           \/ \E rows \in SUBSET held \ {{}} :
                /\ rows = held \/ Cardinality(rows) = Batch
                /\ Cardinality(rows) <= Batch
                /\ batch' = [r \in Rows |-> IF r \in rows THEN buf[r] ELSE 0]
                /\ left' = rows
                /\ probe' = "insert" /\ UNCHANGED table
        /\ UNCHANGED <<world, pg, buf, tx, fk, degraded, call, puts, history>>

Taken == {r \in Rows : batch[r] # 0}

\* Mutant: ON CONFLICT DO UPDATE.
Inserted_Upserts(r) == [pg EXCEPT ![r] = batch[r]]

Inserted(r) == [pg EXCEPT ![r] = IF @ = 0 THEN batch[r] ELSE @]

Parentless(r) == r \in Proposals /\ pg[r] = 0 /\ pg[EventOf[r]] = 0

\* INSERT ... ON CONFLICT DO NOTHING, one statement per row.
DrainInsert(r) ==
    /\ probe = "insert" /\ up /\ r \in left /\ ~Parentless(r)
    /\ pg' = Inserted(r)
    /\ IF left = {r} THEN probe' = "delete" /\ left' = Taken
                     ELSE left' = left \ {r} /\ UNCHANGED probe
    /\ UNCHANGED <<world, buf, tx, fk, degraded, table, batch, call, puts, history>>

\* Mutant: the error is caught around the insert, and the batch deleted anyway.
DrainFails_DeletesAnyway ==
    /\ \/ probe = "failing"
       \/ probe = "insert" /\ (~up \/ \E r \in left : Parentless(r))
    /\ probe' = "delete" /\ left' = Taken
    /\ UNCHANGED <<world, pg, buf, tx, fk, degraded, table, batch, call, puts, history>>

\* Any error ends the draining of that table.
DrainFails ==
    /\ \/ probe = "failing"
       \/ probe = "insert" /\ (~up \/ \E r \in left : Parentless(r))
    /\ NextTable
    /\ UNCHANGED <<world, pg, buf, tx, fk, degraded, call, puts, history>>

Children(r) == {p \in Proposals : EventOf[p] = r /\ buf[p] # 0}

\* DELETE by primary key, under the write lock, whatever the row is by now.
DrainDelete(r) ==
    LET gone == {r} \cup IF fk THEN Children(r) ELSE {}
    IN  /\ probe = "delete" /\ r \in left /\ tx = None
        /\ buf' = [s \in Rows |-> IF s \in gone THEN 0 ELSE buf[s]]
        /\ cascaded' = cascaded \cup {s \in gone \ {r} : pg[s] = 0}
        /\ IF left # {r}
           THEN left' = left \ {r} /\ UNCHANGED <<probe, table, batch>>
           ELSE IF Cardinality(Taken) < Batch
                THEN NextTable
                ELSE probe' = "select" /\ batch' = NoRows /\ left' = {} /\ UNCHANGED table
        /\ UNCHANGED <<world, pg, tx, fk, degraded, call, puts, acked>>

\* The drain returns and the task ends.
KeysOn ==
    /\ probe = "closing" /\ Pragma(TRUE)
    /\ probe' = "none" /\ table' = 1
    /\ UNCHANGED <<world, pg, buf, tx, degraded, batch, left, call, puts, history>>

DrainStep ==
    \/ KeysOff \/ Select \/ DrainFails \/ KeysOn
    \/ \E r \in Rows : DrainInsert(r) \/ DrainDelete(r)

-----------------------------------------------------------------------------
(* Postgres and the process *)

InFlight == {c \in Clients : At(c, "primary") \/ At(c, "applied")}

\* The connections break.  A call whose answer is on its way may still get it.
Outage ==
    /\ up /\ outages < MaxOutages
    /\ up' = FALSE /\ outages' = outages + 1
    /\ \E hit \in SUBSET InFlight :
          call' = [c \in Clients |-> IF c \in hit THEN [call[c] EXCEPT !.pc = "failing"]
                                                  ELSE call[c]]
    /\ probe' = IF probe = "insert" THEN "failing" ELSE probe
    /\ UNCHANGED <<restarts, pg, buf, tx, fk, degraded, drain, puts, history>>

Recover ==
    /\ ~up /\ up' = TRUE
    /\ UNCHANGED <<outages, restarts, pg, buf, tx, fk, degraded, probe, drain, call, puts,
                   history>>

\* The daemon dies and starts again: SQLite rolls an open transaction back, and
\* nothing drains what an earlier process left in the buffer.
Restart ==
    /\ up /\ restarts < MaxRestarts
    /\ restarts' = restarts + 1
    /\ buf' = IF tx = None THEN buf ELSE [buf EXCEPT ![call[tx].row] = call[tx].undo]
    /\ tx' = None /\ fk' = TRUE
    /\ degraded' = FALSE /\ probe' = "none"
    /\ table' = 1 /\ batch' = NoRows /\ left' = {}
    /\ call' = [c \in Clients |-> Idle]
    /\ UNCHANGED <<up, outages, pg, puts, history>>

ClientStep(c) ==
    \/ PgApply(c) \/ PgReply(c) \/ PgRefuses(c) \/ PgFails(c)
    \/ BufferWrite(c) \/ BufferRefuses(c) \/ BufferCommit(c)

Next ==
    \/ \E c \in Clients, r \in Rows : Put(c, r) \/ Settle(c, r)
    \/ \E c \in Clients : ClientStep(c) \/ Abandon(c)
    \/ Probe \/ DrainStep
    \/ Outage \/ Recover \/ Restart

Spec == Init /\ [][Next]_vars

\* The tasks of one event loop run; asyncio.Lock serves its waiters in order
\* and the connection's worker its requests, so no client can starve another
\* or the drain; Postgres does not stay away.
Fairness ==
    /\ WF_vars(Recover) /\ WF_vars(Probe) /\ SF_vars(DrainStep)
    /\ \A c \in Clients : SF_vars(ClientStep(c))
FairSpec == Spec /\ Fairness

-----------------------------------------------------------------------------
(* Properties *)

Calls == [pc : {"idle", "primary", "applied", "failing", "spill", "written"},
          op : {"put", "settle"}, row : Rows \cup {None}, value : Cell,
          undo : Cell]

\* The types, and which of the fields belong together.
TypeOK ==
    /\ up \in BOOLEAN /\ outages \in 0..MaxOutages /\ restarts \in 0..MaxRestarts
    /\ pg \in [Rows -> Cell] /\ buf \in [Rows -> Cell]
    /\ tx \in Clients \cup {None} /\ fk \in BOOLEAN
    /\ degraded \in BOOLEAN
    /\ probe \in {"none", "poll", "opening", "select", "insert", "failing", "delete", "closing"}
    /\ table \in 1..LastTable /\ batch \in [Rows -> Cell] /\ left \subseteq Rows
    /\ call \in [Clients -> Calls]
    /\ puts \in [Rows -> 0..MaxPuts]
    /\ acked \subseteq Rows /\ cascaded \subseteq Rows

\* "so the write is never lost": a row whose put returned is in one of the two
\* databases, through outages, recoveries, cancelled calls, errors in the middle
\* of a drain and restarts.  The one way out is the cascade of a drain whose
\* PRAGMA foreign_keys=OFF met an open transaction.
NothingLost == acked \subseteq Stored \cup cascaded

\* A buffered proposal can always be copied: its event is in Postgres, or in the
\* buffer where the drain takes it first.
Drainable == \A p \in Proposals : buf[p] # 0 => EventOf[p] \in Stored

\* The copy of an older row never replaces what Postgres has: a proposal that was
\* decided there does not become pending again, a newer preference is kept.
DrainKeepsPostgres ==
    [][DrainStep => \A r \in Rows : pg[r] # 0 => pg'[r] = pg[r]]_vars

\* The routed stores do what SpilloverStore says.
Promised ==
    INSTANCE SpilloverStore WITH
        Row <- Rows, Refers <- {<<p, EventOf[p]>> : p \in Proposals},
        stored <- Stored, owed <- acked \ cascaded
Refines == Promised!Spec

\* A row written while the probe polls is in Postgres soon after it answers, if
\* that was the last outage and no restart ends the drain, unless a late error of
\* an earlier call degrades the process again.
Drains ==
    \A r \in Rows \ Asks :
        (r \in acked /\ probe = "poll" /\ outages = MaxOutages /\ restarts = MaxRestarts)
            ~> (pg[r] # 0 \/ r \in cascaded \/ (degraded /\ probe # "poll"))

=============================================================================
