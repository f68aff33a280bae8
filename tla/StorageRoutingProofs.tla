------------------------ MODULE StorageRoutingProofs ------------------------
(***************************************************************************)
(* Theorems about StorageRouting, for any rows, clients, batch size and    *)
(* bounds: an acknowledged row stays in one of the two databases, and the  *)
(* routed stores implement SpilloverStore.                                 *)
(***************************************************************************)
EXTENDS StorageRouting, TLAPS

Places == {"idle", "primary", "applied", "failing", "spill", "written"}

LEMMA Cells ==
    /\ Cell \subseteq Nat /\ 0 \in Cell /\ Values \subseteq Cell \ {0}
    /\ Pending \in Values /\ Settled \in Values
    /\ \A r \in Rows, n \in Nat :
          n < (IF r \in Upserted THEN MaxPuts ELSE 1) => n + 1 \in Values /\ n + 1 <= MaxPuts
BY BoundsAssumption DEF Cell, Values, Pending, Settled

LEMMA Disjoint ==
    /\ None \notin Rows /\ None \notin Clients
    /\ Events \cap Proposals = {}
    /\ \A p \in Proposals : EventOf[p] \in Events
    /\ Events \subseteq Rows /\ Proposals \subseteq Rows /\ Decided \subseteq Rows
BY RowsAssumption, NoneAssumption DEF Rows, Upserted, Decided

\* A call under way is about a row that has been put, and once a database has
\* taken a put it holds the row.
Busy(c) ==
    /\ ~At(c, "idle") => call[c].row \in Rows /\ puts[call[c].row] # 0
    /\ ~At(c, "idle") /\ call[c].op = "put" => call[c].value # 0
    /\ At(c, "applied") /\ call[c].op = "put" => pg[call[c].row] # 0
    /\ At(c, "written") <=> tx = c

\* The rollback of the open transaction loses nothing that was acknowledged.
Undoable(c) ==
    At(c, "written") =>
        /\ call[c].op = "put" => buf[call[c].row] # 0
        /\ call[c].row \in acked \ cascaded /\ pg[call[c].row] = 0 => call[c].undo # 0

\* What the drain deletes is in Postgres.
Copied ==
    /\ left \subseteq Taken
    /\ probe = "insert" => \A r \in Taken \ left : pg[r] # 0
    /\ probe = "delete" => \A r \in left : pg[r] # 0

\* A row is in the buffer, or acknowledged, only after it was put, and a proposal
\* is put only after its event was acknowledged.
InOrder ==
    /\ \A r \in Rows : buf[r] # 0 \/ r \in acked => puts[r] # 0
    /\ \A p \in Proposals : puts[p] # 0 => EventOf[p] \in acked

\* The inductive invariant.
Spilling ==
    /\ TypeOK /\ Copied /\ InOrder
    /\ \A c \in Clients : Busy(c) /\ Undoable(c)
    /\ tx # None => tx \in Clients
    /\ cascaded \subseteq Proposals
    /\ NothingLost

-----------------------------------------------------------------------------
(* The values a call writes *)

LEMMA Writes ==
    ASSUME NEW k \in Calls, k.row \in Rows, k.op = "put" => k.value # 0, NEW cell \in Cell
    PROVE  /\ Written(k, cell) \in Cell
           /\ k.op = "put" \/ cell # 0 => Written(k, cell) # 0
           /\ k.op # "put" /\ cell = 0 => Written(k, cell) = 0
BY Cells DEF Written, Calls, Pending, Settled, Cell

LEMMA IdleIsACall == Idle \in Calls /\ Idle.pc = "idle"
BY Cells DEF Idle, Calls

LEMMA InitSpilling == Init => Spilling
<1> SUFFICES ASSUME Init PROVE Spilling
  OBVIOUS
<1>1. TypeOK
  <2>1. 0 \in Cell /\ 0 \in 0..MaxPuts /\ 0 \in 0..MaxOutages /\ 0 \in 0..MaxRestarts
    BY Cells, BoundsAssumption
  <2>2. 0 \in 0..2 /\ 1 \in 1..LastTable
    BY DEF LastTable
  <2> QED BY <2>1, <2>2, IdleIsACall DEF Init, TypeOK, NoRows
<1>2. Copied
  BY DEF Init, Copied
<1>3. InOrder /\ NothingLost /\ cascaded \subseteq Proposals
  BY Disjoint DEF Init, InOrder, NothingLost, NoRows
<1>4. ASSUME NEW c \in Clients PROVE Busy(c) /\ Undoable(c)
  BY Disjoint, IdleIsACall DEF Init, Busy, Undoable, At
<1> QED BY <1>1, <1>2, <1>3, <1>4 DEF Init, Spilling

LEMMA Tells ==
    ASSUME Spilling, NEW c \in Clients, Told(c), ~At(c, "idle")
    PROVE  /\ acked' \subseteq Rows
           /\ cascaded' = cascaded
           /\ call[c].op # "put" => acked' = acked
           /\ call[c].op = "put" => acked' = acked \cup {call[c].row}
<1>1. call[c].row \in Rows /\ call[c] \in Calls
  BY DEF Spilling, Busy, TypeOK
<1>2. acked \subseteq Rows
  BY DEF Spilling, TypeOK
<1> QED BY <1>1, <1>2 DEF Told

-----------------------------------------------------------------------------
(* The steps of a client *)

LEMMA RouteSpilling ==
    ASSUME Spilling, NEW c \in Clients, NEW r \in Rows, Put(c, r) \/ Settle(c, r)
    PROVE  Spilling'
<1> USE DEF Spilling
<1>1. /\ At(c, "idle") /\ call[c] \in Calls
      /\ UNCHANGED <<world, pg, buf, tx, fk, degraded, probe, drain, history>>
  BY DEF Put, Settle, Route, TypeOK
<1>2. /\ puts' \in [Rows -> 0..MaxPuts]
      /\ \A s \in Rows : puts[s] # 0 => puts'[s] # 0
      /\ \A s \in Rows : s # r => puts'[s] = puts[s]
      /\ puts'[r] # 0
      /\ r \in Proposals /\ puts'[r] # puts[r] => EventOf[r] \in acked
  <2>1. CASE Put(c, r)
    <3>1. puts \in [Rows -> 0..MaxPuts] /\ puts[r] \in Nat
      BY BoundsAssumption DEF TypeOK
    <3>2. puts[r] + 1 \in 0..MaxPuts /\ puts[r] + 1 # 0
      BY <2>1, <3>1, Cells, BoundsAssumption DEF Put
    <3> QED BY <2>1, <3>1, <3>2 DEF Put
  <2>2. CASE Settle(c, r)
    BY <2>2 DEF Settle, InOrder, TypeOK
  <2> QED BY <2>1, <2>2
<1>3. PICK k \in Calls :
        /\ call' = [call EXCEPT ![c] = k]
        /\ k.pc \in {"primary", "spill"} /\ k.row = r
        /\ k.op = "put" => k.value # 0
  <2>1. CASE Put(c, r)
    <3>1. puts[r] + 1 \in Values /\ puts[r] + 1 \in Cell /\ puts[r] + 1 # 0
      BY <2>1, Cells, BoundsAssumption DEF Put, TypeOK
    <3> DEFINE k == [[Idle EXCEPT !.row = r, !.value = puts[r] + 1]
                       EXCEPT !.pc = IF degraded THEN "spill" ELSE "primary"]
    <3>2. k \in Calls /\ k.pc \in {"primary", "spill"} /\ k.row = r /\ k.value # 0
      BY <3>1, IdleIsACall DEF Idle, Calls
    <3>3. call' = [call EXCEPT ![c] = k]
      BY <2>1 DEF Put, Route
    <3> QED BY <3>2, <3>3
  <2>2. CASE Settle(c, r)
    <3> DEFINE k == [[Idle EXCEPT !.op = "settle", !.row = r]
                       EXCEPT !.pc = IF degraded THEN "spill" ELSE "primary"]
    <3>2. k \in Calls /\ k.pc \in {"primary", "spill"} /\ k.row = r /\ k.op # "put"
      BY IdleIsACall DEF Idle, Calls
    <3>3. call' = [call EXCEPT ![c] = k]
      BY <2>2 DEF Settle, Route
    <3> QED BY <3>2, <3>3
  <2> QED BY <2>1, <2>2
<1>4. TypeOK'
  BY <1>1, <1>2, <1>3 DEF TypeOK, world, drain, history
<1>5. Copied' /\ NothingLost'
  BY <1>1 DEF Copied, NothingLost, Stored, Taken, drain, history
<1>6. InOrder'
  BY <1>1, <1>2, Disjoint DEF InOrder, history
<1>7. ASSUME NEW d \in Clients PROVE Busy(d)' /\ Undoable(d)'
  <2>1. CASE d = c
    BY <1>1, <1>2, <1>3, <2>1 DEF Busy, Undoable, At, TypeOK
  <2>2. CASE d # c
    <3>1. call'[d] = call[d]
      BY <1>3, <2>2 DEF TypeOK
    <3> QED BY <1>1, <1>2, <3>1 DEF Busy, Undoable, At, history
  <2> QED BY <2>1, <2>2
<1> QED BY <1>1, <1>4, <1>5, <1>6, <1>7 DEF history

\* Another client looks at its own call only; it is enough that Postgres keeps
\* its rows and that its transaction, if it has one, is left alone.
LEMMA Others ==
    ASSUME Spilling, NEW d \in Clients, call'[d] = call[d],
           puts' = puts,
           \A r \in Rows : pg[r] # 0 => pg'[r] # 0,
           tx' = d <=> tx = d,
           tx = d => buf' = buf,
           acked' \subseteq acked \cup Stored, cascaded \subseteq cascaded',
           \A r \in acked' \ acked : pg'[r] # 0
    PROVE  Busy(d)' /\ Undoable(d)'
BY DEF Spilling, Busy, Undoable, At

LEMMA PgApplySpilling ==
    ASSUME Spilling, NEW c \in Clients, PgApply(c)
    PROVE  Spilling'
<1> USE DEF Spilling
<1>0. PICK k \in Calls, r \in Rows : k = call[c] /\ r = k.row
  BY DEF PgApply, TypeOK, Busy, At
<1>1. /\ k.pc = "primary" /\ tx # c /\ puts[r] # 0
      /\ k.op = "put" => k.value # 0
  BY <1>0 DEF PgApply, Busy, At
<1>2. /\ Written(k, pg[r]) \in Cell
      /\ k.op = "put" \/ pg[r] # 0 => Written(k, pg[r]) # 0
  <2>1. pg[r] \in Cell
    BY DEF TypeOK
  <2> QED BY <1>0, <1>1, <2>1, Writes
<1>3. /\ pg' = [pg EXCEPT ![r] = Written(k, pg[r])]
      /\ call' = [call EXCEPT ![c].pc = "applied"]
      /\ UNCHANGED <<world, buf, tx, fk, degraded, probe, drain, puts, history>>
  BY <1>0 DEF PgApply, Goto
<1>4. /\ pg' \in [Rows -> Cell]
      /\ pg'[r] = Written(k, pg[r])
      /\ \A s \in Rows : pg[s] # 0 => pg'[s] # 0
  BY <1>2, <1>3 DEF TypeOK
<1>5. call' \in [Clients -> Calls] /\ call'[c].pc = "applied" /\ call'[c].row = r
      /\ call'[c].op = k.op /\ call'[c].value = k.value
  BY <1>0, <1>2, <1>3 DEF TypeOK, Calls
<1>6. TypeOK'
  BY <1>3, <1>4, <1>5 DEF TypeOK, world, drain, history
<1>7. Copied'
  BY <1>3, <1>4 DEF Copied, Taken, drain, TypeOK
<1>8. InOrder' /\ NothingLost'
  BY <1>3, <1>4 DEF InOrder, NothingLost, Stored, history
<1>9. Busy(c)' /\ Undoable(c)'
  BY <1>1, <1>2, <1>3, <1>4, <1>5 DEF Busy, Undoable, At
<1>10. ASSUME NEW d \in Clients \ {c} PROVE Busy(d)' /\ Undoable(d)'
  <2>1. call'[d] = call[d]
    BY <1>3 DEF TypeOK
  <2> QED BY <1>3, <1>4, <2>1, Others DEF history
<1> QED BY <1>3, <1>6, <1>7, <1>8, <1>9, <1>10 DEF history

\* The call returns, with the row it put where a database has it.
LEMMA ReturnSpilling ==
    ASSUME Spilling, NEW c \in Clients, Return(c), ~At(c, "idle"),
           UNCHANGED <<world, pg, fk, degraded, probe, drain, puts, cascaded>>,
           tx' = IF tx = c THEN None ELSE tx,
           buf' \in [Rows -> Cell],
           \A r \in Rows : r # call[c].row \/ tx # c => buf'[r] = buf[r],
           buf'[call[c].row] # 0 => puts[call[c].row] # 0,
           acked' \subseteq acked \cup {call[c].row},
           acked \subseteq acked',
           call[c].row \in acked' \ cascaded =>
               pg[call[c].row] # 0 \/ buf'[call[c].row] # 0,
           call[c].row \in acked' \ acked /\ tx # c => pg[call[c].row] # 0
    PROVE  Spilling'
<1> USE DEF Spilling
<1>1. call[c].row \in Rows /\ puts[call[c].row] # 0
  BY DEF Busy
<1>2. call' \in [Clients -> Calls] /\ call'[c] = Idle
      /\ \A d \in Clients \ {c} : call'[d] = call[d]
  BY IdleIsACall DEF Return, TypeOK
<1>3. TypeOK'
  BY <1>1, <1>2 DEF TypeOK, world, drain
<1>4. Copied'
  BY DEF Copied, Taken, drain
<1>5. InOrder'
  BY <1>1 DEF InOrder, TypeOK
<1>6. NothingLost'
  <2> SUFFICES ASSUME NEW r \in acked' \ cascaded PROVE pg[r] # 0 \/ buf'[r] # 0
    BY <1>3 DEF NothingLost, Stored, TypeOK
  <2> QED BY <1>1 DEF NothingLost, Stored, TypeOK
<1>7. Busy(c)' /\ Undoable(c)'
  BY <1>2, IdleIsACall, Disjoint DEF Busy, Undoable, At
<1>8. ASSUME NEW d \in Clients \ {c} PROVE Busy(d)' /\ Undoable(d)'
  <2>1. call'[d] = call[d] /\ (tx' = d <=> tx = d) /\ (tx = d => tx # c)
    BY <1>2, Disjoint
  <2>2. tx = d => buf' = buf
    BY <2>1 DEF TypeOK
  <2>3. tx = d => \A r \in acked' \ acked : pg'[r] # 0
    BY <2>1
  <2> QED BY <2>1, <2>2, <2>3 DEF Busy, Undoable, At
<1> QED BY <1>3, <1>4, <1>5, <1>6, <1>7, <1>8, Disjoint

LEMMA RepliesSpilling ==
    ASSUME Spilling, NEW c \in Clients,
           PgReply(c) \/ PgRefuses(c) \/ BufferRefuses(c) \/ BufferCommit(c) \/ Abandon(c)
    PROVE  Spilling'
<1> USE DEF Spilling
<1>1. ~At(c, "idle") /\ Return(c) /\ call[c].row \in Rows
  BY DEF PgReply, PgRefuses, BufferRefuses, BufferCommit, Abandon, At, Busy
<1>2. buf \in [Rows -> Cell] /\ call[c].undo \in Cell
      /\ puts[call[c].row] # 0
  BY <1>1 DEF TypeOK, Calls, Busy
<1>3. \A r \in acked \ cascaded : pg[r] # 0 \/ buf[r] # 0
  BY DEF NothingLost, Stored
<1>4. CASE PgReply(c)
  <2>1. At(c, "applied") /\ Told(c) /\ tx # c
        /\ UNCHANGED <<world, pg, buf, tx, fk, degraded, probe, drain, puts>>
    BY <1>4 DEF PgReply, At, Busy
  <2>2. call[c].op = "put" => pg[call[c].row] # 0
    BY <2>1 DEF Busy
  <2> QED BY <1>1, <1>2, <1>3, <2>1, <2>2, Tells, ReturnSpilling
<1>5. CASE PgRefuses(c) \/ BufferRefuses(c)
  <2>1. tx # c /\ UNCHANGED <<world, pg, buf, tx, fk, degraded, probe, drain, puts, history>>
    BY <1>5 DEF PgRefuses, BufferRefuses, At, Busy
  <2> QED BY <1>1, <1>2, <1>3, <2>1, ReturnSpilling DEF history
<1>6. CASE BufferCommit(c)
  <2>1. At(c, "written") /\ Told(c) /\ tx = c /\ tx' = None
        /\ UNCHANGED <<world, pg, buf, fk, degraded, probe, drain, puts>>
    BY <1>6 DEF BufferCommit, At, Busy
  <2>2. call[c].op = "put" => buf[call[c].row] # 0
    BY <2>1 DEF Undoable
  <2> QED BY <1>1, <1>2, <1>3, <2>1, <2>2, Tells, ReturnSpilling
<1>7. CASE Abandon(c)
  <2>1. UNCHANGED <<world, pg, fk, degraded, probe, drain, puts, history>>
    BY <1>7 DEF Abandon
  <2>2. CASE At(c, "written")
    <3>1. tx = c /\ tx' = None /\ buf' = [buf EXCEPT ![call[c].row] = call[c].undo]
      BY <1>7, <2>2 DEF Abandon, Busy
    <3>2. call[c].row \in acked \ cascaded /\ pg[call[c].row] = 0 => call[c].undo # 0
      BY <2>2 DEF Undoable
    <3>3. buf' \in [Rows -> Cell] /\ buf'[call[c].row] = call[c].undo
          /\ \A r \in Rows : r # call[c].row => buf'[r] = buf[r]
      BY <1>1, <1>2, <3>1
    <3> QED BY <1>1, <1>2, <2>1, <3>1, <3>2, <3>3, ReturnSpilling DEF history
  <2>3. CASE ~At(c, "written")
    <3>1. tx # c /\ UNCHANGED <<tx, buf>>
      BY <1>7, <2>3 DEF Abandon, Busy
    <3> QED BY <1>1, <1>2, <1>3, <2>1, <3>1, ReturnSpilling DEF history
  <2> QED BY <2>2, <2>3
<1> QED BY <1>4, <1>5, <1>6, <1>7

LEMMA PgFailsSpilling ==
    ASSUME Spilling, NEW c \in Clients, PgFails(c)
    PROVE  Spilling'
<1> USE DEF Spilling
<1>1. /\ call[c] \in Calls /\ ~At(c, "idle") /\ tx # c
      /\ UNCHANGED <<world, pg, buf, tx, fk, drain, puts, history>>
  BY DEF PgFails, TypeOK, At, Busy
<1>2. call' \in [Clients -> Calls] /\ call'[c] = [call[c] EXCEPT !.pc = "spill"]
      /\ \A d \in Clients \ {c} : call'[d] = call[d]
  BY <1>1 DEF PgFails, Goto, TypeOK, Calls
<1>3. probe' \in {probe, "poll"} /\ degraded' \in BOOLEAN
  BY DEF PgFails
<1>4. TypeOK' /\ Copied'
  BY <1>1, <1>2, <1>3 DEF TypeOK, Copied, Taken, world, drain, history
<1>5. InOrder' /\ NothingLost'
  BY <1>1 DEF InOrder, NothingLost, Stored, history
<1>6. Busy(c)' /\ Undoable(c)'
  <2>1. /\ call'[c].pc = "spill" /\ call'[c].row = call[c].row
        /\ call'[c].op = call[c].op /\ call'[c].value = call[c].value
    BY <1>1, <1>2 DEF Calls
  <2> QED BY <1>1, <2>1 DEF Busy, Undoable, At
<1>7. ASSUME NEW d \in Clients \ {c} PROVE Busy(d)' /\ Undoable(d)'
  BY <1>1, <1>2, <1>7, Others DEF history
<1> QED BY <1>1, <1>4, <1>5, <1>6, <1>7 DEF history

LEMMA BufferWriteSpilling ==
    ASSUME Spilling, NEW c \in Clients, BufferWrite(c)
    PROVE  Spilling'
<1> USE DEF Spilling
<1>0. PICK k \in Calls, r \in Rows : k = call[c] /\ r = k.row
  BY DEF BufferWrite, TypeOK, Busy, At
<1>1. /\ k.pc = "spill" /\ tx = None /\ tx' = c /\ puts[r] # 0 /\ buf[r] \in Cell
      /\ k.op = "put" => k.value # 0
  BY <1>0 DEF BufferWrite, Busy, At, TypeOK
<1>2. /\ Written(k, buf[r]) \in Cell
      /\ k.op = "put" \/ buf[r] # 0 => Written(k, buf[r]) # 0
  BY <1>0, <1>1, Writes
<1>3. /\ buf' = [buf EXCEPT ![r] = Written(k, buf[r])]
      /\ call' = [call EXCEPT ![c].pc = "written", ![c].undo = buf[r]]
      /\ UNCHANGED <<world, pg, fk, degraded, probe, drain, puts, history>>
  BY <1>0 DEF BufferWrite
<1>4. /\ buf' \in [Rows -> Cell]
      /\ buf'[r] = Written(k, buf[r])
      /\ \A s \in Rows : s # r => buf'[s] = buf[s]
  BY <1>2, <1>3 DEF TypeOK
<1>5. call' \in [Clients -> Calls] /\ call'[c].pc = "written" /\ call'[c].row = r
      /\ call'[c].op = k.op /\ call'[c].value = k.value /\ call'[c].undo = buf[r]
  BY <1>0, <1>1, <1>2, <1>3 DEF TypeOK, Calls
<1>6. TypeOK'
  BY <1>1, <1>3, <1>4, <1>5 DEF TypeOK, world, drain, history
<1>7. Copied'
  BY <1>3 DEF Copied, Taken, drain
<1>8. InOrder'
  BY <1>1, <1>3, <1>4 DEF InOrder, history
<1>9. NothingLost'
  <2> SUFFICES ASSUME NEW s \in acked \ cascaded PROVE pg[s] # 0 \/ buf'[s] # 0
    BY <1>3 DEF NothingLost, Stored, TypeOK, history
  <2> QED BY <1>2, <1>4 DEF NothingLost, Stored, TypeOK
<1>10. Busy(c)' /\ Undoable(c)'
  <2>1. r \in acked \ cascaded /\ pg[r] = 0 => buf[r] # 0
    BY DEF NothingLost, Stored
  <2> QED BY <1>1, <1>2, <1>3, <1>4, <1>5, <2>1 DEF Busy, Undoable, At, history
<1>11. ASSUME NEW d \in Clients \ {c} PROVE Busy(d)' /\ Undoable(d)'
  <2>1. call'[d] = call[d] /\ tx # d /\ tx' # d
    BY <1>1, <1>3, Disjoint DEF TypeOK
  <2> QED BY <1>3, <2>1, Others DEF history
<1> QED BY <1>1, <1>3, <1>6, <1>7, <1>8, <1>9, <1>10, <1>11 DEF history

-----------------------------------------------------------------------------
(* The steps of the probe and the drain *)

\* The drain's own bookkeeping disturbs no client.
LEMMA Bookkeeping ==
    ASSUME Spilling, UNCHANGED <<world, pg, buf, tx, call, puts, history>>,
           fk' \in BOOLEAN, degraded' \in BOOLEAN,
           probe' \in {"none", "poll", "opening", "select", "insert", "failing", "delete", "closing"},
           table' \in 1..LastTable, batch' \in [Rows -> Cell], left' \subseteq Rows,
           Copied'
    PROVE  Spilling'
<1> USE DEF Spilling
<1>1. TypeOK'
  BY DEF TypeOK, world, history
<1>2. InOrder' /\ NothingLost'
  BY DEF InOrder, NothingLost, Stored, history
<1>3. ASSUME NEW d \in Clients PROVE Busy(d)' /\ Undoable(d)'
  BY <1>3, Others DEF history
<1> QED BY <1>1, <1>2, <1>3 DEF history

LEMMA NextTables ==
    ASSUME Spilling, NextTable
    PROVE  /\ probe' \in {"select", "closing"} /\ table' \in 1..LastTable
           /\ batch' \in [Rows -> Cell] /\ left' = {}
<1>1. table \in 1..LastTable
  BY DEF Spilling, TypeOK
<1>2. NoRows \in [Rows -> Cell]
  BY Cells DEF NoRows
<1> QED BY <1>1, <1>2 DEF NextTable, LastTable

LEMMA ProbeSpilling ==
    ASSUME Spilling, Probe \/ KeysOff \/ KeysOn \/ DrainFails
    PROVE  Spilling'
<1> USE DEF Spilling
<1>1. UNCHANGED <<world, pg, buf, tx, call, puts, history>>
  BY DEF Probe, KeysOff, KeysOn, DrainFails
<1>2. fk' \in BOOLEAN /\ degraded' \in BOOLEAN
  BY DEF Probe, KeysOff, KeysOn, DrainFails, Pragma, TypeOK
<1>3. CASE Probe \/ KeysOff \/ KeysOn
  <2>1. /\ probe' \in {"opening", "select", "none"} /\ table' \in 1..LastTable
        /\ UNCHANGED <<batch, left>>
    <3>1. CASE Probe
      BY <3>1 DEF Probe, TypeOK, drain
    <3>2. CASE KeysOff
      BY <3>2 DEF KeysOff, LastTable
    <3>3. CASE KeysOn
      BY <3>3 DEF KeysOn, LastTable
    <3> QED BY <1>3, <3>1, <3>2, <3>3
  <2>2. Copied'
    BY <2>1 DEF Copied, Taken
  <2> QED BY <1>1, <1>2, <2>1, <2>2, Bookkeeping DEF TypeOK
<1>4. CASE DrainFails
  <2>1. /\ probe' \in {"select", "closing"} /\ table' \in 1..LastTable
        /\ batch' \in [Rows -> Cell] /\ left' = {}
    BY <1>4, NextTables DEF DrainFails
  <2>2. Copied'
    BY <2>1 DEF Copied
  <2> QED BY <1>1, <1>2, <2>1, <2>2, Bookkeeping
<1> QED BY <1>3, <1>4

LEMMA SelectSpilling ==
    ASSUME Spilling, Select
    PROVE  Spilling'
<1> USE DEF Spilling
<1>1. UNCHANGED <<world, pg, buf, tx, fk, degraded, call, puts, history>>
  BY DEF Select
<1>2. CASE NextTable
  <2>1. /\ probe' \in {"select", "closing"} /\ table' \in 1..LastTable
        /\ batch' \in [Rows -> Cell] /\ left' = {}
    BY <1>2, NextTables
  <2>2. Copied'
    BY <2>1 DEF Copied
  <2> QED BY <1>1, <2>1, <2>2, Bookkeeping DEF TypeOK
<1>3. CASE ~NextTable
  <2>1. PICK rows \in SUBSET {r \in Tables[table] : buf[r] # 0} :
            /\ batch' = [r \in Rows |-> IF r \in rows THEN buf[r] ELSE 0]
            /\ left' = rows /\ probe' = "insert" /\ UNCHANGED table
    BY <1>3 DEF Select
  <2>2. table \in 1..LastTable /\ buf \in [Rows -> Cell]
    BY DEF TypeOK
  <2>3. Tables[table] \subseteq Rows
    BY <2>2 DEF Tables, LastTable, Rows, Upserted, Decided
  <2>4. rows \subseteq Rows /\ \A r \in rows : buf[r] # 0
    BY <2>3
  <2>5. batch' \in [Rows -> Cell]
    BY <2>1, <2>2, Cells
  <2>6. Taken' = rows
    BY <2>1, <2>4 DEF Taken
  <2>7. Copied'
    BY <2>1, <2>6 DEF Copied
  <2> QED BY <1>1, <2>1, <2>2, <2>4, <2>5, <2>7, Bookkeeping DEF TypeOK
<1> QED BY <1>2, <1>3

LEMMA DrainInsertSpilling ==
    ASSUME Spilling, NEW r \in Rows, DrainInsert(r)
    PROVE  Spilling'
<1> USE DEF Spilling
<1>1. /\ probe = "insert" /\ r \in left /\ batch[r] # 0 /\ batch[r] \in Cell
      /\ UNCHANGED <<world, buf, tx, fk, degraded, table, batch, call, puts, history>>
  BY DEF DrainInsert, Copied, Taken, TypeOK
<1>2. /\ pg' \in [Rows -> Cell] /\ pg'[r] # 0
      /\ \A s \in Rows : pg[s] # 0 => pg'[s] # 0
  BY <1>1 DEF DrainInsert, Inserted, TypeOK
<1>3. \/ left = {r} /\ probe' = "delete" /\ left' = Taken
      \/ left # {r} /\ probe' = "insert" /\ left' = left \ {r}
  BY <1>1 DEF DrainInsert
<1>4. Taken \subseteq Rows /\ Taken' = Taken /\ left \subseteq Taken
      /\ \A s \in Taken \ left : pg'[s] # 0
  BY <1>1, <1>2 DEF Taken, Copied
<1>5. TypeOK'
  BY <1>1, <1>2, <1>3, <1>4 DEF TypeOK, world, history
<1>6. Copied'
  BY <1>2, <1>3, <1>4 DEF Copied
<1>7. InOrder' /\ NothingLost'
  BY <1>1, <1>2 DEF InOrder, NothingLost, Stored, history
<1>8. ASSUME NEW d \in Clients PROVE Busy(d)' /\ Undoable(d)'
  BY <1>1, <1>2, <1>8, Others DEF history
<1> QED BY <1>1, <1>5, <1>6, <1>7, <1>8 DEF history

\* What goes with the deleted row is its children, if the keys are on.
LEMMA Deletes ==
    ASSUME Spilling, NEW r \in Rows, DrainDelete(r)
    PROVE  \E gone \in SUBSET Rows :
              /\ r \in gone /\ gone \ {r} \subseteq Children(r)
              /\ buf' = [s \in Rows |-> IF s \in gone THEN 0 ELSE buf[s]]
              /\ cascaded' = cascaded \cup {s \in gone \ {r} : pg[s] = 0}
<1> DEFINE gone == {r} \cup IF fk THEN Children(r) ELSE {}
<1>1. gone \in SUBSET Rows /\ r \in gone /\ gone \ {r} \subseteq Children(r)
  BY Disjoint DEF Children
<1>2. /\ buf' = [s \in Rows |-> IF s \in gone THEN 0 ELSE buf[s]]
      /\ cascaded' = cascaded \cup {s \in gone \ {r} : pg[s] = 0}
  BY DEF DrainDelete
<1> QED BY <1>1, <1>2

LEMMA DrainDeleteSpilling ==
    ASSUME Spilling, NEW r \in Rows, DrainDelete(r)
    PROVE  Spilling'
<1> USE DEF Spilling
<1>1. /\ probe = "delete" /\ r \in left /\ pg[r] # 0 /\ tx = None
      /\ UNCHANGED <<world, pg, tx, fk, degraded, call, puts, acked>>
  BY DEF DrainDelete, Copied
<1>2. PICK gone \in SUBSET Rows :
        /\ r \in gone /\ gone \ {r} \subseteq Children(r)
        /\ buf' = [s \in Rows |-> IF s \in gone THEN 0 ELSE buf[s]]
        /\ cascaded' = cascaded \cup {s \in gone \ {r} : pg[s] = 0}
  BY Deletes
<1>3. buf' \in [Rows -> Cell] /\ \A s \in Rows : buf'[s] # 0 => buf[s] # 0
  BY <1>2, Cells DEF TypeOK
<1>4. cascaded \subseteq cascaded' /\ cascaded' \subseteq Proposals /\ cascaded' \subseteq Rows
  BY <1>2, Disjoint DEF Children
<1>5. /\ probe' \in {"delete", "select", "closing"} /\ table' \in 1..LastTable
      /\ batch' \in [Rows -> Cell] /\ left' \subseteq Rows /\ Copied'
  <2>1. CASE NextTable
    <3>1. /\ probe' \in {"select", "closing"} /\ table' \in 1..LastTable
          /\ batch' \in [Rows -> Cell] /\ left' = {}
      BY <2>1, NextTables
    <3> QED BY <3>1 DEF Copied
  <2>2. CASE left' = left \ {r} /\ UNCHANGED <<probe, table, batch>>
    BY <1>1, <2>2 DEF Copied, Taken, TypeOK
  <2>3. CASE probe' = "select" /\ batch' = NoRows /\ left' = {} /\ UNCHANGED table
    BY <2>3, Cells DEF Copied, TypeOK, NoRows
  <2> QED BY <2>1, <2>2, <2>3 DEF DrainDelete
<1>6. TypeOK'
  BY <1>1, <1>3, <1>4, <1>5 DEF TypeOK, world
<1>7. InOrder'
  BY <1>1, <1>3 DEF InOrder
<1>8. NothingLost'
  <2> SUFFICES ASSUME NEW s \in acked, s \notin cascaded' PROVE pg[s] # 0 \/ buf'[s] # 0
    BY <1>1, <1>6 DEF NothingLost, Stored, TypeOK
  <2>1. pg[s] # 0 \/ buf[s] # 0
    BY <1>4 DEF NothingLost, Stored
  <2>2. s \in gone => pg[s] # 0
    BY <1>1, <1>2
  <2> QED BY <1>2, <2>1, <2>2 DEF TypeOK
<1>9. ASSUME NEW d \in Clients PROVE Busy(d)' /\ Undoable(d)'
  BY <1>1, <1>4, Disjoint DEF Busy, Undoable, At
<1> QED BY <1>1, <1>4, <1>5, <1>6, <1>7, <1>8, <1>9

-----------------------------------------------------------------------------
(* Postgres and the process *)

LEMMA OutageSpilling ==
    ASSUME Spilling, Outage \/ Recover
    PROVE  Spilling'
<1> USE DEF Spilling
<1>1. UNCHANGED <<restarts, pg, buf, tx, fk, degraded, drain, puts, history>>
  BY DEF Outage, Recover
<1>2. /\ up' \in BOOLEAN /\ outages' \in 0..MaxOutages
      /\ probe' = probe \/ (probe = "insert" /\ probe' = "failing")
  <2>1. CASE Outage
    <3>1. outages \in 0..MaxOutages /\ MaxOutages \in Nat /\ outages < MaxOutages
      BY <2>1, BoundsAssumption DEF Outage, TypeOK
    <3>2. outages + 1 \in 0..MaxOutages
      BY <3>1
    <3> QED BY <2>1, <3>2 DEF Outage
  <2>2. CASE Recover
    BY <2>2 DEF Recover, TypeOK
  <2> QED BY <2>1, <2>2
<1>3. call' \in [Clients -> Calls]
      /\ \A d \in Clients :
            \/ call'[d] = call[d]
            \/ /\ call'[d] = [call[d] EXCEPT !.pc = "failing"]
               /\ ~At(d, "idle") /\ ~At(d, "written")
  <2>1. CASE Recover
    BY <2>1 DEF Recover, TypeOK
  <2>2. CASE Outage
    <3>1. PICK hit \in SUBSET InFlight :
             call' = [c \in Clients |-> IF c \in hit THEN [call[c] EXCEPT !.pc = "failing"]
                                                     ELSE call[c]]
      BY <2>2 DEF Outage
    <3>2. \A d \in Clients : [call[d] EXCEPT !.pc = "failing"] \in Calls /\ call[d] \in Calls
      BY DEF TypeOK, Calls
    <3> QED BY <3>1, <3>2 DEF InFlight, At
  <2> QED BY <2>1, <2>2
<1>4. TypeOK' /\ Copied'
  BY <1>1, <1>2, <1>3 DEF TypeOK, Copied, Taken, drain, history
<1>5. InOrder' /\ NothingLost'
  BY <1>1 DEF InOrder, NothingLost, Stored, history
<1>6. ASSUME NEW d \in Clients PROVE Busy(d)' /\ Undoable(d)'
  <2>1. CASE call'[d] = call[d]
    BY <1>1, <2>1, Others DEF history
  <2>2. CASE call'[d] # call[d]
    <3>1. call'[d] = [call[d] EXCEPT !.pc = "failing"] /\ ~At(d, "idle") /\ ~At(d, "written")
      BY <1>3, <2>2
    <3>2. /\ call'[d].pc = "failing" /\ call'[d].row = call[d].row
          /\ call'[d].op = call[d].op /\ call'[d].value = call[d].value
      BY <3>1 DEF TypeOK, Calls
    <3> QED BY <1>1, <3>1, <3>2 DEF Busy, Undoable, At
  <2> QED BY <2>1, <2>2
<1> QED BY <1>1, <1>4, <1>5, <1>6 DEF history

LEMMA RestartSpilling ==
    ASSUME Spilling, Restart
    PROVE  Spilling'
<1> USE DEF Spilling
<1>1. /\ tx' = None /\ call' = [c \in Clients |-> Idle]
      /\ UNCHANGED <<up, outages, pg, puts, history>>
  BY DEF Restart
<1>2. /\ buf' \in [Rows -> Cell]
      /\ \A r \in Rows : buf'[r] # 0 => puts[r] # 0
      /\ \A r \in acked \ cascaded : pg[r] # 0 \/ buf'[r] # 0
  <2>1. CASE tx = None
    BY <2>1 DEF Restart, TypeOK, InOrder, NothingLost, Stored
  <2>2. CASE tx # None
    <3>1. tx \in Clients /\ At(tx, "written")
      BY <2>2 DEF Busy
    <3>2. PICK r \in Rows, u \in Cell :
            /\ r = call[tx].row /\ u = call[tx].undo /\ puts[r] # 0
            /\ r \in acked \ cascaded /\ pg[r] = 0 => u # 0
      BY <3>1 DEF Busy, Undoable, TypeOK, Calls, At
    <3>3. buf' = [buf EXCEPT ![r] = u]
      BY <2>2, <3>2 DEF Restart
    <3> QED BY <3>2, <3>3 DEF TypeOK, InOrder, NothingLost, Stored
  <2> QED BY <2>1, <2>2
<1>3. /\ probe' = "none" /\ table' = 1 /\ batch' = NoRows /\ left' = {}
      /\ fk' = TRUE /\ degraded' = FALSE /\ restarts' \in 0..MaxRestarts
  BY BoundsAssumption DEF Restart, TypeOK
<1>4. TypeOK'
  <2>1. NoRows \in [Rows -> Cell] /\ 1 \in 1..LastTable
    BY Cells DEF NoRows, LastTable
  <2>2. call' \in [Clients -> Calls]
    BY <1>1, IdleIsACall
  <2> QED BY <1>1, <1>2, <1>3, <2>1, <2>2 DEF TypeOK, history
<1>5. Copied'
  BY <1>3 DEF Copied
<1>6. InOrder' /\ NothingLost'
  BY <1>1, <1>2, <1>4 DEF InOrder, NothingLost, Stored, TypeOK, history
<1>7. ASSUME NEW d \in Clients PROVE Busy(d)' /\ Undoable(d)'
  BY <1>1, IdleIsACall, Disjoint DEF Busy, Undoable, At
<1> QED BY <1>1, <1>4, <1>5, <1>6, <1>7 DEF history

-----------------------------------------------------------------------------
(* The theorems *)

LEMMA NextSpilling == Spilling /\ [Next]_vars => Spilling'
<1> SUFFICES ASSUME Spilling, [Next]_vars PROVE Spilling'
  OBVIOUS
<1>1. CASE \E c \in Clients, r \in Rows : Put(c, r) \/ Settle(c, r)
  BY <1>1, RouteSpilling
<1>2. ASSUME NEW c \in Clients, ClientStep(c) \/ Abandon(c)
      PROVE  Spilling'
  BY <1>2, PgApplySpilling, PgFailsSpilling, BufferWriteSpilling, RepliesSpilling
     DEF ClientStep
<1>3. CASE Probe \/ DrainStep
  BY <1>3, ProbeSpilling, SelectSpilling, DrainInsertSpilling, DrainDeleteSpilling
     DEF DrainStep
<1>4. CASE Outage \/ Recover \/ Restart
  BY <1>4, OutageSpilling, RestartSpilling
<1>5. CASE UNCHANGED vars
  <2>1. UNCHANGED <<world, pg, buf, tx, call, puts, history>>
    BY <1>5 DEF vars, world, history
  <2>2. TypeOK /\ Copied /\ UNCHANGED <<fk, degraded, probe, table, batch, left, pg>>
    BY <1>5 DEF vars, Spilling
  <2>3. Copied'
    BY <2>2 DEF Copied, Taken
  <2> QED BY <2>1, <2>2, <2>3, Bookkeeping DEF TypeOK
<1> QED BY <1>1, <1>2, <1>3, <1>4, <1>5 DEF Next

LEMMA AlwaysSpilling == Spec => []Spilling
BY InitSpilling, NextSpilling, PTL DEF Spec

\* The types of StorageRouting.
THEOREM TypeCorrect == Spec => []TypeOK
BY AlwaysSpilling, PTL DEF Spilling

\* "so the write is never lost" (facade.py), but for the cascade of a drain that
\* could not switch the foreign keys off.
THEOREM AcknowledgedIsKept == Spec => []NothingLost
BY AlwaysSpilling, PTL DEF Spilling

\* The drain finds, or has already brought to Postgres, the parent of every row
\* it has to insert (reconcile.py drains parents first).
THEOREM BufferedIsDrainable == Spec => []Drainable
<1>1. Spilling => Drainable
  <2> SUFFICES ASSUME Spilling, NEW p \in Proposals, buf[p] # 0 PROVE EventOf[p] \in Stored
    BY DEF Drainable
  <2>1. puts[p] # 0
    BY Disjoint DEF Spilling, InOrder
  <2>2. EventOf[p] \in acked /\ EventOf[p] \notin cascaded
    BY <2>1, Disjoint DEF Spilling, InOrder
  <2> QED BY <2>2 DEF Spilling, NothingLost
<1> QED BY <1>1, AlwaysSpilling, PTL

\* ON CONFLICT DO NOTHING: nothing Postgres has is replaced by the drain.
THEOREM PostgresWins == Spec => DrainKeepsPostgres
<1>1. TypeOK /\ [Next]_vars =>
        [DrainStep => \A r \in Rows : pg[r] # 0 => pg'[r] = pg[r]]_vars
  <2> SUFFICES ASSUME TypeOK, DrainStep, NEW r \in Rows, pg[r] # 0 PROVE pg'[r] = pg[r]
    OBVIOUS
  <2>1. CASE KeysOff \/ Select \/ DrainFails \/ KeysOn
    BY <2>1 DEF KeysOff, Select, DrainFails, KeysOn
  <2>2. ASSUME NEW s \in Rows, DrainInsert(s) PROVE pg'[r] = pg[r]
    BY <2>2 DEF DrainInsert, Inserted, TypeOK
  <2>3. ASSUME NEW s \in Rows, DrainDelete(s) PROVE pg'[r] = pg[r]
    BY <2>3 DEF DrainDelete
  <2> QED BY <2>1, <2>2, <2>3 DEF DrainStep
<1> QED BY <1>1, TypeCorrect, PTL DEF Spec, DrainKeepsPostgres

-----------------------------------------------------------------------------
(* The refinement *)

LEMMA InitPromised == Init => Promised!Init
BY DEF Init, Promised!Init, Stored, NoRows

LEMMA StepPromised ==
    ASSUME Spilling, Spilling', [Next]_vars
    PROVE  [Promised!Next]_<<Stored, acked \ cascaded>>
<1> USE DEF Spilling
<1> USE DEF Promised!Next
<1>1. ASSUME NEW r \in Rows, Stored' = Stored \cup {r}, UNCHANGED <<acked, cascaded>>
      PROVE  Promised!Next
  BY <1>1 DEF Promised!Write
<1>2. ASSUME NEW r \in Rows, r \in Stored, Stored' = Stored, cascaded' = cascaded,
             acked' = acked \cup {r}
      PROVE  [Promised!Next]_<<Stored, acked \ cascaded>>
  <2>1. CASE r \in cascaded
    BY <1>2, <2>1
  <2>2. CASE r \notin cascaded
    BY <1>2, <2>2 DEF Promised!Acknowledge
  <2> QED BY <2>1, <2>2
<1>3. ASSUME UNCHANGED <<pg, acked, cascaded>>, NEW r \in Rows,
             \A s \in Rows : s # r => buf'[s] = buf[s]
      PROVE  [Promised!Next]_<<Stored, acked \ cascaded>>
  <2>1. CASE r \in Stored'
    <3>1. Stored' = Stored \cup {r}
      BY <1>3, <2>1 DEF Stored
    <3> QED BY <1>1, <1>3, <3>1
  <2>2. CASE r \notin Stored'
    <3>1. Stored' = Stored \ {r}
      BY <1>3, <2>2 DEF Stored
    <3>2. r \notin acked \ cascaded
      BY <1>3, <2>2 DEF NothingLost
    <3> QED BY <1>3, <3>1, <3>2 DEF Promised!Forget
  <2> QED BY <2>1, <2>2
<1>4. ASSUME UNCHANGED <<pg, buf, history>>
      PROVE  UNCHANGED <<Stored, acked \ cascaded>>
  BY <1>4 DEF Stored, history
<1>5. ASSUME NEW c \in Clients, NEW r \in Rows, Put(c, r) \/ Settle(c, r)
      PROVE  UNCHANGED <<Stored, acked \ cascaded>>
  BY <1>4, <1>5 DEF Put, Settle, Route
<1>6. ASSUME NEW c \in Clients, ClientStep(c) \/ Abandon(c)
      PROVE  [Promised!Next]_<<Stored, acked \ cascaded>>
  <2>1. CASE PgApply(c)
    <3>1. call[c].row \in Rows /\ UNCHANGED <<buf, acked, cascaded>>
          /\ \A s \in Rows : s # call[c].row => pg'[s] = pg[s]
      BY <2>1 DEF PgApply, Busy, At, history, TypeOK
    <3>2. PICK r \in Rows : r = call[c].row
      BY <3>1
    <3>3. r \in Stored => r \in Stored'
      <4>1. call[c] \in Calls /\ pg[r] \in Cell /\ (call[c].op = "put" => call[c].value # 0)
        BY <2>1 DEF PgApply, TypeOK, Busy, At
      <4>2. pg[r] # 0 => pg'[r] # 0
        BY <2>1, <3>2, <4>1, Writes DEF PgApply, TypeOK
      <4> QED BY <3>1, <4>2 DEF Stored
    <3>4. Stored' = Stored \cup {r} \/ Stored' = Stored
      BY <3>1, <3>2, <3>3 DEF Stored
    <3> QED BY <1>1, <3>1, <3>4
  <2>2. CASE PgReply(c)
    <3>1. ~At(c, "idle") /\ call[c].row \in Rows /\ UNCHANGED <<pg, buf>>
          /\ (call[c].op = "put" => pg[call[c].row] # 0)
      BY <2>2 DEF PgReply, At, Busy
    <3>2. Stored' = Stored
      BY <3>1 DEF Stored
    <3>3. call[c].op = "put" => call[c].row \in Stored
      BY <3>1 DEF Stored
    <3> QED BY <1>2, <2>2, <3>1, <3>2, <3>3, Tells DEF PgReply
  <2>3. CASE BufferCommit(c)
    <3>1. ~At(c, "idle") /\ call[c].row \in Rows /\ UNCHANGED <<pg, buf>>
          /\ (call[c].op = "put" => buf[call[c].row] # 0)
      BY <2>3 DEF BufferCommit, At, Busy, Undoable
    <3>2. Stored' = Stored
      BY <3>1 DEF Stored
    <3>3. call[c].op = "put" => call[c].row \in Stored
      BY <3>1 DEF Stored
    <3> QED BY <1>2, <2>3, <3>1, <3>2, <3>3, Tells DEF BufferCommit
  <2>4. CASE PgRefuses(c) \/ PgFails(c) \/ BufferRefuses(c)
    BY <1>4, <2>4 DEF PgRefuses, PgFails, BufferRefuses
  <2>5. CASE BufferWrite(c)
    <3>1. PICK r \in Rows : r = call[c].row
      BY <2>5 DEF BufferWrite, Busy, At
    <3>2. UNCHANGED <<pg, acked, cascaded>> /\ \A s \in Rows : s # r => buf'[s] = buf[s]
      BY <2>5, <3>1 DEF BufferWrite, TypeOK, history
    <3> QED BY <1>3, <3>2
  <2>6. CASE Abandon(c)
    <3>1. PICK r \in Rows : r = call[c].row
      BY <2>6 DEF Abandon, Busy
    <3>2. UNCHANGED <<pg, acked, cascaded>> /\ \A s \in Rows : s # r => buf'[s] = buf[s]
      BY <2>6, <3>1 DEF Abandon, TypeOK, history
    <3> QED BY <1>3, <3>2
  <2> QED BY <1>6, <2>1, <2>2, <2>3, <2>4, <2>5, <2>6 DEF ClientStep
<1>7. CASE Probe \/ KeysOff \/ KeysOn \/ DrainFails \/ Select \/ Outage \/ Recover
  BY <1>4, <1>7 DEF Probe, KeysOff, KeysOn, DrainFails, Select, Outage, Recover
<1>8. ASSUME NEW r \in Rows, DrainInsert(r)
      PROVE  Promised!Next
  <2>1. batch[r] # 0 /\ UNCHANGED <<buf, acked, cascaded>>
    BY <1>8 DEF DrainInsert, Copied, Taken, history
  <2>2. Stored' = Stored \cup {r}
    BY <1>8, <2>1 DEF DrainInsert, Inserted, Stored, TypeOK
  <2> QED BY <1>1, <2>1, <2>2
<1>9. ASSUME NEW r \in Rows, DrainDelete(r)
      PROVE  Promised!Next
  <2>1. PICK gone \in SUBSET Rows :
          /\ r \in gone /\ gone \ {r} \subseteq Children(r)
          /\ buf' = [s \in Rows |-> IF s \in gone THEN 0 ELSE buf[s]]
          /\ cascaded' = cascaded \cup {s \in gone \ {r} : pg[s] = 0}
    BY <1>9, Deletes
  <2>2. r \in Stored /\ pg[r] # 0 /\ UNCHANGED <<pg, acked>>
    BY <1>9 DEF DrainDelete, Copied, Stored
  <2> DEFINE lost == {s \in gone \ {r} : pg[s] = 0}
  <2>3. lost \in SUBSET {s \in Rows : <<s, r>> \in {<<p, EventOf[p]>> : p \in Proposals}}
    BY <2>1, Disjoint DEF Children
  <2>4. Stored' = Stored \ lost
    BY <2>1, <2>2 DEF Stored
  <2>5. acked' \ cascaded' = (acked \ cascaded) \ lost
    BY <2>1, <2>2
  <2>6. Promised!Cascade(r)
    BY <2>2, <2>3, <2>4, <2>5 DEF Promised!Cascade
  <2> QED BY <2>6
<1>10. CASE Restart
  <2>1. UNCHANGED <<pg, acked, cascaded>>
    BY <1>10 DEF Restart, history
  <2>2. CASE tx = None
    BY <1>4, <1>10, <2>2 DEF Restart
  <2>3. CASE tx # None
    <3>1. PICK r \in Rows : r = call[tx].row
      BY <2>3 DEF Busy, At
    <3>2. \A s \in Rows : s # r => buf'[s] = buf[s]
      BY <1>10, <2>3, <3>1 DEF Restart, TypeOK
    <3> QED BY <1>3, <2>1, <3>2
  <2> QED BY <2>2, <2>3
<1>11. CASE UNCHANGED vars
  BY <1>4, <1>11 DEF vars, history
<1> QED BY <1>5, <1>6, <1>7, <1>8, <1>9, <1>10, <1>11 DEF Next, DrainStep

\* The facade, the probe and the drain together implement SpilloverStore: a row
\* that was acknowledged leaves the two databases only with its parent.
THEOREM Implements == Spec => Refines
<1>1. Spilling /\ Spilling' /\ [Next]_vars => [Promised!Next]_<<Stored, acked \ cascaded>>
  BY StepPromised
<1> QED BY InitPromised, <1>1, AlwaysSpilling, PTL DEF Spec, Refines, Promised!Spec

=============================================================================
