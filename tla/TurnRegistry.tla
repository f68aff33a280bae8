------------------------------ MODULE TurnRegistry ------------------------------
(***************************************************************************)
(* Conversation turns owned by the daemon (daemon/turn_registry.py) and    *)
(* the sockets that watch them (daemon/web/routers/converse.py).           *)
(*                                                                         *)
(* A turn runs as a task of the daemon's event loop.  The frames it emits  *)
(* go to the channel of its thread, which numbers them, keeps the newest   *)
(* in a replay ring and copies them to the queue of every viewer.  A       *)
(* viewer that lost its socket attaches again with the last number it      *)
(* rendered and is sent the gap.                                           *)
(*                                                                         *)
(* The code runs on one event loop, so a step here is the code between two *)
(* awaits.  Objects are told apart by the members of Chans and Runs; a     *)
(* member is used again once nothing refers to the object it stood for.    *)
(***************************************************************************)
EXTENDS Integers, Sequences, FiniteSets, FiniteSetsExt

CONSTANTS
    Threads,     \* thread ids
    Viewers,     \* clients; each has at most one open socket
    Chans,       \* identities of ThreadChannel objects
    Runs,        \* identities of TurnRun objects
    None,
    RingSize,    \* TURN_RING_SIZE
    Backlog,     \* EPHEMERAL_BACKLOG
    MaxTracked,  \* MAX_TRACKED_THREADS
    MaxFrames    \* bound: no turn starts or emits once the channels numbered this many

ASSUME SizesAssumption ==
    /\ RingSize \in Nat \ {0}
    /\ Backlog \in Nat
    /\ MaxTracked \in Nat \ {0}
    /\ MaxFrames \in Nat

ASSUME NoneAssumption == None \notin Threads \cup Chans \cup Runs \cup Nat

VARIABLES
    channels,    \* the channels in TurnRegistry._channels
    chan,        \* the ThreadChannel objects
    run,         \* the TurnRun objects and their tasks
    viewer       \* a client, its socket's handler and its subscription

vars == <<channels, chan, run, viewer>>

Kinds == {"start", "text", "ask", "ask_resolved", "end"}
Frame == [seq: Nat, kind: Kinds]


Tasks == {"none", "new", "body", "settled"}
Statuses == {"running", "done", "cancelled", "error"}

\* leaked: a subscription is left whose handler is gone; old: nobody touched
\* the channel, and no turn of it ended, for FINISHED_RETENTION_SEC.
ThreadChannel(t) ==
    [thread |-> t, seq |-> 0, ring |-> <<>>, subs |-> {}, leaked |-> FALSE,
     run |-> None, old |-> FALSE]

TurnRun(c, floor) ==
    [task |-> "new", status |-> "running", cancelling |-> FALSE, ask |-> "none",
     chan |-> c, start |-> floor]

NoRun == [TurnRun(None, 0) EXCEPT !.task = "none", !.status = "done"]

\* home, cursor: what the client remembers between sockets (the thread it is
\* pinned to and the last number rendered); source: the channel that number
\* came from.  owed: the kept frames the client has not rendered yet.  honest:
\* the number presented at the attach was minted by the channel attached to.
Away(home, cursor, source) ==
    [pc |-> "away", chan |-> None, replay |-> <<>>, queue |-> <<>>, last |-> 0,
     owed |-> {}, honest |-> TRUE,
     home |-> home, cursor |-> cursor, source |-> source]

Init ==
    /\ channels = {}
    /\ chan = [c \in Chans |-> ThreadChannel(None)]
    /\ run = [r \in Runs |-> NoRun]
    /\ viewer = [v \in Viewers |-> Away(None, None, None)]

-----------------------------------------------------------------------------
(* Object lifetimes *)

Unsettled(r) == run[r].task \in {"new", "body"}

InUse(c) ==
    \/ c \in channels
    \/ chan[c].subs # {}
    \/ \E r \in Runs : Unsettled(r) /\ run[r].chan = c

FreeChans == {c \in Chans : ~InUse(c)}

FreeRuns ==
    {r \in Runs : ~Unsettled(r) /\ \A c \in Chans : InUse(c) => chan[c].run # r}

-----------------------------------------------------------------------------
(* TurnRegistry._channels *)

Registered(t) == {c \in channels : chan[c].thread = t}

Running(runs, r) == r # None /\ runs[r].status = "running"

\* Mutant of Active: a turn that was told to stop no longer counts.
Active_NotStopping(t) ==
    {r \in Runs : /\ \E c \in Registered(t) : chan[c].run = r
                  /\ Running(run, r) /\ ~run[r].cancelling}

\* TurnRegistry.active: the turn running on a thread.
Active(t) == {r \in Runs : \E c \in Registered(t) : chan[c].run = r /\ Running(run, r)}

\* Mutant of Idle: an attached viewer is forgotten.
Idle_ViewerForgotten(ch, runs, c) == ~Running(runs, ch[c].run)

Idle(ch, runs, c) == ch[c].subs = {} /\ ~ch[c].leaked /\ ~Running(runs, ch[c].run)

IsSweepable(ch, runs, c) == Idle(ch, runs, c) /\ ch[c].old

\* What _sweep may leave of the channels `known`: the sweepable ones go; past
\* MaxTracked idle ones go too, as many as it takes while there are any.  The
\* channel `newest` is last in the dictionary's order, so it goes only if every
\* other idle channel does; the order among the others is left open.
Swept(known, ch, runs, newest) ==
    LET fresh  == {c \in known : ~IsSweepable(ch, runs, c)}
        idle   == {c \in fresh : Idle(ch, runs, c)}
        excess == Cardinality(fresh) - MaxTracked
    IN  {fresh \ out : out \in
            {out \in SUBSET idle :
                /\ excess <= 0 => out = {}
                /\ excess > 0 => \/ Cardinality(out) = excess
                                 \/ out = idle /\ Cardinality(idle) < excess
                /\ newest \in out => out = idle}}

\* TurnRegistry.channel: the registered channel of a thread, else a new one.
\* ChannelFor is its identity, Opened the objects and Known what may be
\* registered once it returns.
CanOpen(t) == Registered(t) # {} \/ FreeChans # {}

ChannelFor(t) ==
    IF Registered(t) # {} THEN CHOOSE c \in Registered(t) : TRUE
    ELSE CHOOSE c \in FreeChans : TRUE

Opened(t) ==
    IF Registered(t) # {} THEN chan
    ELSE [chan EXCEPT ![ChannelFor(t)] = ThreadChannel(t)]

Known(t) ==
    IF Registered(t) # {} THEN {channels}
    ELSE Swept(channels \cup {ChannelFor(t)}, Opened(t), run, ChannelFor(t))

\* Objects nothing refers to any more once `kept` is what is registered.
Collected(objs, kept) ==
    [c \in Chans |-> IF c \in channels \ kept THEN ThreadChannel(None) ELSE objs[c]]

\* No channel minted a cursor that came from the object this one replaces.
Clients(t) ==
    IF Registered(t) # {} THEN viewer
    ELSE [v \in Viewers |-> IF viewer[v].source = ChannelFor(t)
                            THEN [viewer[v] EXCEPT !.source = None] ELSE viewer[v]]

-----------------------------------------------------------------------------
(* ThreadChannel.emit *)

Newest(ring) ==
    IF Len(ring) > RingSize THEN SubSeq(ring, Len(ring) - RingSize + 1, Len(ring))
    ELSE ring

\* A channel after it emitted frames of these kinds, none of them ephemeral.
Rung(tc, kinds) ==
    [tc EXCEPT
        !.seq = @ + Len(kinds),
        !.ring = Newest(@ \o [i \in 1..Len(kinds) |-> [seq |-> tc.seq + i,
                                                       kind |-> kinds[i]]])]

\* The viewers after the channel tc emitted n frames.
Heard(clients, tc, n, ephemeral) ==
    [v \in Viewers |->
        IF v \notin tc.subs \/ (ephemeral /\ Len(clients[v].queue) > Backlog)
        THEN clients[v]
        ELSE [clients[v] EXCEPT
                !.queue = @ \o [i \in 1..n |-> tc.seq + i],
                !.owed = IF ephemeral THEN @ ELSE @ \cup (tc.seq + 1)..(tc.seq + n)]]

\* The bound on frames leaves every turn room to settle.
Room == MapThenSumSet(LAMBDA c : chan[c].seq, Chans) < MaxFrames

-----------------------------------------------------------------------------
(* A turn *)

\* TurnRegistry.start, when no turn runs on the thread (else it returns None
\* and changes nothing).
Start(t) ==
    /\ Active(t) = {}
    /\ CanOpen(t)
    /\ FreeRuns # {}
    /\ LET c  == ChannelFor(t)
           r  == CHOOSE x \in FreeRuns : TRUE
           tc == Opened(t)[c]
       IN  /\ Room
           /\ channels' \in Known(t)
           /\ run' = [s \in Runs |-> IF s = r THEN TurnRun(c, tc.seq)
                                    ELSE IF s \in FreeRuns \/ (s = tc.run /\ ~Unsettled(s)) THEN NoRun
                                    ELSE run[s]]
           /\ chan' = [Collected(Opened(t), channels') EXCEPT
                           ![c] = [Rung(tc, <<"start">>) EXCEPT !.run = r]]
           /\ viewer' = Heard(Clients(t), tc, 1, FALSE)

\* The loop runs the task for the first time.  A task cancelled before that
\* is settled without running any of _drive, its `finally` included.
FirstStep(r) ==
    /\ run[r].task = "new"
    /\ run' = [run EXCEPT ![r].task = IF run[r].cancelling THEN "settled" ELSE "body"]
    /\ UNCHANGED <<channels, chan, viewer>>

\* The body is not waiting for an answer and is not about to be cancelled.
Stepping(r) == run[r].task = "body" /\ ~run[r].cancelling /\ run[r].ask = "none"

Emit(r, kinds) ==
    LET c == run[r].chan IN
    /\ chan' = [chan EXCEPT ![c] = Rung(@, kinds)]
    /\ viewer' = Heard(viewer, chan[c], Len(kinds), FALSE)

\* TurnRun.emit of a frame that is kept: a token, a tool call, a log line.
EmitText(r) ==
    /\ Stepping(r)
    /\ Room
    /\ Emit(r, <<"text">>)
    /\ UNCHANGED <<channels, run>>

\* TurnRun.emit of a frame of EPHEMERAL_TYPES: numbered, never kept.
EmitAudio(r) ==
    LET c == run[r].chan IN
    /\ Stepping(r)
    /\ Room
    /\ chan' = [chan EXCEPT ![c].seq = @ + 1]
    /\ viewer' = Heard(viewer, chan[c], 1, TRUE)
    /\ UNCHANGED <<channels, run>>

\* _ask_handler up to its await.
Ask(r) ==
    /\ Stepping(r)
    /\ Room
    /\ run' = [run EXCEPT ![r].ask = "open"]
    /\ Emit(r, <<"ask">>)
    /\ UNCHANGED channels

\* TurnRegistry.answer_ask: only the active turn's open ask can be answered.
AnswerAsk(t) ==
    \E r \in Active(t) :
        /\ run[r].ask = "open"
        /\ run' = [run EXCEPT ![r].ask = "answered"]
        /\ UNCHANGED <<channels, chan, viewer>>

\* _ask_handler from its await on: its `finally` clears the ask everywhere.
AskReturns(r) ==
    /\ run[r].task = "body" /\ ~run[r].cancelling /\ run[r].ask = "answered"
    /\ run' = [run EXCEPT ![r].ask = "none"]
    /\ Emit(r, <<"ask_resolved">>)
    /\ UNCHANGED channels

\* Mutant of Settled: one of the branches of _drive forgets the status.
Settled_NoStatus(r, status) ==
    [run EXCEPT ![r].task = "settled", ![r].cancelling = FALSE, ![r].ask = "none"]

Settled(r, status) ==
    [run EXCEPT ![r].task = "settled", ![r].status = status,
                ![r].cancelling = FALSE, ![r].ask = "none"]

\* _drive once the body is left: the frames still to emit, the last of them
\* turn_end, and the sweep.
Settle(r, status, kinds) ==
    LET c    == run[r].chan
        runs == Settled(r, status)
        objs == [chan EXCEPT ![c] = [Rung(@, kinds) EXCEPT !.old = FALSE]]
    IN  /\ run' = runs
        /\ channels' \in Swept(channels, objs, runs, None)
        /\ chan' = Collected(objs, channels')
        /\ viewer' = Heard(viewer, chan[c], Len(kinds), FALSE)

Finish(r) == Stepping(r) /\ Settle(r, "done", <<"end">>)

Fail(r) == Stepping(r) /\ Settle(r, "error", <<"text", "end">>)

\* Mutant of AskCleared: the ask handler has no `finally`.
AskCleared_Never(r) == <<>>

AskCleared(r) == IF run[r].ask = "none" THEN <<>> ELSE <<"ask_resolved">>

\* CancelledError is thrown at the body's await; a waiting ask handler clears
\* its ask on the way out.
Unwind(r) ==
    /\ run[r].task = "body" /\ run[r].cancelling
    /\ Settle(r, "cancelled", AskCleared(r) \o <<"text", "end">>)

\* TurnRegistry.cancel, and cancel_and_wait up to its await: task.cancel() of
\* the active turn's task unless that is settled.
Cancel(t) ==
    \E r \in Active(t) :
        /\ Unsettled(r) /\ ~run[r].cancelling
        /\ run' = [run EXCEPT ![r].cancelling = TRUE]
        /\ UNCHANGED <<channels, chan, viewer>>

-----------------------------------------------------------------------------
(* A viewer: the client and the handler of its socket *)

\* Mutants of Floor: a missing cursor is taken for minus one, the cursor is off
\* by one, the cursor is ignored.
Floor_MinusOne(v, tc) == IF viewer[v].cursor # None THEN viewer[v].cursor ELSE 0 - 1
Floor_OffByOne(v, tc) == IF viewer[v].cursor # None THEN viewer[v].cursor + 1 ELSE tc.seq
Floor_Zero(v, tc) == 0

\* What the client is taken to have rendered.
Floor(v, tc) ==
    IF viewer[v].cursor # None THEN viewer[v].cursor
    ELSE IF Running(run, tc.run) THEN run[tc.run].start
    ELSE tc.seq

\* The frames above a number.  A ring is in the order of its numbers.
After(ring, floor) ==
    SubSeq(ring, Cardinality({i \in 1..Len(ring) : ring[i].seq <= floor}) + 1, Len(ring))

\* ThreadChannel.attach: subscribe, then read the gap out of the ring.
Attach(v, t) ==
    /\ viewer[v].pc = "away"
    /\ viewer[v].home \in {None, t}
    /\ CanOpen(t)
    /\ LET c      == ChannelFor(t)
           tc     == Opened(t)[c]
           floor  == Floor(v, tc)
           missed == After(tc.ring, floor)
           honest == viewer[v].cursor = None \/ Clients(t)[v].source = c
           unseen == IF honest THEN missed ELSE tc.ring
       IN  /\ channels' \in Known(t)
           /\ chan' = [Collected(Opened(t), channels') EXCEPT
                           ![c] = [tc EXCEPT !.subs = @ \cup {v}, !.old = FALSE]]
           /\ viewer' = [Clients(t) EXCEPT ![v] =
                [@ EXCEPT !.pc = "handshake", !.home = t, !.chan = c,
                          !.replay = [i \in 1..Len(missed) |-> missed[i].seq],
                          !.last = IF missed = <<>> THEN floor
                                   ELSE missed[Len(missed)].seq,
                          !.owed = {unseen[i].seq : i \in 1..Len(unseen)},
                          !.honest = honest]]
    /\ UNCHANGED run

\* The client renders a frame.
Rendered(client, n) ==
    [client EXCEPT !.cursor = n, !.source = client.chan, !.owed = @ \ {n}]

\* One frame of the replay is sent.
SendReplay(v) ==
    LET w == viewer[v] IN
    /\ w.pc = "handshake" /\ w.replay # <<>>
    /\ viewer' = [viewer EXCEPT ![v] =
            [Rendered(w, Head(w.replay)) EXCEPT !.replay = Tail(w.replay)]]
    /\ UNCHANGED <<channels, chan, run>>

\* Mutant of GoLive: no pump for a client without a cursor.
GoLive_OnlyResumed(v) ==
    /\ viewer[v].pc = "handshake" /\ viewer[v].replay = <<>>
    /\ viewer[v].cursor # None
    /\ viewer' = [viewer EXCEPT ![v].pc = "live"]
    /\ UNCHANGED <<channels, chan, run>>

\* The pump task is created and the receive loop entered.
GoLive(v) ==
    /\ viewer[v].pc = "handshake" /\ viewer[v].replay = <<>>
    /\ viewer' = [viewer EXCEPT ![v].pc = "live"]
    /\ UNCHANGED <<channels, chan, run>>

\* The socket dies under the handshake: the handler is left by the exception,
\* outside the `try` whose `finally` detaches.
HandshakeFails(v) ==
    LET w == viewer[v] IN
    /\ w.pc = "handshake"
    /\ chan' = [chan EXCEPT ![w.chan].subs = @ \ {v}, ![w.chan].leaked = TRUE]
    /\ viewer' = [viewer EXCEPT ![v] = Away(w.home, w.cursor, w.source)]
    /\ UNCHANGED <<channels, run>>

\* One iteration of _pump.
Pump(v) ==
    LET w == viewer[v]
        n == Head(w.queue)
    IN  /\ w.pc = "live" /\ w.queue # <<>>
        /\ viewer' = [viewer EXCEPT ![v] =
                IF n <= w.last THEN [w EXCEPT !.queue = Tail(@)]
                ELSE [Rendered(w, n) EXCEPT !.queue = Tail(@), !.last = n]]
        /\ UNCHANGED <<channels, chan, run>>

\* The socket closes: the handler's `finally` detaches and cancels the pump.
\* A channel that is no longer registered is not found, and not touched.
Disconnect(v) ==
    LET w == viewer[v] IN
    /\ w.pc = "live"
    /\ chan' = [chan EXCEPT ![w.chan].subs = @ \ {v}, ![w.chan].old = FALSE]
    /\ viewer' = [viewer EXCEPT ![v] = Away(w.home, w.cursor, w.source)]
    /\ UNCHANGED <<channels, run>>

\* The client starts over: a new session or a reloaded renderer.
Reload(v) ==
    /\ viewer[v].pc = "away" /\ viewer[v].home # None
    /\ viewer' = [viewer EXCEPT ![v] = Away(None, None, None)]
    /\ UNCHANGED <<channels, chan, run>>

-----------------------------------------------------------------------------
(* Time and the process *)

\* FINISHED_RETENTION_SEC pass without a touch.
Age(c) ==
    /\ c \in channels /\ ~chan[c].old
    /\ chan' = [chan EXCEPT ![c].old = TRUE]
    /\ UNCHANGED <<channels, run, viewer>>

\* The daemon goes down and comes up: the registry lives in memory only,
\* clients keep what they know.
Restart ==
    /\ channels' = {}
    /\ chan' = [c \in Chans |-> ThreadChannel(None)]
    /\ run' = [r \in Runs |-> NoRun]
    /\ viewer' = [v \in Viewers |-> Away(viewer[v].home, viewer[v].cursor, None)]

TurnStep(r) ==
    \/ FirstStep(r) \/ EmitText(r) \/ EmitAudio(r) \/ Ask(r) \/ AskReturns(r)
    \/ Finish(r) \/ Fail(r) \/ Unwind(r)

ViewerStep(v) ==
    \/ \E t \in Threads : Attach(v, t)
    \/ SendReplay(v) \/ GoLive(v) \/ HandshakeFails(v) \/ Pump(v) \/ Disconnect(v)
    \/ Reload(v)

Next ==
    \/ \E t \in Threads : Start(t) \/ Cancel(t) \/ AnswerAsk(t)
    \/ \E r \in Runs : TurnStep(r)
    \/ \E v \in Viewers : ViewerStep(v)
    \/ \E c \in Chans : Age(c)
    \/ Restart

Spec == Init /\ [][Next]_vars

\* The loop runs what is ready: a task with a cancellation to throw, a task
\* that never ran, a handler that sends.  What the model or the tools do, and
\* whether a socket lives, is not the loop's to promise.
Fairness ==
    /\ \A r \in Runs : WF_vars(FirstStep(r)) /\ WF_vars(Unwind(r))
    /\ \A v \in Viewers : WF_vars(SendReplay(v)) /\ WF_vars(GoLive(v)) /\ WF_vars(Pump(v))

FairSpec == Spec /\ Fairness

-----------------------------------------------------------------------------
(* Properties *)

ChanType ==
    [thread: Threads \cup {None}, seq: Nat, ring: Seq(Frame), subs: SUBSET Viewers,
     leaked: BOOLEAN, run: Runs \cup {None}, old: BOOLEAN]

RunType ==
    [task: Tasks, status: Statuses, cancelling: BOOLEAN,
     ask: {"none", "open", "answered"}, chan: Chans \cup {None}, start: Nat]

ViewerType ==
    [pc: {"away", "handshake", "live"}, chan: Chans \cup {None}, replay: Seq(Nat),
     queue: Seq(Nat), last: Nat, owed: SUBSET Nat, honest: BOOLEAN,
     home: Threads \cup {None}, cursor: Nat \cup {None}, source: Chans \cup {None}]

\* Every variable keeps its type: the objects of turn_registry.py and the
\* handler state of converse.py.
TypeOK ==
    /\ channels \subseteq Chans
    /\ chan \in [Chans -> ChanType]
    /\ run \in [Runs -> RunType]
    /\ viewer \in [Viewers -> ViewerType]
    /\ \A r \in Runs : Unsettled(r) => run[r].chan \in Chans
    /\ \A v \in Viewers : viewer[v].pc # "away" => viewer[v].chan \in Chans

ThreadOf(r) == chan[run[r].chan].thread

\* A checkpoint is single-writer: never two turns' tasks alive on one thread
\* (TurnRegistry.start refuses, through channel creation, sweeps, cancels and
\* restarts).
SingleWriter ==
    \A r, s \in Runs : Unsettled(r) /\ Unsettled(s) /\ ThreadOf(r) = ThreadOf(s) => r = s

\* Whatever is swept, a live turn stays the active turn of its thread, where
\* Stop finds it, and a viewer stays on the channel its thread's turns emit to.
Reachable ==
    /\ \A r \in Runs : Unsettled(r) => r \in Active(ThreadOf(r))
    /\ \A v \in Viewers : viewer[v].pc # "away" =>
            viewer[v].chan \in Registered(viewer[v].home)

\* What a viewer has still to render is on its way: in the replay, or in the
\* queue above the number _pump skips to.
Pending(v) ==
    LET w == viewer[v] IN
    {w.replay[i] : i \in 1..Len(w.replay)}
        \cup {w.queue[i] : i \in {i \in 1..Len(w.queue) : w.queue[i] > w.last}}

\* Resumption is exact: every kept frame after the number a client presents,
\* and every one emitted while it is attached, reaches it, no matter how the
\* handshake interleaves with the turn - as long as the number came from this
\* channel.
LosslessResume ==
    \A v \in Viewers :
        viewer[v].pc # "away" /\ viewer[v].honest => viewer[v].owed \subseteq Pending(v)

\* A client is shown the frames of a channel in order, none twice and none
\* skipped: across any number of sockets its cursor into one channel only
\* grows, and it never passes a kept frame that is still owed to the client.
InOrder ==
    [][\A v \in Viewers :
        LET w == viewer[v]
            n == viewer'[v].cursor
        IN  n \notin {w.cursor, None} =>
                /\ w.source # None /\ viewer'[v].source = w.source => n > w.cursor
                /\ w.honest => \A m \in w.owed : m >= n]_vars

\* What a replay can look like: turns do not overlap, each is closed by its
\* turn_end before the next starts, nothing follows a turn_end but a
\* turn_start, and no prompt is left dead: an ask is followed by its
\* ask_resolved and by nothing else, unless it is open right now.
RingIsTurns ==
    \A c \in channels :
        LET ring == chan[c].ring
            n == Len(ring)
        IN  /\ \A i \in 1..(n - 1) :
                 /\ ring[i].kind = "end" <=> ring[i + 1].kind = "start"
                 /\ ring[i].kind = "ask" => ring[i + 1].kind = "ask_resolved"
            /\ n > 0 /\ ring[n].kind = "ask" =>
                 \E r \in Active(chan[c].thread) : run[r].ask # "none"
            /\ n > 0 /\ chan[c].run # None /\ ~Running(run, chan[c].run) =>
                 ring[n].kind = "end"

\* A Stop accepted once the body was entered ends the turn.
StopStops ==
    \A r \in Runs :
        run[r].task = "body" /\ run[r].cancelling
            ~> run[r].task # "body" /\ ~Running(run, r)

\* A viewer catches up: what it is owed is rendered, unless its socket goes
\* first, also when the turn goes on emitting.
CatchesUp ==
    \A v \in Viewers :
        viewer[v].honest /\ viewer[v].owed # {} ~> viewer[v].owed = {}
=============================================================================
