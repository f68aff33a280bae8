--------------------------- MODULE TurnRegistryProofs ---------------------------
(***************************************************************************)
(* Theorems about TurnRegistry, for every set of threads, viewers and      *)
(* objects and every size of the ring.                                     *)
(***************************************************************************)
EXTENDS TurnRegistry, SequenceTheorems, FiniteSetTheorems, TLAPS

-----------------------------------------------------------------------------
(* Helpers *)

\* A function on 1..n is a sequence.
LEMMA FunctionIsSeq ==
    ASSUME NEW S, NEW n \in Nat, NEW f \in [1..n -> S]
    PROVE  f \in Seq(S)
OBVIOUS

\* Emitting keeps the type of a channel and touches its number and ring only.
LEMMA RungType ==
    ASSUME NEW tc \in ChanType, NEW kinds \in Seq(Kinds)
    PROVE  /\ Rung(tc, kinds) \in ChanType
           /\ Rung(tc, kinds).thread = tc.thread
           /\ Rung(tc, kinds).run = tc.run
           /\ Rung(tc, kinds).subs = tc.subs
           /\ Rung(tc, kinds).leaked = tc.leaked
           /\ Rung(tc, kinds).old = tc.old
<1> DEFINE new == [i \in 1..Len(kinds) |-> [seq |-> tc.seq + i, kind |-> kinds[i]]]
           ring == tc.ring \o new
<1>1. Len(kinds) \in Nat /\ tc.seq \in Nat /\ tc.ring \in Seq(Frame)
  BY DEF ChanType
<1>2. new \in Seq(Frame)
  <2>1. \A i \in 1..Len(kinds) : [seq |-> tc.seq + i, kind |-> kinds[i]] \in Frame
    BY <1>1, ElementOfSeq DEF Frame
  <2>2. new \in [1..Len(kinds) -> Frame]
    BY <2>1
  <2> HIDE DEF new
  <2> QED BY <2>2, <1>1, FunctionIsSeq
<1>3. ring \in Seq(Frame) /\ Len(ring) \in Nat
  BY <1>1, <1>2, ConcatProperties
<1> HIDE DEF ring
<1>4. Newest(ring) \in Seq(Frame)
  <2>1. CASE Len(ring) > RingSize
    <3>1. Len(ring) - RingSize + 1 \in Int /\ Len(ring) - RingSize + 1 >= 1
      BY <2>1, <1>3, SizesAssumption
    <3>2. \A i \in (Len(ring) - RingSize + 1)..Len(ring) : ring[i] \in Frame
      BY <3>1, <1>3, ElementOfSeq
    <3>3. SubSeq(ring, Len(ring) - RingSize + 1, Len(ring)) \in Seq(Frame)
      BY <3>1, <3>2, <1>3, SubSeqProperties
    <3> QED BY <2>1, <3>3 DEF Newest
  <2>2. CASE ~(Len(ring) > RingSize)
    BY <2>2, <1>3 DEF Newest
  <2> QED BY <2>1, <2>2
<1>5. Rung(tc, kinds) = [tc EXCEPT !.seq = @ + Len(kinds), !.ring = Newest(ring)]
  BY DEF Rung, ring
<1> DEFINE sum == tc.seq + Len(kinds)
<1>6. sum \in Nat
  BY <1>1
<1> DEFINE last == Newest(ring)
<1>7. last \in Seq(Frame) /\ Rung(tc, kinds) = [tc EXCEPT !.seq = sum, !.ring = last]
  BY <1>4, <1>5
<1> HIDE DEF new, sum, last
<1> QED BY <1>6, <1>7 DEF ChanType

\* Fanning out keeps the type of the viewers, and where each of them is.
LEMMA HeardType ==
    ASSUME NEW clients \in [Viewers -> ViewerType], NEW tc \in ChanType,
           NEW n \in Nat, NEW ephemeral \in BOOLEAN
    PROVE  /\ Heard(clients, tc, n, ephemeral) \in [Viewers -> ViewerType]
           /\ \A v \in Viewers :
                /\ Heard(clients, tc, n, ephemeral)[v].pc = clients[v].pc
                /\ Heard(clients, tc, n, ephemeral)[v].chan = clients[v].chan
                /\ Heard(clients, tc, n, ephemeral)[v].home = clients[v].home
<1> SUFFICES ASSUME NEW v \in Viewers
             PROVE  LET w == Heard(clients, tc, n, ephemeral)[v] IN
                    /\ w \in ViewerType
                    /\ w.pc = clients[v].pc
                    /\ w.chan = clients[v].chan
                    /\ w.home = clients[v].home
  BY DEF Heard
<1> DEFINE new == [i \in 1..n |-> tc.seq + i]
           owed == IF ephemeral THEN clients[v].owed
                   ELSE clients[v].owed \cup (tc.seq + 1)..(tc.seq + n)
<1>1. tc.seq \in Nat /\ clients[v] \in ViewerType
  BY DEF ChanType
<1>2. new \in Seq(Nat)
  <2>1. new \in [1..n -> Nat]
    BY <1>1
  <2> QED BY <2>1, FunctionIsSeq
<1>3. clients[v].queue \o new \in Seq(Nat)
  BY <1>1, <1>2, ConcatProperties DEF ViewerType
<1>4. owed \in SUBSET Nat
  BY <1>1 DEF ViewerType
<1>5. \/ Heard(clients, tc, n, ephemeral)[v] = clients[v]
      \/ Heard(clients, tc, n, ephemeral)[v] =
            [clients[v] EXCEPT !.queue = clients[v].queue \o new, !.owed = owed]
  BY DEF Heard
<1> HIDE DEF new, owed
<1> QED BY <1>1, <1>3, <1>4, <1>5 DEF ViewerType

\* A sweep drops nothing that is watched or running.
LEMMA SweptKeeps ==
    ASSUME NEW known, NEW ch, NEW runs, NEW newest, NEW kept \in Swept(known, ch, runs, newest)
    PROVE  /\ kept \subseteq known
           /\ \A c \in known : ~Idle(ch, runs, c) => c \in kept
BY DEF Swept, IsSweepable

\* A new channel is of the right type, and so is what is left of the objects.
LEMMA OpenedType ==
    ASSUME TypeOK, NEW t \in Threads, CanOpen(t)
    PROVE  /\ ChannelFor(t) \in Chans
           /\ Registered(t) # {} => ChannelFor(t) \in Registered(t)
           /\ Registered(t) = {} => ChannelFor(t) \in FreeChans
           /\ Opened(t) \in [Chans -> ChanType]
           /\ Clients(t) \in [Viewers -> ViewerType]
           /\ \A kept \in Known(t) : kept \subseteq Chans
<1>1. Registered(t) \subseteq Chans /\ FreeChans \subseteq Chans
  BY DEF TypeOK, Registered, FreeChans
<1>2. /\ ChannelFor(t) \in Chans
      /\ Registered(t) # {} => ChannelFor(t) \in Registered(t)
      /\ Registered(t) = {} => ChannelFor(t) \in FreeChans
  BY <1>1 DEF ChannelFor, CanOpen
<1>3. ThreadChannel(t) \in ChanType
  BY EmptySeq DEF ThreadChannel, ChanType
<1>4. Opened(t) \in [Chans -> ChanType]
  BY <1>2, <1>3 DEF TypeOK, Opened
<1>5. Clients(t) \in [Viewers -> ViewerType]
  <2>1. \A v \in Viewers : [viewer[v] EXCEPT !.source = None] \in ViewerType
    BY DEF TypeOK, ViewerType
  <2> QED BY <2>1 DEF TypeOK, Clients
<1>6. \A kept \in Known(t) : kept \subseteq Chans
  BY <1>2, SweptKeeps DEF TypeOK, Known
<1> QED BY <1>2, <1>4, <1>5, <1>6

LEMMA CollectedType ==
    ASSUME NEW objs \in [Chans -> ChanType], NEW kept
    PROVE  Collected(objs, kept) \in [Chans -> ChanType]
<1>1. ThreadChannel(None) \in ChanType
  BY EmptySeq DEF ThreadChannel, ChanType
<1> QED BY <1>1 DEF Collected

-----------------------------------------------------------------------------
(* Types *)

\* The frames a step emits, and what becomes of its run.
LEMMA KindsType ==
    /\ <<"start">> \in Seq(Kinds) /\ Len(<<"start">>) = 1
    /\ <<"text">> \in Seq(Kinds) /\ <<"ask">> \in Seq(Kinds)
    /\ <<"ask_resolved">> \in Seq(Kinds) /\ <<"end">> \in Seq(Kinds)
    /\ <<"text", "end">> \in Seq(Kinds)
    /\ \A r \in Runs : AskCleared(r) \o <<"text", "end">> \in Seq(Kinds)
<1>1. /\ <<"start">> \in Seq(Kinds) /\ Len(<<"start">>) = 1
      /\ <<"text">> \in Seq(Kinds) /\ <<"ask">> \in Seq(Kinds)
      /\ <<"ask_resolved">> \in Seq(Kinds) /\ <<"end">> \in Seq(Kinds)
      /\ <<"text", "end">> \in Seq(Kinds)
  BY DEF Kinds
<1>2. \A r \in Runs : AskCleared(r) \in Seq(Kinds)
  BY <1>1, EmptySeq DEF AskCleared
<1> QED BY <1>1, <1>2, ConcatProperties

\* Emit keeps the types.
LEMMA EmitType ==
    ASSUME TypeOK, NEW r \in Runs, Unsettled(r), NEW kinds \in Seq(Kinds), Emit(r, kinds)
    PROVE  /\ chan' \in [Chans -> ChanType]
           /\ viewer' \in [Viewers -> ViewerType]
           /\ \A v \in Viewers : /\ viewer'[v].pc = viewer[v].pc
                                 /\ viewer'[v].chan = viewer[v].chan
                                 /\ viewer'[v].home = viewer[v].home
           /\ \A c \in Chans : /\ chan'[c].thread = chan[c].thread
                               /\ chan'[c].run = chan[c].run
                               /\ chan'[c].subs = chan[c].subs
<1>1. run[r].chan \in Chans /\ chan[run[r].chan] \in ChanType
  BY DEF TypeOK
<1>2. Len(kinds) \in Nat
  BY LenProperties
<1> DEFINE tc == Rung(chan[run[r].chan], kinds)
<1>3. /\ tc \in ChanType
      /\ tc.thread = chan[run[r].chan].thread
      /\ tc.run = chan[run[r].chan].run
      /\ tc.subs = chan[run[r].chan].subs
  BY <1>1, RungType
<1>4. chan' = [chan EXCEPT ![run[r].chan] = tc]
  BY DEF Emit
<1>5. /\ chan' \in [Chans -> ChanType]
      /\ \A c \in Chans : /\ chan'[c].thread = chan[c].thread
                          /\ chan'[c].run = chan[c].run
                          /\ chan'[c].subs = chan[c].subs
  <2> HIDE DEF tc
  <2> QED BY <1>1, <1>3, <1>4 DEF TypeOK
<1>6. viewer' = Heard(viewer, chan[run[r].chan], Len(kinds), FALSE)
  BY DEF Emit
<1>7. viewer \in [Viewers -> ViewerType]
  BY DEF TypeOK
<1>8. /\ viewer' \in [Viewers -> ViewerType]
      /\ \A v \in Viewers : /\ viewer'[v].pc = viewer[v].pc
                            /\ viewer'[v].chan = viewer[v].chan
                            /\ viewer'[v].home = viewer[v].home
  <2> DEFINE tcv == chan[run[r].chan]
             n == Len(kinds)
  <2>1. tcv \in ChanType /\ n \in Nat
    BY <1>1, <1>2
  <2> HIDE DEF tcv, n
  <2>2. viewer' = Heard(viewer, tcv, n, FALSE)
    BY <1>6 DEF tcv, n
  <2> QED BY <1>7, <2>1, <2>2, HeardType
<1> QED BY <1>5, <1>8

\* Settle keeps the types.
LEMMA SettleType ==
    ASSUME TypeOK, NEW r \in Runs, run[r].task = "body", NEW status \in Statuses,
           NEW kinds \in Seq(Kinds), Settle(r, status, kinds)
    PROVE  TypeOK'
<1> DEFINE c == run[r].chan
           tc == [Rung(chan[c], kinds) EXCEPT !.old = FALSE]
           objs == [chan EXCEPT ![c] = tc]
<1>1. c \in Chans /\ chan[c] \in ChanType /\ Len(kinds) \in Nat
  BY LenProperties DEF TypeOK, Unsettled
<1>2. Rung(chan[c], kinds) \in ChanType
  BY <1>1, RungType
<1>3. tc \in ChanType
  BY <1>2 DEF ChanType
<1>4. objs \in [Chans -> ChanType]
  BY <1>1, <1>3 DEF TypeOK
<1>5. channels' \in Swept(channels, objs, Settled(r, status), None)
      /\ chan' = Collected(objs, channels')
  BY DEF Settle
<1>6. channels' \subseteq Chans /\ chan' \in [Chans -> ChanType]
  <2> HIDE DEF objs
  <2>1. channels' \subseteq channels
    BY <1>5, SweptKeeps
  <2> QED BY <2>1, <1>4, <1>5, CollectedType DEF TypeOK
<1>7. /\ run' = Settled(r, status)
      /\ viewer' = Heard(viewer, chan[c], Len(kinds), FALSE)
  BY DEF Settle
<1>8. run' \in [Runs -> RunType] /\ \A s \in Runs : Unsettled(s)' => run'[s].chan \in Chans
  <2>1. run \in [Runs -> RunType]
    BY DEF TypeOK
  <2>2. [run[r] EXCEPT !.task = "settled", !.status = status, !.cancelling = FALSE,
                       !.ask = "none"] \in RunType
    BY <2>1 DEF RunType, Tasks
  <2>3. run' = [run EXCEPT ![r] = [run[r] EXCEPT !.task = "settled", !.status = status,
                                                !.cancelling = FALSE, !.ask = "none"]]
    BY <1>7, <2>1 DEF Settled
  <2>4. run' \in [Runs -> RunType]
    BY <2>1, <2>2, <2>3
  <2>5. \A s \in Runs : s # r => run'[s] = run[s]
    BY <2>1, <2>3
  <2>6. run'[r].task = "settled"
    BY <2>1, <2>3 DEF RunType
  <2> QED BY <2>4, <2>5, <2>6 DEF TypeOK, Unsettled
<1>9. viewer' \in [Viewers -> ViewerType]
      /\ \A v \in Viewers : viewer'[v].pc # "away" => viewer'[v].chan \in Chans
  <2> DEFINE tcv == chan[c]
             n == Len(kinds)
  <2>1. tcv \in ChanType /\ n \in Nat /\ viewer \in [Viewers -> ViewerType]
    BY <1>1 DEF TypeOK
  <2>2. viewer' = Heard(viewer, tcv, n, FALSE)
    BY <1>7
  <2> HIDE DEF tcv, n
  <2>3. /\ viewer' \in [Viewers -> ViewerType]
        /\ \A v \in Viewers : viewer'[v].pc = viewer[v].pc /\ viewer'[v].chan = viewer[v].chan
    BY <2>1, <2>2, HeardType
  <2> QED BY <2>3 DEF TypeOK
<1> QED BY <1>6, <1>8, <1>9 DEF TypeOK

\* Settling is the only step that leaves the body; every other step of a turn
\* changes one field of its run.
LEMMA TurnStepType ==
    ASSUME TypeOK, NEW r \in Runs, TurnStep(r)
    PROVE  TypeOK'
<1>1. ASSUME FirstStep(r) PROVE TypeOK'
  <2>1. [run[r] EXCEPT !.task = IF run[r].cancelling THEN "settled" ELSE "body"] \in RunType
    BY DEF TypeOK, RunType, Tasks
  <2>2. run' = [run EXCEPT ![r] =
            [run[r] EXCEPT !.task = IF run[r].cancelling THEN "settled" ELSE "body"]]
    BY <1>1 DEF FirstStep, TypeOK
  <2>3. run' \in [Runs -> RunType] /\ run'[r].chan = run[r].chan
    BY <2>1, <2>2 DEF TypeOK, RunType
  <2>4. \A s \in Runs : s # r => run'[s] = run[s]
    BY <2>2 DEF TypeOK
  <2> QED BY <1>1, <2>3, <2>4 DEF FirstStep, TypeOK, Unsettled
<1>2. ASSUME NEW kinds \in Seq(Kinds), Unsettled(r), Emit(r, kinds), UNCHANGED <<channels, run>>
      PROVE  TypeOK'
  <2>1. /\ chan' \in [Chans -> ChanType] /\ viewer' \in [Viewers -> ViewerType]
        /\ \A v \in Viewers : viewer'[v].pc = viewer[v].pc /\ viewer'[v].chan = viewer[v].chan
    BY <1>2, EmitType
  <2> QED BY <1>2, <2>1 DEF TypeOK, Unsettled
<1>3. ASSUME NEW kinds \in Seq(Kinds), Unsettled(r), Emit(r, kinds), UNCHANGED channels,
             NEW ask \in {"none", "open"}, run' = [run EXCEPT ![r].ask = ask]
      PROVE  TypeOK'
  <2>1. /\ chan' \in [Chans -> ChanType] /\ viewer' \in [Viewers -> ViewerType]
        /\ \A v \in Viewers : viewer'[v].pc = viewer[v].pc /\ viewer'[v].chan = viewer[v].chan
    BY <1>3, EmitType
  <2>2. [run[r] EXCEPT !.ask = ask] \in RunType
    BY DEF TypeOK, RunType
  <2>3. run' = [run EXCEPT ![r] = [run[r] EXCEPT !.ask = ask]]
    BY <1>3 DEF TypeOK
  <2>4. run' \in [Runs -> RunType] /\ run'[r].chan = run[r].chan
        /\ run'[r].task = run[r].task /\ \A s \in Runs : s # r => run'[s] = run[s]
    BY <2>2, <2>3 DEF TypeOK, RunType
  <2> QED BY <1>3, <2>1, <2>4 DEF TypeOK, Unsettled
<1>4. CASE FirstStep(r)
  BY <1>1, <1>4
<1>5. CASE EmitText(r)
  BY <1>2, <1>5, KindsType DEF EmitText, Stepping, Unsettled
<1>6. CASE EmitAudio(r)
  <2> DEFINE c == run[r].chan
             tcv == chan[c]
  <2>1. c \in Chans /\ tcv \in ChanType /\ viewer \in [Viewers -> ViewerType]
    BY <1>6 DEF EmitAudio, Stepping, TypeOK, Unsettled
  <2>2. [tcv EXCEPT !.seq = @ + 1] \in ChanType
    <3> HIDE DEF tcv
    <3> QED BY <2>1 DEF ChanType
  <2>3. chan' = [chan EXCEPT ![c] = [tcv EXCEPT !.seq = @ + 1]]
    BY <1>6 DEF EmitAudio
  <2>4. chan' \in [Chans -> ChanType]
    BY <2>1, <2>2, <2>3 DEF TypeOK
  <2> DEFINE one == 1
  <2>5. viewer' = Heard(viewer, tcv, one, TRUE) /\ one \in Nat
    BY <1>6 DEF EmitAudio
  <2> HIDE DEF tcv, one
  <2>6. /\ viewer' \in [Viewers -> ViewerType]
        /\ \A v \in Viewers : viewer'[v].pc = viewer[v].pc /\ viewer'[v].chan = viewer[v].chan
    BY <2>1, <2>5, HeardType
  <2> QED BY <1>6, <2>4, <2>6 DEF EmitAudio, TypeOK, Unsettled
<1>7. CASE Ask(r)
  BY <1>3, <1>7, KindsType DEF Ask, Stepping, Unsettled
<1>8. CASE AskReturns(r)
  BY <1>3, <1>8, KindsType DEF AskReturns, Unsettled
<1>9. CASE Finish(r)
  BY <1>9, SettleType, KindsType DEF Finish, Stepping, Statuses
<1>10. CASE Fail(r)
  BY <1>10, SettleType, KindsType DEF Fail, Stepping, Statuses
<1>11. CASE Unwind(r)
  BY <1>11, SettleType, KindsType DEF Unwind, Statuses
<1> QED BY <1>4, <1>5, <1>6, <1>7, <1>8, <1>9, <1>10, <1>11 DEF TurnStep

LEMMA StartType ==
    ASSUME TypeOK, NEW t \in Threads, Start(t)
    PROVE  TypeOK'
<1> DEFINE c == ChannelFor(t)
           r == CHOOSE x \in FreeRuns : TRUE
           tc == Opened(t)[c]
           rung == Rung(tc, <<"start">>)
           objs == Collected(Opened(t), channels')
<1>1. /\ c \in Chans /\ Opened(t) \in [Chans -> ChanType]
      /\ Clients(t) \in [Viewers -> ViewerType] /\ channels' \subseteq Chans
  BY OpenedType DEF Start
<1>2. r \in Runs
  BY DEF Start, FreeRuns
<1>3. tc \in ChanType
  BY <1>1
<1>4. /\ run' = [s \in Runs |-> IF s = r THEN TurnRun(c, tc.seq)
                                ELSE IF s \in FreeRuns \/ (s = tc.run /\ ~Unsettled(s)) THEN NoRun
                                ELSE run[s]]
      /\ chan' = [objs EXCEPT ![c] = [rung EXCEPT !.run = r]]
      /\ viewer' = Heard(Clients(t), tc, 1, FALSE)
  BY DEF Start
<1>5. rung \in ChanType
  BY <1>3, RungType, KindsType
<1>6. [rung EXCEPT !.run = r] \in ChanType
  BY <1>2, <1>5 DEF ChanType
<1>7. objs \in [Chans -> ChanType]
  BY <1>1, CollectedType
<1>8. chan' \in [Chans -> ChanType]
  <2> HIDE DEF c, r, rung, objs
  <2> QED BY <1>1, <1>4, <1>6, <1>7
<1>9. TurnRun(c, tc.seq) \in RunType /\ NoRun \in RunType
  <2>1. tc.seq \in Nat
    BY <1>3 DEF ChanType
  <2> HIDE DEF tc, c
  <2> QED BY <1>1, <2>1 DEF TurnRun, NoRun, RunType, Tasks, Statuses
<1>10. run' \in [Runs -> RunType]
  <2> HIDE DEF tc, r, c
  <2> QED BY <1>4, <1>9 DEF TypeOK
<1>11. \A s \in Runs : Unsettled(s)' => run'[s].chan \in Chans
  <2> SUFFICES ASSUME NEW s \in Runs, Unsettled(s)'
               PROVE  run'[s].chan \in Chans
    OBVIOUS
  <2> HIDE DEF tc, r
  <2>1. CASE s = r
    BY <1>1, <1>4, <2>1 DEF TurnRun
  <2>2. CASE s # r /\ run'[s] = NoRun
    BY <2>2 DEF Unsettled, NoRun, TurnRun
  <2>3. CASE s # r /\ run'[s] = run[s]
    BY <2>3 DEF Unsettled, TypeOK
  <2> QED BY <1>4, <2>1, <2>2, <2>3
<1>12. /\ viewer' \in [Viewers -> ViewerType]
       /\ \A v \in Viewers : /\ viewer'[v].pc = Clients(t)[v].pc
                             /\ viewer'[v].chan = Clients(t)[v].chan
  <2> DEFINE one == 1
             clients == Clients(t)
  <2>1. viewer' = Heard(clients, tc, one, FALSE) /\ one \in Nat
    BY <1>4
  <2>2. clients \in [Viewers -> ViewerType]
    BY <1>1
  <2> HIDE DEF tc, one, clients
  <2>3. /\ viewer' \in [Viewers -> ViewerType]
        /\ \A v \in Viewers : viewer'[v].pc = clients[v].pc /\ viewer'[v].chan = clients[v].chan
    BY <1>3, <2>1, <2>2, HeardType
  <2> QED BY <2>3 DEF clients
<1>13. \A v \in Viewers : Clients(t)[v].pc = viewer[v].pc /\ Clients(t)[v].chan = viewer[v].chan
  BY DEF Clients, TypeOK, ViewerType
<1> QED BY <1>1, <1>8, <1>10, <1>11, <1>12, <1>13 DEF TypeOK

\* What a replay leaves out is a prefix of the ring.
LEMMA AfterType ==
    ASSUME NEW ring \in Seq(Frame), NEW floor
    PROVE  After(ring, floor) \in Seq(Frame)
<1> DEFINE below == {i \in 1..Len(ring) : ring[i].seq <= floor}
           first == Cardinality(below) + 1
<1>1. Len(ring) \in Nat
  OBVIOUS
<1>2. IsFiniteSet(1..Len(ring)) /\ below \in SUBSET (1..Len(ring))
  BY <1>1, FS_Interval
<1>3. IsFiniteSet(below)
  <2> HIDE DEF below
  <2> QED BY <1>2, FS_Subset
<1>4. Cardinality(below) \in Nat
  <2> HIDE DEF below
  <2> QED BY <1>3, FS_CardinalityType
<1>5. first \in Int /\ first >= 1
  <2> HIDE DEF below
  <2> QED BY <1>4
<1>6. After(ring, floor) = SubSeq(ring, first, Len(ring))
  BY DEF After
<1> HIDE DEF first
<1>7. \A i \in first..Len(ring) : ring[i] \in Frame
  BY <1>1, <1>5, ElementOfSeq
<1> QED BY <1>1, <1>5, <1>6, <1>7, SubSeqProperties

LEMMA AttachType ==
    ASSUME TypeOK, NEW v \in Viewers, NEW t \in Threads, Attach(v, t)
    PROVE  TypeOK'
<1> DEFINE c == ChannelFor(t)
           tc == Opened(t)[c]
           floor == Floor(v, tc)
           missed == After(tc.ring, floor)
           honest == viewer[v].cursor = None \/ Clients(t)[v].source = c
           unseen == IF honest THEN missed ELSE tc.ring
           replay == [i \in 1..Len(missed) |-> missed[i].seq]
           last == IF missed = <<>> THEN floor ELSE missed[Len(missed)].seq
           owed == {unseen[i].seq : i \in 1..Len(unseen)}
           attached == [Clients(t)[v] EXCEPT !.pc = "handshake", !.home = t, !.chan = c,
                            !.replay = replay, !.last = last, !.owed = owed,
                            !.honest = honest]
           objs == Collected(Opened(t), channels')
<1>1. /\ c \in Chans /\ Opened(t) \in [Chans -> ChanType]
      /\ Clients(t) \in [Viewers -> ViewerType] /\ channels' \subseteq Chans
  BY OpenedType DEF Attach
<1>2. tc \in ChanType
  BY <1>1
<1>3. tc.ring \in Seq(Frame) /\ tc.seq \in Nat /\ tc.run \in Runs \cup {None}
  BY <1>2 DEF ChanType
<1>4. floor \in Nat
  <2>1. viewer[v].cursor \in Nat \cup {None}
    BY DEF TypeOK, ViewerType
  <2>2. \A r \in Runs : run[r].start \in Nat
    BY DEF TypeOK, RunType
  <2> HIDE DEF tc
  <2> QED BY <1>3, <2>1, <2>2 DEF Floor, Running
<1>5. missed \in Seq(Frame)
  BY <1>3, AfterType
<1>6. unseen \in Seq(Frame)
  BY <1>3, <1>5
<1>7. replay \in Seq(Nat)
  <2> HIDE DEF missed
  <2>1. Len(missed) \in Nat
    BY <1>5
  <2>2. \A i \in 1..Len(missed) : missed[i] \in Frame
    BY <1>5, ElementOfSeq
  <2>3. replay \in [1..Len(missed) -> Nat]
    BY <2>2 DEF Frame
  <2> HIDE DEF replay
  <2> QED BY <2>1, <2>3, FunctionIsSeq
<1>8. last \in Nat
  <2> HIDE DEF missed, floor
  <2>1. CASE missed = <<>>
    BY <1>4, <2>1
  <2>2. CASE missed # <<>>
    <3>1. Len(missed) \in 1..Len(missed)
      BY <1>5, <2>2, EmptySeq
    <3>2. missed[Len(missed)] \in Frame
      BY <1>5, <3>1, ElementOfSeq
    <3> QED BY <2>2, <3>2 DEF Frame
  <2> QED BY <2>1, <2>2
<1>9. owed \in SUBSET Nat
  <2> HIDE DEF unseen
  <2>1. \A i \in 1..Len(unseen) : unseen[i] \in Frame
    BY <1>6, ElementOfSeq
  <2> QED BY <2>1 DEF Frame
<1>10. honest \in BOOLEAN
  OBVIOUS
<1>11. Clients(t)[v] \in ViewerType
  BY <1>1
<1>12. attached \in ViewerType /\ attached.chan = c
  <2> HIDE DEF c, honest, replay, last, owed
  <2> QED BY <1>1, <1>7, <1>8, <1>9, <1>10, <1>11 DEF ViewerType
<1>13. viewer' = [Clients(t) EXCEPT ![v] = attached]
       /\ chan' = [objs EXCEPT ![c] = [tc EXCEPT !.subs = @ \cup {v}, !.old = FALSE]]
       /\ run' = run
  BY DEF Attach
<1>14. viewer' \in [Viewers -> ViewerType] /\ viewer'[v].chan = c
       /\ \A w \in Viewers : w # v => viewer'[w] = Clients(t)[w]
  <2> HIDE DEF attached, c
  <2> QED BY <1>1, <1>12, <1>13
<1>15. \A w \in Viewers : Clients(t)[w].pc = viewer[w].pc /\ Clients(t)[w].chan = viewer[w].chan
  BY DEF Clients, TypeOK, ViewerType
<1>16. objs \in [Chans -> ChanType]
  BY <1>1, CollectedType
<1>17. [tc EXCEPT !.subs = @ \cup {v}, !.old = FALSE] \in ChanType
  <2> HIDE DEF tc
  <2> QED BY <1>2 DEF ChanType
<1>18. chan' \in [Chans -> ChanType]
  <2> HIDE DEF objs, c, tc
  <2> QED BY <1>1, <1>13, <1>16, <1>17
<1>19. \A w \in Viewers : viewer'[w].pc # "away" => viewer'[w].chan \in Chans
  <2> HIDE DEF c
  <2> QED BY <1>1, <1>14, <1>15 DEF TypeOK
<1> QED BY <1>1, <1>13, <1>14, <1>18, <1>19 DEF TypeOK, Unsettled

\* A client that renders a frame or goes away stays a client.
LEMMA ClientType ==
    ASSUME NEW w \in ViewerType, NEW n \in Nat
    PROVE  /\ w.chan # None => Rendered(w, n) \in ViewerType
           /\ Rendered(w, n).pc = w.pc /\ Rendered(w, n).chan = w.chan
           /\ Rendered(w, n).home = w.home
           /\ Away(w.home, w.cursor, w.source) \in ViewerType
           /\ Away(w.home, w.cursor, None) \in ViewerType
           /\ Away(None, None, None) \in ViewerType
<1>1. <<>> \in Seq(Nat)
  BY EmptySeq
<1>2. w.owed \ {n} \in SUBSET Nat
  BY DEF ViewerType
<1> QED BY <1>1, <1>2 DEF ViewerType, Rendered, Away

\* One viewer changes, to a client attached to the same channel or to none.
LEMMA OneViewerType ==
    ASSUME TypeOK, NEW v \in Viewers, NEW w \in ViewerType,
           viewer' = [viewer EXCEPT ![v] = w],
           w.pc # "away" => w.chan \in Chans,
           channels' = channels, run' = run, chan' \in [Chans -> ChanType]
    PROVE  TypeOK'
<1>1. viewer' \in [Viewers -> ViewerType] /\ viewer'[v] = w
      /\ \A u \in Viewers : u # v => viewer'[u] = viewer[u]
  BY DEF TypeOK
<1> QED BY <1>1 DEF TypeOK, Unsettled

LEMMA ViewerStepType ==
    ASSUME TypeOK, NEW v \in Viewers, ViewerStep(v)
    PROVE  TypeOK'
<1> DEFINE w == viewer[v]
<1>1. w \in ViewerType /\ (w.pc # "away" => w.chan \in Chans)
  BY DEF TypeOK
<1>2. chan \in [Chans -> ChanType]
  BY DEF TypeOK
<1>a. w.replay \in Seq(Nat) /\ w.queue \in Seq(Nat) /\ w.chan \in Chans \cup {None}
  BY <1>1 DEF ViewerType
<1>3. ASSUME NEW t \in Threads, Attach(v, t) PROVE TypeOK'
  BY <1>3, AttachType
<1>4. CASE SendReplay(v)
  <2> DEFINE n == Head(w.replay)
             rest == Tail(w.replay)
             u == [Rendered(w, n) EXCEPT !.replay = rest]
  <2>1. n \in Nat /\ rest \in Seq(Nat)
    BY <1>4, <1>a, HeadTailProperties DEF SendReplay
  <2>2. Rendered(w, n) \in ViewerType /\ Rendered(w, n).pc = w.pc /\ Rendered(w, n).chan = w.chan
    BY <1>1, <1>4, <2>1, ClientType, NoneAssumption DEF SendReplay
  <2>3. u \in ViewerType /\ u.pc = w.pc /\ u.chan = w.chan
    <3> HIDE DEF n, rest, w
    <3> QED BY <2>1, <2>2 DEF ViewerType
  <2>4. viewer' = [viewer EXCEPT ![v] = u] /\ UNCHANGED <<channels, chan, run>>
    BY <1>4 DEF SendReplay
  <2> HIDE DEF u
  <2> QED BY <1>1, <1>2, <2>3, <2>4, OneViewerType
<1>5. CASE GoLive(v)
  <2> DEFINE u == [w EXCEPT !.pc = "live"]
  <2>1. u \in ViewerType /\ u.chan = w.chan
    BY <1>1 DEF ViewerType
  <2>2. viewer' = [viewer EXCEPT ![v] = u] /\ UNCHANGED <<channels, chan, run>>
    BY <1>5 DEF GoLive, TypeOK
  <2>3. u.chan \in Chans
    BY <1>1, <1>5, <2>1 DEF GoLive
  <2> HIDE DEF u
  <2> QED BY <1>2, <2>1, <2>2, <2>3, OneViewerType
<1>6. CASE HandshakeFails(v) \/ Disconnect(v)
  <2> DEFINE u == Away(w.home, w.cursor, w.source)
  <2>1. u \in ViewerType /\ u.pc = "away"
    BY <1>1, ClientType DEF Away
  <2>2. viewer' = [viewer EXCEPT ![v] = u] /\ UNCHANGED <<channels, run>>
    BY <1>6 DEF HandshakeFails, Disconnect
  <2>3. w.chan \in Chans
    BY <1>1, <1>6 DEF HandshakeFails, Disconnect
  <2>4. /\ [chan[w.chan] EXCEPT !.subs = @ \ {v}, !.leaked = TRUE] \in ChanType
        /\ [chan[w.chan] EXCEPT !.subs = @ \ {v}, !.old = FALSE] \in ChanType
    <3> DEFINE tc == chan[w.chan]
    <3>1. tc \in ChanType
      BY <1>2, <2>3
    <3> HIDE DEF tc
    <3>2. /\ [tc EXCEPT !.subs = @ \ {v}, !.leaked = TRUE] \in ChanType
          /\ [tc EXCEPT !.subs = @ \ {v}, !.old = FALSE] \in ChanType
      BY <3>1 DEF ChanType
    <3> QED BY <3>2 DEF tc
  <2>5. \/ chan' = [chan EXCEPT ![w.chan] =
                        [chan[w.chan] EXCEPT !.subs = @ \ {v}, !.leaked = TRUE]]
        \/ chan' = [chan EXCEPT ![w.chan] =
                        [chan[w.chan] EXCEPT !.subs = @ \ {v}, !.old = FALSE]]
    BY <1>2, <1>6, <2>3 DEF HandshakeFails, Disconnect
  <2>6. chan' \in [Chans -> ChanType]
    BY <1>2, <2>3, <2>4, <2>5
  <2> HIDE DEF u
  <2> QED BY <2>1, <2>2, <2>6, OneViewerType
<1>7. CASE Pump(v)
  <2> DEFINE n == Head(w.queue)
             rest == Tail(w.queue)
             skipped == [w EXCEPT !.queue = rest]
             sent == [Rendered(w, n) EXCEPT !.queue = rest, !.last = n]
  <2>1. n \in Nat /\ rest \in Seq(Nat) /\ w.chan \in Chans
    BY <1>1, <1>7, <1>a, HeadTailProperties DEF Pump
  <2>2. Rendered(w, n) \in ViewerType /\ Rendered(w, n).pc = w.pc /\ Rendered(w, n).chan = w.chan
    BY <1>1, <2>1, ClientType, NoneAssumption
  <2>3. /\ skipped \in ViewerType /\ skipped.chan = w.chan
        /\ sent \in ViewerType /\ sent.chan = w.chan
    <3> HIDE DEF n, rest, w
    <3> QED BY <1>1, <2>1, <2>2 DEF ViewerType
  <2>4. viewer' \in {[viewer EXCEPT ![v] = skipped], [viewer EXCEPT ![v] = sent]}
        /\ UNCHANGED <<channels, chan, run>>
    BY <1>7 DEF Pump, Rendered
  <2> HIDE DEF skipped, sent
  <2> QED BY <1>2, <2>1, <2>3, <2>4, OneViewerType
<1>8. CASE Reload(v)
  <2> DEFINE u == Away(None, None, None)
  <2>1. u \in ViewerType /\ u.pc = "away"
    BY <1>1, ClientType DEF Away
  <2>2. viewer' = [viewer EXCEPT ![v] = u] /\ UNCHANGED <<channels, chan, run>>
    BY <1>8 DEF Reload
  <2> HIDE DEF u
  <2> QED BY <1>2, <2>1, <2>2, OneViewerType
<1> QED BY <1>3, <1>4, <1>5, <1>6, <1>7, <1>8 DEF ViewerStep

LEMMA TypeInit == Init => TypeOK
<1>1. ThreadChannel(None) \in ChanType
  BY EmptySeq DEF ThreadChannel, ChanType
<1>2. NoRun \in RunType /\ NoRun.task = "none"
  BY DEF NoRun, TurnRun, RunType, Tasks, Statuses
<1>3. Away(None, None, None) \in ViewerType /\ Away(None, None, None).pc = "away"
  BY EmptySeq DEF Away, ViewerType
<1> QED BY <1>1, <1>2, <1>3 DEF Init, TypeOK, Unsettled

LEMMA TypeStep ==
    ASSUME TypeOK, [Next]_vars
    PROVE  TypeOK'
<1>1. ASSUME NEW t \in Threads, Start(t) PROVE TypeOK'
  BY <1>1, StartType
<1>2. ASSUME NEW t \in Threads, Cancel(t) PROVE TypeOK'
  <2>1. PICK r \in Runs : run' = [run EXCEPT ![r].cancelling = TRUE]
    BY <1>2 DEF Cancel, Active
  <2>2. [run[r] EXCEPT !.cancelling = TRUE] \in RunType
    BY DEF TypeOK, RunType
  <2>3. run' \in [Runs -> RunType] /\ \A s \in Runs : run'[s].chan = run[s].chan
                                                 /\ run'[s].task = run[s].task
    BY <2>1, <2>2 DEF TypeOK, RunType
  <2> QED BY <1>2, <2>3 DEF Cancel, TypeOK, Unsettled
<1>3. ASSUME NEW t \in Threads, AnswerAsk(t) PROVE TypeOK'
  <2>1. PICK r \in Runs : run' = [run EXCEPT ![r].ask = "answered"]
    BY <1>3 DEF AnswerAsk, Active
  <2>2. [run[r] EXCEPT !.ask = "answered"] \in RunType
    BY DEF TypeOK, RunType
  <2>3. run' \in [Runs -> RunType] /\ \A s \in Runs : run'[s].chan = run[s].chan
                                                 /\ run'[s].task = run[s].task
    BY <2>1, <2>2 DEF TypeOK, RunType
  <2> QED BY <1>3, <2>3 DEF AnswerAsk, TypeOK, Unsettled
<1>4. ASSUME NEW r \in Runs, TurnStep(r) PROVE TypeOK'
  BY <1>4, TurnStepType
<1>5. ASSUME NEW v \in Viewers, ViewerStep(v) PROVE TypeOK'
  BY <1>5, ViewerStepType
<1>6. ASSUME NEW c \in Chans, Age(c) PROVE TypeOK'
  <2>1. chan \in [Chans -> ChanType] /\ chan[c] \in ChanType
    BY DEF TypeOK
  <2>2. [chan[c] EXCEPT !.old = TRUE] \in ChanType
    BY <2>1 DEF ChanType
  <2>3. chan' = [chan EXCEPT ![c] = [chan[c] EXCEPT !.old = TRUE]]
    BY <1>6 DEF Age
  <2>4. chan' \in [Chans -> ChanType]
    BY <2>1, <2>2, <2>3
  <2> QED BY <1>6, <2>4 DEF Age, TypeOK, Unsettled
<1>7. CASE Restart
  <2>1. \A v \in Viewers : /\ viewer'[v] \in ViewerType
                           /\ viewer'[v].pc = "away"
    BY <1>7, ClientType DEF Restart, TypeOK, Away
  <2>2. viewer' \in [Viewers -> ViewerType]
    BY <1>7, <2>1 DEF Restart
  <2>3. ThreadChannel(None) \in ChanType
    BY EmptySeq DEF ThreadChannel, ChanType
  <2>4. NoRun \in RunType /\ NoRun.task = "none"
    BY DEF NoRun, TurnRun, RunType, Tasks, Statuses
  <2> QED BY <1>7, <2>1, <2>2, <2>3, <2>4 DEF Restart, TypeOK, Unsettled
<1>8. CASE UNCHANGED vars
  BY <1>8 DEF vars, TypeOK, Unsettled
<1> QED BY <1>1, <1>2, <1>3, <1>4, <1>5, <1>6, <1>7, <1>8 DEF Next

\* Type correctness of the registry, its turns and its viewers.
THEOREM TypeCorrect == Spec => []TypeOK
BY TypeInit, TypeStep, PTL DEF Spec

-----------------------------------------------------------------------------
(* One writer per thread, while there are no more threads than channels *)
(* may be tracked                                                       *)

NoCap == IsFiniteSet(Threads) /\ Cardinality(Threads) <= MaxTracked

\* The channels registered are keyed by their thread.
Keyed ==
    \A c \in channels :
        /\ chan[c].thread \in Threads
        /\ \A d \in channels : chan[c].thread = chan[d].thread => c = d

\* A live turn is the run of a registered channel, and has its status.
Held ==
    \A r \in Runs : Unsettled(r) =>
        /\ run[r].status = "running"
        /\ run[r].chan \in channels
        /\ chan[run[r].chan].run = r

\* An attached viewer subscribes to the registered channel of its thread.
Watched ==
    \A v \in Viewers : viewer[v].pc # "away" =>
        /\ viewer[v].chan \in channels
        /\ chan[viewer[v].chan].thread = viewer[v].home
        /\ v \in chan[viewer[v].chan].subs

IInv == TypeOK /\ Keyed /\ Held /\ Watched

\* Below the cap, a sweep drops only what nobody needs and is old.
LEMMA SweptBelowCap ==
    ASSUME NEW known, NEW ch, NEW runs, NEW newest, NEW kept \in Swept(known, ch, runs, newest),
           IsFiniteSet(known), Cardinality(known) <= MaxTracked
    PROVE  \A c \in known : ~IsSweepable(ch, runs, c) => c \in kept
<1> DEFINE fresh == {c \in known : ~IsSweepable(ch, runs, c)}
<1>1. IsFiniteSet(fresh) /\ Cardinality(fresh) <= Cardinality(known)
  <2>1. fresh \in SUBSET known
    OBVIOUS
  <2> HIDE DEF fresh
  <2> QED BY <2>1, FS_Subset
<1>2. Cardinality(fresh) \in Nat /\ Cardinality(known) \in Nat
  <2> HIDE DEF fresh
  <2> QED BY <1>1, FS_CardinalityType
<1>3. Cardinality(fresh) - MaxTracked <= 0
  <2> HIDE DEF fresh
  <2> QED BY <1>1, <1>2, SizesAssumption
<1>4. PICK out : kept = fresh \ out /\ (Cardinality(fresh) - MaxTracked <= 0 => out = {})
  BY DEF Swept
<1> QED BY <1>3, <1>4

\* Channels keyed by threads are no more than the threads.
LEMMA KeyedCardinality ==
    ASSUME NEW known, NEW ch, IsFiniteSet(Threads),
           \A c \in known : ch[c].thread \in Threads,
           \A c, d \in known : ch[c].thread = ch[d].thread => c = d
    PROVE  IsFiniteSet(known) /\ Cardinality(known) <= Cardinality(Threads)
<1> DEFINE f == [c \in known |-> ch[c].thread]
<1>1. f \in Injection(known, Threads)
  BY DEF Injection, IsInjective
<1> HIDE DEF f
<1> QED BY <1>1, FS_Injection

\* Opening a channel for a thread, new or not, leaves every live turn and
\* every viewer where it is, and returns a registered channel.
LEMMA OpenedKeeps ==
    ASSUME NoCap, IInv, NEW t \in Threads, CanOpen(t), NEW kept \in Known(t)
    PROVE  LET c == ChannelFor(t)
               objs == Collected(Opened(t), kept)
           IN  /\ c \in kept /\ Opened(t)[c].thread = t
               /\ \A d \in kept : objs[d] = Opened(t)[d] /\ objs[d].thread \in Threads
               /\ \A d, e \in kept : objs[d].thread = objs[e].thread => d = e
               /\ \A r \in Runs : Unsettled(r) =>
                    run[r].chan \in kept /\ objs[run[r].chan] = chan[run[r].chan]
               /\ \A v \in Viewers : viewer[v].pc # "away" =>
                    viewer[v].chan \in kept /\ objs[viewer[v].chan] = chan[viewer[v].chan]
<1> DEFINE c == ChannelFor(t)
           objs == Collected(Opened(t), kept)
<1>0. channels \subseteq Chans /\ c \in Chans
  BY OpenedType DEF IInv, TypeOK
<1>1. CASE Registered(t) # {}
  <2>1. kept = channels /\ Opened(t) = chan /\ c \in Registered(t)
    BY <1>1, OpenedType DEF Known, Opened, IInv
  <2>2. c \in channels /\ chan[c].thread = t
    BY <2>1 DEF Registered
  <2>3. \A d \in channels : objs[d] = chan[d]
    BY <1>0, <2>1 DEF Collected
  <2> QED BY <2>1, <2>2, <2>3 DEF IInv, Keyed, Held, Watched
<1>2. CASE Registered(t) = {}
  <2> DEFINE known == channels \cup {c}
  <2>1. c \in FreeChans /\ Opened(t) = [chan EXCEPT ![c] = ThreadChannel(t)]
        /\ kept \in Swept(known, Opened(t), run, c)
    BY <1>2, OpenedType DEF Known, Opened, IInv
  <2>2. c \notin channels
    BY <2>1 DEF FreeChans, InUse
  <2>3. Opened(t)[c] = ThreadChannel(t) /\ \A d \in channels : Opened(t)[d] = chan[d]
    BY <1>0, <2>1, <2>2 DEF IInv, TypeOK
  <2>4. ThreadChannel(t).thread = t /\ ThreadChannel(t).old = FALSE
    BY DEF ThreadChannel
  <2>5. \A d \in channels : chan[d].thread # t
    BY <1>2 DEF Registered
  <2>6. /\ \A d \in known : Opened(t)[d].thread \in Threads
        /\ \A d, e \in known : Opened(t)[d].thread = Opened(t)[e].thread => d = e
    BY <2>3, <2>4, <2>5 DEF IInv, Keyed
  <2>7. IsFiniteSet(known) /\ Cardinality(known) <= MaxTracked
    <3> DEFINE ch == Opened(t)
    <3>1. IsFiniteSet(known) /\ Cardinality(known) <= Cardinality(Threads)
      <4>1. /\ \A d \in known : ch[d].thread \in Threads
            /\ \A d, e \in known : ch[d].thread = ch[e].thread => d = e
        BY <2>6
      <4> HIDE DEF known, ch
      <4> QED BY <4>1, KeyedCardinality DEF NoCap
    <3>2. Cardinality(known) \in Nat /\ Cardinality(Threads) \in Nat
      <4> HIDE DEF known
      <4> QED BY <3>1, FS_CardinalityType DEF NoCap
    <3> HIDE DEF known
    <3> QED BY <3>1, <3>2, SizesAssumption DEF NoCap
  <2>8. c \in kept
    <3>1. ~IsSweepable(Opened(t), run, c)
      BY <2>3, <2>4 DEF IsSweepable
    <3> HIDE DEF known
    <3>2. c \in known => c \in kept
      BY <2>1, <2>7, <3>1, SweptBelowCap
    <3> QED BY <3>2 DEF known
  <2>9. kept \subseteq known /\ \A d \in known : ~Idle(Opened(t), run, d) => d \in kept
    <3> HIDE DEF known
    <3> QED BY <2>1, SweptKeeps
  <2>10. \A d \in kept : objs[d] = Opened(t)[d]
    BY <1>0, <2>9 DEF Collected
  <2>11. \A r \in Runs : Unsettled(r) =>
            run[r].chan \in kept /\ objs[run[r].chan] = chan[run[r].chan]
    <3> SUFFICES ASSUME NEW r \in Runs, Unsettled(r)
                 PROVE  run[r].chan \in kept /\ objs[run[r].chan] = chan[run[r].chan]
      OBVIOUS
    <3>1. run[r].status = "running" /\ run[r].chan \in channels /\ chan[run[r].chan].run = r
      BY DEF IInv, Held
    <3>2. ~Idle(Opened(t), run, run[r].chan)
      BY <2>3, <3>1, NoneAssumption DEF Idle, Running
    <3> QED BY <2>3, <2>9, <2>10, <3>1, <3>2
  <2>12. \A v \in Viewers : viewer[v].pc # "away" =>
            viewer[v].chan \in kept /\ objs[viewer[v].chan] = chan[viewer[v].chan]
    <3> SUFFICES ASSUME NEW v \in Viewers, viewer[v].pc # "away"
                 PROVE  viewer[v].chan \in kept /\ objs[viewer[v].chan] = chan[viewer[v].chan]
      OBVIOUS
    <3>1. viewer[v].chan \in channels /\ v \in chan[viewer[v].chan].subs
      BY DEF IInv, Watched
    <3>2. ~Idle(Opened(t), run, viewer[v].chan)
      BY <2>3, <3>1 DEF Idle
    <3> QED BY <2>3, <2>9, <2>10, <3>1, <3>2
  <2> QED BY <2>3, <2>4, <2>6, <2>8, <2>9, <2>10, <2>11, <2>12
<1> QED BY <1>1, <1>2

LEMMA StartKeeps ==
    ASSUME NoCap, IInv, NEW t \in Threads, Start(t)
    PROVE  Keyed' /\ Held' /\ Watched'
<1> DEFINE c == ChannelFor(t)
           r == CHOOSE x \in FreeRuns : TRUE
           tc == Opened(t)[c]
           rung == Rung(tc, <<"start">>)
           objs == Collected(Opened(t), channels')
           clients == Clients(t)
           one == 1
<1>1. /\ CanOpen(t) /\ channels' \in Known(t) /\ Active(t) = {}
      /\ run' = [s \in Runs |-> IF s = r THEN TurnRun(c, tc.seq)
                                ELSE IF s \in FreeRuns \/ (s = tc.run /\ ~Unsettled(s)) THEN NoRun
                                ELSE run[s]]
      /\ chan' = [objs EXCEPT ![c] = [rung EXCEPT !.run = r]]
      /\ viewer' = Heard(clients, tc, one, FALSE)
  BY DEF Start
<1>2. r \in Runs /\ ~Unsettled(r)
  BY DEF Start, FreeRuns
<1>3. /\ c \in Chans /\ Opened(t) \in [Chans -> ChanType] /\ clients \in [Viewers -> ViewerType]
      /\ channels' \subseteq Chans /\ tc \in ChanType
  BY <1>1, OpenedType DEF IInv
<1>4. /\ c \in channels' /\ tc.thread = t
      /\ \A d \in channels' : objs[d] = Opened(t)[d] /\ objs[d].thread \in Threads
      /\ \A d, e \in channels' : objs[d].thread = objs[e].thread => d = e
      /\ \A s \in Runs : Unsettled(s) =>
            run[s].chan \in channels' /\ objs[run[s].chan] = chan[run[s].chan]
      /\ \A v \in Viewers : viewer[v].pc # "away" =>
            viewer[v].chan \in channels' /\ objs[viewer[v].chan] = chan[viewer[v].chan]
  BY <1>1, OpenedKeeps
<1>5. rung \in ChanType /\ rung.thread = t /\ rung.subs = tc.subs
  <2>1. tc \in ChanType /\ tc.thread = t /\ <<"start">> \in Seq(Kinds)
    BY <1>3, <1>4, KindsType
  <2> HIDE DEF tc
  <2> QED BY <2>1, RungType
<1>6. objs \in [Chans -> ChanType]
  BY <1>3, CollectedType
<1>7. chan'[c].run = r /\ chan'[c].thread = t /\ chan'[c].subs = tc.subs
      /\ \A d \in channels' : d # c => chan'[d] = objs[d]
  <2> HIDE DEF c, r, tc, rung, objs
  <2>1. [rung EXCEPT !.run = r].run = r /\ [rung EXCEPT !.run = r].thread = t
        /\ [rung EXCEPT !.run = r].subs = tc.subs
    BY <1>5 DEF ChanType
  <2> QED BY <1>1, <1>3, <1>6, <2>1
<1>8. \A d \in channels' : chan'[d].thread = objs[d].thread /\ chan'[d].subs = objs[d].subs
  <2>1. objs[c] = tc
    BY <1>4
  <2> HIDE DEF c, tc, objs
  <2> QED BY <1>4, <1>7, <2>1
<1>9. Keyed'
  <2> HIDE DEF objs
  <2> QED BY <1>4, <1>8 DEF Keyed
<1>10. \A s \in Runs : Unsettled(s) => s # tc.run
  <2> SUFFICES ASSUME NEW s \in Runs, Unsettled(s), s = tc.run PROVE FALSE
    OBVIOUS
  <2>1. CASE Registered(t) # {}
    <3>1. c \in Registered(t) /\ tc = chan[c]
      BY <1>1, <2>1, OpenedType DEF IInv, Opened
    <3>2. Running(run, s)
      BY NoneAssumption DEF IInv, Held, Running
    <3>3. s \in Active(t)
      BY <3>1, <3>2 DEF Active
    <3> QED BY <1>1, <3>3
  <2>2. CASE Registered(t) = {}
    <3>1. tc = ThreadChannel(t)
      BY <1>3, <2>2 DEF Opened, IInv, TypeOK
    <3> QED BY <3>1, NoneAssumption DEF ThreadChannel
  <2> QED BY <2>1, <2>2
<1>11. Held'
  <2> SUFFICES ASSUME NEW s \in Runs, Unsettled(s)'
               PROVE  /\ run'[s].status = "running"
                      /\ run'[s].chan \in channels'
                      /\ chan'[run'[s].chan].run = s
    BY DEF Held
  <2>1. CASE s = r
    <3>1. run'[s] = TurnRun(c, tc.seq)
      BY <1>1, <2>1
    <3>2. run'[s].status = "running" /\ run'[s].chan = c
      BY <3>1 DEF TurnRun
    <3> HIDE DEF c, r
    <3> QED BY <1>4, <1>7, <2>1, <3>2
  <2>2. CASE s # r
    <3>1. run'[s] = NoRun \/ (run'[s] = run[s] /\ Unsettled(s))
      BY <1>1, <2>2 DEF Unsettled
    <3>2. run'[s] # NoRun
      BY DEF Unsettled, NoRun, TurnRun
    <3>3. run'[s] = run[s] /\ Unsettled(s)
      BY <3>1, <3>2
    <3>4. run[s].status = "running" /\ chan[run[s].chan].run = s /\ s # tc.run
      BY <1>10, <3>3 DEF IInv, Held
    <3>5. run[s].chan \in channels' /\ objs[run[s].chan] = chan[run[s].chan]
      BY <1>4, <3>3
    <3>6. run[s].chan # c
      BY <1>4, <3>4, <3>5
    <3> HIDE DEF objs, c
    <3> QED BY <1>7, <3>3, <3>4, <3>5, <3>6
  <2> QED BY <2>1, <2>2
<1>12. Watched'
  <2>1. \A v \in Viewers : clients[v].pc = viewer[v].pc /\ clients[v].chan = viewer[v].chan
                           /\ clients[v].home = viewer[v].home
    BY DEF Clients, IInv, TypeOK, ViewerType
  <2>2. one \in Nat
    OBVIOUS
  <2> HIDE DEF tc, one, clients, objs, c, r, rung
  <2>3. \A v \in Viewers : viewer'[v].pc = viewer[v].pc /\ viewer'[v].chan = viewer[v].chan
                           /\ viewer'[v].home = viewer[v].home
    <3>1. clients \in [Viewers -> ViewerType] /\ tc \in ChanType
      BY <1>3
    <3>2. \A v \in Viewers :
            /\ Heard(clients, tc, one, FALSE)[v].pc = clients[v].pc
            /\ Heard(clients, tc, one, FALSE)[v].chan = clients[v].chan
            /\ Heard(clients, tc, one, FALSE)[v].home = clients[v].home
      BY <3>1, <2>2, HeardType
    <3> QED BY <1>1, <2>1, <3>2
  <2> QED BY <1>4, <1>8, <2>3 DEF Watched, IInv
<1> QED BY <1>9, <1>11, <1>12

LEMMA AttachKeeps ==
    ASSUME NoCap, IInv, NEW v \in Viewers, NEW t \in Threads, Attach(v, t)
    PROVE  Keyed' /\ Held' /\ Watched'
<1> DEFINE c == ChannelFor(t)
           tc == Opened(t)[c]
           objs == Collected(Opened(t), channels')
           clients == Clients(t)
           joined == [tc EXCEPT !.subs = @ \cup {v}, !.old = FALSE]
<1>1. /\ CanOpen(t) /\ channels' \in Known(t) /\ run' = run
      /\ chan' = [objs EXCEPT ![c] = joined]
      /\ \E w : /\ viewer' = [clients EXCEPT ![v] = [@ EXCEPT !.pc = "handshake", !.home = t,
                                 !.chan = c, !.replay = w.replay, !.last = w.last,
                                 !.owed = w.owed, !.honest = w.honest]]
  <2> DEFINE missed == After(tc.ring, Floor(v, tc))
             honest == viewer[v].cursor = None \/ clients[v].source = c
             unseen == IF honest THEN missed ELSE tc.ring
             w == [replay |-> [i \in 1..Len(missed) |-> missed[i].seq],
                   last |-> IF missed = <<>> THEN Floor(v, tc) ELSE missed[Len(missed)].seq,
                   owed |-> {unseen[i].seq : i \in 1..Len(unseen)}, honest |-> honest]
  <2>1. viewer' = [clients EXCEPT ![v] = [@ EXCEPT !.pc = "handshake", !.home = t,
                                 !.chan = c, !.replay = w.replay, !.last = w.last,
                                 !.owed = w.owed, !.honest = w.honest]]
    BY DEF Attach
  <2> HIDE DEF w
  <2> QED BY <2>1 DEF Attach
<1>2. /\ c \in Chans /\ Opened(t) \in [Chans -> ChanType] /\ clients \in [Viewers -> ViewerType]
      /\ channels' \subseteq Chans /\ tc \in ChanType
  BY <1>1, OpenedType DEF IInv
<1>3. /\ c \in channels' /\ tc.thread = t
      /\ \A d \in channels' : objs[d] = Opened(t)[d] /\ objs[d].thread \in Threads
      /\ \A d, e \in channels' : objs[d].thread = objs[e].thread => d = e
      /\ \A s \in Runs : Unsettled(s) =>
            run[s].chan \in channels' /\ objs[run[s].chan] = chan[run[s].chan]
      /\ \A u \in Viewers : viewer[u].pc # "away" =>
            viewer[u].chan \in channels' /\ objs[viewer[u].chan] = chan[viewer[u].chan]
  BY <1>1, OpenedKeeps
<1>4. objs \in [Chans -> ChanType] /\ objs[c] = tc
  BY <1>2, <1>3, CollectedType
<1>5. joined.thread = t /\ joined.run = tc.run /\ joined.subs = tc.subs \cup {v}
  <2> HIDE DEF tc
  <2> QED BY <1>2, <1>3 DEF ChanType
<1>6. /\ chan'[c] = joined
      /\ \A d \in channels' : /\ chan'[d].thread = objs[d].thread /\ chan'[d].run = objs[d].run
                              /\ objs[d].subs \subseteq chan'[d].subs
  <2> HIDE DEF joined, objs, c, tc
  <2> QED BY <1>1, <1>2, <1>3, <1>4, <1>5
<1>7. Keyed'
  <2> HIDE DEF objs
  <2> QED BY <1>3, <1>6 DEF Keyed
<1>8. Held'
  <2> HIDE DEF objs
  <2> QED BY <1>1, <1>3, <1>6 DEF IInv, Held, Unsettled
<1>9. Watched'
  <2>1. \A u \in Viewers : clients[u].pc = viewer[u].pc /\ clients[u].chan = viewer[u].chan
                           /\ clients[u].home = viewer[u].home
    BY DEF Clients, IInv, TypeOK, ViewerType
  <2>2. viewer'[v].chan = c /\ viewer'[v].home = t
        /\ \A u \in Viewers : u # v => viewer'[u] = clients[u]
    <3> HIDE DEF c, clients
    <3> QED BY <1>1, <1>2 DEF ViewerType
  <2>3. v \in chan'[c].subs /\ chan'[c].thread = t
    <3> HIDE DEF joined
    <3> QED BY <1>5, <1>6
  <2> HIDE DEF objs, c, tc, clients, joined
  <2> QED BY <1>3, <1>6, <2>1, <2>2, <2>3 DEF IInv, Watched
<1> QED BY <1>7, <1>8, <1>9

\* Settling a turn may sweep, but nothing another turn or a viewer needs.
LEMMA SettleKeeps ==
    ASSUME IInv, NEW r \in Runs, run[r].task = "body", NEW status \in Statuses,
           NEW kinds \in Seq(Kinds), Settle(r, status, kinds)
    PROVE  Keyed' /\ Held' /\ Watched'
<1> DEFINE c == run[r].chan
           rung == Rung(chan[c], kinds)
           tc == [rung EXCEPT !.old = FALSE]
           objs == [chan EXCEPT ![c] = tc]
           n == Len(kinds)
<1>1. c \in Chans /\ chan[c] \in ChanType /\ n \in Nat /\ channels \subseteq Chans
      /\ viewer \in [Viewers -> ViewerType]
  BY LenProperties DEF IInv, TypeOK, Unsettled
<1>2. rung \in ChanType /\ rung.thread = chan[c].thread /\ rung.subs = chan[c].subs
      /\ rung.run = chan[c].run
  BY <1>1, RungType
<1>3. tc.thread = chan[c].thread /\ tc.subs = chan[c].subs /\ tc.run = chan[c].run
  <2> HIDE DEF rung, c
  <2> QED BY <1>2 DEF ChanType
<1>4. \A d \in Chans : objs[d].thread = chan[d].thread /\ objs[d].subs = chan[d].subs
                       /\ objs[d].run = chan[d].run
  <2> HIDE DEF tc, c
  <2> QED BY <1>1, <1>3 DEF IInv, TypeOK
<1>5. /\ channels' \in Swept(channels, objs, Settled(r, status), None)
      /\ chan' = Collected(objs, channels')
      /\ run' = Settled(r, status)
      /\ viewer' = Heard(viewer, chan[c], n, FALSE)
  BY DEF Settle
<1> HIDE DEF objs
<1>6. channels' \subseteq channels
      /\ \A d \in channels : ~Idle(objs, run', d) => d \in channels'
  BY <1>5, SweptKeeps
<1>7. \A d \in channels' : chan'[d] = objs[d]
  BY <1>1, <1>5, <1>6 DEF Collected
<1>8. run'[r].task = "settled" /\ \A s \in Runs : s # r => run'[s] = run[s]
  BY <1>5 DEF Settled, IInv, TypeOK, RunType
<1>9. Keyed'
  BY <1>1, <1>4, <1>6, <1>7 DEF IInv, Keyed
<1>10. Held'
  <2> SUFFICES ASSUME NEW s \in Runs, Unsettled(s)'
               PROVE  /\ run'[s].status = "running"
                      /\ run'[s].chan \in channels'
                      /\ chan'[run'[s].chan].run = s
    BY DEF Held
  <2>1. s # r /\ run'[s] = run[s] /\ Unsettled(s)
    BY <1>8 DEF Unsettled
  <2>2. run[s].status = "running" /\ run[s].chan \in channels /\ chan[run[s].chan].run = s
    BY <2>1 DEF IInv, Held
  <2>3. ~Idle(objs, run', run[s].chan)
    BY <1>1, <1>4, <2>1, <2>2, NoneAssumption DEF Idle, Running
  <2> QED BY <1>1, <1>4, <1>6, <1>7, <2>1, <2>2, <2>3
<1>11. Watched'
  <2>1. \A v \in Viewers : viewer'[v].pc = viewer[v].pc /\ viewer'[v].chan = viewer[v].chan
                           /\ viewer'[v].home = viewer[v].home
    <3> DEFINE tcv == chan[c]
    <3>1. tcv \in ChanType /\ viewer' = Heard(viewer, tcv, n, FALSE)
          /\ viewer \in [Viewers -> ViewerType] /\ n \in Nat /\ FALSE \in BOOLEAN
      BY <1>1, <1>5
    <3> HIDE DEF tcv, n
    <3> QED BY <3>1, HeardType
  <2> SUFFICES ASSUME NEW v \in Viewers, viewer[v].pc # "away"
               PROVE  /\ viewer[v].chan \in channels'
                      /\ chan'[viewer[v].chan].thread = viewer[v].home
                      /\ v \in chan'[viewer[v].chan].subs
    BY <2>1 DEF Watched
  <2>2. viewer[v].chan \in channels /\ chan[viewer[v].chan].thread = viewer[v].home
        /\ v \in chan[viewer[v].chan].subs
    BY DEF IInv, Watched
  <2>3. ~Idle(objs, run', viewer[v].chan)
    BY <1>1, <1>4, <2>2 DEF Idle
  <2> QED BY <1>1, <1>4, <1>6, <1>7, <2>2, <2>3
<1> QED BY <1>9, <1>10, <1>11

\* A step that registers and drops no channel, moves no viewer and starts no
\* task keeps the invariant.
LEMMA SteadyKeeps ==
    ASSUME IInv, channels' = channels,
           \A c \in Chans : /\ chan'[c].thread = chan[c].thread
                            /\ chan'[c].run = chan[c].run
                            /\ chan'[c].subs = chan[c].subs,
           \A r \in Runs : Unsettled(r)' => /\ Unsettled(r)
                                            /\ run'[r].status = run[r].status
                                            /\ run'[r].chan = run[r].chan,
           \A v \in Viewers : /\ viewer'[v].pc = viewer[v].pc
                              /\ viewer'[v].chan = viewer[v].chan
                              /\ viewer'[v].home = viewer[v].home
    PROVE  Keyed' /\ Held' /\ Watched'
<1>1. channels \subseteq Chans
  BY DEF IInv, TypeOK
<1>2. Keyed'
  BY <1>1 DEF IInv, Keyed
<1>3. Held'
  BY <1>1 DEF IInv, Held
<1>4. Watched'
  BY <1>1 DEF IInv, Watched
<1> QED BY <1>2, <1>3, <1>4

LEMMA TurnStepKeeps ==
    ASSUME IInv, NEW r \in Runs, TurnStep(r)
    PROVE  Keyed' /\ Held' /\ Watched'
<1>0. TypeOK
  BY DEF IInv
<1>1. CASE FirstStep(r)
  <2>1. \A s \in Runs : Unsettled(s)' => /\ Unsettled(s) /\ run'[s].status = run[s].status
                                         /\ run'[s].chan = run[s].chan
    BY <1>0, <1>1 DEF FirstStep, TypeOK, RunType, Unsettled
  <2> QED BY <1>1, <2>1, SteadyKeeps DEF FirstStep
<1>2. ASSUME NEW kinds \in Seq(Kinds), Unsettled(r), Emit(r, kinds), channels' = channels,
             run' = run \/ \E ask : run' = [run EXCEPT ![r].ask = ask]
      PROVE  Keyed' /\ Held' /\ Watched'
  <2>1. /\ \A v \in Viewers : /\ viewer'[v].pc = viewer[v].pc
                              /\ viewer'[v].chan = viewer[v].chan
                              /\ viewer'[v].home = viewer[v].home
        /\ \A c \in Chans : /\ chan'[c].thread = chan[c].thread
                            /\ chan'[c].run = chan[c].run
                            /\ chan'[c].subs = chan[c].subs
    BY <1>0, <1>2, EmitType
  <2>2. \A s \in Runs : /\ run'[s].task = run[s].task /\ run'[s].status = run[s].status
                        /\ run'[s].chan = run[s].chan
    <3>1. run \in [Runs -> RunType]
      BY <1>0 DEF TypeOK
    <3>2. CASE run' = run
      BY <3>2
    <3>3. ASSUME NEW ask, run' = [run EXCEPT ![r].ask = ask]
          PROVE  \A s \in Runs : /\ run'[s].task = run[s].task
                                 /\ run'[s].status = run[s].status
                                 /\ run'[s].chan = run[s].chan
      BY <3>1, <3>3 DEF RunType
    <3> QED BY <1>2, <3>2, <3>3
  <2>3. \A s \in Runs : Unsettled(s)' => Unsettled(s)
    BY <2>2 DEF Unsettled
  <2> QED BY <1>2, <2>1, <2>2, <2>3, SteadyKeeps
<1>3. CASE EmitText(r)
  BY <1>2, <1>3, KindsType DEF EmitText, Stepping, Unsettled
<1>4. CASE EmitAudio(r)
  <2> DEFINE tcv == chan[run[r].chan]
             one == 1
  <2>1. viewer' = Heard(viewer, tcv, one, TRUE) /\ one \in Nat /\ tcv \in ChanType
        /\ viewer \in [Viewers -> ViewerType]
    BY <1>0, <1>4 DEF EmitAudio, Stepping, TypeOK, Unsettled
  <2>2. \A v \in Viewers : /\ viewer'[v].pc = viewer[v].pc
                           /\ viewer'[v].chan = viewer[v].chan
                           /\ viewer'[v].home = viewer[v].home
    <3> HIDE DEF tcv, one
    <3> QED BY <2>1, HeardType
  <2>3. \A c \in Chans : /\ chan'[c].thread = chan[c].thread
                         /\ chan'[c].run = chan[c].run
                         /\ chan'[c].subs = chan[c].subs
    BY <1>0, <1>4 DEF EmitAudio, TypeOK, ChanType
  <2> QED BY <1>4, <2>2, <2>3, SteadyKeeps DEF EmitAudio, Unsettled
<1>5. CASE Ask(r)
  BY <1>2, <1>5, KindsType DEF Ask, Stepping, Unsettled
<1>6. CASE AskReturns(r)
  BY <1>2, <1>6, KindsType DEF AskReturns, Unsettled
<1>7. CASE Finish(r)
  BY <1>7, SettleKeeps, KindsType DEF Finish, Stepping, Statuses
<1>8. CASE Fail(r)
  BY <1>8, SettleKeeps, KindsType DEF Fail, Stepping, Statuses
<1>9. CASE Unwind(r)
  BY <1>9, SettleKeeps, KindsType DEF Unwind, Statuses
<1> QED BY <1>1, <1>3, <1>4, <1>5, <1>6, <1>7, <1>8, <1>9 DEF TurnStep

LEMMA ViewerStepKeeps ==
    ASSUME NoCap, IInv, NEW v \in Viewers, ViewerStep(v)
    PROVE  Keyed' /\ Held' /\ Watched'
<1> DEFINE w == viewer[v]
<1>0. TypeOK /\ w \in ViewerType
  BY DEF IInv, TypeOK
<1>1. ASSUME NEW t \in Threads, Attach(v, t) PROVE Keyed' /\ Held' /\ Watched'
  BY <1>1, AttachKeeps
<1>2. CASE SendReplay(v) \/ GoLive(v) \/ Pump(v) \/ Reload(v)
  <2>0. UNCHANGED <<channels, chan, run>>
    BY <1>2 DEF SendReplay, GoLive, Pump, Reload
  <2>1. ASSUME NEW new, viewer' = [viewer EXCEPT ![v] = new],
               new.pc # "away" => w.pc # "away" /\ new.chan = w.chan /\ new.home = w.home
        PROVE  Keyed' /\ Held' /\ Watched'
    <3>1. viewer'[v] = new /\ \A u \in Viewers : u # v => viewer'[u] = viewer[u]
      BY <1>0, <2>1 DEF TypeOK
    <3>2. Keyed'
      BY <2>0 DEF IInv, Keyed
    <3>3. Held'
      BY <2>0 DEF IInv, Held, Unsettled
    <3>4. Watched'
      BY <2>0, <2>1, <3>1 DEF IInv, Watched
    <3> QED BY <3>2, <3>3, <3>4
  <2>3. CASE SendReplay(v)
    <3> DEFINE new == [Rendered(w, Head(w.replay)) EXCEPT !.replay = Tail(w.replay)]
    <3>1. viewer' = [viewer EXCEPT ![v] = new]
      BY <2>3 DEF SendReplay
    <3>2. w.pc # "away" /\ new.chan = w.chan /\ new.home = w.home
      <4>1. w.pc # "away"
        BY <2>3 DEF SendReplay
      <4> HIDE DEF w
      <4> QED BY <1>0, <4>1 DEF Rendered, ViewerType
    <3> HIDE DEF new
    <3> QED BY <2>1, <3>1, <3>2
  <2>4. CASE GoLive(v)
    <3> DEFINE new == [w EXCEPT !.pc = "live"]
    <3>1. viewer' = [viewer EXCEPT ![v] = new] /\ w.pc # "away"
      BY <2>4, <1>0 DEF GoLive, TypeOK
    <3>2. new.chan = w.chan /\ new.home = w.home
      <4> HIDE DEF w
      <4> QED BY <1>0 DEF ViewerType
    <3> HIDE DEF new
    <3> QED BY <2>1, <3>1, <3>2
  <2>5. CASE Pump(v)
    <3> DEFINE n    == Head(w.queue)
               skip == [w EXCEPT !.queue = Tail(w.queue)]
               show == [Rendered(w, n) EXCEPT !.queue = Tail(w.queue), !.last = n]
               new  == IF n <= w.last THEN skip ELSE show
    <3>1. viewer' = [viewer EXCEPT ![v] = new] /\ w.pc # "away"
      <4>1. w.pc # "away" /\
            viewer' = [viewer EXCEPT ![v] =
                IF n <= w.last THEN [w EXCEPT !.queue = Tail(@)]
                ELSE [Rendered(w, n) EXCEPT !.queue = Tail(@), !.last = n]]
        BY <2>5 DEF Pump
      <4>2. Rendered(w, n).queue = w.queue
        <5> HIDE DEF w, n
        <5> QED BY <1>0 DEF Rendered, ViewerType
      <4> QED BY <4>1, <4>2
    <3>2. new.chan = w.chan /\ new.home = w.home
      <4> HIDE DEF w, n
      <4> QED BY <1>0 DEF Rendered, ViewerType
    <3> HIDE DEF new
    <3> QED BY <2>1, <3>1, <3>2
  <2>6. CASE Reload(v)
    BY <2>1, <2>6 DEF Reload, Away
  <2> QED BY <1>2, <2>3, <2>4, <2>5, <2>6
<1>3. CASE HandshakeFails(v) \/ Disconnect(v)
  <2>1. /\ viewer'[v].pc = "away"
        /\ \A u \in Viewers : u # v => viewer'[u] = viewer[u]
        /\ UNCHANGED <<channels, run>>
    BY <1>0, <1>3 DEF HandshakeFails, Disconnect, Away, TypeOK
  <2>2. w.chan \in channels /\ w.chan \in Chans /\ channels \subseteq Chans
    BY <1>3 DEF HandshakeFails, Disconnect, IInv, Watched, TypeOK
  <2>3. \A c \in Chans : /\ chan'[c].thread = chan[c].thread /\ chan'[c].run = chan[c].run
                         /\ \A u \in Viewers : u # v => (u \in chan[c].subs => u \in chan'[c].subs)
    <3>1. chan \in [Chans -> ChanType]
      BY <1>0 DEF TypeOK
    <3>2. CASE HandshakeFails(v)
      <4> DEFINE new == [chan[w.chan] EXCEPT !.subs = chan[w.chan].subs \ {v}, !.leaked = TRUE]
      <4>1. chan' = [chan EXCEPT ![w.chan] = new]
        BY <3>1, <3>2, <2>2 DEF HandshakeFails, ChanType
      <4>2. /\ new.thread = chan[w.chan].thread /\ new.run = chan[w.chan].run
            /\ new.subs = chan[w.chan].subs \ {v}
        BY <3>1, <2>2 DEF ChanType
      <4> HIDE DEF new, w
      <4> QED BY <3>1, <4>1, <4>2, <2>2
    <3>3. CASE Disconnect(v)
      <4> DEFINE new == [chan[w.chan] EXCEPT !.subs = chan[w.chan].subs \ {v}, !.old = FALSE]
      <4>1. chan' = [chan EXCEPT ![w.chan] = new]
        BY <3>1, <3>3, <2>2 DEF Disconnect, ChanType
      <4>2. /\ new.thread = chan[w.chan].thread /\ new.run = chan[w.chan].run
            /\ new.subs = chan[w.chan].subs \ {v}
        BY <3>1, <2>2 DEF ChanType
      <4> HIDE DEF new, w
      <4> QED BY <3>1, <4>1, <4>2, <2>2
    <3> QED BY <1>3, <3>2, <3>3
  <2>4. Keyed'
    BY <2>1, <2>2, <2>3 DEF IInv, Keyed
  <2>5. Held'
    BY <2>1, <2>2, <2>3 DEF IInv, Held, Unsettled
  <2>6. Watched'
    BY <2>1, <2>2, <2>3 DEF IInv, Watched
  <2> QED BY <2>4, <2>5, <2>6
<1> QED BY <1>1, <1>2, <1>3 DEF ViewerStep

LEMMA NextKeeps ==
    ASSUME NoCap, IInv, [Next]_vars
    PROVE  IInv'
<1>1. TypeOK'
  BY TypeStep DEF IInv
<1>2. ASSUME NEW t \in Threads, Start(t) PROVE Keyed' /\ Held' /\ Watched'
  BY <1>2, StartKeeps
<1>3. ASSUME NEW t \in Threads, Cancel(t) \/ AnswerAsk(t) PROVE Keyed' /\ Held' /\ Watched'
  <2>1. \A s \in Runs : /\ run'[s].task = run[s].task /\ run'[s].status = run[s].status
                        /\ run'[s].chan = run[s].chan
    BY <1>3 DEF Cancel, AnswerAsk, IInv, TypeOK, RunType
  <2>2. UNCHANGED <<channels, chan, viewer>>
    BY <1>3 DEF Cancel, AnswerAsk
  <2> QED BY <2>1, <2>2, SteadyKeeps DEF Unsettled
<1>4. ASSUME NEW r \in Runs, TurnStep(r) PROVE Keyed' /\ Held' /\ Watched'
  BY <1>4, TurnStepKeeps
<1>5. ASSUME NEW v \in Viewers, ViewerStep(v) PROVE Keyed' /\ Held' /\ Watched'
  BY <1>5, ViewerStepKeeps
<1>6. ASSUME NEW c \in Chans, Age(c) PROVE Keyed' /\ Held' /\ Watched'
  <2>1. \A d \in Chans : /\ chan'[d].thread = chan[d].thread /\ chan'[d].run = chan[d].run
                         /\ chan'[d].subs = chan[d].subs
    BY <1>6 DEF Age, IInv, TypeOK, ChanType
  <2> QED BY <1>6, <2>1, SteadyKeeps DEF Age, Unsettled
<1>7. CASE Restart
  <2>1. channels' = {} /\ \A r \in Runs : ~Unsettled(r)'
    BY <1>7 DEF Restart, NoRun, TurnRun, Unsettled
  <2>2. \A v \in Viewers : viewer'[v].pc = "away"
    BY <1>7 DEF Restart, Away
  <2>3. Keyed'
    BY <2>1 DEF Keyed
  <2>4. Held'
    BY <2>1 DEF Held
  <2>5. Watched'
    BY <2>2 DEF Watched
  <2> QED BY <1>1, <2>3, <2>4, <2>5 DEF IInv
<1>8. CASE UNCHANGED vars
  <2>1. channels' = channels /\ chan' = chan /\ run' = run /\ viewer' = viewer
    BY <1>8 DEF vars
  <2>2. \A r \in Runs : Unsettled(r)' => Unsettled(r)
    BY <2>1 DEF Unsettled
  <2> QED BY <1>1, <2>1, <2>2, SteadyKeeps DEF IInv
<1> QED BY <1>1, <1>2, <1>3, <1>4, <1>5, <1>6, <1>7, <1>8 DEF IInv, Next

LEMMA Invariant == ASSUME NoCap PROVE Spec => []IInv
<1>1. Init => IInv
  <2> SUFFICES ASSUME Init PROVE IInv
    OBVIOUS
  <2>1. TypeOK
    BY TypeInit
  <2>2. channels = {} /\ \A r \in Runs : ~Unsettled(r)
    BY DEF Init, NoRun, TurnRun, Unsettled
  <2>3. \A v \in Viewers : viewer[v].pc = "away"
    BY DEF Init, Away
  <2> QED BY <2>1, <2>2, <2>3 DEF IInv, Keyed, Held, Watched
<1>2. IInv /\ [Next]_vars => IInv'
  BY NextKeeps
<1> QED BY <1>1, <1>2, PTL DEF Spec

\* As long as the threads do not outnumber the channels that may be tracked,
\* no thread ever has two live turns: neither new channels, sweeps, cancels,
\* sockets nor restarts let a second writer in.
THEOREM OneWriter == ASSUME NoCap PROVE Spec => []SingleWriter
<1>1. IInv => SingleWriter
  <2> SUFFICES ASSUME IInv, NEW r \in Runs, NEW s \in Runs, Unsettled(r), Unsettled(s),
                      ThreadOf(r) = ThreadOf(s)
               PROVE  r = s
    BY DEF SingleWriter
  <2> QED BY DEF IInv, Held, Keyed, ThreadOf
<1> QED BY <1>1, Invariant, PTL

\* In the same regime Stop always finds a live turn, and a viewer is always on
\* the channel its thread's turns emit to.
THEOREM AlwaysReachable == ASSUME NoCap PROVE Spec => []Reachable
<1>1. IInv => Reachable
  <2> SUFFICES ASSUME IInv PROVE Reachable
    OBVIOUS
  <2>1. \A r \in Runs : Unsettled(r) => r \in Active(ThreadOf(r))
    BY NoneAssumption DEF IInv, Held, Active, Registered, Running, ThreadOf
  <2>2. \A v \in Viewers : viewer[v].pc # "away" =>
            viewer[v].chan \in Registered(viewer[v].home)
    BY DEF IInv, Watched, Registered
  <2> QED BY <2>1, <2>2 DEF Reachable
<1> QED BY <1>1, Invariant, PTL

-----------------------------------------------------------------------------
(* The bound on the channels tracked *)

Capped == IsFiniteSet(channels) /\ Cardinality(channels) <= MaxTracked

\* A sweep past the bound removes idle channels until it is met; when there are
\* not enough of them it removes the newest too, which is idle as long as
\* nobody has had it.
LEMMA SweptIsCapped ==
    ASSUME NEW known, NEW ch, NEW runs, NEW newest \in known,
           NEW kept \in Swept(known, ch, runs, newest),
           IsFiniteSet(known), Idle(ch, runs, newest)
    PROVE  newest \in kept => Cardinality(kept) <= MaxTracked
<1> SUFFICES ASSUME newest \in kept PROVE Cardinality(kept) <= MaxTracked
  OBVIOUS
<1> DEFINE fresh == {c \in known : ~IsSweepable(ch, runs, c)}
           idle == {c \in fresh : Idle(ch, runs, c)}
           excess == Cardinality(fresh) - MaxTracked
<1>1. PICK out \in SUBSET idle :
        /\ kept = fresh \ out
        /\ excess <= 0 => out = {}
        /\ excess > 0 => \/ Cardinality(out) = excess
                         \/ out = idle /\ Cardinality(idle) < excess
  BY DEF Swept
<1>2. newest \in fresh /\ newest \in idle /\ newest \notin out
  BY <1>1
<1>3. fresh \in SUBSET known /\ out \in SUBSET fresh
  OBVIOUS
<1> HIDE DEF fresh, idle
<1>4. IsFiniteSet(fresh) /\ Cardinality(fresh) \in Nat
  BY <1>3, FS_Subset, FS_CardinalityType
<1>5. CASE excess <= 0
  <2>1. kept = fresh
    BY <1>1, <1>5
  <2> QED BY <1>4, <1>5, <2>1, SizesAssumption
<1>6. CASE excess > 0
  <2>1. Cardinality(out) = excess
    BY <1>1, <1>2, <1>6
  <2>2. Cardinality(fresh \ out) = Cardinality(fresh) - Cardinality(fresh \cap out)
    BY <1>4, FS_Difference
  <2>3. fresh \cap out = out
    BY <1>3
  <2> QED BY <1>1, <1>4, <2>1, <2>2, <2>3, SizesAssumption
<1> QED BY <1>4, <1>5, <1>6, SizesAssumption

\* A channel is registered only if it fits.
LEMMA OpenedIsCapped ==
    ASSUME TypeOK, Capped, NEW t \in Threads, CanOpen(t), channels' \in Known(t)
    PROVE  Capped'
<1>1. CASE Registered(t) # {}
  BY <1>1 DEF Known, Capped
<1>2. CASE Registered(t) = {}
  <2>p. PICK c, known : c = ChannelFor(t) /\ known = channels \cup {c}
    OBVIOUS
  <2>1. channels' \in Swept(known, Opened(t), run, c) /\ c \in known
    BY <1>2, <2>p DEF Known
  <2>2. Idle(Opened(t), run, c)
    <3>1. Opened(t)[c] = ThreadChannel(t)
      BY <1>2, <2>p, OpenedType DEF Opened, TypeOK
    <3> QED BY <3>1 DEF ThreadChannel, Idle, Running
  <2>3. IsFiniteSet(known)
    BY <2>p, FS_AddElement DEF Capped
  <2>4. c \in channels' => Cardinality(channels') <= MaxTracked
    BY <2>1, <2>2, <2>3, SweptIsCapped
  <2>5. channels' \in SUBSET known
    BY <2>1, SweptKeeps
  <2>6. IsFiniteSet(channels') /\ Cardinality(channels') \in Nat
    BY <2>3, <2>5, FS_Subset, FS_CardinalityType
  <2>7. CASE c \notin channels'
    <3>1. channels' \in SUBSET channels
      BY <2>5, <2>7, <2>p
    <3>2. Cardinality(channels') <= Cardinality(channels) /\ Cardinality(channels) \in Nat
      BY <3>1, FS_Subset, FS_CardinalityType DEF Capped
    <3> QED BY <2>6, <3>2, SizesAssumption DEF Capped
  <2> QED BY <2>4, <2>6, <2>7 DEF Capped
<1> QED BY <1>1, <1>2

LEMMA NextIsCapped ==
    ASSUME TypeOK, Capped, [Next]_vars
    PROVE  Capped'
<1>1. ASSUME channels' \subseteq channels PROVE Capped'
  <2>1. channels' \in SUBSET channels /\ IsFiniteSet(channels)
    BY <1>1 DEF Capped
  <2>2. /\ IsFiniteSet(channels') /\ Cardinality(channels') <= Cardinality(channels)
        /\ Cardinality(channels') \in Nat /\ Cardinality(channels) \in Nat
    BY <2>1, FS_Subset, FS_CardinalityType
  <2> QED BY <2>2, SizesAssumption DEF Capped
<1>2. ASSUME NEW t \in Threads, Start(t) PROVE Capped'
  BY <1>2, OpenedIsCapped DEF Start
<1>3. ASSUME NEW t \in Threads, Cancel(t) \/ AnswerAsk(t) PROVE Capped'
  BY <1>1, <1>3 DEF Cancel, AnswerAsk
<1>4. ASSUME NEW r \in Runs, TurnStep(r) PROVE Capped'
  <2>1. CASE FirstStep(r) \/ EmitText(r) \/ EmitAudio(r) \/ Ask(r) \/ AskReturns(r)
    BY <1>1, <2>1 DEF FirstStep, EmitText, EmitAudio, Ask, AskReturns
  <2>2. CASE Finish(r) \/ Fail(r) \/ Unwind(r)
    <3>1. PICK objs, runs : channels' \in Swept(channels, objs, runs, None)
      BY <2>2 DEF Finish, Fail, Unwind, Settle
    <3>2. channels' \subseteq channels
      BY <3>1, SweptKeeps
    <3> QED BY <1>1, <3>2
  <2> QED BY <1>4, <2>1, <2>2 DEF TurnStep
<1>5. ASSUME NEW v \in Viewers, ViewerStep(v) PROVE Capped'
  <2>1. ASSUME NEW t \in Threads, Attach(v, t) PROVE Capped'
    BY <2>1, OpenedIsCapped DEF Attach
  <2>2. CASE \/ SendReplay(v) \/ GoLive(v) \/ HandshakeFails(v) \/ Pump(v)
             \/ Disconnect(v) \/ Reload(v)
    BY <1>1, <2>2 DEF SendReplay, GoLive, HandshakeFails, Pump, Disconnect, Reload
  <2> QED BY <1>5, <2>1, <2>2 DEF ViewerStep
<1>6. ASSUME NEW c \in Chans, Age(c) PROVE Capped'
  BY <1>1, <1>6 DEF Age
<1>7. CASE Restart
  BY <1>1, <1>7 DEF Restart
<1>8. CASE UNCHANGED vars
  BY <1>1, <1>8 DEF vars
<1> QED BY <1>2, <1>3, <1>4, <1>5, <1>6, <1>7, <1>8 DEF Next

\* The registry never tracks more than MAX_TRACKED_THREADS channels, whatever is
\* live: the channel that would be one too many is idle when _sweep looks at it
\* (turn_registry.py:229), so the bound never "stretches" and channel() returns
\* an object nobody finds again.  This is why OneWriter needs NoCap.
THEOREM NeverStretches == Spec => []Capped
<1>1. Init => Capped
  BY FS_EmptySet, SizesAssumption DEF Init, Capped
<1>2. TypeOK /\ Capped /\ [Next]_vars => Capped'
  BY NextIsCapped
<1> QED BY <1>1, <1>2, TypeCorrect, PTL DEF Spec

-----------------------------------------------------------------------------
(* The frames: what a ring, a queue and a replay hold *)

\* What may follow a frame of kind `a` in a ring.
Follows(a, b) == (a = "end" <=> b = "start") /\ (a = "ask" => b = "ask_resolved")

LastKind(ring) == ring[Len(ring)].kind

Rising(s) == \A i, j \in 1..Len(s) : i < j => s[i] < s[j]

Upto(s, n) == \A i \in 1..Len(s) : s[i] <= n

\* The ring of a channel is a chain of turns, in the order of its numbers.
Ringed(tc) ==
    /\ \A i \in 1..(Len(tc.ring) - 1) : Follows(tc.ring[i].kind, tc.ring[i + 1].kind)
    /\ \A i, j \in 1..Len(tc.ring) : i < j => tc.ring[i].seq < tc.ring[j].seq
    /\ \A i \in 1..Len(tc.ring) : tc.ring[i].seq <= tc.seq

\* The last frame of a channel says what its run is doing.
Phase(tc, runs, c) ==
    IF tc.run = None THEN tc.ring = <<>>
    ELSE /\ runs[tc.run].chan = c
         /\ tc.ring # <<>>
         /\ LastKind(tc.ring) = "end" <=> runs[tc.run].status # "running"
         /\ LastKind(tc.ring) = "ask" => runs[tc.run].ask # "none"
         /\ runs[tc.run].status = "running" => runs[tc.run].start <= tc.seq

\* The number n is on its way to the client w.
Due(w, n) ==
    \/ \E i \in 1..Len(w.replay) : w.replay[i] = n
    \/ n > w.last /\ \E i \in 1..Len(w.queue) : w.queue[i] = n

\* What an attached client has, and is sent, of a channel that counted to seq.
Follower(w, seq) ==
    /\ w.pc = "live" => w.replay = <<>>
    /\ Rising(w.replay) /\ Upto(w.replay, seq) /\ Upto(w.replay, w.last)
    /\ Rising(w.queue) /\ Upto(w.queue, seq)
    /\ w.honest => w.last <= seq /\ \A n \in w.owed : Due(w, n)
    /\ w.source = w.chan => /\ w.cursor <= w.last
                            /\ \A i \in 1..Len(w.replay) : w.cursor < w.replay[i]

\* A live turn is the run of its channel.
Bound ==
    \A r \in Runs : Unsettled(r) =>
        run[r].status = "running" /\ chan[run[r].chan].run = r

\* Only attached viewers are subscribed, each to the channel it is attached to.
Joined ==
    \A v \in Viewers, c \in Chans :
        v \in chan[c].subs <=> viewer[v].pc # "away" /\ viewer[v].chan = c

\* A channel in use is well formed.
Rings == \A c \in Chans : InUse(c) => Ringed(chan[c]) /\ Phase(chan[c], run, c)

\* A cursor came from a channel that has counted at least as far.
Marked ==
    \A v \in Viewers : viewer[v].source # None =>
        /\ viewer[v].cursor # None
        /\ InUse(viewer[v].source) => viewer[v].cursor <= chan[viewer[v].source].seq

\* An attached viewer is fed from its channel, any other from nothing.
Fed ==
    \A v \in Viewers :
        IF viewer[v].pc = "away" THEN viewer[v].queue = <<>>
        ELSE Follower(viewer[v], chan[viewer[v].chan].seq)

FInv == TypeOK /\ Bound /\ Joined /\ Rings /\ Marked /\ Fed

-----------------------------------------------------------------------------
(* Rings and queues as data *)

\* Emitting links the new frames to the last one kept, and the ring keeps its
\* newest frames in order.
LEMMA RungRinged ==
    ASSUME NEW tc \in ChanType, Ringed(tc), NEW kinds \in Seq(Kinds), kinds # <<>>,
           tc.ring # <<>> => Follows(LastKind(tc.ring), kinds[1]),
           \A i \in 1..(Len(kinds) - 1) : Follows(kinds[i], kinds[i + 1])
    PROVE  LET rung == Rung(tc, kinds) IN
           /\ Ringed(rung)
           /\ rung.seq = tc.seq + Len(kinds)
           /\ rung.ring # <<>> /\ LastKind(rung.ring) = kinds[Len(kinds)]
<1> DEFINE new == [i \in 1..Len(kinds) |-> [seq |-> tc.seq + i, kind |-> kinds[i]]]
           ring == tc.ring \o new
           m == Len(tc.ring)
           n == Len(kinds)
           k == Len(ring)
<1>1. n \in Nat /\ n > 0 /\ m \in Nat /\ tc.seq \in Nat /\ tc.ring \in Seq(Frame)
  BY EmptySeq DEF ChanType
<1>2. \A i \in 1..n : kinds[i] \in Kinds
  BY ElementOfSeq
<1>3. new \in Seq(Frame) /\ Len(new) = n
      /\ \A i \in 1..n : new[i].seq = tc.seq + i /\ new[i].kind = kinds[i]
  <2>1. new \in [1..n -> Frame]
    BY <1>1, <1>2 DEF Frame
  <2>2. \A i \in 1..n : new[i].seq = tc.seq + i /\ new[i].kind = kinds[i]
    OBVIOUS
  <2> HIDE DEF new
  <2>3. new \in Seq(Frame)
    BY <1>1, <2>1, FunctionIsSeq
  <2>4. Len(new) = n
    BY <1>1, <2>1, <2>3, LenProperties
  <2> QED BY <2>2, <2>3, <2>4
<1> HIDE DEF new
<1>4. /\ ring \in Seq(Frame) /\ k = m + n
      /\ \A i \in 1..(m + n) : ring[i] = IF i <= m THEN tc.ring[i] ELSE new[i - m]
  <2>1. /\ tc.ring \o new \in Seq(Frame) /\ Len(tc.ring \o new) = Len(tc.ring) + Len(new)
        /\ \A i \in 1..(Len(tc.ring) + Len(new)) :
              (tc.ring \o new)[i] = IF i <= Len(tc.ring) THEN tc.ring[i]
                                   ELSE new[i - Len(tc.ring)]
    <3>1. tc.ring \in Seq(Frame) /\ new \in Seq(Frame)
      BY <1>1, <1>3
    <3> HIDE DEF m, n
    <3> QED BY <3>1, ConcatProperties
  <2> QED BY <1>3, <2>1
<1> HIDE DEF ring
<1>L. \A i \in 1..m : i \in 1..(m + n) /\ ring[i] = tc.ring[i]
  BY <1>1, <1>4
<1>H. \A i \in 1..n : m + i \in 1..(m + n) /\ ring[m + i] = new[i]
  <2> SUFFICES ASSUME NEW i \in 1..n
               PROVE  m + i \in 1..(m + n) /\ ring[m + i] = new[i]
    OBVIOUS
  <2>1. m + i \in 1..(m + n) /\ ~(m + i <= m) /\ (m + i) - m = i
    BY <1>1
  <2> HIDE DEF m, n
  <2> QED BY <1>4, <2>1
<1>5. \A i \in 1..m : tc.ring[i].seq \in Nat /\ tc.ring[i].seq <= tc.seq
  <2>1. \A i \in 1..m : tc.ring[i] \in Frame
    BY <1>1, ElementOfSeq
  <2> QED BY <2>1 DEF Ringed, Frame
<1>6. \A i \in 1..(k - 1) : Follows(ring[i].kind, ring[i + 1].kind)
  <2> SUFFICES ASSUME NEW i \in 1..(k - 1)
               PROVE  Follows(ring[i].kind, ring[i + 1].kind)
    OBVIOUS
  <2>1. CASE i < m
    <3>1. i \in 1..(m - 1) /\ i \in 1..m /\ i + 1 \in 1..m
      BY <1>1, <2>1
    <3>2. ring[i] = tc.ring[i] /\ ring[i + 1] = tc.ring[i + 1]
      BY <1>L, <3>1
    <3> QED BY <3>1, <3>2 DEF Ringed
  <2>2. CASE i = m
    <3>0. m \in 1..m /\ 1 \in 1..n /\ m > 0
      BY <1>1, <2>2
    <3>1. ring[i] = tc.ring[m] /\ ring[i + 1] = new[1]
      BY <1>L, <1>H, <2>2, <3>0
    <3>2. tc.ring # <<>>
      BY <3>0
    <3>3. new[1].kind = kinds[1]
      BY <1>1, <1>3
    <3> QED BY <3>1, <3>2, <3>3 DEF LastKind
  <2>3. CASE i > m
    <3>0. /\ i - m \in 1..(n - 1) /\ (i - m) + 1 \in 1..n /\ i - m \in 1..n
          /\ m + (i - m) = i /\ m + ((i - m) + 1) = i + 1
      <4>1. m \in Nat /\ n \in Nat /\ i \in 1..(m + n - 1) /\ i > m
        BY <1>1, <1>4, <2>3
      <4> HIDE DEF m, n, k
      <4> QED BY <4>1
    <3>1. /\ ring[i] = new[i - m] /\ ring[i + 1] = new[(i - m) + 1]
          /\ i - m \in 1..(n - 1) /\ (i - m) + 1 \in 1..n /\ i - m \in 1..n
      <4> HIDE DEF m, n
      <4> QED BY <1>H, <3>0
    <3>2. Follows(kinds[i - m], kinds[(i - m) + 1])
      BY <3>1
    <3> QED BY <1>3, <3>1, <3>2
  <2> QED BY <1>1, <1>4, <2>1, <2>2, <2>3
<1>7. \A i \in 1..k : ring[i].seq \in Nat /\ ring[i].seq <= tc.seq + n
      /\ (i <= m => ring[i].seq = tc.ring[i].seq /\ ring[i].seq <= tc.seq)
      /\ (i > m => ring[i].seq = tc.seq + (i - m))
  <2> SUFFICES ASSUME NEW i \in 1..k
               PROVE  /\ ring[i].seq \in Nat /\ ring[i].seq <= tc.seq + n
                      /\ i <= m => ring[i].seq = tc.ring[i].seq /\ ring[i].seq <= tc.seq
                      /\ i > m => ring[i].seq = tc.seq + (i - m)
    OBVIOUS
  <2>1. CASE i <= m
    <3>1. i \in 1..m /\ ring[i] = tc.ring[i]
      BY <1>1, <1>L, <2>1
    <3>2. tc.ring[i].seq \in Nat /\ tc.ring[i].seq <= tc.seq
      BY <1>5, <3>1
    <3> HIDE DEF m, n
    <3> QED BY <1>1, <2>1, <3>1, <3>2
  <2>2. CASE i > m
    <3>0. i - m \in 1..n /\ m + (i - m) = i
      BY <1>1, <1>4, <2>2
    <3>1. ring[i] = new[i - m] /\ i - m \in 1..n
      BY <1>H, <3>0
    <3>2. ring[i].seq = tc.seq + (i - m)
      BY <1>3, <3>1
    <3> HIDE DEF m, n
    <3> QED BY <1>1, <2>2, <3>1, <3>2
  <2> QED BY <1>1, <1>4, <2>1, <2>2
<1>8. \A i, j \in 1..k : i < j => ring[i].seq < ring[j].seq
  <2> SUFFICES ASSUME NEW i \in 1..k, NEW j \in 1..k, i < j
               PROVE  ring[i].seq < ring[j].seq
    OBVIOUS
  <2>1. CASE j <= m
    <3>1. i \in 1..m /\ j \in 1..m
      BY <1>1, <2>1
    <3>2. tc.ring[i].seq < tc.ring[j].seq
      BY <3>1 DEF Ringed
    <3> QED BY <1>7, <2>1, <3>1, <3>2
  <2>2. CASE j > m
    <3>1. ring[j].seq = tc.seq + (j - m)
      BY <1>7, <2>2
    <3>2. CASE i <= m
      <4>1. ring[i].seq \in Nat /\ ring[i].seq <= tc.seq
        BY <1>7, <3>2
      <4> HIDE DEF m, n
      <4> QED BY <1>1, <2>2, <3>1, <4>1
    <3>3. CASE i > m
      <4>1. ring[i].seq = tc.seq + (i - m)
        BY <1>7, <3>3
      <4> HIDE DEF m, n
      <4> QED BY <1>1, <2>2, <3>1, <4>1
    <3> QED BY <1>1, <3>2, <3>3
  <2> QED BY <1>1, <2>1, <2>2
\* The kept part is a suffix, with at least the last frame.
<1>9. PICK d \in Nat : /\ d < k /\ Newest(ring) \in Seq(Frame) /\ Len(Newest(ring)) = k - d
                       /\ \A i \in 1..(k - d) : Newest(ring)[i] = ring[d + i]
  <2>1. CASE k > RingSize
    <3> DEFINE a == k - RingSize + 1
    <3>1. a \in Int /\ a >= 1 /\ a <= k /\ k \in Int
      BY <1>1, <1>4, <2>1, SizesAssumption
    <3>2. \A i \in a..k : ring[i] \in Frame
      BY <1>4, <3>1, ElementOfSeq
    <3>3. Newest(ring) = SubSeq(ring, a, k)
      BY <2>1 DEF Newest
    <3> HIDE DEF a
    <3>4. /\ SubSeq(ring, a, k) \in Seq(Frame)
          /\ Len(SubSeq(ring, a, k)) = k - a + 1
          /\ \A i \in 1..(k - a + 1) : SubSeq(ring, a, k)[i] = ring[a + i - 1]
      BY <3>1, <3>2, SubSeqProperties
    <3>5. a - 1 \in Nat /\ a - 1 < k /\ k - (a - 1) = k - a + 1
      BY <3>1
    <3>6. \A i \in 1..(k - (a - 1)) : (a - 1) + i = a + i - 1
      BY <3>1
    <3> QED BY <3>3, <3>4, <3>5, <3>6
  <2>2. CASE ~(k > RingSize)
    <3>1. Newest(ring) = ring /\ 0 < k
      BY <1>1, <1>4, <2>2 DEF Newest
    <3>2. 0 \in Nat /\ k - 0 = k /\ \A i \in 1..k : 0 + i = i
      BY <1>1, <1>4
    <3> QED BY <1>4, <3>1, <3>2
  <2> QED BY <2>1, <2>2
<1>10. Rung(tc, kinds).seq = tc.seq + n /\ Rung(tc, kinds).ring = Newest(ring)
  BY DEF Rung, ring, new, ChanType
<1>11. k \in Nat
  BY <1>1, <1>4
<1>12. Ringed(Rung(tc, kinds))
  <2> DEFINE kept == Newest(ring)
             l == k - d
  <2>1. l \in Nat /\ l > 0 /\ Len(kept) = l /\ \A i \in 1..l : kept[i] = ring[d + i]
    BY <1>9, <1>11
  <2>2. \A i \in 1..l : d + i \in 1..k
    BY <1>9, <1>11
  <2> HIDE DEF kept
  <2>3. \A i \in 1..(l - 1) : Follows(kept[i].kind, kept[i + 1].kind)
    <3> SUFFICES ASSUME NEW i \in 1..(l - 1)
                 PROVE  Follows(kept[i].kind, kept[i + 1].kind)
      OBVIOUS
    <3>1. /\ d + i \in 1..(k - 1) /\ i \in 1..l /\ i + 1 \in 1..l
          /\ d + (i + 1) = (d + i) + 1
      BY <1>9, <1>11
    <3>2. kept[i] = ring[d + i] /\ kept[i + 1] = ring[(d + i) + 1]
      BY <2>1, <3>1
    <3> QED BY <1>6, <3>1, <3>2
  <2>4. \A i, j \in 1..l : i < j => kept[i].seq < kept[j].seq
    <3> SUFFICES ASSUME NEW i \in 1..l, NEW j \in 1..l, i < j
                 PROVE  kept[i].seq < kept[j].seq
      OBVIOUS
    <3>1. d + i \in 1..k /\ d + j \in 1..k /\ d + i < d + j
      BY <1>9, <2>2
    <3> QED BY <1>8, <2>1, <3>1
  <2>5. \A i \in 1..l : kept[i].seq <= tc.seq + n
    BY <1>7, <2>1, <2>2
  <2>6. Rung(tc, kinds).ring = kept
    BY <1>10 DEF kept
  <2> HIDE DEF l
  <2> QED BY <1>10, <2>1, <2>3, <2>4, <2>5, <2>6 DEF Ringed
<1>13. Rung(tc, kinds).ring # <<>> /\ LastKind(Rung(tc, kinds).ring) = kinds[n]
  <2>1. k - d \in 1..(k - d) /\ k - d > 0 /\ d + (k - d) = k
    BY <1>9, <1>11
  <2>2. Newest(ring)[k - d] = ring[k]
    BY <1>9, <2>1
  <2>3. n \in 1..n /\ ring[k] = new[n]
    BY <1>1, <1>4, <1>H
  <2>4. Newest(ring) # <<>>
    BY <1>9, <2>1
  <2> QED BY <1>3, <1>9, <1>10, <2>2, <2>3, <2>4 DEF LastKind
<1> QED BY <1>10, <1>12, <1>13

\* A client that hears nothing still follows a channel that counts on.
LEMMA FollowsOn ==
    ASSUME NEW w \in ViewerType, NEW s \in Nat, NEW t \in Nat, Follower(w, s), s <= t
    PROVE  Follower(w, t)
<1>1. /\ w.replay \in Seq(Nat) /\ w.queue \in Seq(Nat) /\ w.last \in Nat
  BY DEF ViewerType
<1>2. \A n \in Nat : n <= s => n <= t
  OBVIOUS
<1>3. Upto(w.replay, t) /\ Upto(w.queue, t)
  <2>1. /\ \A i \in 1..Len(w.replay) : w.replay[i] \in Nat
        /\ \A i \in 1..Len(w.queue) : w.queue[i] \in Nat
    BY <1>1, ElementOfSeq
  <2> QED BY <1>2, <2>1 DEF Follower, Upto
<1> QED BY <1>1, <1>2, <1>3 DEF Follower

LEMMA Shifted ==
    ASSUME NEW m \in Nat, NEW n \in Nat, NEW s \in Nat, NEW x \in (s + 1)..(s + n)
    PROVE  m + (x - s) \in 1..(m + n) /\ m + (x - s) > m /\ (m + (x - s)) - m = x - s
OBVIOUS

\* The next numbers of the channel, put at the end of the queue.
LEMMA HearsMore ==
    ASSUME NEW w \in ViewerType, NEW s \in Nat, Follower(w, s), NEW n \in Nat, NEW owed,
           owed \subseteq w.owed \cup (s + 1)..(s + n),
           NEW new \in Seq(Nat), Len(new) = n, \A i \in 1..n : new[i] = s + i
    PROVE  Follower([w EXCEPT !.queue = w.queue \o new, !.owed = owed], s + n)
<1> DEFINE u == [w EXCEPT !.queue = w.queue \o new, !.owed = owed]
           queue == w.queue \o new
           m == Len(w.queue)
<1>1. /\ w.replay \in Seq(Nat) /\ w.queue \in Seq(Nat) /\ w.last \in Nat /\ m \in Nat
  BY DEF ViewerType
<1>3. /\ u.queue = queue /\ u.owed = owed /\ u.pc = w.pc /\ u.replay = w.replay
      /\ u.last = w.last /\ u.honest = w.honest /\ u.source = w.source /\ u.chan = w.chan
      /\ u.cursor = w.cursor
  <2>1. u = [w EXCEPT !.queue = queue, !.owed = owed]
    OBVIOUS
  <2> HIDE DEF queue
  <2> QED BY <2>1 DEF ViewerType
<1> HIDE DEF u
<1>4. /\ queue \in Seq(Nat) /\ Len(queue) = m + n
      /\ \A i \in 1..(m + n) : queue[i] = IF i <= m THEN w.queue[i] ELSE new[i - m]
  <2>1. /\ w.queue \o new \in Seq(Nat) /\ Len(w.queue \o new) = Len(w.queue) + Len(new)
        /\ \A i \in 1..(Len(w.queue) + Len(new)) :
              (w.queue \o new)[i] = IF i <= Len(w.queue) THEN w.queue[i]
                                    ELSE new[i - Len(w.queue)]
    <3>1. w.queue \in Seq(Nat) /\ new \in Seq(Nat)
      BY <1>1
    <3> HIDE DEF m
    <3> QED BY <3>1, ConcatProperties
  <2> QED BY <2>1
<1> HIDE DEF queue
<1>5. \A i \in 1..m : w.queue[i] \in Nat /\ w.queue[i] <= s
  <2>1. \A i \in 1..m : w.queue[i] \in Nat
    BY <1>1, ElementOfSeq
  <2> QED BY <2>1 DEF Follower, Upto
<1>6. \A i \in 1..m : i \in 1..(m + n) /\ queue[i] = w.queue[i]
  <2> SUFFICES ASSUME NEW i \in 1..m
               PROVE  i \in 1..(m + n) /\ queue[i] = w.queue[i]
    OBVIOUS
  <2> HIDE DEF m
  <2>1. i \in 1..(m + n) /\ i <= m
    BY <1>1
  <2> QED BY <1>4, <2>1
<1>7. \A i \in 1..(m + n) : i > m => queue[i] = s + (i - m)
  <2> SUFFICES ASSUME NEW i \in 1..(m + n), i > m
               PROVE  queue[i] = s + (i - m)
    OBVIOUS
  <2> HIDE DEF m
  <2>1. i - m \in 1..n /\ ~(i <= m)
    BY <1>1
  <2> QED BY <1>4, <2>1
<1>8. Rising(queue)
  <2> SUFFICES ASSUME NEW i \in 1..(m + n), NEW j \in 1..(m + n), i < j
               PROVE  queue[i] < queue[j]
    BY <1>4 DEF Rising
  <2> HIDE DEF m
  <2>1. CASE j <= m
    <3>1. i \in 1..m /\ j \in 1..m
      BY <1>1, <2>1
    <3>2. w.queue[i] < w.queue[j]
      BY <3>1 DEF Follower, Rising, m
    <3> QED BY <1>6, <3>1, <3>2
  <2>2. CASE j > m /\ i <= m
    <3>1. queue[j] = s + (j - m) /\ i \in 1..m
      BY <1>1, <1>7, <2>2
    <3>2. queue[i] \in Nat /\ queue[i] <= s
      BY <1>5, <1>6, <3>1
    <3> QED BY <1>1, <2>2, <3>1, <3>2
  <2>3. CASE j > m /\ i > m
    <3>1. queue[j] = s + (j - m) /\ queue[i] = s + (i - m)
      BY <1>7, <2>3
    <3> QED BY <1>1, <3>1
  <2> QED BY <1>1, <2>1, <2>2, <2>3
<1>9. Upto(queue, s + n)
  <2> SUFFICES ASSUME NEW i \in 1..(m + n)
               PROVE  queue[i] <= s + n
    BY <1>4 DEF Upto
  <2> HIDE DEF m
  <2>1. CASE i <= m
    <3>1. i \in 1..m
      BY <1>1, <2>1
    <3>2. queue[i] \in Nat /\ queue[i] <= s
      BY <1>5, <1>6, <3>1
    <3> QED BY <3>2
  <2>2. CASE i > m
    BY <1>1, <1>7, <2>2
  <2> QED BY <1>1, <2>1, <2>2
<1>10. Upto(w.replay, s + n)
  <2>1. \A i \in 1..Len(w.replay) : w.replay[i] \in Nat
    BY <1>1, ElementOfSeq
  <2> QED BY <2>1 DEF Follower, Upto
<1>11. ASSUME w.honest PROVE w.last <= s + n /\ \A x \in owed : Due(u, x)
  <2>1. w.last <= s /\ \A x \in w.owed : Due(w, x)
    BY <1>11 DEF Follower
  <2>2. ASSUME NEW x \in owed PROVE Due(u, x)
    <3>1. CASE x \in w.owed
      <4>1. CASE \E i \in 1..Len(w.replay) : w.replay[i] = x
        BY <1>3, <4>1 DEF Due
      <4>2. ASSUME x > w.last, NEW i \in 1..m, w.queue[i] = x PROVE Due(u, x)
        <5>1. i \in 1..Len(queue) /\ queue[i] = x
          BY <1>4, <1>6, <4>2
        <5> QED BY <1>3, <4>2, <5>1 DEF Due
      <4> QED BY <2>1, <3>1, <4>1, <4>2 DEF Due
    <3>2. CASE x \in (s + 1)..(s + n)
      <4> DEFINE i == m + (x - s)
      <4>1. x \in Int /\ i \in 1..(m + n) /\ i > m /\ i - m = x - s /\ x > w.last
        <5>1. i \in 1..(m + n) /\ i > m /\ i - m = x - s
          BY <1>1, <3>2, Shifted
        <5>2. w.last \in Nat /\ w.last <= s /\ x \in Int /\ s < x
          BY <1>1, <2>1, <3>2
        <5> HIDE DEF i, m
        <5> QED BY <5>1, <5>2
      <4>2. queue[i] = x
        <5>1. queue[i] = s + (i - m)
          BY <1>7, <4>1
        <5> HIDE DEF i
        <5> QED BY <4>1, <5>1
      <4> HIDE DEF i
      <4> QED BY <1>3, <1>4, <4>1, <4>2 DEF Due
    <3> QED BY <2>2, <3>1, <3>2
  <2>3. w.last \in Nat /\ w.last <= s
    BY <1>1, <2>1
  <2>4. w.last <= s + n
    BY <2>3
  <2> QED BY <2>2, <2>4
<1>12. u.pc = "live" => u.replay = <<>>
  BY <1>3 DEF Follower
<1>13. Rising(w.replay) /\ Upto(w.replay, w.last)
       /\ (w.source = w.chan => /\ w.cursor <= w.last
                                /\ \A i \in 1..Len(w.replay) : w.cursor < w.replay[i])
  BY DEF Follower
<1>14. Follower(u, s + n)
  BY <1>3, <1>8, <1>9, <1>10, <1>11, <1>12, <1>13 DEF Follower
<1> QED BY <1>14 DEF u

\* Fanning out n frames of a channel: its followers follow on, and nobody else
\* notices.
LEMMA HeardFollows ==
    ASSUME NEW clients \in [Viewers -> ViewerType], NEW tc \in ChanType, NEW n \in Nat,
           NEW ephemeral \in BOOLEAN, NEW v \in Viewers,
           NEW u, u = Heard(clients, tc, n, ephemeral)[v]
    PROVE  /\ v \notin tc.subs => u = clients[v]
           /\ u.source = clients[v].source /\ u.cursor = clients[v].cursor
           /\ u.pc = clients[v].pc /\ u.chan = clients[v].chan
           /\ Follower(clients[v], tc.seq) => Follower(u, tc.seq + n)
<1> DEFINE w == clients[v]
           new == [i \in 1..n |-> tc.seq + i]
           owed == IF ephemeral THEN w.owed ELSE w.owed \cup (tc.seq + 1)..(tc.seq + n)
           more == [w EXCEPT !.queue = w.queue \o new, !.owed = owed]
<1>1. w \in ViewerType /\ tc.seq \in Nat
  BY DEF ChanType
<1>2. /\ u = w \/ u = more
      /\ v \notin tc.subs => u = w
  BY DEF Heard
<1>3. CASE u = w
  <2>1. tc.seq + n \in Nat /\ tc.seq <= tc.seq + n
    BY <1>1
  <2>2. Follower(w, tc.seq) => Follower(w, tc.seq + n)
    <3> HIDE DEF w
    <3> QED BY <1>1, <2>1, FollowsOn
  <2> QED BY <1>3, <2>2
<1>4. CASE u = more
  <2>1. u.source = w.source /\ u.cursor = w.cursor /\ u.pc = w.pc /\ u.chan = w.chan
    <3> DEFINE queue == w.queue \o new
    <3>1. u = [w EXCEPT !.queue = queue, !.owed = owed]
      BY <1>4
    <3> HIDE DEF w, queue, owed
    <3> QED BY <1>1, <3>1 DEF ViewerType
  <2>2. owed \subseteq w.owed \cup (tc.seq + 1)..(tc.seq + n)
    OBVIOUS
  <2>3. Follower(w, tc.seq) => Follower(u, tc.seq + n)
    <3>1. u = [w EXCEPT !.queue = w.queue \o new, !.owed = owed]
      BY <1>4
    <3>2. new \in Seq(Nat) /\ Len(new) = n /\ \A i \in 1..n : new[i] = tc.seq + i
      <4>1. new \in [1..n -> Nat]
        BY <1>1
      <4>2. \A i \in 1..n : new[i] = tc.seq + i
        OBVIOUS
      <4> HIDE DEF new
      <4>3. new \in Seq(Nat)
        BY <4>1, FunctionIsSeq
      <4>4. Len(new) = n
        BY <4>1, <4>3, LenProperties
      <4> QED BY <4>2, <4>3, <4>4
    <3> SUFFICES ASSUME Follower(w, tc.seq) PROVE Follower(u, tc.seq + n)
      OBVIOUS
    <3> HIDE DEF w, owed, more, new
    <3>3. Follower([w EXCEPT !.queue = w.queue \o new, !.owed = owed], tc.seq + n)
      BY <1>1, <2>2, <3>2, HearsMore
    <3> QED BY <3>1, <3>3
  <2> QED BY <1>2, <2>1, <2>3
<1> QED BY <1>2, <1>3, <1>4

\* The gap: the frames of a ring above a number, all of them, in order.
LEMMA AfterGap ==
    ASSUME NEW ring \in Seq(Frame), NEW top \in Nat, NEW floor \in Nat,
           \A i, j \in 1..Len(ring) : i < j => ring[i].seq < ring[j].seq,
           \A i \in 1..Len(ring) : ring[i].seq <= top
    PROVE  LET missed == After(ring, floor) IN
           /\ missed \in Seq(Frame)
           /\ \A i, j \in 1..Len(missed) : i < j => missed[i].seq < missed[j].seq
           /\ \A i \in 1..Len(missed) : /\ missed[i].seq \in Nat /\ missed[i].seq <= top
                                        /\ floor < missed[i].seq
<1> DEFINE missed == After(ring, floor)
           n == Len(ring)
           below == {i \in 1..n : ring[i].seq <= floor}
           k == Cardinality(below)
<1>1. n \in Nat /\ \A i \in 1..n : ring[i].seq \in Nat
  <2>1. \A i \in 1..n : ring[i] \in Frame
    BY ElementOfSeq
  <2> QED BY <2>1, LenProperties DEF Frame
<1>2. IsFiniteSet(1..n) /\ below \in SUBSET (1..n)
  BY <1>1, FS_Interval
<1>3. IsFiniteSet(below)
  <2> HIDE DEF below
  <2> QED BY <1>2, FS_Subset
<1>4. k \in Nat
  <2> HIDE DEF below
  <2> QED BY <1>3, FS_CardinalityType
<1>5. \A i \in 1..n : i > k => floor < ring[i].seq
  <2> SUFFICES ASSUME NEW i \in 1..n, ~(floor < ring[i].seq)
               PROVE  ~(i > k)
    OBVIOUS
  <2>0. i \in Nat /\ ring[i].seq <= floor
    BY <1>1
  <2>1. \A j \in 1..i : j \in below
    <3> SUFFICES ASSUME NEW j \in 1..i
                 PROVE  j \in 1..n /\ ring[j].seq <= floor
      OBVIOUS
    <3>1. j \in 1..n /\ j <= i
      BY <1>1, <2>0
    <3>2. CASE j = i
      BY <2>0, <3>1, <3>2
    <3>3. CASE j < i
      <4>1. ring[j].seq < ring[i].seq
        BY <3>1, <3>3
      <4> QED BY <1>1, <2>0, <3>1, <4>1
    <3> QED BY <1>1, <3>1, <3>2, <3>3
  <2>2. 1..i \in SUBSET below
    BY <2>1
  <2>3. Cardinality(1..i) <= k
    <3> HIDE DEF below
    <3> QED BY <1>3, <2>2, FS_Subset
  <2>4. Cardinality(1..i) = i
    BY <2>0, FS_Interval
  <2> QED BY <1>4, <2>0, <2>3, <2>4
<1>6. missed = SubSeq(ring, k + 1, n)
  BY DEF After
<1> HIDE DEF k, below, missed
<1>7. /\ missed \in Seq(Frame)
      /\ Len(missed) = IF k + 1 <= n THEN n - (k + 1) + 1 ELSE 0
      /\ \A i \in 1..(n - (k + 1) + 1) : missed[i] = ring[(k + 1) + i - 1]
  <2>1. k + 1 \in Int /\ n \in Int
    BY <1>1, <1>4
  <2>2. \A i \in (k + 1)..n : ring[i] \in Frame
    BY <1>1, <1>4, ElementOfSeq
  <2> HIDE DEF n
  <2> QED BY <1>6, <2>1, <2>2, SubSeqProperties
<1> DEFINE m == Len(missed)
<1>8. m \in Nat /\ \A i \in 1..m : k + i \in 1..n /\ missed[i] = ring[k + i]
  <2>1. m \in Nat
    BY <1>7, LenProperties
  <2> SUFFICES ASSUME NEW i \in 1..m
               PROVE  k + i \in 1..n /\ missed[i] = ring[k + i]
    BY <2>1
  <2>2. k + 1 <= n /\ m = n - (k + 1) + 1
    BY <1>1, <1>4, <1>7
  <2> HIDE DEF m, n
  <2>3. k + i \in 1..n /\ i \in 1..(n - (k + 1) + 1) /\ (k + 1) + i - 1 = k + i
    BY <1>1, <1>4, <2>1, <2>2
  <2>4. missed[i] = ring[(k + 1) + i - 1]
    BY <1>7, <2>3
  <2> QED BY <2>3, <2>4
<1> HIDE DEF m, n
<1>9. \A i \in 1..m : missed[i].seq \in Nat /\ floor < missed[i].seq /\ missed[i].seq <= top
  <2> SUFFICES ASSUME NEW i \in 1..m
               PROVE  missed[i].seq \in Nat /\ floor < missed[i].seq /\ missed[i].seq <= top
    OBVIOUS
  <2>1. k + i \in 1..n /\ k + i > k /\ missed[i] = ring[k + i]
    BY <1>4, <1>8
  <2> QED BY <1>1, <1>5, <2>1 DEF n
<1>10. \A i, j \in 1..m : i < j => missed[i].seq < missed[j].seq
  <2> SUFFICES ASSUME NEW i \in 1..m, NEW j \in 1..m, i < j
               PROVE  missed[i].seq < missed[j].seq
    OBVIOUS
  <2>1. k + i \in 1..n /\ k + j \in 1..n /\ k + i < k + j
        /\ missed[i] = ring[k + i] /\ missed[j] = ring[k + j]
    BY <1>4, <1>8
  <2>2. ring[k + i].seq < ring[k + j].seq
    BY <2>1 DEF n
  <2> QED BY <2>1, <2>2
<1> QED BY <1>7, <1>9, <1>10 DEF m, missed

\* A client attaches: it is sent the gap and told where it ends.
LEMMA JoinsIn ==
    ASSUME NEW tc \in ChanType, Ringed(tc), NEW floor \in Nat,
           NEW missed, missed = After(tc.ring, floor),
           NEW u, u.pc = "handshake", u.queue = <<>>,
           u.replay \in Seq(Nat), Len(u.replay) = Len(missed),
           \A i \in 1..Len(missed) : u.replay[i] = missed[i].seq,
           u.last = IF missed = <<>> THEN floor ELSE missed[Len(missed)].seq,
           u.honest => /\ floor <= tc.seq
                       /\ \A n \in u.owed : \E i \in 1..Len(missed) : n = missed[i].seq,
           u.source = u.chan => u.cursor = floor
    PROVE  Follower(u, tc.seq)
<1> DEFINE m == Len(missed)
<1>1. tc.ring \in Seq(Frame) /\ tc.seq \in Nat
  BY DEF ChanType
<1>2. /\ missed \in Seq(Frame) /\ Len(u.replay) = m
      /\ Rising(u.replay) /\ Upto(u.replay, tc.seq)
      /\ \A i \in 1..Len(u.replay) : floor < u.replay[i]
  <2>1. /\ missed \in Seq(Frame)
        /\ \A i, j \in 1..m : i < j => missed[i].seq < missed[j].seq
        /\ \A i \in 1..m : /\ missed[i].seq \in Nat /\ missed[i].seq <= tc.seq
                          /\ floor < missed[i].seq
    <3>1. /\ \A i, j \in 1..Len(tc.ring) : i < j => tc.ring[i].seq < tc.ring[j].seq
          /\ \A i \in 1..Len(tc.ring) : tc.ring[i].seq <= tc.seq
      BY DEF Ringed
    <3> QED BY <1>1, <3>1, AfterGap
  <2> QED BY <2>1 DEF Rising, Upto
<1>3. m \in Nat /\ \A i \in 1..m : u.replay[i] = missed[i].seq /\ u.replay[i] \in Nat
  BY <1>2, LenProperties, ElementOfSeq
<1>4. Rising(u.queue) /\ Upto(u.queue, tc.seq)
  BY EmptySeq DEF Rising, Upto
<1>5. CASE missed = <<>>
  <2>1. m = 0 /\ u.last = floor
    BY <1>5, EmptySeq
  <2>2. 1..m = {}
    BY <2>1
  <2>3. u.owed = {} \/ ~u.honest
    BY <2>1
  <2>4. Upto(u.replay, u.last)
    BY <1>2, <2>2 DEF Upto
  <2>5. u.source = u.chan => u.cursor <= u.last
    BY <2>1
  <2>6. u.honest => u.last <= tc.seq /\ \A n \in u.owed : Due(u, n)
    BY <2>1, <2>3
  <2> QED BY <1>2, <1>4, <2>2, <2>4, <2>5, <2>6 DEF Follower
<1>6. CASE missed # <<>>
  <2>1. m \in 1..m /\ u.last = missed[m].seq
    BY <1>2, <1>6, EmptySeq
  <2>2. u.last = u.replay[m] /\ u.last \in Nat /\ u.last <= tc.seq /\ floor < u.last
    BY <1>2, <1>3, <2>1 DEF Upto
  <2>3. Upto(u.replay, u.last)
    <3> SUFFICES ASSUME NEW i \in 1..m PROVE u.replay[i] <= u.last
      BY <1>2 DEF Upto
    <3>1. CASE i = m
      BY <2>2, <3>1
    <3>2. CASE i < m
      <4>1. u.replay[i] < u.replay[m]
        BY <1>2, <2>1, <3>2 DEF Rising
      <4> QED BY <1>3, <2>2, <4>1
    <3> QED BY <1>3, <3>1, <3>2
  <2>4. ASSUME u.honest, NEW n \in u.owed PROVE Due(u, n)
    <3>1. PICK i \in 1..m : n = missed[i].seq
      BY <2>4
    <3> QED BY <1>2, <1>3, <3>1 DEF Due
  <2>5. ASSUME u.source = u.chan
        PROVE  u.cursor <= u.last /\ \A i \in 1..Len(u.replay) : u.cursor < u.replay[i]
    <3>1. u.cursor = floor /\ floor <= u.last
      BY <2>2, <2>5
    <3> QED BY <1>2, <3>1
  <2> QED BY <1>2, <1>4, <2>2, <2>3, <2>4, <2>5 DEF Follower
<1> QED BY <1>5, <1>6

\* The client renders the next frame of the gap.
LEMMA RendersGap ==
    ASSUME NEW w \in ViewerType, w.pc # "live", w.replay # <<>>, NEW s \in Nat, Follower(w, s),
           NEW u, u = [Rendered(w, Head(w.replay)) EXCEPT !.replay = Tail(w.replay)]
    PROVE  /\ Follower(u, s) /\ u.source = w.chan
           /\ u.cursor \in Nat /\ u.cursor <= s
           /\ w.source = w.chan => w.cursor < u.cursor
           /\ w.honest => \A m \in w.owed : m >= u.cursor
<1> DEFINE n == Head(w.replay)
           rest == Tail(w.replay)
<1>1. w.replay \in Seq(Nat) /\ w.queue \in Seq(Nat) /\ w.last \in Nat
  BY DEF ViewerType
<1>2. /\ n \in Nat /\ n = w.replay[1] /\ rest \in Seq(Nat) /\ Len(rest) = Len(w.replay) - 1
      /\ \A i \in 1..Len(rest) : rest[i] = w.replay[i + 1]
  BY <1>1, HeadTailProperties
<1>3. /\ u.pc = w.pc /\ u.chan = w.chan /\ u.replay = rest /\ u.last = w.last
      /\ u.owed = w.owed \ {n} /\ u.honest = w.honest /\ u.source = w.chan /\ u.cursor = n
      /\ u.queue = w.queue
  <2> HIDE DEF n, rest
  <2>1. u = [Rendered(w, n) EXCEPT !.replay = rest]
    BY DEF n, rest
  <2> QED BY <2>1 DEF Rendered, ViewerType
<1> HIDE DEF n, rest
<1>4. Len(w.replay) \in Nat /\ Len(rest) \in Nat /\ Len(w.replay) > 0
  BY <1>1, <1>2, EmptySeq, LenProperties
<1>5. 1 \in 1..Len(w.replay) /\ \A i \in 1..Len(rest) :
            i + 1 \in 1..Len(w.replay) /\ 1 < i + 1 /\ rest[i] \in Nat
  <2>1. \A i \in 1..Len(rest) : rest[i] \in Nat
    BY <1>2, ElementOfSeq
  <2>2. \A i \in 1..Len(rest) : i + 1 \in 1..Len(w.replay) /\ 1 < i + 1
    BY <1>2, <1>4
  <2>3. 1 \in 1..Len(w.replay)
    BY <1>4
  <2> QED BY <2>1, <2>2, <2>3
<1>6. Rising(rest) /\ Upto(rest, s) /\ Upto(rest, w.last)
  <2>1. \A i, j \in 1..Len(rest) : i < j => rest[i] < rest[j]
    <3> SUFFICES ASSUME NEW i \in 1..Len(rest), NEW j \in 1..Len(rest), i < j
                 PROVE  rest[i] < rest[j]
      OBVIOUS
    <3>1. i + 1 \in 1..Len(w.replay) /\ j + 1 \in 1..Len(w.replay) /\ i + 1 < j + 1
      BY <1>4, <1>5
    <3>2. w.replay[i + 1] < w.replay[j + 1]
      BY <3>1 DEF Follower, Rising
    <3> QED BY <1>2, <3>2
  <2> QED BY <1>2, <1>5, <2>1 DEF Follower, Rising, Upto
<1>7. n <= s /\ n <= w.last /\ \A i \in 1..Len(rest) : n < rest[i]
  BY <1>2, <1>5 DEF Follower, Rising, Upto
<1>8. ASSUME w.honest, NEW x \in w.owed \ {n} PROVE Due(u, x)
  <2>1. Due(w, x)
    BY <1>8 DEF Follower
  <2>2. CASE \E i \in 1..Len(w.replay) : w.replay[i] = x
    <3>1. PICK i \in 1..Len(w.replay) : w.replay[i] = x
      BY <2>2
    <3>2. i # 1
      BY <1>2, <1>8, <3>1
    <3>3. i - 1 \in 1..Len(rest) /\ (i - 1) + 1 = i
      BY <1>2, <1>4, <3>1, <3>2
    <3>4. rest[i - 1] = x
      BY <1>2, <3>1, <3>3
    <3> QED BY <1>3, <3>3, <3>4 DEF Due
  <2>3. CASE x > w.last /\ \E i \in 1..Len(w.queue) : w.queue[i] = x
    BY <1>3, <2>3 DEF Due
  <2> QED BY <2>1, <2>2, <2>3 DEF Due
<1>9. Follower(u, s)
  BY <1>3, <1>6, <1>7, <1>8 DEF Follower
<1>10. w.source = w.chan => w.cursor < n
  BY <1>2, <1>5 DEF Follower
<1>11. ASSUME w.honest, NEW x \in w.owed PROVE x >= n
  <2>1. Due(w, x) /\ w.last \in Nat
    BY <1>1, <1>11 DEF Follower
  <2>2. CASE \E i \in 1..Len(w.replay) : w.replay[i] = x
    <3>1. PICK i \in 1..Len(w.replay) : w.replay[i] = x
      BY <2>2
    <3>2. CASE i = 1
      BY <1>2, <3>1, <3>2
    <3>3. CASE 1 < i
      <4>1. w.replay[1] < w.replay[i]
        BY <1>5, <3>3 DEF Follower, Rising
      <4>2. x \in Nat
        BY <1>11 DEF ViewerType
      <4> QED BY <1>2, <3>1, <4>1, <4>2
    <3> QED BY <1>4, <3>2, <3>3
  <2>3. CASE x > w.last
    <3>1. x \in Nat
      BY <1>11 DEF ViewerType
    <3> QED BY <1>2, <1>7, <2>1, <2>3, <3>1
  <2> QED BY <2>1, <2>2, <2>3 DEF Due
<1> QED BY <1>2, <1>3, <1>7, <1>9, <1>10, <1>11

\* The pump takes a number off the queue: one that was in the gap is dropped,
\* any other is rendered.
LEMMA Pumps ==
    ASSUME NEW w \in ViewerType, w.pc = "live", w.queue # <<>>, NEW s \in Nat, Follower(w, s),
           w.source = w.chan => w.cursor # None, NEW n, n = Head(w.queue),
           NEW u, n <= w.last => u = [w EXCEPT !.queue = Tail(w.queue)],
           ~(n <= w.last) => u = [Rendered(w, n) EXCEPT !.queue = Tail(w.queue), !.last = n]
    PROVE  /\ Follower(u, s)
           /\ u.cursor # w.cursor \/ u.source # w.source =>
                /\ u.source = w.chan /\ u.cursor \in Nat /\ u.cursor <= s
                /\ w.source = w.chan => w.cursor < u.cursor
                /\ w.honest => \A m \in w.owed : m >= u.cursor
<1> DEFINE rest == Tail(w.queue)
<1>1. /\ w.replay \in Seq(Nat) /\ w.queue \in Seq(Nat) /\ w.last \in Nat
      /\ w.cursor \in Nat \cup {None}
  BY DEF ViewerType
<1>2. /\ n \in Nat /\ n = w.queue[1] /\ rest \in Seq(Nat) /\ Len(rest) = Len(w.queue) - 1
      /\ \A i \in 1..Len(rest) : rest[i] = w.queue[i + 1]
  BY <1>1, HeadTailProperties
<1> HIDE DEF rest
<1>3. Len(w.queue) \in Nat /\ Len(rest) \in Nat /\ Len(w.queue) > 0
  BY <1>1, <1>2, EmptySeq, LenProperties
<1>4. 1 \in 1..Len(w.queue) /\ \A i \in 1..Len(rest) :
            i + 1 \in 1..Len(w.queue) /\ 1 < i + 1 /\ rest[i] \in Nat
  <2>1. \A i \in 1..Len(rest) : rest[i] \in Nat
    BY <1>2, ElementOfSeq
  <2>2. \A i \in 1..Len(rest) : i + 1 \in 1..Len(w.queue) /\ 1 < i + 1
    BY <1>2, <1>3
  <2>3. 1 \in 1..Len(w.queue)
    BY <1>3
  <2> QED BY <2>1, <2>2, <2>3
<1>5. Rising(rest) /\ Upto(rest, s)
  <2>1. \A i, j \in 1..Len(rest) : i < j => rest[i] < rest[j]
    <3> SUFFICES ASSUME NEW i \in 1..Len(rest), NEW j \in 1..Len(rest), i < j
                 PROVE  rest[i] < rest[j]
      OBVIOUS
    <3>1. i + 1 \in 1..Len(w.queue) /\ j + 1 \in 1..Len(w.queue) /\ i + 1 < j + 1
      BY <1>3, <1>4
    <3>2. w.queue[i + 1] < w.queue[j + 1]
      BY <3>1 DEF Follower, Rising
    <3> QED BY <1>2, <3>2
  <2> QED BY <1>2, <1>4, <2>1 DEF Follower, Rising, Upto
<1>6. n <= s /\ \A i \in 1..Len(rest) : n < rest[i]
  BY <1>2, <1>4 DEF Follower, Rising, Upto
<1>7. ASSUME w.honest, NEW x \in w.owed, x # n \/ n <= w.last
      PROVE  x > w.last /\ \E i \in 1..Len(rest) : rest[i] = x
  <2>1. Due(w, x) /\ w.replay = <<>>
    BY <1>7 DEF Follower
  <2>2. x > w.last /\ \E i \in 1..Len(w.queue) : w.queue[i] = x
    BY <2>1, EmptySeq DEF Due
  <2>3. PICK i \in 1..Len(w.queue) : w.queue[i] = x
    BY <2>2
  <2>4. i # 1
    BY <1>1, <1>2, <1>7, <2>2, <2>3
  <2>5. i - 1 \in 1..Len(rest) /\ (i - 1) + 1 = i
    BY <1>2, <1>3, <2>3, <2>4
  <2>6. rest[i - 1] = x
    BY <1>2, <2>3, <2>5
  <2> QED BY <2>2, <2>5, <2>6
<1>8. CASE n <= w.last
  <2>1. u = [w EXCEPT !.queue = rest]
    BY <1>8 DEF rest
  <2>2. /\ u.pc = w.pc /\ u.chan = w.chan /\ u.replay = w.replay /\ u.last = w.last
        /\ u.owed = w.owed /\ u.honest = w.honest /\ u.source = w.source
        /\ u.cursor = w.cursor /\ u.queue = rest
    BY <2>1 DEF ViewerType
  <2>3. ASSUME w.honest, NEW x \in w.owed PROVE Due(u, x)
    BY <1>7, <1>8, <2>2, <2>3 DEF Due
  <2>4. Follower(u, s)
    BY <1>5, <2>2, <2>3 DEF Follower
  <2> QED BY <2>2, <2>4
<1>9. CASE ~(n <= w.last)
  <2>1. u = [Rendered(w, n) EXCEPT !.queue = rest, !.last = n]
    BY <1>9 DEF rest
  <2>2. /\ u.pc = w.pc /\ u.chan = w.chan /\ u.replay = w.replay /\ u.last = n
        /\ u.owed = w.owed \ {n} /\ u.honest = w.honest /\ u.source = w.chan
        /\ u.cursor = n /\ u.queue = rest
    BY <2>1 DEF Rendered, ViewerType
  <2>3. ASSUME w.honest, NEW x \in w.owed \ {n} PROVE Due(u, x)
    <3>1. PICK i \in 1..Len(rest) : rest[i] = x
      BY <1>7, <2>3
    <3>2. x > n
      BY <1>2, <1>4, <1>6, <3>1
    <3> QED BY <2>2, <3>1, <3>2 DEF Due
  <2>4. w.replay = <<>> /\ 1..Len(w.replay) = {}
    BY EmptySeq DEF Follower
  <2>5. Upto(w.replay, n) /\ n <= n
    BY <1>2, <2>4 DEF Upto
  <2>6. Follower(u, s)
    BY <1>5, <1>6, <2>2, <2>3, <2>4, <2>5 DEF Follower
  <2>7. w.source = w.chan => w.cursor < n
    <3> SUFFICES ASSUME w.source = w.chan, w.cursor <= w.last PROVE w.cursor < n
      BY DEF Follower
    <3> QED BY <1>1, <1>2, <1>9
  <2>8. ASSUME w.honest, NEW x \in w.owed PROVE x >= n
    <3>1. CASE x = n
      BY <1>2, <3>1
    <3>2. CASE x # n
      <4>1. PICK i \in 1..Len(rest) : rest[i] = x
        BY <1>7, <2>8, <3>2
      <4> QED BY <1>2, <1>4, <1>6, <4>1
    <3> QED BY <3>1, <3>2
  <2> QED BY <1>2, <1>6, <2>2, <2>6, <2>7, <2>8
<1> QED BY <1>8, <1>9

-----------------------------------------------------------------------------
(* Steps of a turn *)

\* A turn that is alive emits n frames and may settle; channels that nobody
\* uses may be forgotten.
LEMMA TurnFrames ==
    ASSUME FInv, TypeOK', NEW r \in Runs, Unsettled(r), NEW c, run[r].chan = c, NEW n \in Nat, NEW ephemeral \in BOOLEAN,
           viewer' = Heard(viewer, chan[c], n, ephemeral),
           channels' \subseteq channels,
           \A s \in Runs : Unsettled(s)' => /\ Unsettled(s) /\ run'[s].status = run[s].status
                                            /\ run'[s].chan = run[s].chan,
           \A s \in Runs : s # r => run'[s] = run[s],
           \/ /\ chan'[c].subs = chan[c].subs
              /\ chan'[c].run = chan[c].run
              /\ chan'[c].seq = chan[c].seq + n
              /\ Ringed(chan'[c]) /\ Phase(chan'[c], run', c)
           \/ chan[c].subs = {} /\ ~InUse(c)',
           \A d \in Chans : d # c =>
              \/ chan'[d] = chan[d]
              \/ chan[d].subs = {} /\ ~InUse(d)'
    PROVE  FInv'
<1> DEFINE tc == chan[c]
           Kept == /\ chan'[c].subs = chan[c].subs /\ chan'[c].run = chan[c].run
                   /\ chan'[c].seq = chan[c].seq + n
                   /\ Ringed(chan'[c]) /\ Phase(chan'[c], run', c)
<1>1. /\ c \in Chans /\ chan \in [Chans -> ChanType] /\ tc \in ChanType
      /\ viewer \in [Viewers -> ViewerType] /\ channels \subseteq Chans
  BY DEF FInv, TypeOK
<1>2. run[r].status = "running" /\ tc.run = r /\ InUse(c)
  BY <1>1 DEF FInv, Bound, InUse
<1>k. Kept \/ (chan[c].subs = {} /\ ~InUse(c)')
  OBVIOUS
<1> HIDE DEF Kept
<1>3. \A d \in Chans : InUse(d)' => InUse(d) /\ (IF d = c THEN Kept ELSE chan'[d] = chan[d])
  <2> SUFFICES ASSUME NEW d \in Chans, InUse(d)'
               PROVE  InUse(d) /\ (IF d = c THEN Kept ELSE chan'[d] = chan[d])
    OBVIOUS
  <2>1. CASE d = c
    BY <1>2, <1>k, <2>1
  <2>2. CASE d # c
    <3>1. chan'[d] = chan[d]
      BY <2>2
    <3>2. d \in channels' => d \in channels
      OBVIOUS
    <3> QED BY <2>2, <3>1, <3>2 DEF InUse
  <2> QED BY <2>1, <2>2
<1>s. \A d \in Chans : chan'[d].subs = chan[d].subs
  BY <1>k DEF InUse, Kept
<1>4. \A v \in Viewers : LET u == viewer'[v] IN
            /\ v \notin tc.subs => u = viewer[v]
            /\ u.source = viewer[v].source /\ u.cursor = viewer[v].cursor
            /\ u.pc = viewer[v].pc /\ u.chan = viewer[v].chan
            /\ Follower(viewer[v], tc.seq) => Follower(u, tc.seq + n)
  <2> SUFFICES ASSUME NEW v \in Viewers
               PROVE  LET u == viewer'[v] IN
                      /\ v \notin tc.subs => u = viewer[v]
                      /\ u.source = viewer[v].source /\ u.cursor = viewer[v].cursor
                      /\ u.pc = viewer[v].pc /\ u.chan = viewer[v].chan
                      /\ Follower(viewer[v], tc.seq) => Follower(u, tc.seq + n)
    OBVIOUS
  <2>1. viewer'[v] = Heard(viewer, tc, n, ephemeral)[v]
    OBVIOUS
  <2> HIDE DEF tc
  <2> QED BY <1>1, <2>1, HeardFollows
<1>a. \A v \in Viewers : /\ viewer'[v].source = viewer[v].source
                         /\ viewer'[v].cursor = viewer[v].cursor
                         /\ viewer'[v].pc = viewer[v].pc /\ viewer'[v].chan = viewer[v].chan
  BY <1>4
<1>5. Bound'
  <2> SUFFICES ASSUME NEW s \in Runs, Unsettled(s)'
               PROVE  run'[s].status = "running" /\ chan'[run'[s].chan].run = s
    BY DEF Bound
  <2>1. Unsettled(s) /\ run'[s].status = run[s].status /\ run'[s].chan = run[s].chan
    OBVIOUS
  <2>2. run[s].status = "running" /\ chan[run[s].chan].run = s /\ run[s].chan \in Chans
    BY <2>1 DEF FInv, Bound, TypeOK
  <2>3. InUse(run[s].chan)'
    BY <2>1 DEF InUse
  <2>4. chan'[run[s].chan].run = chan[run[s].chan].run
    BY <1>3, <2>2, <2>3 DEF Kept
  <2> QED BY <2>1, <2>2, <2>4
<1>6. Joined'
  <2> SUFFICES ASSUME NEW v \in Viewers, NEW d \in Chans
               PROVE  v \in chan'[d].subs <=> viewer'[v].pc # "away" /\ viewer'[v].chan = d
    BY DEF Joined
  <2>1. v \in chan[d].subs <=> viewer[v].pc # "away" /\ viewer[v].chan = d
    BY DEF FInv, Joined
  <2>2. chan'[d].subs = chan[d].subs
    BY <1>s
  <2> QED BY <1>a, <2>1, <2>2
<1>7. Rings'
  <2> SUFFICES ASSUME NEW d \in Chans, InUse(d)', d # c
               PROVE  Ringed(chan'[d]) /\ Phase(chan'[d], run', d)
    BY <1>3 DEF Rings, Kept
  <2>1. InUse(d) /\ chan'[d] = chan[d]
    BY <1>3
  <2>2. Ringed(chan[d]) /\ Phase(chan[d], run, d)
    BY <2>1 DEF FInv, Rings
  <2>3. chan[d].run # None => chan[d].run # r /\ run'[chan[d].run] = run[chan[d].run]
    <3>1. chan[d].run \in Runs \cup {None}
      BY <1>1 DEF ChanType
    <3> QED BY <2>2, <3>1 DEF Phase
  <2>4. Phase(chan[d], run', d)
    BY <2>2, <2>3 DEF Phase
  <2> QED BY <2>1, <2>2, <2>4
<1>8. Marked'
  <2> SUFFICES ASSUME NEW v \in Viewers, NEW d, viewer'[v].source = d, d # None
               PROVE  /\ viewer'[v].cursor # None
                      /\ InUse(d)' => viewer'[v].cursor <= chan'[d].seq
    BY DEF Marked
  <2>1. /\ viewer[v].source = d /\ viewer'[v].cursor = viewer[v].cursor
        /\ d \in Chans /\ viewer[v].cursor # None /\ viewer[v].cursor \in Nat \cup {None}
    <3>1. viewer[v] \in ViewerType
      BY <1>1
    <3>2. viewer[v].source = d /\ viewer'[v].cursor = viewer[v].cursor
      BY <1>a
    <3>3. d \in Chans \cup {None} /\ viewer[v].cursor \in Nat \cup {None}
      BY <3>1, <3>2 DEF ViewerType
    <3>4. viewer[v].cursor # None
      BY <3>2 DEF FInv, Marked
    <3> QED BY <3>2, <3>3, <3>4
  <2>2. ASSUME InUse(d)' PROVE viewer[v].cursor <= chan'[d].seq
    <3>1. viewer[v].cursor <= chan[d].seq
      <4>1. InUse(d)
        BY <1>3, <2>1, <2>2
      <4> QED BY <2>1, <4>1 DEF FInv, Marked
    <3>2. CASE d = c
      <4>1. chan'[d].seq = chan[d].seq + n /\ chan[d].seq \in Nat
        BY <1>1, <1>3, <2>2, <3>2 DEF ChanType, Kept
      <4> QED BY <2>1, <3>1, <4>1
    <3>3. CASE d # c
      <4>1. chan'[d] = chan[d]
        BY <1>3, <2>1, <2>2, <3>3
      <4> QED BY <3>1, <4>1
    <3> QED BY <3>2, <3>3
  <2> QED BY <2>1, <2>2
<1>9. Fed'
  <2> SUFFICES ASSUME NEW v \in Viewers
               PROVE  IF viewer'[v].pc = "away" THEN viewer'[v].queue = <<>>
                      ELSE Follower(viewer'[v], chan'[viewer'[v].chan].seq)
    BY DEF Fed
  <2>1. IF viewer[v].pc = "away" THEN viewer[v].queue = <<>>
        ELSE Follower(viewer[v], chan[viewer[v].chan].seq)
    BY DEF FInv, Fed
  <2>2. v \in tc.subs <=> viewer[v].pc # "away" /\ viewer[v].chan = c
    BY <1>1 DEF FInv, Joined
  <2>3. CASE v \in tc.subs
    <3>1. viewer[v].pc # "away" /\ viewer[v].chan = c
      BY <2>2, <2>3
    <3>2. Follower(viewer'[v], tc.seq + n)
      BY <1>4, <2>1, <3>1
    <3>3. viewer'[v].pc # "away" /\ chan'[viewer'[v].chan].seq = tc.seq + n
      BY <1>a, <1>k, <2>3, <3>1 DEF Kept
    <3> QED BY <3>2, <3>3
  <2>4. CASE v \notin tc.subs
    <3>1. viewer'[v] = viewer[v]
      BY <1>4, <2>4
    <3>2. ASSUME viewer[v].pc # "away"
          PROVE  chan'[viewer[v].chan] = chan[viewer[v].chan]
      <4>1. viewer[v].chan \in Chans /\ viewer[v].chan # c
        BY <2>2, <2>4, <3>2 DEF FInv, TypeOK
      <4>2. v \in chan[viewer[v].chan].subs
        BY <3>2, <4>1 DEF FInv, Joined
      <4> QED BY <4>1, <4>2
    <3> QED BY <2>1, <3>1, <3>2
  <2> QED BY <2>3, <2>4
<1> QED BY <1>5, <1>6, <1>7, <1>8, <1>9 DEF FInv

\* A step that touches neither frames nor viewers.
LEMMA QuietFrames ==
    ASSUME FInv, TypeOK', viewer' = viewer, channels' = channels,
           \A c \in Chans : /\ chan'[c].run = chan[c].run /\ chan'[c].subs = chan[c].subs
                            /\ chan'[c].seq = chan[c].seq /\ chan'[c].ring = chan[c].ring,
           \A s \in Runs : /\ Unsettled(s)' => Unsettled(s)
                           /\ run'[s].status = run[s].status /\ run'[s].chan = run[s].chan
                           /\ run'[s].start = run[s].start
                           /\ run[s].ask # "none" => run'[s].ask # "none"
    PROVE  FInv'
<1>1. \A c \in Chans : InUse(c)' => InUse(c)
  BY DEF InUse
<1>2. Bound'
  <2> SUFFICES ASSUME NEW s \in Runs, Unsettled(s)'
               PROVE  run'[s].status = "running" /\ chan'[run'[s].chan].run = s
    BY DEF Bound
  <2>1. Unsettled(s) /\ run[s].chan \in Chans
    BY DEF FInv, TypeOK
  <2> QED BY <2>1 DEF FInv, Bound
<1>3. Joined'
  BY DEF FInv, Joined
<1>4. Rings'
  <2> SUFFICES ASSUME NEW c \in Chans, InUse(c)'
               PROVE  Ringed(chan'[c]) /\ Phase(chan'[c], run', c)
    BY DEF Rings
  <2>1. Ringed(chan[c]) /\ Phase(chan[c], run, c)
    BY <1>1 DEF FInv, Rings
  <2>2. chan[c].run \in Runs \cup {None}
    BY DEF FInv, TypeOK, ChanType
  <2>3. Ringed(chan'[c])
    BY <2>1 DEF Ringed
  <2>4. Phase(chan'[c], run', c)
    BY <2>1, <2>2 DEF Phase
  <2> QED BY <2>3, <2>4
<1>5. Marked'
  <2> SUFFICES ASSUME NEW v \in Viewers, NEW d, viewer[v].source = d, d # None
               PROVE  viewer[v].cursor # None /\ (InUse(d)' => viewer[v].cursor <= chan'[d].seq)
    BY DEF Marked
  <2>1. d \in Chans
    BY DEF FInv, TypeOK, ViewerType
  <2> QED BY <1>1, <2>1 DEF FInv, Marked
<1>6. Fed'
  <2> SUFFICES ASSUME NEW v \in Viewers
               PROVE  IF viewer[v].pc = "away" THEN viewer[v].queue = <<>>
                      ELSE Follower(viewer[v], chan'[viewer[v].chan].seq)
    BY DEF Fed
  <2>1. viewer[v].pc # "away" => viewer[v].chan \in Chans
    BY DEF FInv, TypeOK
  <2> QED BY <2>1 DEF FInv, Fed
<1> QED BY <1>2, <1>3, <1>4, <1>5, <1>6 DEF FInv

\* The last frame of a channel whose turn is alive, and what may follow it.
LEMMA LiveRing ==
    ASSUME FInv, NEW r \in Runs, Unsettled(r)
    PROVE  LET tc == chan[run[r].chan] IN
           /\ run[r].chan \in Chans /\ tc \in ChanType /\ tc.run = r /\ Ringed(tc)
           /\ tc.ring # <<>> /\ LastKind(tc.ring) # "end"
           /\ LastKind(tc.ring) = "ask" => run[r].ask # "none"
           /\ run[r].start \in Nat /\ run[r].start <= tc.seq /\ tc.seq \in Nat
           /\ run[r].status = "running"
<1> DEFINE c == run[r].chan
<1>1. c \in Chans /\ chan[c] \in ChanType /\ run[r] \in RunType
  BY DEF FInv, TypeOK
<1>2. run[r].status = "running" /\ chan[c].run = r /\ r # None
  BY NoneAssumption DEF FInv, Bound
<1>3. Ringed(chan[c]) /\ Phase(chan[c], run, c)
  BY <1>1 DEF FInv, Rings, InUse
<1>4. chan[c].seq \in Nat /\ run[r].start \in Nat
  BY <1>1 DEF ChanType, RunType
<1> QED BY <1>1, <1>2, <1>3, <1>4 DEF Phase

\* A live turn emits frames, none of which ends it.
LEMMA EmitFrames ==
    ASSUME FInv, TypeOK', NEW r \in Runs, Unsettled(r), NEW kinds \in Seq(Kinds), kinds # <<>>,
           Emit(r, kinds), channels' = channels,
           \A i \in 1..(Len(kinds) - 1) : Follows(kinds[i], kinds[i + 1]),
           Follows(LastKind(chan[run[r].chan].ring), kinds[1]),
           kinds[Len(kinds)] # "end",
           \A s \in Runs : s # r => run'[s] = run[s],
           run'[r].task = run[r].task, run'[r].status = run[r].status,
           run'[r].chan = run[r].chan, run'[r].start = run[r].start,
           kinds[Len(kinds)] = "ask" => run'[r].ask # "none"
    PROVE  FInv'
<1> DEFINE c == run[r].chan
           tc == chan[c]
           rung == Rung(tc, kinds)
           n == Len(kinds)
<1>1. /\ c \in Chans /\ tc \in ChanType /\ tc.run = r /\ Ringed(tc) /\ tc.ring # <<>>
      /\ run[r].start \in Nat /\ run[r].start <= tc.seq /\ tc.seq \in Nat
      /\ run[r].status = "running" /\ n \in Nat
  BY LiveRing, LenProperties
<1>2. Ringed(rung) /\ rung.seq = tc.seq + n /\ rung.ring # <<>> /\ LastKind(rung.ring) = kinds[n]
  <2>1. Follows(LastKind(tc.ring), kinds[1])
    OBVIOUS
  <2> HIDE DEF tc
  <2> QED BY <1>1, <2>1, RungRinged
<1>3. rung.run = tc.run /\ rung.subs = tc.subs
  <2> HIDE DEF tc
  <2> QED BY <1>1, RungType
<1>4. chan' = [chan EXCEPT ![c] = rung] /\ viewer' = Heard(viewer, tc, n, FALSE)
  BY DEF Emit
<1> HIDE DEF rung
<1>5. chan'[c] = rung /\ \A d \in Chans : d # c => chan'[d] = chan[d]
  BY <1>1, <1>4 DEF FInv, TypeOK
<1>6. Phase(rung, run', c)
  <2>1. run[r].start <= rung.seq
    BY <1>1, <1>2
  <2>2. r # None
    BY NoneAssumption
  <2> QED BY <1>1, <1>2, <1>3, <2>1, <2>2 DEF Phase
<1>7. \A s \in Runs : Unsettled(s)' => /\ Unsettled(s) /\ run'[s].status = run[s].status
                                       /\ run'[s].chan = run[s].chan
  BY DEF Unsettled
<1>8. /\ chan'[c].subs = chan[c].subs /\ chan'[c].run = chan[c].run
      /\ chan'[c].seq = chan[c].seq + n
      /\ Ringed(chan'[c]) /\ Phase(chan'[c], run', c)
  BY <1>2, <1>3, <1>5, <1>6
<1> HIDE DEF n
<1> QED
  <2>1. viewer' = Heard(viewer, chan[c], n, FALSE) /\ channels' \subseteq channels
    BY <1>4
  <2>2. c = run[r].chan
    OBVIOUS
  <2>3. FALSE \in BOOLEAN
    OBVIOUS
  <2> HIDE DEF c
  <2> QED BY <1>1, <1>5, <1>7, <1>8, <2>1, <2>2, <2>3, TurnFrames

\* A live turn emits its last frames and settles; the sweep forgets only
\* channels that nobody uses.
LEMMA SettleFrames ==
    ASSUME FInv, TypeOK', NEW r \in Runs, run[r].task = "body",
           NEW kinds \in Seq(Kinds), kinds # <<>>,
           NEW status \in Statuses, status # "running", Settle(r, status, kinds),
           \A i \in 1..(Len(kinds) - 1) : Follows(kinds[i], kinds[i + 1]),
           Follows(LastKind(chan[run[r].chan].ring), kinds[1]),
           kinds[Len(kinds)] = "end"
    PROVE  FInv'
<1>p. PICK c : c = run[r].chan
  OBVIOUS
<1> DEFINE tc == chan[c]
           rung == Rung(tc, kinds)
           n == Len(kinds)
           young == [rung EXCEPT !.old = FALSE]
           objs == [chan EXCEPT ![c] = young]
<1>0. Unsettled(r)
  BY DEF Unsettled
<1>1. /\ c \in Chans /\ tc \in ChanType /\ tc.run = r /\ Ringed(tc) /\ tc.ring # <<>>
      /\ run[r].status = "running" /\ n \in Nat
  BY <1>0, <1>p, LiveRing, LenProperties
<1>2. Ringed(rung) /\ rung.seq = tc.seq + n /\ rung.ring # <<>> /\ LastKind(rung.ring) = "end"
  <2>1. Follows(LastKind(tc.ring), kinds[1])
    BY <1>p
  <2> HIDE DEF tc
  <2> QED BY <1>1, <2>1, RungRinged
<1>3. rung \in ChanType /\ rung.run = tc.run /\ rung.subs = tc.subs
  <2> HIDE DEF tc
  <2> QED BY <1>1, RungType
<1>4. /\ channels' \in Swept(channels, objs, run', None)
      /\ chan' = Collected(objs, channels')
      /\ run' = Settled(r, status)
      /\ viewer' = Heard(viewer, tc, n, FALSE)
  BY <1>p DEF Settle
<1>5. /\ run'[r].task = "settled" /\ run'[r].status = status /\ run'[r].chan = c
      /\ \A s \in Runs : s # r => run'[s] = run[s]
  BY <1>4, <1>p DEF Settled, FInv, TypeOK, RunType
<1> HIDE DEF rung
<1>6. /\ young.run = r /\ young.subs = tc.subs /\ young.seq = rung.seq /\ young.ring = rung.ring
  BY <1>1, <1>3 DEF ChanType
<1> HIDE DEF young
<1>7. objs[c] = young /\ \A d \in Chans : d # c => objs[d] = chan[d]
  BY <1>1 DEF FInv, TypeOK
<1> HIDE DEF objs
<1>8. channels' \subseteq channels
      /\ \A d \in channels : ~Idle(objs, run', d) => d \in channels'
  BY <1>4, SweptKeeps
<1>9. \A d \in Chans : \/ chan'[d] = objs[d]
                       \/ /\ d \in channels /\ d \notin channels' /\ Idle(objs, run', d)
                          /\ chan'[d] = ThreadChannel(None)
  BY <1>4, <1>8 DEF Collected
<1>10. \A s \in Runs : Unsettled(s)' => /\ s # r /\ Unsettled(s) /\ run'[s] = run[s]
  BY <1>5 DEF Unsettled
<1>11. ASSUME NEW d \in Chans, chan'[d] # objs[d]
       PROVE  chan[d].subs = {} /\ ~InUse(d)'
  <2>1. d \notin channels' /\ Idle(objs, run', d) /\ chan'[d].subs = {}
    BY <1>9, <1>11 DEF ThreadChannel
  <2>2. chan[d].subs = {} /\ objs[d].run = chan[d].run
    BY <1>1, <1>6, <1>7, <2>1 DEF Idle
  <2>3. ASSUME NEW s \in Runs, Unsettled(s)', run'[s].chan = d PROVE FALSE
    <3>1. s # r /\ Unsettled(s) /\ run'[s] = run[s] /\ run[s].chan = d
      BY <1>10, <2>3
    <3>2. run[s].status = "running" /\ chan[d].run = s
      BY <3>1 DEF FInv, Bound
    <3> QED BY <2>1, <2>2, <3>1, <3>2, NoneAssumption DEF Idle, Running
  <2> QED BY <2>1, <2>2, <2>3 DEF InUse
<1>12. Phase(young, run', c)
  <2>1. r # None
    BY NoneAssumption
  <2> QED BY <1>2, <1>5, <1>6, <2>1 DEF Phase
<1>13. Ringed(young)
  BY <1>2, <1>6 DEF Ringed
<1>14. \/ /\ chan'[c].subs = chan[c].subs /\ chan'[c].run = chan[c].run
          /\ chan'[c].seq = chan[c].seq + n
          /\ Ringed(chan'[c]) /\ Phase(chan'[c], run', c)
       \/ chan[c].subs = {} /\ ~InUse(c)'
  <2>1. CASE chan'[c] = objs[c]
    BY <1>1, <1>2, <1>6, <1>7, <1>12, <1>13, <2>1
  <2>2. CASE chan'[c] # objs[c]
    BY <1>1, <1>11, <2>2
  <2> QED BY <2>1, <2>2
<1>15. \A d \in Chans : d # c => \/ chan'[d] = chan[d]
                                 \/ chan[d].subs = {} /\ ~InUse(d)'
  BY <1>7, <1>11
<1> HIDE DEF n
<1> QED
  <2>1. viewer' = Heard(viewer, chan[c], n, FALSE) /\ channels' \subseteq channels
    BY <1>4, <1>8
  <2>2. run[r].chan = c
    BY <1>p
  <2>3. FALSE \in BOOLEAN
    OBVIOUS
  <2>4. \A s \in Runs : Unsettled(s)' => /\ Unsettled(s) /\ run'[s].status = run[s].status
                                         /\ run'[s].chan = run[s].chan
    BY <1>10
  <2>5. \A s \in Runs : s # r => run'[s] = run[s]
    BY <1>5
  <2> QED BY <1>0, <1>1, <1>14, <1>15, <2>1, <2>2, <2>3, <2>4, <2>5, TurnFrames

LEMMA TurnStepFrames ==
    ASSUME FInv, NEW r \in Runs, TurnStep(r)
    PROVE  FInv'
<1>0. TypeOK /\ TypeOK' /\ run \in [Runs -> RunType]
  BY TurnStepType DEF FInv, TypeOK
<1> DEFINE last == LastKind(chan[run[r].chan].ring)
<1>1. Unsettled(r) => last # "end" /\ (last = "ask" => run[r].ask # "none")
  BY LiveRing
<1> HIDE DEF last
<1>2. /\ <<"start">> # <<>> /\ <<"text">> # <<>> /\ <<"ask">> # <<>> /\ <<"ask_resolved">> # <<>>
      /\ <<"end">> # <<>> /\ <<"text", "end">> # <<>>
  OBVIOUS
<1>3. CASE FirstStep(r)
  <2>1. \A s \in Runs : /\ Unsettled(s)' => Unsettled(s)
                        /\ run'[s].status = run[s].status /\ run'[s].chan = run[s].chan
                        /\ run'[s].start = run[s].start /\ run'[s].ask = run[s].ask
    BY <1>0, <1>3 DEF FirstStep, RunType, Unsettled
  <2>2. chan' = chan /\ channels' = channels /\ viewer' = viewer
    BY <1>3 DEF FirstStep
  <2> QED BY <1>0, <2>1, <2>2, QuietFrames
<1>4. CASE EmitText(r)
  <2> DEFINE kinds == <<"text">>
  <2>1. /\ Unsettled(r) /\ run[r].ask = "none" /\ Emit(r, kinds) /\ channels' = channels
        /\ run' = run
    BY <1>4 DEF EmitText, Stepping, Unsettled
  <2>2. /\ kinds \in Seq(Kinds) /\ kinds # <<>> /\ Len(kinds) = 1 /\ kinds[1] = "text"
    BY KindsType
  <2> HIDE DEF kinds
  <2>3. Follows(last, kinds[1]) /\ kinds[Len(kinds)] = "text"
        /\ \A i \in 1..(Len(kinds) - 1) : Follows(kinds[i], kinds[i + 1])
    BY <1>1, <2>1, <2>2 DEF Follows
  <2> QED BY <1>0, <2>1, <2>2, <2>3, EmitFrames DEF last
<1>5. CASE EmitAudio(r)
  <2>1. /\ Unsettled(r) /\ viewer' = Heard(viewer, chan[run[r].chan], 1, TRUE)
        /\ chan' = [chan EXCEPT ![run[r].chan].seq = @ + 1]
        /\ channels' = channels /\ run' = run
    BY <1>5 DEF EmitAudio, Stepping, Unsettled
  <2>p. PICK c : run[r].chan = c
    OBVIOUS
  <2> DEFINE tc == chan[c]
             one == 1
             ephemeral == TRUE
  <2>2. /\ c \in Chans /\ tc \in ChanType /\ tc.run = r /\ Ringed(tc) /\ tc.ring # <<>>
        /\ run[r].start \in Nat /\ run[r].start <= tc.seq /\ tc.seq \in Nat
        /\ Phase(tc, run, c)
    <3>1. InUse(c)
      BY <2>1, <2>p, LiveRing DEF InUse
    <3> QED BY <2>1, <2>p, <3>1, LiveRing DEF FInv, Rings
  <2>3. /\ chan'[c].subs = tc.subs /\ chan'[c].run = tc.run /\ chan'[c].ring = tc.ring
        /\ chan'[c].seq = tc.seq + 1
        /\ \A d \in Chans : d # c => chan'[d] = chan[d]
    BY <1>0, <2>1, <2>2, <2>p DEF TypeOK, ChanType
  <2>4. ephemeral \in BOOLEAN /\ viewer' = Heard(viewer, chan[c], one, ephemeral)
    BY <2>1, <2>p
  <2>e. one = 1 /\ one \in Nat
    OBVIOUS
  <2> HIDE DEF one, ephemeral
  <2>5. \A i \in 1..Len(tc.ring) : tc.ring[i].seq \in Nat
    <3>1. \A i \in 1..Len(tc.ring) : tc.ring[i] \in Frame
      BY <2>2, ElementOfSeq DEF ChanType
    <3> QED BY <3>1 DEF Frame
  <2>6. Ringed(chan'[c])
    <3>1. \A i \in 1..Len(tc.ring) : tc.ring[i].seq <= tc.seq + 1
      BY <2>2, <2>5 DEF Ringed
    <3> QED BY <2>2, <2>3, <3>1 DEF Ringed
  <2>7. Phase(chan'[c], run', c)
    <3>1. run[r].start <= tc.seq + 1 /\ r # None
      BY <2>2, NoneAssumption
    <3>2. run' = run
      BY <2>1
    <3> HIDE DEF tc
    <3> QED BY <2>2, <2>3, <3>1, <3>2 DEF Phase
  <2>8. /\ \A s \in Runs : Unsettled(s)' => /\ Unsettled(s) /\ run'[s].status = run[s].status
                                            /\ run'[s].chan = run[s].chan
        /\ \A s \in Runs : s # r => run'[s] = run[s]
        /\ channels' \subseteq channels
    BY <2>1 DEF Unsettled
  <2>9. /\ chan'[c].subs = chan[c].subs /\ chan'[c].run = chan[c].run
        /\ chan'[c].seq = chan[c].seq + one
        /\ Ringed(chan'[c]) /\ Phase(chan'[c], run', c)
    BY <2>3, <2>6, <2>7, <2>e
  <2>10. \A d \in Chans : d # c => chan'[d] = chan[d] \/ (chan[d].subs = {} /\ ~InUse(d)')
    BY <2>3
  <2>11. Unsettled(r)
    BY <2>1
  <2> HIDE DEF tc
  <2> QED BY <1>0, <2>4, <2>e, <2>8, <2>9, <2>10, <2>11, <2>p, TurnFrames
<1>6. CASE Ask(r)
  <2> DEFINE kinds == <<"ask">>
  <2>1. /\ Unsettled(r) /\ run[r].ask = "none" /\ Emit(r, kinds) /\ channels' = channels
        /\ run' = [run EXCEPT ![r].ask = "open"]
    BY <1>6 DEF Ask, Stepping, Unsettled
  <2>2. /\ kinds \in Seq(Kinds) /\ kinds # <<>> /\ Len(kinds) = 1 /\ kinds[1] = "ask"
    BY KindsType
  <2> HIDE DEF kinds
  <2>3. Follows(last, kinds[1]) /\ kinds[Len(kinds)] = "ask"
        /\ \A i \in 1..(Len(kinds) - 1) : Follows(kinds[i], kinds[i + 1])
    BY <1>1, <2>1, <2>2 DEF Follows
  <2>4. /\ \A s \in Runs : s # r => run'[s] = run[s]
        /\ run'[r].task = run[r].task /\ run'[r].status = run[r].status
        /\ run'[r].chan = run[r].chan /\ run'[r].start = run[r].start /\ run'[r].ask = "open"
    BY <1>0, <2>1 DEF RunType
  <2> QED BY <1>0, <2>1, <2>2, <2>3, <2>4, EmitFrames DEF last
<1>7. CASE AskReturns(r)
  <2> DEFINE kinds == <<"ask_resolved">>
  <2>1. /\ Unsettled(r) /\ Emit(r, kinds) /\ channels' = channels
        /\ run' = [run EXCEPT ![r].ask = "none"]
    BY <1>7 DEF AskReturns, Unsettled
  <2>2. /\ kinds \in Seq(Kinds) /\ kinds # <<>> /\ Len(kinds) = 1 /\ kinds[1] = "ask_resolved"
    BY KindsType
  <2> HIDE DEF kinds
  <2>3. Follows(last, kinds[1]) /\ kinds[Len(kinds)] = "ask_resolved"
        /\ \A i \in 1..(Len(kinds) - 1) : Follows(kinds[i], kinds[i + 1])
    BY <1>1, <2>1, <2>2 DEF Follows
  <2>4. /\ \A s \in Runs : s # r => run'[s] = run[s]
        /\ run'[r].task = run[r].task /\ run'[r].status = run[r].status
        /\ run'[r].chan = run[r].chan /\ run'[r].start = run[r].start
    BY <1>0, <2>1 DEF RunType
  <2> QED BY <1>0, <2>1, <2>2, <2>3, <2>4, EmitFrames DEF last
<1>8. CASE Finish(r)
  <2> DEFINE kinds == <<"end">>
  <2>1. /\ run[r].task = "body" /\ Unsettled(r) /\ run[r].ask = "none"
        /\ Settle(r, "done", kinds)
    BY <1>8 DEF Finish, Stepping, Unsettled
  <2>2. /\ kinds \in Seq(Kinds) /\ kinds # <<>> /\ Len(kinds) = 1 /\ kinds[1] = "end"
        /\ "done" \in Statuses
    BY KindsType DEF Statuses
  <2> HIDE DEF kinds
  <2>3. Follows(last, kinds[1]) /\ kinds[Len(kinds)] = "end"
        /\ \A i \in 1..(Len(kinds) - 1) : Follows(kinds[i], kinds[i + 1])
    BY <1>1, <2>1, <2>2 DEF Follows
  <2> QED BY <1>0, <2>1, <2>2, <2>3, SettleFrames DEF last
<1>9. CASE Fail(r)
  <2> DEFINE kinds == <<"text", "end">>
  <2>1. /\ run[r].task = "body" /\ Unsettled(r) /\ run[r].ask = "none"
        /\ Settle(r, "error", kinds)
    BY <1>9 DEF Fail, Stepping, Unsettled
  <2>2. /\ kinds \in Seq(Kinds) /\ kinds # <<>> /\ Len(kinds) = 2 /\ kinds[1] = "text"
        /\ kinds[2] = "end" /\ "error" \in Statuses
    BY KindsType DEF Statuses
  <2> HIDE DEF kinds
  <2>3. Follows(last, kinds[1]) /\ kinds[Len(kinds)] = "end"
        /\ \A i \in 1..(Len(kinds) - 1) : Follows(kinds[i], kinds[i + 1])
    BY <1>1, <2>1, <2>2 DEF Follows
  <2> QED BY <1>0, <2>1, <2>2, <2>3, SettleFrames DEF last
<1>10. CASE Unwind(r)
  <2> DEFINE kinds == AskCleared(r) \o <<"text", "end">>
  <2>1. /\ run[r].task = "body" /\ Unsettled(r) /\ Settle(r, "cancelled", kinds)
        /\ kinds \in Seq(Kinds) /\ "cancelled" \in Statuses
    BY <1>10, KindsType DEF Unwind, Unsettled, Statuses
  <2>2. CASE run[r].ask = "none"
    <3>1. kinds = <<"text", "end">>
      BY <2>2 DEF AskCleared
    <3> HIDE DEF kinds
    <3>2. kinds # <<>> /\ Len(kinds) = 2 /\ kinds[1] = "text" /\ kinds[2] = "end"
      BY <3>1
    <3>3. Follows(last, kinds[1]) /\ kinds[Len(kinds)] = "end"
          /\ \A i \in 1..(Len(kinds) - 1) : Follows(kinds[i], kinds[i + 1])
      BY <1>1, <2>1, <2>2, <3>2 DEF Follows
    <3> QED BY <1>0, <2>1, <3>2, <3>3, SettleFrames DEF last
  <2>3. CASE run[r].ask # "none"
    <3>1. kinds = <<"ask_resolved">> \o <<"text", "end">>
      BY <2>3 DEF AskCleared
    <3>2. /\ kinds # <<>> /\ Len(kinds) = 3 /\ kinds[1] = "ask_resolved" /\ kinds[2] = "text"
          /\ kinds[3] = "end"
      BY <3>1
    <3> HIDE DEF kinds
    <3>3. Follows(last, kinds[1]) /\ kinds[Len(kinds)] = "end"
          /\ \A i \in 1..(Len(kinds) - 1) : Follows(kinds[i], kinds[i + 1])
      BY <1>1, <2>1, <3>2 DEF Follows
    <3> QED BY <1>0, <2>1, <3>2, <3>3, SettleFrames DEF last
  <2> QED BY <2>2, <2>3
<1> QED BY <1>3, <1>4, <1>5, <1>6, <1>7, <1>8, <1>9, <1>10 DEF TurnStep

-----------------------------------------------------------------------------
(* Steps that open a channel *)

\* What TurnRegistry.channel returns, and what it forgets on the way.
LEMMA OpenedFrames ==
    ASSUME FInv, NEW t \in Threads, CanOpen(t), NEW kept \in Known(t),
           NEW c, c = ChannelFor(t), NEW opened, opened = Opened(t),
           NEW objs, objs = Collected(opened, kept), NEW clients, clients = Clients(t)
    PROVE  /\ c \in Chans /\ opened[c] \in ChanType /\ objs[c] = opened[c]
           /\ kept \subseteq channels \cup {c}
           /\ Ringed(opened[c]) /\ Phase(opened[c], run, c)
           /\ \A d \in Chans : d # c =>
                \/ objs[d] = chan[d]
                \/ /\ objs[d].subs = {} /\ chan[d].subs = {} /\ d \notin kept
                   /\ \A r \in Runs : Unsettled(r) => run[r].chan # d
           /\ \A r \in Runs : Unsettled(r) /\ run[r].chan = c => opened[c].run = r
           /\ \A v \in Viewers :
                /\ v \in opened[c].subs <=> viewer[v].pc # "away" /\ viewer[v].chan = c
                /\ clients[v] \in ViewerType
                /\ clients[v].pc = viewer[v].pc /\ clients[v].chan = viewer[v].chan
                /\ clients[v].cursor = viewer[v].cursor /\ clients[v].queue = viewer[v].queue
                /\ clients[v].source # None => clients[v].source = viewer[v].source
                /\ clients[v].source = c => clients[v].cursor <= opened[c].seq
                /\ viewer[v].pc # "away" => Follower(clients[v], chan[viewer[v].chan].seq)
                /\ v \in opened[c].subs => Follower(clients[v], opened[c].seq)
<1>1. /\ c \in Chans /\ opened \in [Chans -> ChanType] /\ opened[c] \in ChanType
      /\ clients \in [Viewers -> ViewerType] /\ viewer \in [Viewers -> ViewerType]
      /\ chan \in [Chans -> ChanType] /\ channels \subseteq Chans
  BY OpenedType DEF FInv, TypeOK
<1>2. \A v \in Viewers : /\ v \in chan[c].subs <=> viewer[v].pc # "away" /\ viewer[v].chan = c
                         /\ viewer[v].pc # "away" => Follower(viewer[v], chan[viewer[v].chan].seq)
                         /\ viewer[v].pc # "away" => viewer[v].chan \in Chans
  BY <1>1 DEF FInv, Joined, Fed, TypeOK
<1>3. CASE Registered(t) # {}
  <2>1. c \in channels /\ opened = chan /\ kept = channels /\ clients = viewer
    BY <1>3, OpenedType DEF FInv, Registered, Opened, Known, Clients
  <2>2. \A d \in Chans : objs[d] = chan[d]
    BY <2>1 DEF Collected
  <2>3. InUse(c)
    BY <2>1 DEF InUse
  <2>4. Ringed(chan[c]) /\ Phase(chan[c], run, c)
    BY <1>1, <2>3 DEF FInv, Rings
  <2>5. \A r \in Runs : Unsettled(r) /\ run[r].chan = c => chan[c].run = r
    BY DEF FInv, Bound
  <2>6. \A v \in Viewers : viewer[v].source = c => viewer[v].cursor <= chan[c].seq
    BY <1>1, <2>3, NoneAssumption DEF FInv, Marked
  <2> QED BY <1>1, <1>2, <2>1, <2>2, <2>4, <2>5, <2>6
<1>4. CASE Registered(t) = {}
  <2>1. /\ c \in FreeChans /\ opened = [chan EXCEPT ![c] = ThreadChannel(t)]
        /\ kept \in Swept(channels \cup {c}, opened, run, c)
        /\ clients = [v \in Viewers |-> IF viewer[v].source = c
                                       THEN [viewer[v] EXCEPT !.source = None] ELSE viewer[v]]
    BY <1>4, OpenedType DEF FInv, Opened, Known, Clients
  <2>2. c \notin channels /\ chan[c].subs = {} /\ \A r \in Runs : Unsettled(r) => run[r].chan # c
    BY <2>1 DEF FreeChans, InUse
  <2>3. /\ opened[c] = ThreadChannel(t) /\ \A d \in Chans : d # c => opened[d] = chan[d]
        /\ opened[c].subs = {} /\ opened[c].ring = <<>> /\ opened[c].run = None
    BY <1>1, <2>1 DEF ThreadChannel
  <2>4. /\ kept \subseteq channels \cup {c}
        /\ \A d \in channels \cup {c} : ~Idle(opened, run, d) => d \in kept
    BY <2>1, SweptKeeps
  <2>5. \A d \in Chans : IF d \in channels \ kept THEN objs[d] = ThreadChannel(None)
                         ELSE objs[d] = opened[d]
    BY DEF Collected
  <2>6. ASSUME NEW d \in Chans, d # c, objs[d] # chan[d]
        PROVE  /\ objs[d].subs = {} /\ chan[d].subs = {} /\ d \notin kept
               /\ \A r \in Runs : Unsettled(r) => run[r].chan # d
    <3>1. d \in channels \ kept /\ objs[d].subs = {}
      BY <2>3, <2>5, <2>6 DEF ThreadChannel
    <3>2. chan[d].subs = {} /\ ~Running(run, chan[d].run)
      BY <2>3, <2>4, <2>6, <3>1 DEF Idle
    <3>3. ASSUME NEW r \in Runs, Unsettled(r), run[r].chan = d PROVE FALSE
      <4>1. run[r].status = "running" /\ chan[d].run = r
        BY <3>3 DEF FInv, Bound
      <4> QED BY <3>2, <4>1, NoneAssumption DEF Running
    <3> QED BY <3>1, <3>2, <3>3
  <2>7. Ringed(opened[c]) /\ Phase(opened[c], run, c)
    <3>1. Len(opened[c].ring) = 0
      BY <2>3
    <3> QED BY <2>3, <3>1 DEF Ringed, Phase
  <2>8. ASSUME NEW v \in Viewers
        PROVE  /\ clients[v].pc = viewer[v].pc /\ clients[v].chan = viewer[v].chan
               /\ clients[v].cursor = viewer[v].cursor /\ clients[v].queue = viewer[v].queue
               /\ clients[v].source # None => clients[v].source = viewer[v].source
               /\ clients[v].source # c
               /\ viewer[v].pc # "away" => Follower(clients[v], chan[viewer[v].chan].seq)
    <3>1. viewer[v] \in ViewerType
      BY <1>1
    <3>2. CASE viewer[v].source = c
      <4>1. clients[v] = [viewer[v] EXCEPT !.source = None]
        BY <2>1, <3>2
      <4>2. /\ clients[v].pc = viewer[v].pc /\ clients[v].chan = viewer[v].chan
            /\ clients[v].cursor = viewer[v].cursor /\ clients[v].queue = viewer[v].queue
            /\ clients[v].replay = viewer[v].replay /\ clients[v].last = viewer[v].last
            /\ clients[v].owed = viewer[v].owed /\ clients[v].honest = viewer[v].honest
            /\ clients[v].source = None
        BY <3>1, <4>1 DEF ViewerType
      <4>3. viewer[v].pc # "away" => Follower(clients[v], chan[viewer[v].chan].seq)
        <5> SUFFICES ASSUME viewer[v].pc # "away", NEW s, s = chan[viewer[v].chan].seq
                     PROVE  Follower(clients[v], s)
          OBVIOUS
        <5>1. clients[v].source # clients[v].chan
          BY <1>2, <4>2, NoneAssumption
        <5>2. Follower(viewer[v], s)
          BY <1>2
        <5> QED BY <4>2, <5>1, <5>2 DEF Follower, Due
      <4> QED BY <1>1, <4>2, <4>3, NoneAssumption
    <3>3. CASE viewer[v].source # c
      <4>1. clients[v] = viewer[v]
        BY <2>1, <3>3
      <4> QED BY <1>2, <3>3, <4>1
    <3> QED BY <3>2, <3>3
  <2>9. objs[c] = opened[c]
    BY <1>1, <2>2, <2>5
  <2>10. \A v \in Viewers : ~(viewer[v].pc # "away" /\ viewer[v].chan = c)
    BY <1>2, <2>2
  <2> QED BY <1>1, <2>2, <2>3, <2>4, <2>6, <2>7, <2>8, <2>9, <2>10
<1> QED BY <1>3, <1>4

\* The channel c of a thread is opened and becomes `new`: its followers follow
\* it, all other clients are left alone.
Opens(t, c, new) ==
    /\ CanOpen(t) /\ channels' \in Known(t) /\ c = ChannelFor(t)
    /\ chan' = [Collected(Opened(t), channels') EXCEPT ![c] = new]
    /\ Ringed(new) /\ Phase(new, run', c) /\ new.seq \in Nat /\ Opened(t)[c].seq <= new.seq
    /\ \A s \in Runs : Unsettled(s)' =>
          \/ run'[s].status = "running" /\ run'[s].chan = c /\ new.run = s
          \/ run'[s] = run[s] /\ Unsettled(s) /\ run[s].chan # c
    /\ \A d \in Chans : d # c /\ InUse(d) /\ chan[d].run # None =>
          run'[chan[d].run] = run[chan[d].run]
    /\ \A v \in Viewers :
          /\ viewer'[v].source = Clients(t)[v].source
          /\ viewer'[v].cursor = Clients(t)[v].cursor
          /\ v \in new.subs <=> viewer'[v].pc # "away" /\ viewer'[v].chan = c
          /\ v \in new.subs => /\ Follower(viewer'[v], new.seq)
                               /\ viewer[v].pc # "away" => viewer[v].chan = c
          /\ v \notin new.subs => viewer'[v] = Clients(t)[v]

LEMMA OpenFrames ==
    ASSUME FInv, TypeOK', NEW t \in Threads, NEW c, NEW new, Opens(t, c, new)
    PROVE  FInv'
<1>q. PICK tc, clients : tc = Opened(t)[c] /\ clients = Clients(t)
  OBVIOUS
<1>o. /\ CanOpen(t) /\ channels' \in Known(t) /\ c = ChannelFor(t)
      /\ chan' = [Collected(Opened(t), channels') EXCEPT ![c] = new]
      /\ Ringed(new) /\ Phase(new, run', c) /\ new.seq \in Nat /\ tc.seq <= new.seq
  BY <1>q DEF Opens
<1>r. /\ \A s \in Runs : Unsettled(s)' =>
            \/ run'[s].status = "running" /\ run'[s].chan = c /\ new.run = s
            \/ run'[s] = run[s] /\ Unsettled(s) /\ run[s].chan # c
      /\ \A d \in Chans : d # c /\ InUse(d) /\ chan[d].run # None =>
            run'[chan[d].run] = run[chan[d].run]
  BY DEF Opens
<1>v. \A v \in Viewers :
         /\ viewer'[v].source = clients[v].source /\ viewer'[v].cursor = clients[v].cursor
         /\ v \in new.subs <=> viewer'[v].pc # "away" /\ viewer'[v].chan = c
         /\ v \in new.subs => /\ Follower(viewer'[v], new.seq)
                              /\ viewer[v].pc # "away" => viewer[v].chan = c
         /\ v \notin new.subs => viewer'[v] = clients[v]
  BY <1>q DEF Opens
<1>p. PICK opened, objs : opened = Opened(t) /\ objs = Collected(opened, channels')
  OBVIOUS
<1>1. /\ c \in Chans /\ tc \in ChanType
      /\ channels' \subseteq channels \cup {c}
      /\ \A d \in Chans : d # c =>
            \/ objs[d] = chan[d]
            \/ /\ objs[d].subs = {} /\ chan[d].subs = {} /\ d \notin channels'
               /\ \A r \in Runs : Unsettled(r) => run[r].chan # d
      /\ \A v \in Viewers :
            /\ clients[v] \in ViewerType
            /\ clients[v].pc = viewer[v].pc /\ clients[v].chan = viewer[v].chan
            /\ clients[v].cursor = viewer[v].cursor /\ clients[v].queue = viewer[v].queue
            /\ clients[v].source # None => clients[v].source = viewer[v].source
            /\ clients[v].source = c => clients[v].cursor <= tc.seq
            /\ viewer[v].pc # "away" => Follower(clients[v], chan[viewer[v].chan].seq)
  BY <1>o, <1>p, <1>q, OpenedFrames
<1>2. chan'[c] = new /\ \A d \in Chans : d # c => chan'[d] = objs[d]
  BY <1>o, <1>p, <1>1 DEF Collected
<1>3. ASSUME NEW d \in Chans, d # c PROVE chan'[d].subs = chan[d].subs
  <2>1. objs[d] = chan[d] \/ (objs[d].subs = {} /\ chan[d].subs = {})
    BY <1>1, <1>3
  <2>2. chan'[d] = objs[d]
    BY <1>2, <1>3
  <2> QED BY <2>1, <2>2
<1>4. \A d \in Chans : d # c /\ InUse(d)' => InUse(d) /\ chan'[d] = chan[d]
  <2> SUFFICES ASSUME NEW d \in Chans, d # c, InUse(d)'
               PROVE  InUse(d) /\ chan'[d] = chan[d]
    OBVIOUS
  <2>1. \/ d \in channels
        \/ chan[d].subs # {}
        \/ \E s \in Runs : Unsettled(s) /\ run[s].chan = d
    <3>1. d \in channels' => d \in channels
      BY <1>1
    <3> QED BY <1>3, <1>r, <3>1 DEF InUse
  <2>2. \/ d \in channels' \/ chan[d].subs # {}
        \/ \E s \in Runs : Unsettled(s) /\ run[s].chan = d
    BY <1>3, <1>r DEF InUse
  <2> QED BY <1>1, <1>2, <2>1, <2>2 DEF InUse
<1>5. Bound'
  <2> SUFFICES ASSUME NEW s \in Runs, Unsettled(s)'
               PROVE  run'[s].status = "running" /\ chan'[run'[s].chan].run = s
    BY DEF Bound
  <2>1. CASE run'[s].status = "running" /\ run'[s].chan = c /\ new.run = s
    BY <1>2, <2>1
  <2>2. CASE run'[s] = run[s] /\ Unsettled(s) /\ run[s].chan # c
    <3>1. run[s].chan \in Chans /\ run[s].status = "running" /\ chan[run[s].chan].run = s
      BY <2>2 DEF FInv, Bound, TypeOK
    <3>2. InUse(run[s].chan)'
      BY <2>2 DEF InUse
    <3>3. chan'[run[s].chan] = chan[run[s].chan]
      BY <1>4, <2>2, <3>1, <3>2
    <3> QED BY <2>2, <3>1, <3>3
  <2> QED BY <1>r, <2>1, <2>2
<1>6. Joined'
  <2> SUFFICES ASSUME NEW v \in Viewers, NEW d \in Chans
               PROVE  v \in chan'[d].subs <=> viewer'[v].pc # "away" /\ viewer'[v].chan = d
    BY DEF Joined
  <2>1. CASE d = c
    BY <1>2, <1>v, <2>1
  <2>2. CASE d # c /\ v \in new.subs
    <3>1. viewer'[v].chan # d /\ (viewer[v].pc # "away" => viewer[v].chan # d)
      BY <1>v, <2>2
    <3> QED BY <1>3, <2>2, <3>1 DEF FInv, Joined
  <2>3. CASE d # c /\ v \notin new.subs
    <3>1. viewer'[v].pc = viewer[v].pc /\ viewer'[v].chan = viewer[v].chan
      BY <1>1, <1>v, <2>3
    <3> QED BY <1>3, <2>3, <3>1 DEF FInv, Joined
  <2> QED BY <2>1, <2>2, <2>3
<1>7. Rings'
  <2> SUFFICES ASSUME NEW d \in Chans, InUse(d)', d # c
               PROVE  Ringed(chan'[d]) /\ Phase(chan'[d], run', d)
    BY <1>2, <1>o DEF Rings
  <2>1. InUse(d) /\ chan'[d] = chan[d]
    BY <1>4
  <2>2. Ringed(chan[d]) /\ Phase(chan[d], run, d)
    BY <2>1 DEF FInv, Rings
  <2>3. chan[d].run # None => run'[chan[d].run] = run[chan[d].run]
    BY <1>r, <2>1
  <2>4. Phase(chan[d], run', d)
    BY <2>2, <2>3 DEF Phase
  <2> QED BY <2>1, <2>2, <2>4
<1>8. Marked'
  <2> SUFFICES ASSUME NEW v \in Viewers, NEW d, viewer'[v].source = d, d # None
               PROVE  /\ viewer'[v].cursor # None
                      /\ InUse(d)' => viewer'[v].cursor <= chan'[d].seq
    BY DEF Marked
  <2>1. /\ clients[v].source = d /\ viewer[v].source = d /\ viewer'[v].cursor = viewer[v].cursor
        /\ d \in Chans /\ viewer[v].cursor \in Nat \cup {None}
    <3>1. clients[v].source = d /\ viewer'[v].cursor = clients[v].cursor
      BY <1>v
    <3>2. clients[v] \in ViewerType /\ viewer[v].source = d /\ viewer[v].cursor = clients[v].cursor
      BY <1>1, <3>1
    <3> QED BY <3>1, <3>2 DEF ViewerType
  <2>2. viewer[v].cursor # None /\ (InUse(d) => viewer[v].cursor <= chan[d].seq)
    BY <2>1 DEF FInv, Marked
  <2>3. ASSUME InUse(d)', d # c PROVE viewer[v].cursor <= chan'[d].seq
    <3>1. InUse(d) /\ chan'[d] = chan[d]
      BY <1>4, <2>1, <2>3
    <3> QED BY <2>2, <3>1
  <2>4. ASSUME d = c PROVE viewer[v].cursor <= chan'[d].seq
    <3>1. viewer[v].cursor <= tc.seq /\ viewer[v].cursor \in Nat /\ tc.seq \in Nat
      BY <1>1, <2>1, <2>2, <2>4 DEF ChanType
    <3>2. viewer[v].cursor <= new.seq
      BY <1>o, <3>1
    <3> QED BY <1>2, <2>4, <3>2
  <2> QED BY <2>1, <2>2, <2>3, <2>4
<1>9. Fed'
  <2> SUFFICES ASSUME NEW v \in Viewers
               PROVE  IF viewer'[v].pc = "away" THEN viewer'[v].queue = <<>>
                      ELSE Follower(viewer'[v], chan'[viewer'[v].chan].seq)
    BY DEF Fed
  <2>1. CASE v \in new.subs
    BY <1>2, <1>v, <2>1
  <2>2. CASE v \notin new.subs
    <3>1. /\ viewer'[v] = clients[v] /\ viewer'[v].pc = viewer[v].pc
          /\ viewer'[v].chan = viewer[v].chan /\ viewer'[v].queue = viewer[v].queue
      BY <1>1, <1>v, <2>2
    <3>2. viewer[v].pc = "away" => viewer[v].queue = <<>>
      BY DEF FInv, Fed
    <3>3. ASSUME viewer[v].pc # "away" PROVE chan'[viewer[v].chan] = chan[viewer[v].chan]
      <4>1. viewer[v].chan \in Chans /\ v \in chan[viewer[v].chan].subs /\ viewer[v].chan # c
        BY <1>v, <2>2, <3>1, <3>3 DEF FInv, Joined, TypeOK
      <4> QED BY <1>1, <1>2, <4>1
    <3> QED BY <1>1, <3>1, <3>2, <3>3
  <2> QED BY <2>1, <2>2
<1> QED BY <1>5, <1>6, <1>7, <1>8, <1>9 DEF FInv

LEMMA StartFrames ==
    ASSUME FInv, NEW t \in Threads, Start(t)
    PROVE  FInv' /\ \A v \in Viewers : viewer'[v].cursor = viewer[v].cursor
<1>p. PICK c, r, tc, clients, rung :
          /\ c = ChannelFor(t) /\ r = (CHOOSE x \in FreeRuns : TRUE) /\ tc = Opened(t)[c]
          /\ clients = Clients(t) /\ rung = Rung(tc, <<"start">>)
  OBVIOUS
<1> DEFINE new == [rung EXCEPT !.run = r]
           one == 1
<1>0. TypeOK /\ TypeOK'
  BY StartType DEF FInv
<1>1. /\ CanOpen(t) /\ channels' \in Known(t) /\ Active(t) = {} /\ FreeRuns # {}
      /\ run' = [s \in Runs |-> IF s = r THEN TurnRun(c, tc.seq)
                                ELSE IF s \in FreeRuns \/ (s = tc.run /\ ~Unsettled(s)) THEN NoRun
                                ELSE run[s]]
      /\ chan' = [Collected(Opened(t), channels') EXCEPT ![c] = new]
      /\ viewer' = Heard(clients, tc, one, FALSE)
  BY <1>p DEF Start
<1>2. r \in Runs /\ r \in FreeRuns /\ r # None
  BY <1>p, <1>1, NoneAssumption DEF FreeRuns
<1>3. /\ c \in Chans /\ tc \in ChanType /\ Ringed(tc) /\ Phase(tc, run, c)
      /\ \A s \in Runs : Unsettled(s) /\ run[s].chan = c => tc.run = s
      /\ \A v \in Viewers :
            /\ v \in tc.subs <=> viewer[v].pc # "away" /\ viewer[v].chan = c
            /\ clients[v].pc = viewer[v].pc /\ clients[v].chan = viewer[v].chan
            /\ clients[v].cursor = viewer[v].cursor
            /\ v \in tc.subs => Follower(clients[v], tc.seq)
  BY <1>p, <1>1, OpenedFrames
<1>4. clients \in [Viewers -> ViewerType] /\ tc.seq \in Nat
  BY <1>p, <1>0, <1>1, <1>3, OpenedType DEF ChanType
\* The turn before is over.
<1>5. tc.run # None => ~Running(run, tc.run)
  <2> SUFFICES ASSUME tc.run # None, Running(run, tc.run) PROVE FALSE
    OBVIOUS
  <2>1. CASE Registered(t) # {}
    <3>1. c \in Registered(t) /\ tc = chan[c]
      BY <1>0, <1>1, <1>p, <2>1, OpenedType DEF Opened
    <3>2. tc.run \in Runs
      BY <1>3 DEF ChanType
    <3>3. tc.run \in Active(t)
      BY <3>1, <3>2 DEF Active
    <3> QED BY <1>1, <3>3
  <2>2. CASE Registered(t) = {}
    <3>1. tc = ThreadChannel(t)
      BY <1>0, <1>3, <1>p, <2>2 DEF Opened, TypeOK
    <3> QED BY <3>1 DEF ThreadChannel
  <2> QED BY <2>1, <2>2
<1>6. tc.ring # <<>> => Follows(LastKind(tc.ring), "start")
  BY <1>3, <1>5 DEF Phase, Follows, Running
<1>7. /\ Ringed(rung) /\ rung.seq = tc.seq + 1 /\ rung.ring # <<>>
      /\ LastKind(rung.ring) = "start"
      /\ rung \in ChanType /\ rung.subs = tc.subs
  <2> DEFINE kinds == <<"start">>
  <2>1. kinds \in Seq(Kinds) /\ kinds # <<>> /\ Len(kinds) = 1 /\ kinds[1] = "start"
    BY KindsType
  <2>2. rung = Rung(tc, kinds)
    BY <1>p
  <2> HIDE DEF kinds
  <2>3. \A i \in 1..(Len(kinds) - 1) : Follows(kinds[i], kinds[i + 1])
    BY <2>1
  <2>4. /\ Ringed(rung) /\ rung.seq = tc.seq + Len(kinds) /\ rung.ring # <<>>
        /\ LastKind(rung.ring) = kinds[Len(kinds)]
    BY <1>3, <1>6, <2>1, <2>2, <2>3, RungRinged
  <2>5. rung \in ChanType /\ rung.subs = tc.subs
    BY <1>3, <2>1, <2>2, RungType
  <2> QED BY <2>1, <2>4, <2>5
<1>8. new.seq = tc.seq + 1 /\ new.ring = rung.ring /\ new.run = r /\ new.subs = tc.subs
  BY <1>7 DEF ChanType
<1> HIDE DEF new
<1>9. run'[r] = TurnRun(c, tc.seq)
  BY <1>1, <1>2
<1>10. run'[r].status = "running" /\ run'[r].chan = c /\ run'[r].start = tc.seq
  BY <1>9 DEF TurnRun
<1>11. Ringed(new)
  BY <1>7, <1>8 DEF Ringed
<1>12. tc.seq <= new.seq /\ new.seq \in Nat
  BY <1>4, <1>8
<1>13. Phase(new, run', c)
  BY <1>2, <1>7, <1>8, <1>10, <1>12 DEF Phase
<1>14. ASSUME NEW s \in Runs, Unsettled(s)'
       PROVE  \/ run'[s].status = "running" /\ run'[s].chan = c /\ new.run = s
              \/ run'[s] = run[s] /\ Unsettled(s) /\ run[s].chan # c
  <2>1. CASE s = r
    BY <1>8, <1>10, <2>1
  <2>2. CASE s # r
    <3>1. run'[s] # NoRun
      BY <1>14 DEF Unsettled, NoRun, TurnRun
    <3>2. run'[s] = run[s] /\ Unsettled(s)
      BY <1>1, <1>14, <2>2, <3>1 DEF Unsettled
    <3>3. run[s].chan # c
      <4> SUFFICES ASSUME run[s].chan = c PROVE FALSE
        OBVIOUS
      <4>1. tc.run = s /\ s # None
        BY <1>3, <3>2, NoneAssumption
      <4>2. run[s].status = "running"
        BY <3>2 DEF FInv, Bound
      <4> QED BY <1>5, <4>1, <4>2 DEF Running
    <3> QED BY <3>2, <3>3
  <2> QED BY <2>1, <2>2
<1>15. ASSUME NEW d \in Chans, d # c, InUse(d), chan[d].run # None
       PROVE  run'[chan[d].run] = run[chan[d].run]
  <2>1. Phase(chan[d], run, d) /\ chan[d].run \in Runs
    BY <1>0, <1>15 DEF FInv, Rings, TypeOK, ChanType
  <2>2. run[chan[d].run].chan = d
    BY <1>15, <2>1 DEF Phase
  <2>3. chan[d].run \notin FreeRuns
    BY <1>15 DEF FreeRuns
  <2>4. chan[d].run # tc.run
    BY <1>3, <1>15, <2>2 DEF Phase
  <2> QED BY <1>1, <1>2, <2>1, <2>3, <2>4
<1>16. ASSUME NEW v \in Viewers
       PROVE  /\ viewer'[v].source = clients[v].source /\ viewer'[v].cursor = clients[v].cursor
              /\ v \in new.subs <=> viewer'[v].pc # "away" /\ viewer'[v].chan = c
              /\ v \in new.subs => /\ Follower(viewer'[v], new.seq)
                                   /\ viewer[v].pc # "away" => viewer[v].chan = c
              /\ v \notin new.subs => viewer'[v] = clients[v]
  <2> DEFINE ephemeral == FALSE
  <2>1. /\ viewer'[v] = Heard(clients, tc, one, ephemeral)[v]
        /\ one = 1 /\ one \in Nat /\ ephemeral \in BOOLEAN
    BY <1>1
  <2> HIDE DEF one, ephemeral
  <2>2. /\ v \notin tc.subs => viewer'[v] = clients[v]
        /\ viewer'[v].source = clients[v].source /\ viewer'[v].cursor = clients[v].cursor
        /\ viewer'[v].pc = clients[v].pc /\ viewer'[v].chan = clients[v].chan
        /\ Follower(clients[v], tc.seq) => Follower(viewer'[v], tc.seq + one)
    BY <1>3, <1>4, <2>1, HeardFollows
  <2>3. tc.seq + one = new.seq
    BY <1>8, <2>1
  <2> QED BY <1>3, <1>8, <2>2, <2>3
<1>17. /\ CanOpen(t) /\ channels' \in Known(t) /\ c = ChannelFor(t) /\ tc = Opened(t)[c]
       /\ clients = Clients(t)
       /\ chan' = [Collected(Opened(t), channels') EXCEPT ![c] = new]
  BY <1>1, <1>p
<1>18. Opens(t, c, new)
  BY <1>11, <1>12, <1>13, <1>14, <1>15, <1>16, <1>17 DEF Opens
<1>19. FInv'
  BY <1>0, <1>18, OpenFrames
<1>20. \A v \in Viewers : viewer'[v].cursor = viewer[v].cursor
  BY <1>3, <1>16
<1> QED BY <1>19, <1>20

LEMMA AttachFrames ==
    ASSUME FInv, NEW v \in Viewers, NEW t \in Threads, Attach(v, t)
    PROVE  FInv' /\ \A u \in Viewers : viewer'[u].cursor = viewer[u].cursor
<1> DEFINE c == ChannelFor(t)
           tc == Opened(t)[c]
           clients == Clients(t)
           w == clients[v]
           floor == Floor(v, tc)
           missed == After(tc.ring, floor)
           honest == viewer[v].cursor = None \/ clients[v].source = c
           unseen == IF honest THEN missed ELSE tc.ring
           replay == [i \in 1..Len(missed) |-> missed[i].seq]
           last == IF missed = <<>> THEN floor ELSE missed[Len(missed)].seq
           owed == {unseen[i].seq : i \in 1..Len(unseen)}
           attached == [w EXCEPT !.pc = "handshake", !.home = t, !.chan = c, !.replay = replay,
                                 !.last = last, !.owed = owed, !.honest = honest]
           new == [tc EXCEPT !.subs = @ \cup {v}, !.old = FALSE]
<1>0. TypeOK /\ TypeOK'
  BY AttachType DEF FInv
<1>1. /\ CanOpen(t) /\ channels' \in Known(t) /\ viewer[v].pc = "away"
      /\ chan' = [Collected(Opened(t), channels') EXCEPT ![c] = new]
      /\ viewer' = [clients EXCEPT ![v] = attached]
      /\ run' = run
  BY DEF Attach
<1>p. /\ c = ChannelFor(t) /\ tc = Opened(t)[c] /\ clients = Clients(t) /\ w = clients[v]
      /\ floor = Floor(v, tc) /\ missed = After(tc.ring, floor)
      /\ honest = (viewer[v].cursor = None \/ clients[v].source = c)
      /\ unseen = (IF honest THEN missed ELSE tc.ring)
  OBVIOUS
<1> HIDE DEF c, tc, clients, w, floor, missed, honest, unseen
<1>2. /\ c \in Chans /\ tc \in ChanType /\ Ringed(tc) /\ Phase(tc, run, c)
      /\ \A s \in Runs : Unsettled(s) /\ run[s].chan = c => tc.run = s
      /\ \A u \in Viewers :
            /\ u \in tc.subs <=> viewer[u].pc # "away" /\ viewer[u].chan = c
            /\ clients[u].pc = viewer[u].pc /\ clients[u].chan = viewer[u].chan
            /\ clients[u].cursor = viewer[u].cursor /\ clients[u].queue = viewer[u].queue
            /\ clients[u].source # None => clients[u].source = viewer[u].source
            /\ clients[u].source = c => clients[u].cursor <= tc.seq
            /\ u \in tc.subs => Follower(clients[u], tc.seq)
  BY <1>p, <1>1, OpenedFrames
<1>3. clients \in [Viewers -> ViewerType] /\ w \in ViewerType /\ tc.seq \in Nat
      /\ tc.run \in Runs \cup {None} /\ c # None
  BY <1>p, <1>0, <1>1, <1>2, OpenedType, NoneAssumption DEF ChanType
<1>4. w.queue = <<>> /\ w.cursor = viewer[v].cursor /\ w.cursor \in Nat \cup {None}
  BY <1>1, <1>2, <1>3, <1>p DEF FInv, Fed, ViewerType
<1>5. floor \in Nat /\ honest \in BOOLEAN /\ (honest => floor <= tc.seq)
  <2>1. honest \in BOOLEAN
    BY <1>p
  <2>2. CASE w.cursor # None
    <3>1. floor = w.cursor
      BY <1>4, <1>p, <2>2 DEF Floor
    <3> QED BY <1>2, <1>4, <1>p, <2>1, <2>2, <3>1
  <2>3. CASE w.cursor = None /\ Running(run, tc.run)
    <3>1. floor = run[tc.run].start
      BY <1>4, <1>p, <2>3 DEF Floor
    <3>2. tc.run \in Runs /\ run[tc.run].start <= tc.seq
      BY <1>2, <1>3, <2>3 DEF Phase, Running
    <3> QED BY <1>0, <2>1, <3>1, <3>2 DEF TypeOK, RunType
  <2>4. CASE w.cursor = None /\ ~Running(run, tc.run)
    <3>1. floor = tc.seq
      BY <1>4, <1>p, <2>4 DEF Floor
    <3> QED BY <1>3, <2>1, <3>1
  <2> QED BY <2>2, <2>3, <2>4
<1>6. w.source = c => honest /\ w.cursor = floor
  <2> SUFFICES ASSUME w.source = c PROVE honest /\ w.cursor = floor
    OBVIOUS
  <2>1. honest
    BY <1>p
  <2>2. viewer[v].source = c
    BY <1>2, <1>3, <1>p
  <2>3. viewer[v].cursor # None
    BY <1>3, <2>2 DEF FInv, Marked
  <2> QED BY <1>4, <1>p, <2>1, <2>3 DEF Floor
<1>7. honest => owed = {missed[i].seq : i \in 1..Len(missed)}
  BY <1>p
<1>8. Follower(attached, tc.seq)
  <2>1. /\ missed = After(tc.ring, floor) /\ missed \in Seq(Frame)
        /\ last = IF missed = <<>> THEN floor ELSE missed[Len(missed)].seq
    BY <1>2, <1>p, AfterType DEF ChanType
  <2>2. /\ replay \in Seq(Nat) /\ Len(replay) = Len(missed)
        /\ \A i \in 1..Len(missed) : replay[i] = missed[i].seq
    <3> DEFINE m == Len(missed)
    <3>1. m \in Nat /\ \A i \in 1..m : missed[i].seq \in Nat
      <4>1. m \in Nat /\ \A i \in 1..m : missed[i] \in Frame
        BY <2>1, LenProperties, ElementOfSeq
      <4> QED BY <4>1 DEF Frame
    <3>2. replay \in [1..m -> Nat] /\ \A i \in 1..m : replay[i] = missed[i].seq
      BY <3>1
    <3> HIDE DEF replay
    <3>3. replay \in Seq(Nat)
      BY <3>1, <3>2, FunctionIsSeq
    <3>4. Len(replay) = m
      BY <3>1, <3>2, <3>3, LenProperties
    <3> QED BY <3>2, <3>3, <3>4
  <2>3. honest => \A n \in owed : \E i \in 1..Len(missed) : n = missed[i].seq
    BY <1>7
  <2> HIDE DEF replay, last, owed
  <2>4. /\ attached.pc = "handshake" /\ attached.queue = <<>> /\ attached.chan = c
        /\ attached.replay = replay /\ attached.last = last /\ attached.owed = owed
        /\ attached.honest = honest /\ attached.source = w.source /\ attached.cursor = w.cursor
    BY <1>3, <1>4 DEF ViewerType
  <2> HIDE DEF attached
  <2>5. attached.source = attached.chan => attached.cursor = floor
    BY <1>6, <2>4
  <2>6. attached.honest =>
           /\ floor <= tc.seq
           /\ \A n \in attached.owed : \E i \in 1..Len(missed) : n = missed[i].seq
    BY <1>5, <2>3, <2>4
  <2>7. PICK u : u = attached
    OBVIOUS
  <2>8. /\ u.pc = "handshake" /\ u.queue = <<>> /\ u.replay \in Seq(Nat)
        /\ Len(u.replay) = Len(missed)
        /\ \A i \in 1..Len(missed) : u.replay[i] = missed[i].seq
        /\ u.last = IF missed = <<>> THEN floor ELSE missed[Len(missed)].seq
    BY <2>1, <2>2, <2>4, <2>7
  <2>9. /\ u.honest => /\ floor <= tc.seq
                       /\ \A n \in u.owed : \E i \in 1..Len(missed) : n = missed[i].seq
        /\ u.source = u.chan => u.cursor = floor
    BY <2>5, <2>6, <2>7
  <2>10. floor \in Nat /\ tc \in ChanType /\ Ringed(tc) /\ missed = After(tc.ring, floor)
    BY <1>2, <1>5, <2>1
  <2>11. Follower(u, tc.seq)
    BY <2>8, <2>9, <2>10, JoinsIn
  <2> QED BY <2>7, <2>11
<1>9. /\ attached.source = w.source /\ attached.cursor = w.cursor
      /\ attached.pc = "handshake" /\ attached.chan = c
  <2> HIDE DEF replay, last, owed
  <2> QED BY <1>3 DEF ViewerType
<1> HIDE DEF attached
<1>10. viewer'[v] = attached /\ \A u \in Viewers : u # v => viewer'[u] = clients[u]
  BY <1>1, <1>3
<1>11. new.subs = tc.subs \cup {v} /\ new.seq = tc.seq /\ new.ring = tc.ring /\ new.run = tc.run
  BY <1>2 DEF ChanType
<1> HIDE DEF new
<1>12. Ringed(new) /\ Phase(new, run', c) /\ new.seq \in Nat /\ tc.seq <= new.seq
  BY <1>1, <1>2, <1>3, <1>11 DEF Ringed, Phase
<1>13. ASSUME NEW s \in Runs, Unsettled(s)'
       PROVE  \/ run'[s].status = "running" /\ run'[s].chan = c /\ new.run = s
              \/ run'[s] = run[s] /\ Unsettled(s) /\ run[s].chan # c
  <2>1. run'[s] = run[s] /\ Unsettled(s)
    BY <1>1, <1>13 DEF Unsettled
  <2>2. run[s].status = "running"
    BY <2>1 DEF FInv, Bound
  <2> QED BY <1>2, <1>11, <2>1, <2>2
<1>14. ASSUME NEW u \in Viewers
       PROVE  /\ viewer'[u].source = clients[u].source /\ viewer'[u].cursor = clients[u].cursor
              /\ u \in new.subs <=> viewer'[u].pc # "away" /\ viewer'[u].chan = c
              /\ u \in new.subs => /\ Follower(viewer'[u], new.seq)
                                   /\ viewer[u].pc # "away" => viewer[u].chan = c
              /\ u \notin new.subs => viewer'[u] = clients[u]
  <2>1. CASE u = v
    BY <1>1, <1>8, <1>9, <1>10, <1>11, <1>p, <2>1
  <2>2. CASE u # v
    BY <1>2, <1>10, <1>11, <2>2
  <2> QED BY <2>1, <2>2
<1>15. \A d \in Chans : d # c /\ InUse(d) /\ chan[d].run # None =>
          run'[chan[d].run] = run[chan[d].run]
  BY <1>1
<1>16. /\ CanOpen(t) /\ channels' \in Known(t) /\ c = ChannelFor(t) /\ tc = Opened(t)[c]
       /\ clients = Clients(t)
       /\ chan' = [Collected(Opened(t), channels') EXCEPT ![c] = new]
  BY <1>1, <1>p
<1>17. Opens(t, c, new)
  BY <1>12, <1>13, <1>14, <1>15, <1>16 DEF Opens
<1>18. FInv'
  BY <1>0, <1>17, OpenFrames
<1>19. \A u \in Viewers : viewer'[u].cursor = viewer[u].cursor
  BY <1>2, <1>14
<1> QED BY <1>18, <1>19

-----------------------------------------------------------------------------
(* Steps of a viewer *)

\* One client changes; it may leave the channel it is attached to.
LEMMA ClientFrames ==
    ASSUME FInv, TypeOK', NEW v \in Viewers, NEW u, viewer' = [viewer EXCEPT ![v] = u],
           channels' = channels, run' = run,
           \A c \in Chans :
              /\ chan'[c].run = chan[c].run /\ chan'[c].seq = chan[c].seq
              /\ chan'[c].ring = chan[c].ring
              /\ chan'[c].subs = IF u.pc = "away" THEN chan[c].subs \ {v} ELSE chan[c].subs,
           u.pc # "away" => /\ viewer[v].pc # "away" /\ u.chan = viewer[v].chan
                            /\ Follower(u, chan[u.chan].seq),
           u.pc = "away" => u.queue = <<>>,
           u.source # None => /\ u.cursor # None
                              /\ InUse(u.source) => u.cursor <= chan[u.source].seq
    PROVE  FInv'
<1>1. viewer'[v] = u /\ \A x \in Viewers : x # v => viewer'[x] = viewer[x]
  BY DEF FInv, TypeOK
<1>2. \A c \in Chans : InUse(c)' => InUse(c)
  BY DEF InUse, Unsettled
<1>3. Bound'
  <2> SUFFICES ASSUME NEW s \in Runs, Unsettled(s)'
               PROVE  run'[s].status = "running" /\ chan'[run'[s].chan].run = s
    BY DEF Bound
  <2>1. Unsettled(s) /\ run[s].chan \in Chans
    BY DEF FInv, TypeOK, Unsettled
  <2> QED BY <2>1 DEF FInv, Bound
<1>4. Joined'
  <2> SUFFICES ASSUME NEW x \in Viewers, NEW c \in Chans
               PROVE  x \in chan'[c].subs <=> viewer'[x].pc # "away" /\ viewer'[x].chan = c
    BY DEF Joined
  <2>1. x \in chan[c].subs <=> viewer[x].pc # "away" /\ viewer[x].chan = c
    BY DEF FInv, Joined
  <2>2. CASE x = v
    BY <1>1, <2>1, <2>2
  <2>3. CASE x # v
    BY <1>1, <2>1, <2>3
  <2> QED BY <2>2, <2>3
<1>5. Rings'
  <2> SUFFICES ASSUME NEW c \in Chans, InUse(c)'
               PROVE  Ringed(chan'[c]) /\ Phase(chan'[c], run', c)
    BY DEF Rings
  <2>1. Ringed(chan[c]) /\ Phase(chan[c], run, c)
    BY <1>2 DEF FInv, Rings
  <2> QED BY <2>1 DEF Ringed, Phase
<1>6. Marked'
  <2> SUFFICES ASSUME NEW x \in Viewers, NEW d, viewer'[x].source = d, d # None
               PROVE  /\ viewer'[x].cursor # None
                      /\ InUse(d)' => viewer'[x].cursor <= chan'[d].seq
    BY DEF Marked
  <2>1. d \in Chans
    BY DEF TypeOK, ViewerType
  <2>2. CASE x = v
    <3>1. viewer'[x] = u /\ u.source = d
      BY <1>1, <2>2
    <3> QED BY <1>2, <2>1, <3>1
  <2>3. CASE x # v
    BY <1>1, <1>2, <2>1, <2>3 DEF FInv, Marked
  <2> QED BY <2>2, <2>3
<1>7. Fed'
  <2> SUFFICES ASSUME NEW x \in Viewers
               PROVE  IF viewer'[x].pc = "away" THEN viewer'[x].queue = <<>>
                      ELSE Follower(viewer'[x], chan'[viewer'[x].chan].seq)
    BY DEF Fed
  <2>1. viewer'[x].pc # "away" => viewer'[x].chan \in Chans
    BY DEF TypeOK
  <2>2. CASE x = v
    <3>1. viewer'[x] = u
      BY <1>1, <2>2
    <3>2. u.pc # "away" => chan'[u.chan].seq = chan[u.chan].seq
      BY <2>1, <3>1
    <3> QED BY <3>1, <3>2
  <2>3. CASE x # v
    BY <1>1, <2>1, <2>3 DEF FInv, Fed
  <2> QED BY <2>2, <2>3
<1> QED BY <1>3, <1>4, <1>5, <1>6, <1>7 DEF FInv

\* The client w that becomes u has been shown the next frame, if it was shown one.
Advances(w, u) ==
    u.cursor \notin {w.cursor, None} =>
        /\ w.source # None /\ u.source = w.source => u.cursor > w.cursor
        /\ w.honest => \A m \in w.owed : m >= u.cursor

\* A step of a viewer keeps the frames, and only forward does it move a cursor
\* into a channel, past nothing that is owed.
LEMMA ViewerStepFrames ==
    ASSUME FInv, NEW v \in Viewers, ViewerStep(v)
    PROVE  /\ FInv'
           /\ \A x \in Viewers : Advances(viewer[x], viewer'[x])
<1>p. PICK w : w = viewer[v]
  OBVIOUS
<1>0. TypeOK /\ TypeOK'
  BY ViewerStepType DEF FInv
<1>1. /\ w \in ViewerType /\ w.cursor \in Nat \cup {None} /\ w.last \in Nat
      /\ w.pc # "away" => w.chan \in Chans /\ w.chan # None
      /\ w.chan \in Chans => chan[w.chan].seq \in Nat
  BY <1>0, <1>p, NoneAssumption DEF TypeOK, ViewerType, ChanType
<1>2. /\ w.pc # "away" => Follower(w, chan[w.chan].seq)
      /\ w.source # None => /\ w.cursor # None
                            /\ InUse(w.source) => w.cursor <= chan[w.source].seq
      /\ \A c \in Chans : v \in chan[c].subs <=> w.pc # "away" /\ w.chan = c
  BY <1>p DEF FInv, Fed, Marked, Joined
\* All steps but the attach.
<1>3. ASSUME NEW u, viewer' = [viewer EXCEPT ![v] = u],
             channels' = channels, run' = run,
             \A c \in Chans :
                /\ chan'[c].run = chan[c].run /\ chan'[c].seq = chan[c].seq
                /\ chan'[c].ring = chan[c].ring
                /\ chan'[c].subs = IF u.pc = "away" THEN chan[c].subs \ {v} ELSE chan[c].subs,
             u.pc # "away" => /\ w.pc # "away" /\ u.chan = w.chan
                              /\ Follower(u, chan[w.chan].seq),
             u.pc = "away" => u.queue = <<>>,
             u.source # None => /\ u.cursor # None
                                /\ InUse(u.source) => u.cursor <= chan[u.source].seq,
             Advances(w, u)
      PROVE  /\ FInv'
             /\ \A x \in Viewers : Advances(viewer[x], viewer'[x])
  <2>1. FInv'
    BY <1>0, <1>3, <1>p, ClientFrames
  <2>2. viewer'[v] = u /\ \A x \in Viewers : x # v => viewer'[x] = viewer[x]
    BY <1>0, <1>3 DEF TypeOK
  <2>3. \A x \in Viewers : Advances(viewer[x], viewer[x])
    BY DEF Advances
  <2> QED BY <1>3, <1>p, <2>1, <2>2, <2>3
<1>4. CASE SendReplay(v)
  <2>p. PICK u : u = [Rendered(w, Head(w.replay)) EXCEPT !.replay = Tail(w.replay)]
    OBVIOUS
  <2>1. /\ w.pc = "handshake" /\ w.replay # <<>>
        /\ viewer' = [viewer EXCEPT ![v] = u]
        /\ channels' = channels /\ chan' = chan /\ run' = run
    BY <1>4, <1>p, <2>p DEF SendReplay
  <2>2. w.chan \in Chans /\ chan[w.chan].seq \in Nat /\ Follower(w, chan[w.chan].seq)
    BY <1>1, <1>2, <2>1
  <2>3. /\ Follower(u, chan[w.chan].seq) /\ u.source = w.chan
        /\ u.cursor \in Nat /\ u.cursor <= chan[w.chan].seq
        /\ w.source = w.chan => w.cursor < u.cursor
        /\ w.honest => \A m \in w.owed : m >= u.cursor
    <3>1. w.pc # "live"
      BY <2>1
    <3> QED BY <1>1, <2>1, <2>2, <2>p, <3>1, RendersGap
  <2>4. u.pc = w.pc /\ u.chan = w.chan
    BY <1>1, <2>p DEF Rendered, ViewerType
  <2>5. u.cursor # None
    BY <2>3, NoneAssumption
  <2>6. Advances(w, u)
    BY <1>1, <1>2, <2>3 DEF Advances
  <2> QED BY <1>3, <2>1, <2>3, <2>4, <2>5, <2>6
<1>5. CASE Pump(v)
  <2>p. PICK n, u : /\ n = Head(w.queue)
                    /\ u = IF n <= w.last THEN [w EXCEPT !.queue = Tail(w.queue)]
                           ELSE [Rendered(w, n) EXCEPT !.queue = Tail(w.queue), !.last = n]
    OBVIOUS
  <2>1. /\ w.pc = "live" /\ w.queue # <<>>
        /\ viewer' = [viewer EXCEPT ![v] = u]
        /\ channels' = channels /\ chan' = chan /\ run' = run
    <3>1. Rendered(w, n).queue = w.queue
      BY <1>1 DEF Rendered, ViewerType
    <3> QED BY <1>5, <1>p, <2>p, <3>1 DEF Pump
  <2>2. w.chan \in Chans /\ chan[w.chan].seq \in Nat /\ Follower(w, chan[w.chan].seq)
    BY <1>1, <1>2, <2>1
  <2>3. /\ Follower(u, chan[w.chan].seq)
        /\ u.cursor # w.cursor \/ u.source # w.source =>
             /\ u.source = w.chan /\ u.cursor \in Nat /\ u.cursor <= chan[w.chan].seq
             /\ w.source = w.chan => w.cursor < u.cursor
             /\ w.honest => \A m \in w.owed : m >= u.cursor
    <3>1. w.source = w.chan => w.cursor # None
      BY <1>1, <1>2, <2>1
    <3>2. w \in ViewerType /\ w.pc = "live" /\ w.queue # <<>>
      BY <1>1, <2>1
    <3>3. PICK s : s = chan[w.chan].seq
      OBVIOUS
    <3>4. s \in Nat /\ Follower(w, s)
      BY <2>2, <3>3
    <3>5. /\ Follower(u, s)
          /\ u.cursor # w.cursor \/ u.source # w.source =>
               /\ u.source = w.chan /\ u.cursor \in Nat /\ u.cursor <= s
               /\ w.source = w.chan => w.cursor < u.cursor
               /\ w.honest => \A m \in w.owed : m >= u.cursor
      <4>1. n = Head(w.queue) /\ (n <= w.last => u = [w EXCEPT !.queue = Tail(w.queue)])
        BY <2>p
      <4>2. ~(n <= w.last) =>
               u = [Rendered(w, n) EXCEPT !.queue = Tail(w.queue), !.last = n]
        BY <2>p
      <4> QED BY <3>1, <3>2, <3>4, <4>1, <4>2, Pumps
    <3> QED BY <3>3, <3>5
  <2>4. u.pc = w.pc /\ u.chan = w.chan
    BY <1>1, <2>p DEF Rendered, ViewerType
  <2>5. u.source # None => /\ u.cursor # None
                           /\ InUse(u.source) => u.cursor <= chan[u.source].seq
    <3>1. CASE u.cursor = w.cursor /\ u.source = w.source
      BY <1>2, <3>1
    <3>2. CASE u.cursor # w.cursor \/ u.source # w.source
      BY <2>3, <3>2, NoneAssumption
    <3> QED BY <3>1, <3>2
  <2>6. Advances(w, u)
    BY <1>1, <1>2, <2>3 DEF Advances
  <2> QED BY <1>3, <2>1, <2>3, <2>4, <2>5, <2>6
<1>6. CASE GoLive(v)
  <2>p. PICK u : u = [w EXCEPT !.pc = "live"]
    OBVIOUS
  <2>1. /\ w.pc = "handshake" /\ w.replay = <<>>
        /\ viewer' = [viewer EXCEPT ![v] = u]
        /\ channels' = channels /\ chan' = chan /\ run' = run
    BY <1>0, <1>6, <1>p, <2>p DEF GoLive, TypeOK
  <2>2. /\ u.pc = "live" /\ u.chan = w.chan /\ u.replay = w.replay /\ u.queue = w.queue
        /\ u.last = w.last /\ u.owed = w.owed /\ u.honest = w.honest
        /\ u.source = w.source /\ u.cursor = w.cursor
    BY <1>1, <2>p DEF ViewerType
  <2>3. Follower(u, chan[w.chan].seq)
    <3> DEFINE s == chan[w.chan].seq
    <3>1. Follower(w, s)
      BY <1>2, <2>1
    <3> HIDE DEF s
    <3>2. Follower(u, s)
      BY <2>1, <2>2, <3>1 DEF Follower, Due
    <3> QED BY <3>2 DEF s
  <2>4. Advances(w, u)
    BY <2>2 DEF Advances
  <2> QED BY <1>2, <1>3, <2>1, <2>2, <2>3, <2>4
<1>7. CASE HandshakeFails(v) \/ Disconnect(v)
  <2>p. PICK u : u = Away(w.home, w.cursor, w.source)
    OBVIOUS
  <2>1. /\ w.pc # "away" /\ viewer' = [viewer EXCEPT ![v] = u]
        /\ channels' = channels /\ run' = run
    BY <1>7, <1>p, <2>p DEF HandshakeFails, Disconnect
  <2>2. u.pc = "away" /\ u.queue = <<>> /\ u.source = w.source /\ u.cursor = w.cursor
    BY <2>p DEF Away
  <2>3. ASSUME NEW c \in Chans
        PROVE  /\ chan'[c].run = chan[c].run /\ chan'[c].seq = chan[c].seq
               /\ chan'[c].ring = chan[c].ring
               /\ chan'[c].subs = chan[c].subs \ {v}
    <3>1. chan[c] \in ChanType /\ chan \in [Chans -> ChanType]
      BY <1>0 DEF TypeOK
    <3>2. CASE c = w.chan
      <4>1. \/ chan'[c] = [chan[c] EXCEPT !.subs = @ \ {v}, !.leaked = TRUE]
            \/ chan'[c] = [chan[c] EXCEPT !.subs = @ \ {v}, !.old = FALSE]
        BY <1>7, <1>p, <3>1, <3>2 DEF HandshakeFails, Disconnect
      <4> QED BY <3>1, <4>1 DEF ChanType
    <3>3. CASE c # w.chan
      <4>1. chan'[c] = chan[c]
        BY <1>7, <1>p, <3>1, <3>3 DEF HandshakeFails, Disconnect
      <4>2. v \notin chan[c].subs /\ chan[c].subs \subseteq Viewers
        BY <1>2, <3>1, <3>3 DEF ChanType
      <4> QED BY <4>1, <4>2
    <3> QED BY <3>2, <3>3
  <2>4. Advances(w, u)
    BY <2>2 DEF Advances
  <2> QED BY <1>2, <1>3, <2>1, <2>2, <2>3, <2>4
<1>8. CASE Reload(v)
  <2>p. PICK u : u = Away(None, None, None)
    OBVIOUS
  <2>1. /\ w.pc = "away" /\ viewer' = [viewer EXCEPT ![v] = u]
        /\ channels' = channels /\ chan' = chan /\ run' = run
    BY <1>8, <1>p, <2>p DEF Reload
  <2>2. u.pc = "away" /\ u.queue = <<>> /\ u.source = None /\ u.cursor = None
    BY <2>p DEF Away
  <2>3. \A c \in Chans : chan[c].subs = chan[c].subs \ {v}
    BY <1>2, <2>1
  <2>4. Advances(w, u)
    BY <2>2 DEF Advances
  <2> QED BY <1>3, <2>1, <2>2, <2>3, <2>4
<1>9. ASSUME NEW t \in Threads, Attach(v, t)
      PROVE  /\ FInv'
             /\ \A x \in Viewers : Advances(viewer[x], viewer'[x])
  <2>1. FInv' /\ \A x \in Viewers : viewer'[x].cursor = viewer[x].cursor
    BY <1>9, AttachFrames
  <2> QED BY <2>1 DEF Advances
<1> QED BY <1>4, <1>5, <1>6, <1>7, <1>8, <1>9 DEF ViewerStep

-----------------------------------------------------------------------------
(* The invariant and what it says *)

\* Only a client that renders moves its cursor.
LEMMA TurnStepCursors ==
    ASSUME TypeOK, NEW r \in Runs, TurnStep(r), NEW v \in Viewers
    PROVE  viewer'[v].cursor = viewer[v].cursor
<1>1. ASSUME NEW tc, NEW n, NEW ephemeral, viewer' = Heard(viewer, tc, n, ephemeral)
      PROVE  viewer'[v].cursor = viewer[v].cursor
  <2>1. viewer[v] \in ViewerType
    BY DEF TypeOK
  <2>2. PICK queue, owed :
            viewer'[v] \in {viewer[v], [viewer[v] EXCEPT !.queue = queue, !.owed = owed]}
    BY <1>1, <2>1 DEF Heard, ViewerType
  <2> QED BY <2>1, <2>2 DEF ViewerType
<1>2. CASE FirstStep(r)
  BY <1>2 DEF FirstStep
<1>3. CASE EmitText(r) \/ Ask(r) \/ AskReturns(r)
  <2>1. PICK kinds : Emit(r, kinds)
    BY <1>3 DEF EmitText, Ask, AskReturns
  <2> QED BY <1>1, <2>1 DEF Emit
<1>4. CASE EmitAudio(r)
  BY <1>1, <1>4 DEF EmitAudio
<1>5. CASE Finish(r) \/ Fail(r) \/ Unwind(r)
  BY <1>1, <1>5 DEF Finish, Fail, Unwind, Settle
<1> QED BY <1>2, <1>3, <1>4, <1>5 DEF TurnStep

LEMMA InitFrames == Init => FInv
<1> SUFFICES ASSUME Init PROVE FInv
  OBVIOUS
<1>1. TypeOK
  BY TypeInit
<1>2. /\ \A r \in Runs : ~Unsettled(r)
      /\ \A c \in Chans : chan[c].subs = {} /\ ~InUse(c)
  BY DEF Init, NoRun, TurnRun, Unsettled, ThreadChannel, InUse
<1>3. \A v \in Viewers : /\ viewer[v].pc = "away" /\ viewer[v].queue = <<>>
                         /\ viewer[v].source = None
  BY DEF Init, Away
<1> QED BY <1>1, <1>2, <1>3 DEF FInv, Bound, Joined, Rings, Marked, Fed

LEMMA RestartFrames ==
    ASSUME FInv, TypeOK', Restart
    PROVE  FInv' /\ \A v \in Viewers : viewer'[v].cursor = viewer[v].cursor
<1>1. \A r \in Runs : ~Unsettled(r)'
  BY DEF Restart, NoRun, TurnRun, Unsettled
<1>2. \A c \in Chans : chan'[c].subs = {} /\ ~InUse(c)'
  BY <1>1 DEF Restart, ThreadChannel, InUse
<1>3. \A v \in Viewers : /\ viewer'[v].pc = "away" /\ viewer'[v].queue = <<>>
                         /\ viewer'[v].source = None /\ viewer'[v].cursor = viewer[v].cursor
  BY DEF Restart, Away
<1>4. Bound' /\ Joined' /\ Rings' /\ Marked' /\ Fed'
  BY <1>1, <1>2, <1>3 DEF Bound, Joined, Rings, Marked, Fed
<1> QED BY <1>3, <1>4 DEF FInv

\* Every step keeps the frames, and a cursor into a channel only grows.
LEMMA NextFrames ==
    ASSUME FInv, [Next]_vars
    PROVE  /\ FInv'
           /\ \A v \in Viewers : Advances(viewer[v], viewer'[v])
<1> DEFINE Goal == /\ FInv'
                   /\ \A v \in Viewers : Advances(viewer[v], viewer'[v])
           Still == \A v \in Viewers : viewer'[v].cursor = viewer[v].cursor
<1>0. TypeOK /\ TypeOK'
  BY TypeStep DEF FInv
<1>1. FInv' /\ Still => Goal
  BY DEF Advances
<1>2. ASSUME NEW t \in Threads, Start(t) PROVE FInv' /\ Still
  BY <1>2, StartFrames
<1>3. ASSUME NEW t \in Threads, Cancel(t) \/ AnswerAsk(t) PROVE FInv' /\ Still
  <2>1. \A s \in Runs : /\ run'[s].task = run[s].task /\ run'[s].status = run[s].status
                        /\ run'[s].chan = run[s].chan /\ run'[s].start = run[s].start
                        /\ run[s].ask # "none" => run'[s].ask # "none"
    BY <1>0, <1>3 DEF Cancel, AnswerAsk, TypeOK, RunType
  <2>2. channels' = channels /\ chan' = chan /\ viewer' = viewer
    BY <1>3 DEF Cancel, AnswerAsk
  <2>3. \A s \in Runs : Unsettled(s)' => Unsettled(s)
    BY <2>1 DEF Unsettled
  <2>4. FInv'
    BY <1>0, <2>1, <2>2, <2>3, QuietFrames
  <2> QED BY <2>2, <2>4
<1>4. ASSUME NEW r \in Runs, TurnStep(r) PROVE FInv' /\ Still
  BY <1>0, <1>4, TurnStepFrames, TurnStepCursors
<1>5. ASSUME NEW v \in Viewers, ViewerStep(v) PROVE Goal
  BY <1>5, ViewerStepFrames
<1>6. ASSUME NEW c \in Chans, Age(c) PROVE FInv' /\ Still
  <2>1. channels' = channels /\ viewer' = viewer /\ run' = run
    BY <1>6 DEF Age
  <2>2. \A d \in Chans : /\ chan'[d].run = chan[d].run /\ chan'[d].subs = chan[d].subs
                         /\ chan'[d].seq = chan[d].seq /\ chan'[d].ring = chan[d].ring
    BY <1>0, <1>6 DEF Age, TypeOK, ChanType
  <2>3. \A s \in Runs : Unsettled(s)' => Unsettled(s)
    BY <2>1 DEF Unsettled
  <2>4. FInv'
    BY <1>0, <2>1, <2>2, <2>3, QuietFrames
  <2> QED BY <2>1, <2>4
<1>7. ASSUME Restart PROVE FInv' /\ Still
  BY <1>0, <1>7, RestartFrames
<1>8. ASSUME UNCHANGED vars PROVE FInv' /\ Still
  <2>1. channels' = channels /\ chan' = chan /\ run' = run /\ viewer' = viewer
    BY <1>8 DEF vars
  <2>2. \A s \in Runs : Unsettled(s)' => Unsettled(s)
    BY <2>1 DEF Unsettled
  <2>3. FInv'
    BY <1>0, <2>1, <2>2, QuietFrames
  <2> QED BY <2>1, <2>3
<1>9. Goal
  <2> HIDE DEF Goal, Still
  <2> QED BY <1>1, <1>2, <1>3, <1>4, <1>5, <1>6, <1>7, <1>8 DEF Next
<1> QED BY <1>9

LEMMA FrameInvariant == Spec => []FInv
<1>1. FInv /\ [Next]_vars => FInv'
  BY NextFrames
<1> QED BY <1>1, InitFrames, PTL DEF Spec

\* However the handshake, the turn, other viewers, sweeps and restarts
\* interleave, an attached client whose number came from this channel misses no
\* kept frame: each is in its replay, or in its queue above the number the pump
\* skips to.  No assumption on the sizes is needed.
THEOREM ResumeIsLossless == Spec => []LosslessResume
<1>1. FInv => LosslessResume
  <2> SUFFICES ASSUME FInv, NEW v \in Viewers, viewer[v].pc # "away", viewer[v].honest,
                      NEW n \in viewer[v].owed
               PROVE  n \in Pending(v)
    BY DEF LosslessResume
  <2>1. Due(viewer[v], n)
    BY DEF FInv, Fed, Follower
  <2> QED BY <2>1 DEF Due, Pending
<1> QED BY <1>1, FrameInvariant, PTL

\* What a replay can look like: turns one after the other, each closed before
\* the next, and no prompt that nothing will resolve.
THEOREM RingHoldsTurns == Spec => []RingIsTurns
<1>1. FInv => RingIsTurns
  <2> SUFFICES ASSUME FInv, NEW c \in channels
               PROVE  LET ring == chan[c].ring
                          n == Len(ring)
                      IN  /\ \A i \in 1..(n - 1) :
                               /\ ring[i].kind = "end" <=> ring[i + 1].kind = "start"
                               /\ ring[i].kind = "ask" => ring[i + 1].kind = "ask_resolved"
                          /\ n > 0 /\ ring[n].kind = "ask" =>
                               \E r \in Active(chan[c].thread) : run[r].ask # "none"
                          /\ n > 0 /\ chan[c].run # None /\ ~Running(run, chan[c].run) =>
                               ring[n].kind = "end"
    BY DEF RingIsTurns
  <2> DEFINE ring == chan[c].ring
             n == Len(ring)
  <2>1. c \in Chans /\ chan[c].run \in Runs \cup {None} /\ ring \in Seq(Frame)
    BY DEF FInv, TypeOK, ChanType
  <2>2. Ringed(chan[c]) /\ Phase(chan[c], run, c)
    BY <2>1 DEF FInv, Rings, InUse
  <2>3. \A i \in 1..(n - 1) : /\ ring[i].kind = "end" <=> ring[i + 1].kind = "start"
                              /\ ring[i].kind = "ask" => ring[i + 1].kind = "ask_resolved"
    BY <2>2 DEF Ringed, Follows
  <2>4. n > 0 => ring # <<>> /\ LastKind(ring) = ring[n].kind
    BY <2>1, EmptySeq DEF LastKind
  <2>5. ASSUME n > 0, ring[n].kind = "ask"
        PROVE  \E r \in Active(chan[c].thread) : run[r].ask # "none"
    <3>1. /\ chan[c].run \in Runs /\ chan[c].run # None
          /\ run[chan[c].run].status = "running" /\ run[chan[c].run].ask # "none"
      BY <2>1, <2>2, <2>4, <2>5 DEF Phase
    <3> QED BY <3>1 DEF Active, Registered, Running
  <2>6. n > 0 /\ chan[c].run # None /\ ~Running(run, chan[c].run) => ring[n].kind = "end"
    BY <2>2, <2>4 DEF Phase, Running
  <2> QED BY <2>3, <2>5, <2>6
<1> QED BY <1>1, FrameInvariant, PTL

\* Across any number of sockets, sweeps and restarts a client is shown the
\* frames of a channel in order, none of them twice, and, when the number it
\* presented came from that channel, it never passes one it is still owed.
THEOREM ShownInOrder == Spec => InOrder
<1>1. FInv /\ [Next]_vars => [\A v \in Viewers : Advances(viewer[v], viewer'[v])]_vars
  BY NextFrames
<1>2. (\A v \in Viewers : Advances(viewer[v], viewer'[v])) =>
        \A v \in Viewers :
            LET w == viewer[v]
                n == viewer'[v].cursor
            IN  n \notin {w.cursor, None} =>
                    /\ w.source # None /\ viewer'[v].source = w.source => n > w.cursor
                    /\ w.honest => \A m \in w.owed : m >= n
  BY DEF Advances
<1> QED BY <1>1, <1>2, FrameInvariant, PTL DEF Spec, InOrder
=============================================================================
