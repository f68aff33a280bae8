---------------------------- MODULE AsksProofs ----------------------------
(***************************************************************************)
(* Theorems about Asks, for any agents and any bounds: the answers an      *)
(* agent is resumed with are on record, and a live ask is durable.         *)
(***************************************************************************)
EXTENDS Asks, TLAPS

\* From the write of the record to the resumption.
Asking == {"indexed", "waiting", "resolving", "replying"}

\* What the place of post_ask tells of the ask, its row and its graph.
Posted(g) ==
    /\ graph[g].at = "parked" => graph[g].n # 0
    /\ poster[g].pc \notin Asking => poster[g].ask = None
    /\ poster[g].pc \in Asking =>
        poster[g].ask \in Asks /\ poster[g].ask.owner = g /\ graph[g].at = "parked"
    /\ poster[g].pc = "indexed" => rows[poster[g].ask] = "none"
    /\ poster[g].pc \in {"waiting", "resolving"} => rows[poster[g].ask] = "pending"
    /\ poster[g].pc \in {"indexed", "waiting"} => poster[g].ask \in index
    /\ poster[g].pc \in {"resolving", "replying"} => poster[g].answer \in Answers
    /\ poster[g].pc = "replying" => rows[poster[g].ask] = poster[g].answer
    /\ g \in Background /\ poster[g].pc \in Asking => Mirrored(g)

\* An ask that has lost its waiter: an orphan, one that is being retired or one
\* that is answered late.
Lost(a) == a \in orphaned \/ a \in retiring \/ \E r \in entering : r.ask = a

\* Nobody waits for a lost ask.
Past(a) == Lost(a) => rows[a] # "none" /\ poster[a.owner].ask # a

\* LiveIsListed of one ask.
Live(a) ==
    futures[a] # None =>
        /\ a \in index \ orphaned /\ rows[a] = "pending"
        /\ poster[a.owner].ask = a /\ poster[a.owner].pc = "waiting"

\* A subagent whose ask is pending is parked, and unless it is the one the
\* watcher waits for, the mirror does not have it.
Unmirrored(a) ==
    a.owner \in Background /\ rows[a] = "pending" =>
        /\ graph[a.owner].at = "parked"
        /\ poster[a.owner].ask = a \/ ~Mirrored(a.owner)

\* What a responder was told agrees with what the waiter has.
Heard(a) ==
    \A s \in told : s.ask = a =>
        /\ rows[a] # "none"
        /\ poster[a.owner].ask = a =>
            /\ poster[a.owner].pc = "waiting" => futures[a] = s.answer
            /\ poster[a.owner].pc \in {"resolving", "replying"} =>
                poster[a.owner].answer = s.answer

\* An orphan is unanswered; a late answer is for a conversation, and no graph was
\* resumed with an answer to the same ask.
Late(a) ==
    /\ a \in orphaned => rows[a] = "pending"
    /\ \A r \in entering : r.ask = a => a.owner \in Chats /\ \A x \in applied : x.ask # a

\* DecisionOnRecord of one ask.
Decided(a) ==
    \A r \in applied : r.ask = a =>
        /\ rows[a] = r.answer
        /\ \A s \in told : s.ask = a => s.answer = r.answer

Kept(a) == Past(a) /\ Live(a) /\ Unmirrored(a) /\ Heard(a) /\ Late(a) /\ Decided(a)

Polled == \A b \in round : Mirrored(b)

\* The inductive invariant.
OnRecord ==
    /\ TypeOK /\ Polled
    /\ \A g \in Agents : Posted(g)
    /\ \A a \in Asks : Kept(a)

LEMMA InitOnRecord == Init => OnRecord
BY NoneAssumption, NoAskAssumption, BoundsAssumption
   DEF Init, OnRecord, TypeOK, Posted, Past, Lost, Live, Unmirrored, Polled, Heard,
       Late, Decided, Kept, NoPost, Pcs, Asking, Posting

-----------------------------------------------------------------------------
(* The frame *)

State == [at : {"idle", "running", "parked", "ended"}, n : 0..MaxInterrupts]
Place == [pc : Pcs, ask : Asks \cup {None}, answer : Answers \cup {None}]
Status == {"unseen", "ignored", "running", "awaiting_user", "success", "error", "timeout"}

\* A step of agent g that concerns one ask of its own, or none: it is enough to
\* look at g, at that ask and at what is pending of g.
LEMMA Frame ==
    ASSUME OnRecord, NEW g \in Agents, NEW a \in Asks \cup {None},
           a \in Asks => a.owner = g /\ Kept(a)',
           TypeOK', Posted(g)', Polled',
           \A h \in Agents \ {g} : graph'[h] = graph[h] /\ poster'[h] = poster[h],
           \A b \in Background \ {g} : mirror'[b] = mirror[b],
           \A x \in Asks \ {a} :
               /\ rows'[x] = rows[x] /\ futures'[x] = futures[x]
               /\ x \in index' <=> x \in index
               /\ x \in orphaned' <=> x \in orphaned
               /\ x \in retiring' <=> x \in retiring,
           \A r : r.ask # a => /\ r \in entering' <=> r \in entering
                               /\ r \in told' <=> r \in told
                               /\ r \in applied' <=> r \in applied,
           \/ poster'[g] = poster[g]
           \/ poster[g].ask \in {a, None} /\ poster'[g].ask \in {a, None},
           \A x \in Asks \ {a} : g \in Background /\ x.owner = g /\ rows[x] = "pending" =>
               graph'[g].at = "parked" /\ (poster'[g].ask = x \/ ~Mirrored(g)')
    PROVE  OnRecord'
<1> USE DEF OnRecord
<1>1. ASSUME NEW h \in Agents \ {g} PROVE Posted(h)'
  <2>1. Posted(h) /\ poster'[h] = poster[h] /\ graph'[h] = graph[h]
        /\ h \in Background => mirror'[h] = mirror[h]
    OBVIOUS
  <2>2. poster[h].pc \in Asking => poster[h].ask \in Asks \ {a}
    BY <2>1, NoAskAssumption DEF Posted
  <2>3. poster[h].pc \in Asking =>
            /\ rows'[poster[h].ask] = rows[poster[h].ask]
            /\ poster[h].ask \in index' <=> poster[h].ask \in index
    BY <2>2
  <2> QED BY <2>1, <2>3 DEF Posted, Asking, Mirrored
<1>2. ASSUME NEW x \in Asks \ {a} PROVE Kept(x)'
  <2>1. x.owner \in Agents /\ x \in Asks /\ x # None /\ x # a
    BY NoAskAssumption DEF Asks
  <2>2. poster'[x.owner] = poster[x.owner]
        \/ (poster[x.owner].ask # x /\ poster'[x.owner].ask # x)
    <3>1. CASE x.owner = g
      BY <2>1, <3>1
    <3>2. CASE x.owner # g
      BY <2>1, <3>2
    <3> QED BY <3>1, <3>2
  <2>3. /\ rows'[x] = rows[x] /\ futures'[x] = futures[x]
        /\ x \in index' <=> x \in index
        /\ x \in orphaned' <=> x \in orphaned
        /\ Lost(x)' <=> Lost(x)
    BY DEF Lost
  <2>4. Kept(x)
    OBVIOUS
  <2>5. Past(x)' /\ Live(x)'
    BY <2>2, <2>3, <2>4 DEF Kept, Past, Live
  <2>6. Unmirrored(x)'
    BY <2>1, <2>3, <2>4 DEF Kept, Unmirrored, Mirrored
  <2>7. Heard(x)'
    BY <2>2, <2>3, <2>4 DEF Kept, Heard
  <2>8. Late(x)' /\ Decided(x)'
    BY <2>3, <2>4 DEF Kept, Late, Decided
  <2> QED BY <2>5, <2>6, <2>7, <2>8 DEF Kept
<1> QED BY <1>1, <1>2

-----------------------------------------------------------------------------
(* The agents *)

\* A step of an agent that has no ask changes nothing of the ledger.
LEMMA Bare ==
    ASSUME OnRecord, NEW g \in Agents,
           graph' \in [Agents -> State], poster' \in [Agents -> Place],
           mirror' \in [Background -> Status], round' \subseteq Background, Polled',
           \A h \in Agents \ {g} : graph'[h] = graph[h] /\ poster'[h] = poster[h],
           \A b \in Background \ {g} : mirror'[b] = mirror[b],
           poster[g].ask = None, poster'[g].pc \notin Asking, poster'[g].ask = None,
           g \in Background => graph[g].at # "parked" \/ Mirrored(g),
           graph'[g].at = "parked" => graph'[g].n # 0,
           UNCHANGED <<registry, futures, retiring, entering, restarts, history>>
    PROVE  OnRecord'
<1>1. TypeOK'
  BY DEF OnRecord, TypeOK, State, Place, Status, registry, history
<1>2. Posted(g)'
  BY DEF Posted, Asking
<1>3. \A x \in Asks : g \in Background /\ x.owner = g => rows[x] # "pending"
  BY NoAskAssumption DEF OnRecord, Kept, Unmirrored
<1> QED BY <1>1, <1>2, <1>3, NoAskAssumption, Frame DEF registry, history

\* Turns, tasks and subagents start, interrupt and end.
LEMMA RunOnRecord ==
    ASSUME OnRecord, NEW g \in Agents,
           \/ g \in Chats /\ Converse(g)
           \/ g \in Foreground /\ Execute(g)
           \/ g \in Background /\ Launch(g)
           \/ Interrupt(g)
           \/ Ends(g)
    PROVE  OnRecord'
<1>1. /\ graph \in [Agents -> State] /\ poster \in [Agents -> Place]
      /\ mirror \in [Background -> Status] /\ round \subseteq Background /\ Polled
      /\ Posted(g)
  BY DEF OnRecord, TypeOK, State, Place, Status
<1>2. g \in Background => g \notin Local /\ g \notin Chats /\ g \notin Foreground
  BY AgentsAssumption DEF Local
<1>3. NoPost \in Place /\ Driving \in Place /\ NoPost.pc = "none" /\ Driving.pc = "driving"
      /\ NoPost.ask = None /\ Driving.ask = None
  BY DEF NoPost, Driving, Place, Pcs
<1>4. /\ \A at \in {"idle", "running", "parked", "ended"} : [graph[g] EXCEPT !.at = at] \in State
      /\ graph[g].n < MaxInterrupts => [at |-> "parked", n |-> graph[g].n + 1] \in State
  BY <1>1, BoundsAssumption DEF State
<1>5. UNCHANGED <<registry, futures, retiring, entering, mirror, round, restarts, history>> /\ Polled'
  <2>1. UNCHANGED <<registry, futures, retiring, entering, mirror, round, restarts, history>>
    BY DEF Converse, Execute, Launch, Interrupt, Ends, watcher
  <2> QED BY <1>1, <2>1 DEF Polled, Mirrored
<1>6. CASE g \in Chats /\ Converse(g)
  <2>1. graph' \in [Agents -> State] /\ poster' \in [Agents -> Place]
    BY <1>1, <1>3, <1>4, <1>6 DEF Converse
  <2> QED BY <1>1, <1>2, <1>3, <1>5, <1>6, <2>1, Bare DEF Converse, Posting, Posted, Asking
<1>7. CASE g \in Foreground /\ Execute(g)
  <2>1. graph' \in [Agents -> State] /\ poster' \in [Agents -> Place]
    BY <1>1, <1>3, <1>4, <1>7, graph[g].at \in {"idle", "running", "parked", "ended"}
       DEF Execute, State
  <2> QED BY <1>1, <1>2, <1>3, <1>5, <1>7, <2>1, Bare DEF Execute, Posting, Posted, Asking
<1>8. CASE g \in Background /\ Launch(g)
  <2>1. graph' \in [Agents -> State] /\ poster' \in [Agents -> Place]
    BY <1>1, <1>4, <1>8 DEF Launch
  <2>2. poster[g].pc \notin Asking /\ poster[g].ask = None
    BY <1>1, <1>8 DEF Launch, Posted
  <2> QED BY <1>1, <1>5, <1>8, <2>1, <2>2, Bare DEF Launch
<1>9. CASE Interrupt(g)
  <2>1. graph' \in [Agents -> State] /\ poster' \in [Agents -> Place]
    BY <1>1, <1>4, <1>9 DEF Interrupt
  <2>2. poster[g].pc \notin Asking /\ poster[g].ask = None
    BY <1>1, <1>9 DEF Interrupt, Posted
  <2>3. graph'[g].n # 0
    BY <1>1, <1>9 DEF Interrupt, State
  <2> QED BY <1>1, <1>5, <1>9, <2>1, <2>2, <2>3, Bare DEF Interrupt
<1>10. CASE Ends(g)
  <2>1. graph' \in [Agents -> State] /\ poster' \in [Agents -> Place]
    BY <1>1, <1>3, <1>4, <1>10 DEF Ends
  <2>2. poster[g].pc \notin Asking /\ poster[g].ask = None
    BY <1>1, <1>10 DEF Ends, Posted
  <2> QED BY <1>1, <1>3, <1>5, <1>10, <2>1, <2>2, Bare DEF Ends, Asking
<1> QED BY <1>6, <1>7, <1>8, <1>9, <1>10

-----------------------------------------------------------------------------
(* post_ask *)

\* The ask of an agent that had none is in the index: for a turn, or for the watcher.
LEMMA IndexOnRecord ==
    ASSUME OnRecord, NEW g \in Agents, Index(g), poster[g].pc \notin Asking,
           g \in Background => Mirrored(g) /\ Mirrored(g)',
           mirror' \in [Background -> Status], round' \subseteq round, Polled',
           \A b \in Background \ {g} : mirror'[b] = mirror[b],
           UNCHANGED <<graph, rows, orphaned, futures, retiring, entering, restarts, history>>
    PROVE  OnRecord'
<1> USE DEF OnRecord, history
<1>1. PICK k \in 1..MaxAttempts :
        LET a == [owner |-> g, about |-> graph[g].n, attempt |-> k] IN
        /\ Fresh(a) /\ graph[g].at = "parked" /\ index' = index \cup {a}
        /\ poster' = [poster EXCEPT ![g] = [NoPost EXCEPT !.pc = "indexed", !.ask = a]]
  BY DEF Index
<1>2. [owner |-> g, about |-> graph[g].n, attempt |-> k] \in Asks
  BY <1>1, BoundsAssumption DEF Asks, TypeOK, Posted
<1>3. PICK a \in Asks :
        /\ a.owner = g /\ rows[a] = "none" /\ a \notin index /\ index' = index \cup {a}
        /\ poster' = [poster EXCEPT ![g] = [NoPost EXCEPT !.pc = "indexed", !.ask = a]]
  BY <1>1, <1>2 DEF Fresh
<1>4. /\ poster'[g].pc = "indexed" /\ poster'[g].ask = a
      /\ \A h \in Agents \ {g} : poster'[h] = poster[h]
      /\ graph[g].at = "parked"
  BY <1>1, <1>3 DEF TypeOK, NoPost
<1>5. TypeOK'
  <2>1. poster' \in [Agents -> Place]
    BY <1>3 DEF TypeOK, NoPost, Place, Pcs
  <2> QED BY <1>3, <2>1 DEF TypeOK, Place, Status
<1>6. Posted(g)'
  BY <1>3, <1>4 DEF Posted, Asking
<1>7. poster[g].ask = None /\ \A x \in Asks : g \in Background /\ x.owner = g => rows[x] # "pending"
  BY NoAskAssumption DEF Kept, Unmirrored, Posted
<1>8. Kept(a)'
  <2>1. /\ Kept(a) /\ futures[a] = None
        /\ ~Lost(a) /\ a \notin orphaned /\ \A r \in entering : r.ask # a
        /\ \A r \in told \cup applied : r.ask # a
    BY <1>3 DEF Kept, Past, Live, Lost, Heard, Decided, TypeOK, Answers
  <2>2. Past(a)' /\ Live(a)' /\ Unmirrored(a)'
    BY <1>3, <1>4, <2>1 DEF Past, Lost, Live, Unmirrored
  <2>3. Heard(a)' /\ Late(a)' /\ Decided(a)'
    BY <1>3, <1>4, <2>1 DEF Heard, Late, Decided
  <2> QED BY <2>2, <2>3 DEF Kept
<1> QED BY <1>3, <1>4, <1>5, <1>6, <1>7, <1>8, Frame

LEMMA AskUserOnRecord == ASSUME OnRecord, NEW g \in Agents, AskUser(g) PROVE OnRecord'
<1>1. g \notin Background
  BY AgentsAssumption DEF AskUser
<1>2. poster[g].pc \notin Asking
  BY DEF AskUser, Posting, Asking
<1>3. mirror' \in [Background -> Status] /\ Polled'
  BY DEF AskUser, OnRecord, TypeOK, Polled, Mirrored, Status, watcher
<1> QED BY <1>1, <1>2, <1>3, IndexOnRecord DEF AskUser, watcher

\* An agent's ask is its own and not lost.  If it is a subagent's, the mirror has
\* the agent and nothing else of it is pending.
LEMMA Own ==
    ASSUME OnRecord, NEW g \in Agents, poster[g].pc \in Asking
    PROVE  LET a == poster[g].ask IN
           /\ a \in Asks /\ a.owner = g /\ a # None
           /\ Posted(g) /\ Kept(a) /\ ~Lost(a)
           /\ g \in Background => Mirrored(g) /\ \A x \in Asks \ {a} : x.owner = g => rows[x] # "pending"
BY NoAskAssumption DEF OnRecord, Posted, Kept, Past, Unmirrored

LEMMA ShowOnRecord == ASSUME OnRecord, NEW g \in Agents, Show(g) PROVE OnRecord'
<1> USE DEF registry, watcher, history
<1>1. poster[g].pc = "indexed" /\ poster[g].pc \in Asking
  BY DEF Show, Posting, Asking
<1>2. PICK a \in Asks :
      /\ a = poster[g].ask /\ a.owner = g /\ a # None /\ Posted(g) /\ Kept(a) /\ ~Lost(a)
      /\ g \in Background => Mirrored(g) /\ \A x \in Asks \ {a} : x.owner = g => rows[x] # "pending"
  BY <1>1, Own
<1>3. rows[a] = "none" /\ a \in index /\ graph[g].at = "parked"
  BY <1>1, <1>2 DEF Posted
<1>4. /\ UNCHANGED <<graph, index, orphaned, retiring, entering, mirror, round, told, applied>>
      /\ poster'[g].pc = "waiting" /\ poster'[g].ask = a
      /\ \A h \in Agents \ {g} : poster'[h] = poster[h]
      /\ rows'[a] = "pending" /\ \A x \in Asks \ {a} : rows'[x] = rows[x]
      /\ futures'[a] = "waiting" /\ \A x \in Asks \ {a} : futures'[x] = futures[x]
  BY <1>2 DEF Show, OnRecord, TypeOK
<1>5. TypeOK'
  <2>1. [poster[g] EXCEPT !.pc = "waiting"] \in Place
    <3>1. poster[g] \in Place
      BY DEF OnRecord, TypeOK, Place
    <3> QED BY <3>1 DEF Place, Pcs
  <2>2. poster' \in [Agents -> Place]
    BY <2>1 DEF OnRecord, TypeOK, Place, Show
  <2>3. rows' \in [Asks -> {"none", "pending", "cancelled"} \cup Answers]
        /\ futures' \in [Asks -> {None, "waiting"} \cup Answers]
    BY <1>2 DEF OnRecord, TypeOK, Show
  <2> QED BY <2>2, <2>3 DEF OnRecord, TypeOK, Place, Show
<1>6. Posted(g)' /\ Polled'
  BY <1>1, <1>2, <1>3, <1>4 DEF OnRecord, Posted, Asking, Polled, Mirrored
<1>7. Kept(a)'
  <2>1. \A r \in told \cup applied : r.ask # a
    BY <1>2, <1>3 DEF Kept, Heard, Decided, OnRecord, TypeOK, Answers
  <2>2. Past(a)' /\ Live(a)' /\ Unmirrored(a)'
    BY <1>2, <1>3, <1>4 DEF Past, Lost, Live, Unmirrored
  <2>3. Heard(a)' /\ Late(a)' /\ Decided(a)'
    BY <1>2, <1>4, <2>1 DEF Heard, Late, Decided, Lost
  <2> QED BY <2>2, <2>3 DEF Kept
<1> QED BY <1>2, <1>3, <1>4, <1>5, <1>6, <1>7, Frame DEF Mirrored

LEMMA WakeOnRecord == ASSUME OnRecord, NEW g \in Agents, Wake(g) PROVE OnRecord'
<1> USE DEF registry, watcher, history
<1>1. poster[g].pc = "waiting" /\ poster[g].pc \in Asking
  BY DEF Wake, Posting, Asking
<1>2. PICK a \in Asks :
      /\ a = poster[g].ask /\ a.owner = g /\ a # None /\ Posted(g) /\ Kept(a) /\ ~Lost(a)
      /\ g \in Background => Mirrored(g) /\ \A x \in Asks \ {a} : x.owner = g => rows[x] # "pending"
  BY <1>1, Own
<1>3. rows[a] = "pending" /\ graph[g].at = "parked" /\ futures[a] \in Answers
  BY <1>1, <1>2 DEF Posted, Wake
<1>4. /\ UNCHANGED <<graph, rows, orphaned, retiring, entering, mirror, round, told, applied>>
      /\ poster'[g].pc = "resolving" /\ poster'[g].ask = a /\ poster'[g].answer = futures[a]
      /\ \A h \in Agents \ {g} : poster'[h] = poster[h]
      /\ futures'[a] = None /\ \A x \in Asks \ {a} : futures'[x] = futures[x]
      /\ index' = index \ {a}
  BY <1>2 DEF Wake, OnRecord, TypeOK
<1>5. TypeOK'
  <2>1. poster' \in [Agents -> Place]
    <3>1. poster \in [Agents -> Place] /\ poster[g] \in Place
      BY DEF OnRecord, TypeOK, Place
    <3>2. [poster[g] EXCEPT !.pc = "resolving", !.answer = futures[a]] \in Place
      BY <1>3, <3>1 DEF Place, Pcs
    <3>3. poster' = [poster EXCEPT ![g] = [poster[g] EXCEPT !.pc = "resolving",
                                                            !.answer = futures[a]]]
      BY <1>2 DEF Wake
    <3> QED BY <3>1, <3>2, <3>3
  <2>2. futures' \in [Asks -> {None, "waiting"} \cup Answers]
    BY <1>2 DEF OnRecord, TypeOK, Wake
  <2>3. orphaned' \subseteq index' /\ index' \subseteq Asks
    BY <1>2, <1>4 DEF OnRecord, TypeOK, Lost
  <2> QED BY <1>4, <2>1, <2>2, <2>3 DEF OnRecord, TypeOK, Place, Wake
<1>6. Posted(g)' /\ Polled'
  BY <1>1, <1>2, <1>3, <1>4 DEF OnRecord, Posted, Asking, Polled, Mirrored
<1>7. Kept(a)'
  <2>1. Past(a)' /\ Live(a)' /\ Unmirrored(a)'
    BY <1>2, <1>3, <1>4 DEF Past, Lost, Live, Unmirrored
  <2>2. Heard(a)'
    BY <1>1, <1>2, <1>3, <1>4 DEF Kept, Heard
  <2>3. Late(a)' /\ Decided(a)'
    BY <1>2, <1>4 DEF Kept, Late, Decided
  <2> QED BY <2>1, <2>2, <2>3 DEF Kept
<1> QED BY <1>2, <1>3, <1>4, <1>5, <1>6, <1>7, Frame DEF Mirrored

LEMMA ResolveOnRecord == ASSUME OnRecord, NEW g \in Agents, Resolve(g) PROVE OnRecord'
<1> USE DEF registry, watcher, history
<1>1. poster[g].pc = "resolving" /\ poster[g].pc \in Asking
  BY DEF Resolve, Posting, Asking
<1>2. PICK a \in Asks :
      /\ a = poster[g].ask /\ a.owner = g /\ a # None /\ Posted(g) /\ Kept(a) /\ ~Lost(a)
      /\ g \in Background => Mirrored(g) /\ \A x \in Asks \ {a} : x.owner = g => rows[x] # "pending"
  BY <1>1, Own
<1>3. rows[a] = "pending" /\ graph[g].at = "parked" /\ poster[g].answer \in Answers
  BY <1>1, <1>2 DEF Posted
<1>4. /\ UNCHANGED <<graph, index, orphaned, futures, retiring, entering, mirror, round, told, applied>>
      /\ poster'[g].pc = "replying" /\ poster'[g].ask = a /\ poster'[g].answer = poster[g].answer
      /\ \A h \in Agents \ {g} : poster'[h] = poster[h]
      /\ rows' = [rows EXCEPT ![a] = poster[g].answer]
      /\ rows'[a] = poster[g].answer /\ \A x \in Asks \ {a} : rows'[x] = rows[x]
      /\ poster[g].answer \notin {"none", "pending"}
  <2>1. rows' = [rows EXCEPT ![a] = poster[g].answer]
    BY <1>2, <1>3 DEF Resolve, Settled
  <2> QED BY <1>2, <1>3, <2>1 DEF Resolve, OnRecord, TypeOK, Answers
<1>5. TypeOK'
  <2>1. [poster[g] EXCEPT !.pc = "replying"] \in Place
    BY DEF OnRecord, TypeOK, Place, Pcs
  <2>2. poster' \in [Agents -> Place]
    BY <2>1 DEF OnRecord, TypeOK, Place, Resolve
  <2>3. rows' \in [Asks -> {"none", "pending", "cancelled"} \cup Answers]
    BY <1>2, <1>3, <1>4 DEF OnRecord, TypeOK
  <2> QED BY <1>4, <2>2, <2>3 DEF OnRecord, TypeOK, Place, Resolve
<1>6. Posted(g)' /\ Polled'
  BY <1>1, <1>2, <1>3, <1>4 DEF OnRecord, Posted, Asking, Polled, Mirrored
<1>7. Kept(a)'
  <2>1. futures[a] = None /\ \A r \in applied : r.ask # a
    BY <1>1, <1>2, <1>3 DEF Kept, Live, Decided, OnRecord, TypeOK, Answers
  <2>2. Past(a)' /\ Live(a)' /\ Unmirrored(a)'
    BY <1>2, <1>3, <1>4, <2>1 DEF Past, Lost, Live, Unmirrored
  <2>3. Heard(a)'
    BY <1>1, <1>2, <1>3, <1>4 DEF Kept, Heard
  <2>4. Late(a)' /\ Decided(a)'
    BY <1>2, <1>4, <2>1 DEF Late, Decided, Lost
  <2> QED BY <2>2, <2>3, <2>4 DEF Kept
<1> QED BY <1>2, <1>3, <1>4, <1>5, <1>6, <1>7, Frame DEF Mirrored

LEMMA ReplyOnRecord ==
    ASSUME OnRecord, NEW g \in Agents, Reply(g) \/ ReplyFails(g) PROVE OnRecord'
<1> USE DEF registry, watcher, history
<1>1. poster[g].pc = "replying" /\ poster[g].pc \in Asking
  BY DEF Reply, ReplyFails, Posting, Asking
<1>2. PICK a \in Asks :
      /\ a = poster[g].ask /\ a.owner = g /\ a # None /\ Posted(g) /\ Kept(a) /\ ~Lost(a)
      /\ g \in Background => Mirrored(g) /\ \A x \in Asks \ {a} : x.owner = g => rows[x] # "pending"
  BY <1>1, Own
<1>3. graph[g].at = "parked" /\ poster[g].answer \in Answers /\ rows[a] = poster[g].answer
      /\ rows[a] # "pending" /\ rows[a] # "none" /\ futures[a] = None
  BY <1>1, <1>2 DEF Posted, Answers, Kept, Live
<1>4. /\ UNCHANGED <<rows, index, orphaned, futures, retiring, entering, round, told>>
      /\ poster'[g].pc \in {"none", "driving"} /\ poster'[g].ask = None
      /\ poster'[g].answer = None
      /\ poster' \in [Agents -> Place] /\ graph' \in [Agents -> State]
      /\ mirror' \in [Background -> Status]
      /\ \A h \in Agents \ {g} : poster'[h] = poster[h] /\ graph'[h] = graph[h]
      /\ \A b \in Background \ {g} : mirror'[b] = mirror[b]
      /\ g \in Background => Mirrored(g)'
      /\ graph'[g].at \in {"running", "parked"} /\ graph'[g].n = graph[g].n
  <2>1. NoPost \in Place /\ Driving \in Place /\ NoPost.pc = "none" /\ Driving.pc = "driving"
        /\ NoPost.ask = None /\ Driving.ask = None /\ NoPost.answer = None /\ Driving.answer = None
    BY DEF NoPost, Driving, Place, Pcs
  <2>2. /\ poster \in [Agents -> Place] /\ graph \in [Agents -> State]
        /\ mirror \in [Background -> Status] /\ graph[g] \in State
        /\ [graph[g] EXCEPT !.at = "running"] \in State
    BY DEF OnRecord, TypeOK, Place, State, Status
  <2>3. CASE Reply(g)
    <3>1. poster' \in [Agents -> Place] /\ \A h \in Agents \ {g} : poster'[h] = poster[h]
      BY <2>1, <2>2, <2>3 DEF Reply
    <3>2. /\ graph' \in [Agents -> State] /\ \A h \in Agents \ {g} : graph'[h] = graph[h]
          /\ graph'[g].at = "running" /\ graph'[g].n = graph[g].n
      BY <2>2, <2>3 DEF Reply, State
    <3>3. /\ mirror' \in [Background -> Status]
          /\ \A b \in Background \ {g} : mirror'[b] = mirror[b]
          /\ g \in Background => mirror'[g] = "running"
      BY <2>2, <2>3 DEF Reply, Status
    <3>4. poster'[g] \in {NoPost, Driving}
      BY <2>2, <2>3 DEF Reply
    <3> QED BY <2>1, <2>3, <3>1, <3>2, <3>3, <3>4 DEF Reply, Mirrored
  <2>4. CASE ReplyFails(g)
    <3>1. /\ mirror' \in [Background -> Status]
          /\ \A b \in Background \ {g} : mirror'[b] = mirror[b]
          /\ g \in Background => mirror'[g] = "error"
      BY <2>2, <2>4 DEF ReplyFails, Status
    <3>2. poster' \in [Agents -> Place] /\ poster'[g] = NoPost
          /\ \A h \in Agents \ {g} : poster'[h] = poster[h]
      BY <2>1, <2>2, <2>4 DEF ReplyFails
    <3> QED BY <1>3, <2>1, <2>2, <2>4, <3>1, <3>2 DEF ReplyFails, Mirrored
  <2> QED BY <2>3, <2>4
<1>5. \/ applied' = applied
      \/ applied' = applied \cup {[ask |-> a, answer |-> poster[g].answer]}
  BY <1>2 DEF Reply, ReplyFails, Decision
<1>6. TypeOK'
  <2>1. applied' \subseteq [ask : Asks, answer : Answers] /\ abandoned' \subseteq Asks
        /\ restarts' = restarts
    BY <1>2, <1>3, <1>5 DEF OnRecord, TypeOK, Reply, ReplyFails
  <2> QED BY <1>4, <2>1 DEF OnRecord, TypeOK, Place, State, Status
<1>7. Posted(g)' /\ Polled'
  <2>1. Posted(g)'
    BY <1>2, <1>3, <1>4 DEF Posted, Asking
  <2>2. Polled'
    BY <1>4 DEF OnRecord, TypeOK, Polled, Mirrored
  <2> QED BY <2>1, <2>2
<1>8. Kept(a)'
  <2>1. Past(a)' /\ Live(a)' /\ Unmirrored(a)'
    BY <1>2, <1>3, <1>4, NoAskAssumption DEF Past, Lost, Live, Unmirrored
  <2>2. \A s \in told : s.ask = a => s.answer = poster[g].answer
    BY <1>1, <1>2 DEF Kept, Heard
  <2>3. Heard(a)' /\ Late(a)'
    BY <1>2, <1>3, <1>4 DEF Heard, Late, Lost
  <2>4. Decided(a)'
    BY <1>2, <1>3, <1>4, <1>5, <2>2 DEF Kept, Decided
  <2> QED BY <2>1, <2>3, <2>4 DEF Kept
<1>9. \A x \in Asks \ {a} : g \in Background /\ x.owner = g => rows[x] # "pending"
  BY <1>2
<1>10. \A r : r.ask # a => (r \in applied' <=> r \in applied)
  BY <1>5
<1> QED BY <1>2, <1>4, <1>6, <1>7, <1>8, <1>9, <1>10, Frame

LEMMA StopOnRecord == ASSUME OnRecord, NEW g \in Chats, Stop(g) PROVE OnRecord'
<1> USE DEF registry, watcher, history
<1>1. g \in Agents /\ g \notin Background
  BY AgentsAssumption DEF Agents, Local
<1>2. /\ UNCHANGED <<index, orphaned, entering, mirror, round, restarts, told, applied>>
      /\ \A h \in Agents \ {g} : poster'[h] = poster[h] /\ graph'[h] = graph[h]
      /\ poster'[g].pc = "none" /\ poster'[g].ask = None
      /\ poster' \in [Agents -> Place] /\ graph' \in [Agents -> State]
      /\ graph'[g].at = "parked" => graph[g].at = "parked" /\ graph'[g].n = graph[g].n
  <2>1. NoPost \in Place /\ NoPost.pc = "none" /\ NoPost.ask = None
    BY DEF NoPost, Place, Pcs
  <2>2. poster \in [Agents -> Place] /\ graph \in [Agents -> State] /\ graph[g] \in State
        /\ \A at \in {"idle", "running", "parked", "ended"} : [graph[g] EXCEPT !.at = at] \in State
    BY <1>1 DEF OnRecord, TypeOK, Place, State
  <2>3. /\ graph' \in [Agents -> State] /\ \A h \in Agents \ {g} : graph'[h] = graph[h]
        /\ graph'[g].at = "parked" => graph[g].at = "parked" /\ graph'[g].n = graph[g].n
    BY <1>1, <2>2 DEF Stop, State
  <2>4. poster' \in [Agents -> Place] /\ poster'[g] = NoPost
        /\ \A h \in Agents \ {g} : poster'[h] = poster[h]
    BY <1>1, <2>1, <2>2 DEF Stop
  <2> QED BY <2>1, <2>3, <2>4 DEF Stop
<1>3. Posted(g)' /\ Polled'
  BY <1>1, <1>2 DEF OnRecord, Posted, Asking, Polled, Mirrored
<1>4. CASE poster[g].pc \notin Asking
  <2>1. poster[g].ask = None
    BY <1>1, <1>4 DEF OnRecord, Posted
  <2>2. UNCHANGED <<rows, futures, retiring, abandoned>>
    BY <1>4, <2>1 DEF Stop, Asking
  <2>3. /\ mirror' \in [Background -> Status] /\ round' \subseteq Background
        /\ graph'[g].at = "parked" => graph'[g].n # 0
    BY <1>2, <1>3 DEF OnRecord, TypeOK, Status, Posted
  <2> QED BY <1>1, <1>2, <1>3, <2>1, <2>2, <2>3, Bare DEF Asking
<1>5. CASE poster[g].pc \in Asking
  <2>1. PICK a \in Asks : /\ a = poster[g].ask /\ a.owner = g /\ a # None
                          /\ Posted(g) /\ Kept(a) /\ ~Lost(a)
    BY <1>1, <1>5, Own
  <2>2. /\ futures' = [futures EXCEPT ![a] = None]
        /\ futures'[a] = None /\ \A x \in Asks \ {a} : futures'[x] = futures[x]
        /\ abandoned' = abandoned \cup {a}
        /\ \/ retiring' = retiring
           \/ retiring' = retiring \cup {a} /\ poster[g].pc = "waiting"
    BY <2>1 DEF Stop, OnRecord, TypeOK
  <2>3. /\ \A x \in Asks \ {a} : rows'[x] = rows[x]
        /\ \/ rows'[a] = rows[a]
           \/ rows[a] \in {"none", "pending"} /\ rows'[a] \in {"pending"} \cup Answers
        /\ rows' \in [Asks -> {"none", "pending", "cancelled"} \cup Answers]
    <3>1. rows \in [Asks -> {"none", "pending", "cancelled"} \cup Answers]
      BY DEF OnRecord, TypeOK
    <3>2. CASE rows' = rows
      BY <3>1, <3>2
    <3>3. CASE poster[g].pc = "indexed" /\ rows' = [rows EXCEPT ![a] = "pending"]
      BY <2>1, <3>1, <3>3 DEF Posted
    <3>4. CASE poster[g].pc = "resolving" /\ rows' = Settled(a, poster[g].answer)
      <4>1. rows[a] = "pending" /\ poster[g].answer \in Answers
        BY <2>1, <3>4 DEF Posted
      <4> QED BY <3>1, <3>4, <4>1 DEF Settled
    <3> QED BY <2>1, <3>2, <3>3, <3>4 DEF Stop
  <2>4. TypeOK'
    BY <1>2, <2>2, <2>3 DEF OnRecord, TypeOK, Place, State
  <2>5. Kept(a)'
    <3>1. /\ rows[a] # "none" => rows'[a] # "none"
          /\ rows[a] \notin {"none", "pending"} => rows'[a] = rows[a]
      BY <2>3 DEF Answers
    <3>2. Past(a)'
      BY <1>2, <2>1, <2>2, <3>1 DEF Past, Lost, Posted
    <3>3. Live(a)' /\ Unmirrored(a)'
      BY <1>1, <2>1, <2>2 DEF Live, Unmirrored
    <3>4. Heard(a)' /\ Late(a)'
      BY <1>2, <2>1, <3>1 DEF Kept, Heard, Late, Lost
    <3>5. Decided(a)'
      BY <1>2, <2>1, <3>1 DEF Kept, Decided, OnRecord, TypeOK, Answers
    <3> QED BY <3>2, <3>3, <3>4, <3>5 DEF Kept
  <2> QED BY <1>1, <1>2, <1>3, <2>1, <2>2, <2>3, <2>4, <2>5, Frame
<1> QED BY <1>4, <1>5

\* What the update of one row does.
LEMMA SettledRow ==
    ASSUME OnRecord, NEW a \in Asks, NEW s \in {"cancelled"} \cup Answers,
           rows' = Settled(a, s)
    PROVE  /\ rows' \in [Asks -> {"none", "pending", "cancelled"} \cup Answers]
           /\ \A x \in Asks \ {a} : rows'[x] = rows[x]
           /\ rows'[a] # "pending"
           /\ rows[a] # "none" => rows'[a] # "none"
           /\ rows[a] # "pending" => rows'[a] = rows[a]
BY DEF Settled, OnRecord, TypeOK, Answers

LEMMA RetireOnRecord == ASSUME OnRecord, NEW a \in retiring, Retire(a) PROVE OnRecord'
<1> USE DEF registry, watcher, history
<1> DEFINE g == a.owner
<1>1. a \in Asks /\ g \in Agents /\ Posted(g) /\ Kept(a) /\ Lost(a)
  BY DEF OnRecord, TypeOK, Asks, Lost
<1>2. rows[a] # "none" /\ poster[g].ask # a /\ futures[a] = None
  BY <1>1 DEF Kept, Past, Live
<1>3. /\ rows' \in [Asks -> {"none", "pending", "cancelled"} \cup Answers]
      /\ \A x \in Asks \ {a} : rows'[x] = rows[x]
      /\ rows'[a] # "pending" /\ rows'[a] # "none"
      /\ rows[a] # "pending" => rows'[a] = rows[a]
  BY <1>1, <1>2, SettledRow DEF Retire
<1>4. /\ UNCHANGED <<graph, poster, futures, entering, mirror, round, restarts, told, applied, abandoned>>
      /\ retiring' = retiring \ {a} /\ index' = index \ {a} /\ orphaned' = orphaned \ {a}
  BY DEF Retire
<1> HIDE DEF g
<1>5. TypeOK'
  BY <1>3, <1>4 DEF OnRecord, TypeOK
<1>6. Posted(g)' /\ Polled'
  <2>1. poster[g].pc \in Asking => poster[g].ask \in Asks \ {a}
    BY <1>1, <1>2 DEF Posted
  <2>2. Posted(g)'
    BY <1>1, <1>3, <1>4, <2>1 DEF Posted, Asking, Mirrored
  <2> QED BY <1>4, <2>2 DEF OnRecord, Polled, Mirrored
<1>7. Kept(a)'
  <2>1. Past(a)' /\ Live(a)' /\ Unmirrored(a)'
    BY <1>2, <1>3, <1>4 DEF Past, Live, Unmirrored, g
  <2>2. Heard(a)' /\ Late(a)' /\ Decided(a)'
    BY <1>1, <1>2, <1>3, <1>4 DEF Kept, Heard, Late, Decided, g, OnRecord, TypeOK, Answers
  <2> QED BY <2>1, <2>2 DEF Kept
<1>8. \A x \in Asks \ {a} : g \in Background /\ x.owner = g /\ rows[x] = "pending" =>
          graph'[g].at = "parked" /\ (poster'[g].ask = x \/ ~Mirrored(g)')
  BY <1>4 DEF OnRecord, Kept, Unmirrored, Mirrored
<1>9. a.owner = g
  BY DEF g
<1> QED BY <1>1, <1>3, <1>4, <1>5, <1>6, <1>7, <1>8, <1>9, Frame

-----------------------------------------------------------------------------
(* The responders *)

LEMMA ResponseIsAnswer == \A text \in Answers \cup {""} : Response(text) \in Answers
BY DEF Response, Answers

LEMMA RespondOnRecord ==
    ASSUME OnRecord, NEW a \in Asks, NEW text \in Answers \cup {""}, Respond(a, text)
    PROVE  OnRecord'
<1> USE DEF registry, watcher, history
<1>0. /\ a.owner \in Agents /\ Posted(a.owner) /\ Kept(a)
      /\ Decision(a, Response(text)) \in [ask : Asks, answer : Answers]
      /\ Decision(a, Response(text)).ask = a
  BY ResponseIsAnswer DEF OnRecord, Asks, Decision
<1>1. PICK g \in Agents, r \in [ask : Asks, answer : Answers] :
        /\ g = a.owner /\ Posted(g) /\ Kept(a)
        /\ r = Decision(a, Response(text)) /\ r.ask = a
  BY <1>0
<1>2. r.answer = Response(text) /\ r.answer \in Answers
  BY <1>1 DEF Decision
<1>3. futures[a] = "waiting" /\ futures[a] \notin Answers \cup {None}
  BY NoneAssumption DEF Respond, Waiting, Answers
<1>4. /\ a \in index \ orphaned /\ rows[a] = "pending"
      /\ poster[g].ask = a /\ poster[g].pc = "waiting"
  BY <1>1, <1>3 DEF Kept, Live
<1>5. /\ UNCHANGED <<graph, poster, rows, index, orphaned, retiring, entering, mirror, round, restarts,
                     applied, abandoned>>
      /\ told' = told \cup {r}
  BY <1>1, <1>2 DEF Respond
<1>6. futures'[a] = r.answer /\ \A x \in Asks \ {a} : futures'[x] = futures[x]
  BY <1>1, <1>2 DEF Respond, OnRecord, TypeOK
<1>7. TypeOK'
  BY <1>1, <1>2, <1>5 DEF Respond, OnRecord, TypeOK
<1>8. Posted(g)' /\ Polled'
  BY <1>1, <1>5 DEF OnRecord, Posted, Polled, Mirrored
<1>9. Kept(a)'
  <2>1. \A s \in told : s.ask # a
    BY <1>1, <1>3, <1>4 DEF Kept, Heard, OnRecord, TypeOK
  <2>2. \A x \in applied : x.ask # a
    BY <1>1, <1>4 DEF Kept, Decided, OnRecord, TypeOK, Answers
  <2>3. Past(a)' /\ Live(a)' /\ Unmirrored(a)'
    BY <1>1, <1>4, <1>5 DEF Kept, Past, Lost, Live, Unmirrored, Mirrored
  <2>4. Heard(a)'
    BY <1>1, <1>4, <1>5, <1>6, <2>1 DEF Heard
  <2>5. Late(a)' /\ Decided(a)'
    BY <1>1, <1>5, <2>2 DEF Kept, Late, Decided
  <2> QED BY <2>3, <2>4, <2>5 DEF Kept
<1>10. \A x \in Asks \ {a} : g \in Background /\ x.owner = g /\ rows[x] = "pending" =>
          graph'[g].at = "parked" /\ (poster'[g].ask = x \/ ~Mirrored(g)')
  BY <1>5 DEF OnRecord, Kept, Unmirrored, Mirrored
<1>11. \A h \in Agents \ {g} : graph'[h] = graph[h] /\ poster'[h] = poster[h]
  BY <1>5
<1>12. \A x \in Asks \ {a} :
        /\ rows'[x] = rows[x] /\ futures'[x] = futures[x]
        /\ x \in index' <=> x \in index
        /\ x \in orphaned' <=> x \in orphaned
        /\ x \in retiring' <=> x \in retiring
  BY <1>5, <1>6
<1>13. \A x : x.ask # a =>
        /\ x \in entering' <=> x \in entering
        /\ x \in told' <=> x \in told
        /\ x \in applied' <=> x \in applied
  BY <1>1, <1>5
<1>14. poster'[g] = poster[g] /\ \A b \in Background \ {g} : mirror'[b] = mirror[b]
  BY <1>5
<1> QED BY <1>1, <1>7, <1>8, <1>9, <1>10, <1>11, <1>12, <1>13, <1>14, Frame

\* The orphan of a subagent is not one the mirror has: only a conversation is
\* re-entered.
LEMMA RespondLateOnRecord ==
    ASSUME OnRecord, NEW a \in Asks, NEW text \in Answers \cup {""}, RespondLate(a, text)
    PROVE  OnRecord'
<1> USE DEF registry, watcher, history
<1> DEFINE g == a.owner
           r == [ask |-> a, answer |-> Response(text)]
<1>1. g \in Agents /\ Posted(g) /\ Kept(a) /\ a \in orphaned
  BY DEF RespondLate, OnRecord, Asks
<1>2. rows[a] = "pending" /\ poster[g].ask # a
  BY <1>1 DEF Kept, Late, Past, Lost
<1>3. g \in Chats
  BY <1>1, <1>2 DEF RespondLate, Owned, Kept, Unmirrored
<1>4. r \in [ask : Asks, answer : Answers] /\ r.ask = a
  BY ResponseIsAnswer
<1>5. /\ UNCHANGED <<graph, poster, rows, index, orphaned, futures, retiring, mirror, round, restarts,
                     told, applied, abandoned>>
      /\ entering' = entering \cup {r}
  BY DEF RespondLate, Decision
<1> HIDE DEF g, r
<1>6. TypeOK'
  BY <1>4, <1>5 DEF OnRecord, TypeOK
<1>7. Posted(g)' /\ Polled'
  BY <1>1, <1>5 DEF OnRecord, Posted, Polled, Mirrored
<1>8. Kept(a)'
  <2>1. \A x \in applied : x.ask # a
    BY <1>1, <1>2 DEF Kept, Decided, OnRecord, TypeOK, Answers
  <2>2. Past(a)' /\ Live(a)' /\ Unmirrored(a)'
    BY <1>1, <1>2, <1>5 DEF Kept, Past, Live, Unmirrored, Mirrored, g
  <2>3. Heard(a)' /\ Late(a)' /\ Decided(a)'
    BY <1>1, <1>2, <1>3, <1>5, <2>1 DEF Kept, Heard, Late, Decided, g
  <2> QED BY <2>2, <2>3 DEF Kept
<1>9. \A x \in Asks \ {a} : g \in Background /\ x.owner = g /\ rows[x] = "pending" =>
          graph'[g].at = "parked" /\ (poster'[g].ask = x \/ ~Mirrored(g)')
  BY <1>5 DEF OnRecord, Kept, Unmirrored, Mirrored
<1>10. a.owner = g /\ \A x : x.ask # a => (x \in entering' <=> x \in entering)
  BY <1>4, <1>5 DEF g
<1>11. \A x \in Asks \ {a} :
        /\ rows'[x] = rows[x] /\ futures'[x] = futures[x]
        /\ x \in index' <=> x \in index
        /\ x \in orphaned' <=> x \in orphaned
        /\ x \in retiring' <=> x \in retiring
  BY <1>5
<1>12. \A x : x.ask # a =>
        /\ x \in entering' <=> x \in entering
        /\ x \in told' <=> x \in told
        /\ x \in applied' <=> x \in applied
  BY <1>5, <1>10
<1>13. /\ poster'[g] = poster[g] /\ \A b \in Background \ {g} : mirror'[b] = mirror[b]
       /\ \A h \in Agents \ {g} : graph'[h] = graph[h] /\ poster'[h] = poster[h]
  BY <1>5
<1>14. a \in Asks \cup {None} /\ OnRecord
  OBVIOUS
<1> QED BY <1>1, <1>6, <1>7, <1>8, <1>9, <1>10, <1>11, <1>12, <1>13, <1>14, Frame

LEMMA ReenterOnRecord == ASSUME OnRecord, NEW r \in entering, Reenter(r) PROVE OnRecord'
<1> USE DEF registry, watcher, history
<1>1. PICK a \in Asks, g \in Agents :
        /\ a = r.ask /\ g = a.owner /\ r.answer \in Answers
        /\ Posted(g) /\ Kept(a) /\ Lost(a)
  BY DEF OnRecord, TypeOK, Asks, Lost
<1>2. /\ g \in Chats /\ g \notin Background /\ rows[a] # "none" /\ futures[a] = None
      /\ \A x \in applied : x.ask # a
  BY <1>1, AgentsAssumption DEF Kept, Late, Past, Live, Local
<1>3. poster[g].pc = "none" /\ poster[g].ask = None
  BY <1>1, <1>2 DEF Reenter, Busy, Posting, Posted, Asking
<1>4. /\ rows' \in [Asks -> {"none", "pending", "cancelled"} \cup Answers]
      /\ \A x \in Asks \ {a} : rows'[x] = rows[x]
      /\ rows'[a] # "none"
  BY <1>1, <1>2, SettledRow DEF Reenter
<1>5. /\ UNCHANGED <<futures, retiring, mirror, round, restarts, applied, abandoned>>
      /\ entering' = entering \ {r} /\ told' = told \cup {r}
      /\ index' = index \ {a} /\ orphaned' = orphaned \ {a}
      /\ poster' \in [Agents -> Place] /\ graph' \in [Agents -> State]
      /\ poster'[g].pc = "driving" /\ poster'[g].ask = None /\ graph'[g].at = "running"
      /\ \A h \in Agents \ {g} : poster'[h] = poster[h] /\ graph'[h] = graph[h]
  <2>1. Driving \in Place /\ Driving.pc = "driving" /\ Driving.ask = None
    BY DEF NoPost, Driving, Place, Pcs
  <2>2. poster \in [Agents -> Place] /\ graph \in [Agents -> State] /\ graph[g] \in State
        /\ [graph[g] EXCEPT !.at = "running"] \in State
    BY DEF OnRecord, TypeOK, Place, State
  <2>3. graph' = [graph EXCEPT ![g].at = "running"] /\ poster' = [poster EXCEPT ![g] = Driving]
    BY <1>1, <1>2 DEF Reenter
  <2>4. /\ graph' \in [Agents -> State] /\ \A h \in Agents \ {g} : graph'[h] = graph[h]
        /\ graph'[g].at = "running"
    BY <2>2, <2>3 DEF State
  <2>5. /\ poster' \in [Agents -> Place] /\ \A h \in Agents \ {g} : poster'[h] = poster[h]
        /\ poster'[g] = Driving
    BY <2>1, <2>2, <2>3
  <2> QED BY <1>1, <1>2, <2>1, <2>4, <2>5 DEF Reenter
<1>6. TypeOK'
  BY <1>4, <1>5 DEF OnRecord, TypeOK, Place, State
<1>7. Posted(g)' /\ Polled'
  BY <1>1, <1>2, <1>5 DEF OnRecord, Posted, Polled, Mirrored, Asking
<1>8. Kept(a)'
  <2>1. Past(a)' /\ Live(a)' /\ Unmirrored(a)'
    BY <1>1, <1>2, <1>4, <1>5, NoAskAssumption DEF Past, Live, Unmirrored
  <2>2. Heard(a)' /\ Late(a)' /\ Decided(a)'
    BY <1>1, <1>2, <1>4, <1>5 DEF Kept, Heard, Late, Decided
  <2> QED BY <2>1, <2>2 DEF Kept
<1> QED BY <1>1, <1>2, <1>3, <1>4, <1>5, <1>6, <1>7, <1>8, Frame

LEMMA RefuseOnRecord == ASSUME OnRecord, NEW r \in entering, Refuse(r) PROVE OnRecord'
<1> USE DEF registry, watcher, history
<1>1. PICK a \in Asks, g \in Agents : a = r.ask /\ g = a.owner /\ Posted(g) /\ Kept(a)
  BY DEF OnRecord, TypeOK, Asks
<1>2. /\ UNCHANGED <<graph, poster, rows, index, orphaned, futures, retiring, mirror, round, restarts,
                     told, applied, abandoned>>
      /\ entering' = entering \ {r}
  BY DEF Refuse
<1>3. TypeOK' /\ Posted(g)' /\ Polled'
  BY <1>1, <1>2 DEF OnRecord, TypeOK, Posted, Polled, Mirrored
<1>4. Kept(a)'
  BY <1>1, <1>2 DEF Kept, Past, Lost, Live, Unmirrored, Mirrored, Heard, Late, Decided
<1>5. \A x \in Asks \ {a} : g \in Background /\ x.owner = g /\ rows[x] = "pending" =>
          graph'[g].at = "parked" /\ (poster'[g].ask = x \/ ~Mirrored(g)')
  BY <1>2 DEF OnRecord, Kept, Unmirrored, Mirrored
<1> QED BY <1>1, <1>2, <1>3, <1>4, <1>5, Frame

-----------------------------------------------------------------------------
(* The watcher, and the boot *)

\* While the watcher's loop is in no prompt, no subagent has an ask.
LEMMA NoPrompt ==
    ASSUME OnRecord, ~Watching, NEW b \in Background
    PROVE  b \in Agents /\ poster[b].pc = "none" /\ poster[b].ask = None /\ Posted(b)
BY DEF OnRecord, Watching, Posted, Asking, Agents

LEMMA DiscoverOnRecord == ASSUME OnRecord, Discover PROVE OnRecord'
<1> USE DEF registry, history
<1>1. /\ UNCHANGED <<graph, poster, rows, index, orphaned, futures, retiring, entering, restarts,
                     told, applied, abandoned>>
      /\ ~Watching
  BY DEF Discover
<1>2. \A b \in Background :
        \/ mirror'[b] = mirror[b]
        \/ mirror[b] = "unseen" /\ graph[b].at = "running" /\ mirror'[b] = "running"
        \/ mirror'[b] = "ignored"
  BY DEF Discover, InFlight
<1>3. TypeOK' /\ Polled'
  <2>1. mirror' \in [Background -> Status]
    BY DEF Discover, OnRecord, TypeOK, Status
  <2>2. round' \subseteq Background /\ \A b \in round' : mirror'[b] \in {"running", "awaiting_user"}
    BY DEF Discover, Tracked
  <2>3. TypeOK'
    BY <1>1, <2>1, <2>2 DEF OnRecord, TypeOK, Status
  <2> QED BY <2>2, <2>3 DEF Polled, Mirrored
<1>4. ASSUME NEW g \in Agents PROVE Posted(g)'
  <2>1. Posted(g) /\ g \in Background => poster[g].pc = "none"
    BY <1>1, NoPrompt DEF OnRecord
  <2> QED BY <1>1, <2>1 DEF OnRecord, Posted, Asking
<1>5. ASSUME NEW a \in Asks PROVE Kept(a)'
  <2>1. Kept(a)
    BY DEF OnRecord
  <2>2. Unmirrored(a)'
    BY <1>1, <1>2, <2>1 DEF Kept, Unmirrored, Mirrored
  <2> QED BY <1>1, <2>1, <2>2 DEF Kept, Past, Lost, Live, Heard, Late, Decided
<1> QED BY <1>3, <1>4, <1>5 DEF OnRecord

LEMMA PollOnRecord ==
    ASSUME OnRecord, NEW b \in Background, Poll(b) \/ Timeout(b) PROVE OnRecord'
<1> USE DEF registry, history
<1>1. ~Watching /\ b \in round /\ round' = round \ {b}
  BY DEF Poll, Timeout
<1>2. /\ b \in Agents /\ poster[b].pc = "none" /\ poster[b].ask = None /\ Posted(b)
      /\ Mirrored(b)
  BY <1>1, NoPrompt DEF OnRecord, Polled
<1>3. /\ mirror' \in [Background -> Status]
      /\ \A h \in Background \ {b} : mirror'[h] = mirror[h]
      /\ mirror'[b] \in {"running", "awaiting_user", "success", "timeout"}
  BY DEF Poll, Timeout, OnRecord, TypeOK, Status
<1>4. Polled' /\ Mirrored(b)' /\ round' \subseteq Background
  BY <1>1, <1>3 DEF OnRecord, TypeOK, Polled, Mirrored
<1>5. CASE Poll(b) /\ Index(b)
  BY <1>1, <1>2, <1>3, <1>4, <1>5, IndexOnRecord DEF Poll, Asking
<1>6. CASE Poll(b) /\ UNCHANGED <<poster, index>>
  <2>1. /\ UNCHANGED <<graph, poster, registry, futures, retiring, entering, restarts, history>>
        /\ graph \in [Agents -> State] /\ poster \in [Agents -> Place]
    BY <1>6 DEF Poll, OnRecord, TypeOK, State, Place
  <2> QED BY <1>2, <1>3, <1>4, <2>1, Bare DEF Posted, Asking
<1>7. CASE Timeout(b)
  <2>1. /\ UNCHANGED <<poster, registry, futures, retiring, entering, restarts, history>>
        /\ poster \in [Agents -> Place]
    BY <1>7 DEF Timeout, OnRecord, TypeOK, Place
  <2>2. /\ graph' \in [Agents -> State] /\ \A h \in Agents \ {b} : graph'[h] = graph[h]
        /\ graph'[b].at = "parked" => graph'[b].n # 0
    BY <1>2, <1>7 DEF Timeout, OnRecord, TypeOK, State, Posted
  <2> QED BY <1>2, <1>3, <1>4, <2>1, <2>2, Bare DEF Asking
<1> QED BY <1>5, <1>6, <1>7 DEF Poll

\* What is pending is listed again; nothing else survives.
LEMMA RestartOnRecord == ASSUME OnRecord, Restart PROVE OnRecord'
<1>1. /\ UNCHANGED <<rows, told, applied>>
      /\ round' = {} /\ entering' = {} /\ retiring' = {}
      /\ index' = {a \in Asks : rows[a] = "pending"} /\ orphaned' = index'
      /\ \A g \in Agents : poster'[g].pc = "none" /\ poster'[g].ask = None
      /\ \A a \in Asks : futures'[a] = None
      /\ \A b \in Background : mirror'[b] = "unseen"
      /\ \A g \in Agents : graph'[g].at = "parked" => graph'[g] = graph[g]
      /\ \A g \in Agents : graph[g].at = "parked" => graph'[g] = graph[g]
  BY DEF Restart, NoPost, OnRecord, TypeOK
<1>2. TypeOK'
  <2>1. NoPost \in Place
    BY DEF NoPost, Place, Pcs
  <2>2. graph' \in [Agents -> State]
    BY DEF Restart, OnRecord, TypeOK, State
  <2>3. restarts' \in 0..MaxRestarts
    BY BoundsAssumption DEF Restart, OnRecord, TypeOK
  <2> QED BY <1>1, <2>1, <2>2, <2>3 DEF Restart, OnRecord, TypeOK, State, Place
<1>3. Polled'
  BY <1>1 DEF Polled
<1>4. ASSUME NEW g \in Agents PROVE Posted(g)'
  BY <1>1 DEF OnRecord, Posted, Asking
<1>5. ASSUME NEW a \in Asks PROVE Kept(a)'
  <2>1. Kept(a) /\ a.owner \in Agents /\ a # None
    BY NoAskAssumption DEF OnRecord, Asks
  <2>2. Past(a)' /\ Live(a)' /\ Late(a)'
    BY <1>1, <2>1 DEF Past, Lost, Live, Late
  <2>3. Unmirrored(a)'
    BY <1>1, <2>1 DEF Kept, Unmirrored, Mirrored
  <2>4. Heard(a)' /\ Decided(a)'
    BY <1>1, <2>1 DEF Kept, Heard, Decided
  <2> QED BY <2>2, <2>3, <2>4 DEF Kept
<1> QED BY <1>2, <1>3, <1>4, <1>5 DEF OnRecord

LEMMA StutterOnRecord == OnRecord /\ UNCHANGED vars => OnRecord'
BY DEF vars, OnRecord, TypeOK, Polled, Mirrored, Posted, Kept, Past, Lost, Live, Unmirrored,
       Heard, Late, Decided

-----------------------------------------------------------------------------
(* The theorems *)

LEMMA NextOnRecord == OnRecord /\ [Next]_vars => OnRecord'
<1> SUFFICES ASSUME OnRecord, [Next]_vars PROVE OnRecord'
  OBVIOUS
<1>1. CASE AgentStep
  <2>1. ASSUME NEW c \in Chats, Converse(c) \/ Stop(c) PROVE OnRecord'
    <3>1. c \in Agents
      BY DEF Agents
    <3> QED BY <2>1, <3>1, RunOnRecord, StopOnRecord
  <2>2. ASSUME NEW f \in Foreground, Execute(f) PROVE OnRecord'
    <3>1. f \in Agents
      BY DEF Agents
    <3> QED BY <2>2, <3>1, RunOnRecord
  <2>3. ASSUME NEW b \in Background, Launch(b) PROVE OnRecord'
    <3>1. b \in Agents
      BY DEF Agents
    <3> QED BY <2>3, <3>1, RunOnRecord
  <2>4. ASSUME NEW g \in Agents, Interrupt(g) \/ Ends(g) PROVE OnRecord'
    BY <2>4, RunOnRecord
  <2> QED BY <1>1, <2>1, <2>2, <2>3, <2>4 DEF AgentStep
<1>2. ASSUME NEW g \in Agents, PostStep(g) PROVE OnRecord'
  BY <1>2, AskUserOnRecord, ShowOnRecord, WakeOnRecord, ResolveOnRecord, ReplyOnRecord DEF PostStep
<1>3. ASSUME NEW a \in retiring, Retire(a) PROVE OnRecord'
  BY <1>3, RetireOnRecord
<1>4. CASE RespondStep
  BY <1>4, RespondOnRecord, RespondLateOnRecord DEF RespondStep
<1>5. ASSUME NEW r \in entering, Reenter(r) \/ Refuse(r) PROVE OnRecord'
  BY <1>5, ReenterOnRecord, RefuseOnRecord
<1>6. CASE WatchStep
  BY <1>6, DiscoverOnRecord, PollOnRecord DEF WatchStep
<1>7. CASE Restart
  BY <1>7, RestartOnRecord
<1>8. CASE UNCHANGED vars
  BY <1>8, StutterOnRecord
<1> QED BY <1>1, <1>2, <1>3, <1>4, <1>5, <1>6, <1>7, <1>8 DEF Next

LEMMA AlwaysOnRecord == Spec => []OnRecord
BY InitOnRecord, NextOnRecord, PTL DEF Spec

\* Every reachable state of the router, the registry, the responders and the
\* watcher has its type.
THEOREM TypeCorrect == Spec => []TypeOK
<1>1. OnRecord => TypeOK
  BY DEF OnRecord
<1> QED BY <1>1, AlwaysOnRecord, PTL

\* Durable first, whatever the agents, restarts and responders do: an ask that can
\* be answered live is listed, pending in the store and nobody's orphan.
THEOREM DurableFirst == Spec => []LiveIsListed
<1>1. OnRecord => LiveIsListed
  BY DEF OnRecord, Kept, Live, LiveIsListed, Posting
<1> QED BY <1>1, AlwaysOnRecord, PTL

\* First answer wins: no graph is ever resumed with anything else than what its
\* row says and what the responder was told ok for.
THEOREM FirstAnswerWins == Spec => []DecisionOnRecord
<1>1. OnRecord => DecisionOnRecord
  <2> SUFFICES ASSUME OnRecord, NEW r \in applied
               PROVE  rows[r.ask] = r.answer /\ \A s \in told : s.ask = r.ask => s = r
    BY DEF DecisionOnRecord
  <2>1. Kept(r.ask) /\ r \in [ask : Asks, answer : Answers]
    BY DEF OnRecord, TypeOK
  <2>2. rows[r.ask] = r.answer /\ \A s \in told : s.ask = r.ask => s.answer = r.answer
    BY <2>1 DEF Kept, Decided
  <2>3. \A s \in told : s \in [ask : Asks, answer : Answers]
    BY DEF OnRecord, TypeOK
  <2> QED BY <2>1, <2>2, <2>3
<1> QED BY <1>1, AlwaysOnRecord, PTL

\* Only a pending row is updated: every write goes through the comparison, but the
\* first one of an ask, and that row is new.
LEMMA RowsStand ==
    ASSUME OnRecord, [Next]_vars, NEW a \in Asks, rows[a] \notin {"none", "pending"}
    PROVE  rows'[a] = rows[a]
<1> USE DEF registry, watcher, history
<1>1. rows \in [Asks -> {"none", "pending", "cancelled"} \cup Answers]
      /\ \A g \in Agents : Posted(g)
  BY DEF OnRecord, TypeOK
<1>2. \A x, s : rows' = Settled(x, s) => rows'[a] = rows[a]
  BY <1>1 DEF Settled
<1>3. CASE AgentStep
  <2>1. ASSUME NEW c \in Chats, Stop(c) PROVE rows'[a] = rows[a]
    <3>1. poster[c].pc = "indexed" => rows[poster[c].ask] = "none"
      BY <1>1 DEF Agents, Posted
    <3> QED BY <1>1, <1>2, <2>1, <3>1 DEF Stop
  <2> QED BY <1>3, <2>1 DEF AgentStep, Converse, Execute, Launch, Interrupt, Ends
<1>4. ASSUME NEW g \in Agents, PostStep(g) PROVE rows'[a] = rows[a]
  <2>1. CASE Show(g)
    <3>1. rows[poster[g].ask] = "none"
      BY <1>1, <2>1 DEF Show, Posting, Posted
    <3> QED BY <1>1, <2>1, <3>1 DEF Show
  <2>2. CASE Resolve(g)
    BY <1>2, <2>2 DEF Resolve
  <2> QED BY <1>4, <2>1, <2>2 DEF PostStep, AskUser, Wake, Reply, ReplyFails
<1>5. ASSUME NEW x \in retiring, Retire(x) PROVE rows'[a] = rows[a]
  BY <1>2, <1>5 DEF Retire
<1>6. CASE RespondStep
  BY <1>6 DEF RespondStep, Respond, RespondLate
<1>7. ASSUME NEW r \in entering, Reenter(r) \/ Refuse(r) PROVE rows'[a] = rows[a]
  BY <1>2, <1>7 DEF Reenter, Refuse
<1>8. CASE WatchStep
  BY <1>8 DEF WatchStep, Discover, Poll, Timeout
<1>9. CASE Restart \/ UNCHANGED vars
  BY <1>9 DEF Restart, vars
<1> QED BY <1>3, <1>4, <1>5, <1>6, <1>7, <1>8, <1>9 DEF Next

\* A resolved ask stays as it is: no late answer, cancellation or restart changes
\* its row.
THEOREM ResolvedStands == Spec => ResolvedIsFinal
<1>1. OnRecord /\ [Next]_vars =>
          \A a \in Asks : rows[a] \notin {"none", "pending"} => rows'[a] = rows[a]
  BY RowsStand
<1> QED BY <1>1, AlwaysOnRecord, PTL DEF Spec, ResolvedIsFinal

-----------------------------------------------------------------------------
(* One decision about an interrupt: the refinement *)

\* The answer a future has was accepted; so was the one post_ask goes on with.
Said(a) == futures[a] \in Answers => Decision(a, futures[a]) \in told
Spoke(g) ==
    poster[g].pc \in {"resolving", "replying"} =>
        Decision(poster[g].ask, poster[g].answer) \in told

\* An agent asks about the interrupt it is parked on, and no decision about that
\* one was applied.
Counted(g) ==
    /\ poster[g].pc \in Asking => poster[g].ask.about = graph[g].n
    /\ \A r \in applied : r.ask.owner = g =>
        /\ r.ask.about <= graph[g].n
        /\ graph[g].at = "parked" => r.ask.about # graph[g].n

\* The inductive invariant of the refinement.
Answering ==
    /\ OnRecord
    /\ \A a \in Asks : Said(a)
    /\ \A g \in Agents : Spoke(g) /\ Counted(g)

LEMMA InitAnswering == Init => Answering
<1> SUFFICES ASSUME Init PROVE Answering
  OBVIOUS
<1>1. OnRecord
  BY InitOnRecord
<1>2. ASSUME NEW a \in Asks PROVE Said(a)
  BY NoneAssumption DEF Init, Said
<1>3. ASSUME NEW g \in Agents PROVE Spoke(g) /\ Counted(g)
  BY DEF Init, Spoke, Counted, NoPost, Asking
<1> QED BY <1>1, <1>2, <1>3 DEF Answering

LEMMA SaidStep ==
    ASSUME Answering, Next, NEW a \in Asks
    PROVE  Said(a)'
<1>1. Said(a) /\ futures \in [Asks -> {None, "waiting"} \cup Answers]
      /\ None \notin Answers /\ "waiting" \notin Answers
  BY NoneAssumption DEF Answering, OnRecord, TypeOK, Answers
<1> USE DEF registry, watcher, history
<1>2. CASE UNCHANGED <<futures, told>>
  BY <1>1, <1>2 DEF Said
<1>3. ASSUME NEW c \in Chats, Stop(c) PROVE Said(a)'
  BY <1>1, <1>3 DEF Stop, Said
<1>4. ASSUME NEW g \in Agents, Show(g) \/ Wake(g) PROVE Said(a)'
  BY <1>1, <1>4 DEF Show, Wake, Said
<1>5. ASSUME NEW x \in Asks, NEW text, Respond(x, text) PROVE Said(a)'
  BY <1>1, <1>5 DEF Respond, Said
<1>6. ASSUME NEW r \in entering, Reenter(r) PROVE Said(a)'
  BY <1>1, <1>6 DEF Reenter, Said
<1>7. CASE Restart
  BY <1>1, <1>7 DEF Restart, Said
<1> QED
  BY <1>2, <1>3, <1>4, <1>5, <1>6, <1>7
     DEF Next, AgentStep, PostStep, RespondStep, WatchStep, Converse, Execute, Launch, Interrupt,
         Ends, AskUser, Resolve, Reply, ReplyFails, Retire, RespondLate, Refuse, Discover,
         Poll, Timeout

LEMMA SpokeStep ==
    ASSUME Answering, Next, NEW g \in Agents
    PROVE  Spoke(g)'
<1>1. /\ Spoke(g) /\ Posted(g)
      /\ poster \in [Agents -> Place] /\ futures \in [Asks -> {None, "waiting"} \cup Answers]
  BY DEF Answering, OnRecord, TypeOK, Place
<1> USE DEF registry, watcher, history, NoPost, Driving
<1>2. CASE poster'[g] = poster[g] /\ told \subseteq told'
  BY <1>1, <1>2 DEF Spoke
<1>3. ASSUME NEW h \in Agents, Wake(h) PROVE Spoke(g)'
  <2>1. CASE g = h
    <3>1. Decision(poster[g].ask, futures[poster[g].ask]) \in told
      BY <1>1, <1>3, <2>1 DEF Answering, Said, Wake, Posting, Posted, Asking
    <3>2. poster'[g] = [poster[g] EXCEPT !.pc = "resolving", !.answer = futures[poster[g].ask]]
          /\ told' = told
      BY <1>1, <1>3, <2>1 DEF Wake
    <3>3. poster'[g].ask = poster[g].ask /\ poster'[g].answer = futures[poster[g].ask]
      BY <1>1, <3>2 DEF Place
    <3> QED BY <3>1, <3>2, <3>3 DEF Spoke
  <2>2. CASE g # h
    BY <1>1, <1>2, <1>3, <2>2 DEF Wake
  <2> QED BY <2>1, <2>2
<1>4. ASSUME NEW h \in Agents, Resolve(h) PROVE Spoke(g)'
  <2>1. CASE g = h
    <3>1. /\ poster'[g].ask = poster[g].ask /\ poster'[g].answer = poster[g].answer
          /\ poster[g].pc = "resolving" /\ told' = told
      BY <1>1, <1>4, <2>1 DEF Resolve, Posting, Place
    <3> QED BY <1>1, <3>1 DEF Spoke
  <2>2. CASE g # h
    BY <1>1, <1>2, <1>4, <2>2 DEF Resolve
  <2> QED BY <2>1, <2>2
<1>5. CASE told \subseteq told' /\ poster'[g].pc \notin {"resolving", "replying"}
  BY <1>5 DEF Spoke
<1>6. ASSUME NEW h \in Agents, Index(h), told \subseteq told' PROVE Spoke(g)'
  <2>1. poster'[g] = poster[g] \/ poster'[g].pc = "indexed"
    BY <1>1, <1>6 DEF Index
  <2> QED BY <1>2, <1>5, <1>6, <2>1
<1>11. ASSUME NEW h \in Agents, AskUser(h) \/ Show(h) \/ Reply(h) \/ ReplyFails(h)
       PROVE  Spoke(g)'
  <2>1. CASE AskUser(h)
    BY <1>6, <2>1 DEF AskUser
  <2>2. CASE Show(h) \/ Reply(h) \/ ReplyFails(h)
    <3>1. told' = told /\ (poster'[g] = poster[g] \/ poster'[g].pc \in {"waiting", "driving", "none"})
      BY <1>1, <2>2 DEF Show, Reply, ReplyFails, Place
    <3> QED BY <1>2, <1>5, <3>1
  <2> QED BY <1>11, <2>1, <2>2
<1>7. AgentStep => Spoke(g)'
  BY <1>1, <1>2, <1>5 DEF AgentStep, Converse, Execute, Launch, Interrupt, Ends, Stop
<1>8. \A r \in entering : Reenter(r) \/ Refuse(r) => Spoke(g)'
  BY <1>1, <1>2, <1>5 DEF Reenter, Refuse
<1>9. WatchStep => Spoke(g)'
  <2>1. ASSUME NEW b \in Background, Poll(b) PROVE Spoke(g)'
    <3>1. b \in Agents /\ told' = told /\ (poster' = poster \/ Index(b))
      BY <2>1 DEF Poll, Agents
    <3> QED BY <1>2, <1>6, <3>1
  <2> QED BY <1>2, <2>1 DEF WatchStep, Discover, Timeout
<1>10. (\E a \in retiring : Retire(a)) \/ RespondStep => Spoke(g)'
  BY <1>2 DEF RespondStep, Respond, RespondLate, Retire
<1>12. Restart => Spoke(g)'
  BY <1>5 DEF Restart
<1> QED BY <1>3, <1>4, <1>7, <1>8, <1>9, <1>10, <1>11, <1>12 DEF Next, PostStep

\* Only interrupt() parks a graph, and it counts.
LEMMA Counting ==
    ASSUME OnRecord, Next, NEW g \in Agents
    PROVE  \/ /\ graph'[g].n = graph[g].n
              /\ graph'[g].at = "parked" => graph[g].at = "parked"
           \/ /\ graph'[g].n = graph[g].n + 1
              /\ poster'[g] = poster[g] /\ graph[g].at = "running"
              /\ applied' = applied
<1>1. graph \in [Agents -> State]
  BY DEF OnRecord, TypeOK, State
<1> USE DEF State
<1>2. AgentStep =>
        \/ graph'[g].n = graph[g].n /\ (graph'[g].at = "parked" => graph[g].at = "parked")
        \/ /\ graph'[g].n = graph[g].n + 1
           /\ poster'[g] = poster[g] /\ graph[g].at = "running"
           /\ applied' = applied
  BY <1>1 DEF AgentStep, Converse, Execute, Launch, Interrupt, Ends, Stop, history
<1>3. (\E h \in Agents : PostStep(h)) =>
        graph'[g].n = graph[g].n /\ (graph'[g].at = "parked" => graph[g].at = "parked")
  BY <1>1 DEF PostStep, AskUser, Show, Wake, Resolve, Reply, ReplyFails
<1>4. ASSUME NEW r \in entering, Reenter(r)
      PROVE  graph'[g].n = graph[g].n /\ (graph'[g].at = "parked" => graph[g].at = "parked")
  BY <1>1, <1>4 DEF Reenter
<1>6. RespondStep \/ (\E a \in retiring : Retire(a)) \/ (\E r \in entering : Refuse(r)) =>
        graph' = graph
  BY DEF RespondStep, Respond, RespondLate, Retire, Refuse
<1>5. WatchStep \/ Restart =>
        graph'[g].n = graph[g].n /\ (graph'[g].at = "parked" => graph[g].at = "parked")
  BY <1>1 DEF WatchStep, Discover, Poll, Timeout, Restart
<1> QED BY <1>2, <1>3, <1>4, <1>5, <1>6 DEF Next

\* Decisions are applied by the agent's own post_ask: the late path never gets to
\* a subagent, since an orphan of one is not in the mirror.
LEMMA Applying ==
    ASSUME OnRecord, Next
    PROVE  \/ applied' = applied
           \/ \E g \in Agents : Reply(g)
<1> USE DEF registry, watcher, history
<1>1. ASSUME NEW r \in entering, Reenter(r) PROVE applied' = applied
  <2>1. r.ask \in Asks /\ Kept(r.ask)
    BY <1>1 DEF OnRecord, TypeOK
  <2>2. r.ask.owner \in Chats
    BY <1>1, <2>1 DEF Kept, Late
  <2> QED BY <1>1, <2>2 DEF Reenter
<1> QED
  BY <1>1 DEF Next, AgentStep, PostStep, RespondStep, WatchStep, Converse, Execute, Launch,
         Interrupt, Ends, Stop, AskUser, Show, Wake, Resolve, ReplyFails, Retire, Respond,
         RespondLate, Refuse, Discover, Poll, Timeout, Restart

\* An ask is taken up with the interrupt at hand, and kept until the answer.
LEMMA Taking ==
    ASSUME OnRecord, Next, NEW g \in Agents, poster'[g].pc \in Asking
    PROVE  \/ poster[g].pc \in Asking /\ poster'[g].ask = poster[g].ask
           \/ poster'[g].ask.about = graph[g].n /\ graph'[g] = graph[g]
<1>1. poster \in [Agents -> Place]
  BY DEF OnRecord, TypeOK, Place
<1> USE DEF registry, watcher, history, NoPost, Driving, Asking
<1>2. ASSUME NEW h \in Agents, Index(h), graph' = graph
      PROVE  poster'[g] = poster[g] \/ poster'[g].ask.about = graph[g].n
  <2>1. PICK k \in 1..MaxAttempts :
          poster' = [poster EXCEPT ![h] = [NoPost EXCEPT !.pc = "indexed",
                        !.ask = [owner |-> h, about |-> graph[h].n, attempt |-> k]]]
    BY <1>2 DEF Index
  <2> QED BY <1>1, <2>1
<1>3. ASSUME NEW h \in Agents, PostStep(h)
      PROVE  \/ poster[g].pc \in Asking /\ poster'[g].ask = poster[g].ask
             \/ poster'[g].ask.about = graph[g].n /\ graph'[g] = graph[g]
  <2>1. CASE AskUser(h)
    BY <1>2, <2>1 DEF AskUser
  <2>2. CASE Show(h) \/ Wake(h) \/ Resolve(h)
    BY <1>1, <2>2 DEF Show, Wake, Resolve, Posting, Place
  <2>3. CASE Reply(h) \/ ReplyFails(h)
    BY <1>1, <2>3 DEF Reply, ReplyFails
  <2> QED BY <1>3, <2>1, <2>2, <2>3 DEF PostStep
<1>4. AgentStep => poster'[g] = poster[g]
  BY <1>1 DEF AgentStep, Converse, Execute, Launch, Interrupt, Ends, Stop
<1>5. ASSUME NEW r \in entering, Reenter(r) PROVE poster'[g] = poster[g]
  BY <1>1, <1>5 DEF Reenter
<1>6. WatchStep => \/ poster'[g] = poster[g]
                   \/ poster'[g].ask.about = graph[g].n /\ graph'[g] = graph[g]
  <2>1. ASSUME NEW b \in Background, Poll(b)
        PROVE  \/ poster'[g] = poster[g]
               \/ poster'[g].ask.about = graph[g].n /\ graph'[g] = graph[g]
    <3>1. b \in Agents /\ graph' = graph /\ (poster' = poster \/ Index(b))
      BY <2>1 DEF Poll, Agents
    <3> QED BY <1>2, <3>1
  <2> QED BY <2>1 DEF WatchStep, Discover, Timeout
<1>7. RespondStep \/ (\E a \in retiring : Retire(a)) \/ (\E r \in entering : Refuse(r)) =>
        poster' = poster
  BY DEF RespondStep, Respond, RespondLate, Retire, Refuse
<1>8. ~Restart
  BY DEF Restart
<1> QED BY <1>3, <1>4, <1>5, <1>6, <1>7, <1>8 DEF Next

LEMMA CountedStep ==
    ASSUME Answering, Next, NEW g \in Agents
    PROVE  Counted(g)'
<1>1. OnRecord /\ Posted(g) /\ Counted(g) /\ applied \subseteq [ask : Asks, answer : Answers]
      /\ graph \in [Agents -> State]
  BY DEF Answering, OnRecord, TypeOK, State
<1>2. poster'[g].pc \in Asking => poster'[g].ask.about = graph'[g].n
  <2> SUFFICES ASSUME poster'[g].pc \in Asking PROVE poster'[g].ask.about = graph'[g].n
    OBVIOUS
  <2>1. CASE poster[g].pc \in Asking /\ poster'[g].ask = poster[g].ask
    BY <1>1, <2>1, Counting DEF Posted, Counted
  <2>2. CASE poster'[g].ask.about = graph[g].n /\ graph'[g] = graph[g]
    BY <2>2
  <2> QED BY <1>1, <2>1, <2>2, Taking
<1>3. ASSUME NEW r \in applied, r.ask.owner = g
      PROVE  r.ask.about <= graph'[g].n /\ (graph'[g].at = "parked" => r.ask.about # graph'[g].n)
  <2>1. /\ r.ask.about \in Nat /\ graph[g].n \in Nat
        /\ r.ask.about <= graph[g].n
        /\ graph[g].at = "parked" => r.ask.about # graph[g].n
    <3>1. r.ask \in Asks
      BY <1>1, <1>3
    <3>2. r.ask.about \in Nat /\ graph[g].n \in Nat
      BY <1>1, <3>1, BoundsAssumption DEF Asks, State
    <3> QED BY <1>1, <1>3, <3>2 DEF Counted
  <2> QED BY <1>1, <2>1, Counting
<1>4. ASSUME NEW h \in Agents, Reply(h), NEW r \in applied', r \notin applied, r.ask.owner = g
      PROVE  r.ask.about <= graph'[g].n /\ graph'[g].at # "parked"
  <2>1. r = Decision(poster[h].ask, poster[h].answer) /\ poster[h].pc = "replying"
    BY <1>4 DEF Reply, Posting
  <2>2. r.ask = poster[h].ask /\ Posted(h) /\ Counted(h)
    BY <2>1 DEF Decision, Answering, OnRecord
  <2>3. h = g /\ r.ask.about = graph[g].n
    BY <1>4, <2>1, <2>2 DEF Posted, Counted, Asking
  <2>4. graph'[g].at = "running" /\ graph'[g].n = graph[g].n
    BY <1>1, <1>4, <2>3 DEF Reply, State
  <2> QED BY <1>1, <2>3, <2>4, BoundsAssumption DEF State
<1>5. \A r \in applied' : r.ask.owner = g =>
        r.ask.about <= graph'[g].n /\ (graph'[g].at = "parked" => r.ask.about # graph'[g].n)
  BY <1>1, <1>3, <1>4, Applying
<1> QED BY <1>2, <1>5 DEF Counted

LEMMA AlwaysAnswering == Spec => []Answering
<1>1. Answering /\ [Next]_vars => Answering'
  <2> SUFFICES ASSUME Answering, [Next]_vars PROVE Answering'
    OBVIOUS
  <2>1. OnRecord'
    BY NextOnRecord DEF Answering
  <2>2. CASE Next
    BY <2>1, <2>2, SaidStep, SpokeStep, CountedStep DEF Answering
  <2>3. CASE UNCHANGED vars
    BY <2>1, <2>3 DEF Answering, Said, Spoke, Counted, vars
  <2> QED BY <2>2, <2>3
<1> QED BY <1>1, InitAnswering, PTL DEF Spec


-----------------------------------------------------------------------------
(* Every step is a step of Question *)

\* Most steps settle nothing: at the most somebody stops to wait.
LEMMA Leaving ==
    ASSUME UNCHANGED <<rows, told, applied>>,
           \A x \in Asks : Waited(x)' => Waited(x)
    PROVE  Promised!Leave
BY DEF Promised!Leave

\* So does a step after which no agent waits that did not.
LEMMA Quiet ==
    ASSUME OnRecord, UNCHANGED <<rows, told, applied>>,
           \A g \in Agents : \/ poster'[g].ask \in {poster[g].ask, None}
                             \/ poster'[g].ask \in Asks /\ rows[poster'[g].ask] = "none"
    PROVE  Promised!Leave
<1>1. ASSUME NEW x \in Asks, Waited(x)' PROVE Waited(x)
  <2>1. x.owner \in Agents /\ rows[x] # "none" /\ poster'[x.owner].ask = x
    BY <1>1 DEF Waited, Asks
  <2> QED BY <2>1, NoAskAssumption DEF Waited
<1> QED BY <1>1, Leaving

\* The ask of an agent is waited for when it is on record; a step of one agent
\* leaves the others waiting.
LEMMA Others ==
    ASSUME OnRecord, NEW g \in Agents, NEW a \in Asks, a.owner = g,
           \A h \in Agents \ {g} : poster'[h] = poster[h],
           \A x \in Asks \ {a} : rows'[x] = rows[x],
           poster[g].ask = a, poster'[g].ask \in {a, None}
    PROVE  \A x \in Asks \ {a} : Waited(x)' <=> Waited(x)
<1> SUFFICES ASSUME NEW x \in Asks \ {a} PROVE Waited(x)' <=> Waited(x)
  OBVIOUS
<1>1. x.owner \in Agents /\ x # a /\ x # None
  BY NoAskAssumption DEF Asks
<1>2. CASE x.owner = g
  BY <1>1, <1>2 DEF Waited
<1>3. CASE x.owner # g
  BY <1>1, <1>3 DEF Waited
<1> QED BY <1>2, <1>3

\* Once an answer is accepted, it is the only one that was.
LEMMA Only ==
    ASSUME Answering, NEW g \in Agents, poster[g].pc \in {"resolving", "replying"}
    PROVE  /\ poster[g].answer \in Answers
           /\ Promised!HeardOf(poster[g].ask) = {poster[g].answer}
<1>1. poster[g].pc \in Asking /\ Spoke(g)
  BY DEF Asking, Answering
<1>2. poster[g].ask \in Asks /\ poster[g].ask.owner = g /\ Posted(g) /\ Kept(poster[g].ask)
  BY <1>1, Own DEF Answering
<1>3. poster[g].answer \in Answers
      /\ [ask |-> poster[g].ask, answer |-> poster[g].answer] \in told
  BY <1>1, <1>2 DEF Posted, Spoke, Decision
<1>4. \A s \in told : s.ask = poster[g].ask => s.answer = poster[g].answer
  BY <1>2 DEF Kept, Heard
<1>5. ASSUME NEW d \in Answers, [ask |-> poster[g].ask, answer |-> d] \in told
      PROVE  d = poster[g].answer
  BY <1>4, <1>5
<1> QED BY <1>3, <1>5 DEF Promised!HeardOf, Promised!Says

\* The write of the record poses the ask.
LEMMA ShowPoses ==
    ASSUME Answering, NEW g \in Agents, Show(g), NEW a \in Asks, a = poster[g].ask
    PROVE  Promised!Pose(a)
<1>1. poster[g].pc = "indexed" /\ poster[g].pc \in Asking /\ OnRecord
  BY DEF Show, Posting, Asking, Answering
<1>2. a \in Asks /\ a.owner = g /\ rows[a] = "none"
  BY <1>1, Own DEF Posted
<1>3. /\ rows' = [rows EXCEPT ![a] = "pending"] /\ UNCHANGED <<told, applied>>
      /\ \A x \in Asks \ {a} : rows'[x] = rows[x]
      /\ rows'[a] = "pending"
  BY <1>1, <1>2 DEF Show, OnRecord, TypeOK, history
<1>4. poster'[g].ask = a /\ \A h \in Agents \ {g} : poster'[h] = poster[h]
  BY <1>1 DEF Show, OnRecord, TypeOK
<1>5. \A x \in Asks \ {a} : Waited(x)' <=> Waited(x)
  BY <1>1, <1>2, <1>3, <1>4, Others
<1>6. ~Waited(a) /\ Waited(a)'
  BY <1>2, <1>3, <1>4 DEF Waited
<1>7. {x \in Asks : Waited(x)}' = {x \in Asks : Waited(x)} \cup {a}
  BY <1>2, <1>5, <1>6
<1> QED BY <1>2, <1>3, <1>7 DEF Promised!Pose

\* An answer of a user is accepted while the agent waits, and is the first.
LEMMA RespondAccepts ==
    ASSUME Answering, NEW a \in Asks, NEW text \in Answers \cup {""}, Respond(a, text)
    PROVE  Promised!Accept(a, Response(text))
<1>1. futures[a] = "waiting" /\ futures[a] # None /\ "waiting" \notin Answers
  BY NoneAssumption DEF Respond, Waiting, Answers
<1>2. Kept(a) /\ OnRecord
  BY DEF Answering, OnRecord
<1>3. rows[a] = "pending" /\ poster[a.owner].ask = a /\ poster[a.owner].pc = "waiting"
  BY <1>1, <1>2 DEF Kept, Live
<1>4. Waited(a)
  BY <1>3 DEF Waited
<1>5. \A s \in told : s.ask = a => s.answer = "waiting"
  BY <1>1, <1>2, <1>3 DEF Kept, Heard
<1>6. Promised!HeardOf(a) = {}
  BY <1>1, <1>5 DEF Promised!HeardOf, Promised!Says
<1>7. /\ told' = told \cup {Promised!Says(a, Response(text))}
      /\ UNCHANGED <<rows, poster, applied>>
  BY DEF Respond, Decision, Promised!Says, registry
<1>8. {x \in Asks : Waited(x)}' = {x \in Asks : Waited(x)}
  BY <1>7 DEF Waited
<1> QED BY <1>3, <1>4, <1>6, <1>7, <1>8 DEF Promised!Accept

\* AskRegistry.resolve settles the ask with it.
LEMMA ResolveSettles ==
    ASSUME Answering, NEW g \in Agents, Resolve(g), NEW a \in Asks, a = poster[g].ask
    PROVE  Promised!Settle(a, poster[g].answer)
<1>1. poster[g].pc = "resolving" /\ poster[g].pc \in Asking /\ OnRecord
  BY DEF Resolve, Posting, Asking, Answering
<1>2. a \in Asks /\ a.owner = g /\ rows[a] = "pending"
  BY <1>1, Own DEF Posted
<1>3. /\ rows' = [rows EXCEPT ![a] = poster[g].answer] /\ UNCHANGED <<told, applied>>
      /\ \A x \in Asks \ {a} : rows'[x] = rows[x]
      /\ rows'[a] = poster[g].answer
  BY <1>1, <1>2 DEF Resolve, Settled, OnRecord, TypeOK, history
<1>4. poster'[g].ask = a /\ \A h \in Agents \ {g} : poster'[h] = poster[h]
  BY <1>1 DEF Resolve, OnRecord, TypeOK
<1>5. poster[g].answer \in Answers /\ Promised!HeardOf(a) = {poster[g].answer}
  BY <1>1, Only
<1>6. \A x \in Asks \ {a} : Waited(x)' <=> Waited(x)
  BY <1>1, <1>2, <1>3, <1>4, Others
<1>7. Waited(a) /\ Waited(a)'
  BY <1>2, <1>3, <1>4, <1>5 DEF Waited, Answers
<1>8. {x \in Asks : Waited(x)}' = {x \in Asks : Waited(x)}
  BY <1>2, <1>6, <1>7
<1> QED BY <1>2, <1>3, <1>5, <1>8 DEF Promised!Settle

\* The graph is resumed with the answer on record, and with no other decision
\* about the same interrupt, however often it was asked about.
LEMMA ReplyApplies ==
    ASSUME Answering, NEW g \in Agents, Reply(g), NEW a \in Asks, a = poster[g].ask
    PROVE  Promised!Apply(a, poster[g].answer)
<1>1. poster[g].pc = "replying" /\ poster[g].pc \in Asking /\ OnRecord /\ Counted(g)
  BY DEF Reply, Posting, Asking, Answering
<1>2. a \in Asks /\ a.owner = g /\ rows[a] = poster[g].answer /\ graph[g].at = "parked"
      /\ a.about = graph[g].n
  BY <1>1, Own DEF Posted, Counted
<1>3. /\ applied' = applied \cup {Promised!Says(a, poster[g].answer)}
      /\ UNCHANGED <<rows, told>>
  BY DEF Reply, Decision, Promised!Says, registry
<1>4. poster'[g].ask = None /\ \A h \in Agents \ {g} : poster'[h] = poster[h]
  BY <1>1 DEF Reply, OnRecord, TypeOK, Driving, NoPost
<1>5. poster[g].answer \in Answers /\ Promised!HeardOf(a) = {poster[g].answer}
  BY <1>1, Only
<1>6. ASSUME NEW r \in applied
      PROVE  [x \in Asks |-> <<x.owner, x.about>>][r.ask] # [x \in Asks |-> <<x.owner, x.about>>][a]
  <2>1. r.ask \in Asks
    BY <1>1 DEF OnRecord, TypeOK
  <2>2. r.ask.owner = g => r.ask.about # a.about
    BY <1>1, <1>2 DEF Counted
  <2> QED BY <1>2, <2>1, <2>2
<1>7. \A x \in Asks \ {a} : Waited(x)' <=> Waited(x)
  BY <1>1, <1>2, <1>3, <1>4, Others
<1>8. Waited(a) /\ ~Waited(a)'
  BY <1>2, <1>4, <1>5, NoAskAssumption DEF Waited, Answers
<1>9. {x \in Asks : Waited(x)}' = {x \in Asks : Waited(x)} \ {a}
  BY <1>2, <1>7, <1>8
<1> QED BY <1>2, <1>3, <1>5, <1>6, <1>8, <1>9 DEF Promised!Apply


\* A stop leaves the ask, whatever the write it falls into has done.
LEMMA StopLeaves ==
    ASSUME Answering, NEW c \in Chats, Stop(c)
    PROVE  Promised!Next
<1>1. OnRecord /\ c \in Agents /\ Posted(c) /\ poster \in [Agents -> Place]
  BY DEF Answering, OnRecord, TypeOK, Place, Agents
<1>2. /\ poster'[c].ask = None /\ \A h \in Agents \ {c} : poster'[h] = poster[h]
      /\ UNCHANGED <<told, applied>>
  BY <1>1 DEF Stop, NoPost
<1>3. CASE rows' = rows
  <2>1. Promised!Leave
    BY <1>1, <1>2, <1>3, Quiet
  <2> QED BY <2>1 DEF Promised!Next
<1>4. CASE rows' # rows
  <2>1. poster[c].pc \in {"indexed", "resolving"} /\ poster[c].pc \in Asking
    BY <1>4 DEF Stop, Asking
  <2>2. PICK a \in Asks : a = poster[c].ask /\ a.owner = c
    BY <1>1, <2>1, Own
  <2>3. ASSUME NEW s, rows' = [rows EXCEPT ![a] = s]
        PROVE  /\ \A x \in Asks \ {a} : Waited(x)' <=> Waited(x)
               /\ ~Waited(a)'
    <3>1. \A x \in Asks \ {a} : rows'[x] = rows[x]
      BY <1>1, <2>3 DEF OnRecord, TypeOK
    <3> QED BY <1>1, <1>2, <2>2, <3>1, NoAskAssumption, Others DEF Waited
  <2>4. CASE poster[c].pc = "indexed"
    <3>1. rows' = [rows EXCEPT ![a] = "pending"]
      BY <1>4, <2>2, <2>4 DEF Stop
    <3>2. rows[a] = "none" /\ ~Waited(a)
      BY <1>1, <2>2, <2>4 DEF Posted, Waited
    <3>3. {x \in Asks : Waited(x)}' = {x \in Asks : Waited(x)}
      BY <2>3, <3>1, <3>2
    <3>4. Promised!Pose(a)
      BY <1>2, <3>1, <3>2, <3>3 DEF Promised!Pose
    <3> QED BY <3>4 DEF Promised!Next
  <2>5. CASE poster[c].pc = "resolving"
    <3>1. rows[a] = "pending" /\ rows' = [rows EXCEPT ![a] = poster[c].answer]
      BY <1>1, <1>4, <2>2, <2>5 DEF Stop, Posted, Settled, OnRecord, TypeOK
    <3>2. poster[c].answer \in Answers /\ Promised!HeardOf(a) = {poster[c].answer}
      BY <1>1, <2>2, <2>5, Only
    <3>3. {x \in Asks : Waited(x)}' = {x \in Asks : Waited(x)} \ {a}
      BY <2>2, <2>3, <3>1
    <3>4. Promised!Settle(a, poster[c].answer)
      BY <1>2, <3>1, <3>2, <3>3 DEF Promised!Settle
    <3> QED BY <3>2, <3>4 DEF Promised!Next
  <2> QED BY <2>1, <2>4, <2>5
<1> QED BY <1>3, <1>4

\* The detached task settles what the stop left, or comes too late.
LEMMA RetireSettles ==
    ASSUME Answering, NEW a \in retiring, Retire(a)
    PROVE  Promised!Next
<1>1. OnRecord /\ a \in Asks /\ Kept(a) /\ Lost(a)
  BY DEF Answering, OnRecord, TypeOK, Lost
<1>2. rows[a] # "none" /\ poster[a.owner].ask # a
  BY <1>1 DEF Kept, Past
<1>3. /\ \A x \in Asks \ {a} : rows'[x] = rows[x]
      /\ rows' = Settled(a, "cancelled") /\ UNCHANGED <<poster, told, applied>>
  BY <1>1, SettledRow DEF Retire, history
<1>4. CASE rows[a] = "pending"
  <2>1. rows' = [rows EXCEPT ![a] = "cancelled"]
    BY <1>1, <1>3, <1>4 DEF Settled, OnRecord, TypeOK
  <2>2. ~Waited(a) /\ \A x \in Asks : Waited(x)' <=> Waited(x)
    BY <1>2, <1>3 DEF Waited
  <2>3. {x \in Asks : Waited(x)}' = {x \in Asks : Waited(x)}
    BY <2>2
  <2>4. Promised!Settle(a, "cancelled")
    BY <1>1, <1>3, <1>4, <2>1, <2>2, <2>3 DEF Promised!Settle
  <2> QED BY <1>1, <2>4 DEF Promised!Next
<1>5. CASE rows[a] # "pending"
  <2>1. rows' = rows
    BY <1>1, <1>3, <1>5 DEF Settled, OnRecord, TypeOK
  <2>2. Promised!Leave
    BY <1>1, <1>3, <2>1, Quiet
  <2> QED BY <2>2 DEF Promised!Next
<1> QED BY <1>4, <1>5

\* A late answer is for an ask nobody waits for.  A conversation is re-entered
\* without the decision.
LEMMA ReenterAnswersLate ==
    ASSUME Answering, NEW r \in entering, Reenter(r)
    PROVE  Promised!Next
<1>1. PICK a \in Asks, d \in Answers : r = [ask |-> a, answer |-> d]
  BY DEF Answering, OnRecord, TypeOK
<1>2. /\ OnRecord /\ Kept(a) /\ Lost(a) /\ a.owner \in Chats /\ a.owner \in Agents
      /\ \A x \in applied : x.ask # a
  BY <1>1 DEF Answering, OnRecord, Kept, Late, Lost, Agents
<1>3. rows[a] # "none" /\ poster[a.owner].ask # a /\ ~Waited(a)
  BY <1>2 DEF Kept, Past, Waited
<1>4. /\ rows' = [rows EXCEPT ![a] = IF @ = "pending" THEN d ELSE @]
      /\ told' = told \cup {Promised!Says(a, d)} /\ UNCHANGED applied
      /\ poster' = [poster EXCEPT ![a.owner] = Driving]
      /\ poster[a.owner].pc = "none"
  BY <1>1, <1>2 DEF Reenter, Settled, Promised!Says, Busy, Posting
<1>5. \A g \in Agents : poster'[g].ask = poster[g].ask
  BY <1>2, <1>4 DEF OnRecord, TypeOK, Posted, Asking, Driving, NoPost
<1>6. ASSUME NEW x \in Asks PROVE Waited(x)' <=> Waited(x)
  <2>1. /\ poster'[x.owner].ask = poster[x.owner].ask
        /\ rows'[x] # "none" <=> rows[x] # "none"
    BY <1>2, <1>3, <1>4, <1>5 DEF OnRecord, TypeOK, Asks, Answers
  <2> QED BY <2>1 DEF Waited
<1>7. {x \in Asks : Waited(x)}' = {x \in Asks : Waited(x)}
  BY <1>6
<1>8. Promised!AnswerLate(a, d)
  BY <1>2, <1>3, <1>4, <1>7 DEF Promised!AnswerLate
<1> QED BY <1>8 DEF Promised!Next

\* Turns, tasks, subagents, the watcher and a restart settle nothing.
LEMMA IndexQuiet ==
    ASSUME OnRecord, NEW g \in Agents, Index(g), UNCHANGED <<rows, told, applied>>
    PROVE  Promised!Leave
<1>1. PICK k \in 1..MaxAttempts :
        LET a == [owner |-> g, about |-> graph[g].n, attempt |-> k] IN
        /\ graph[g].at = "parked" /\ rows[a] = "none"
        /\ poster' = [poster EXCEPT ![g] = [NoPost EXCEPT !.pc = "indexed", !.ask = a]]
  BY DEF Index, Fresh
<1>2. PICK a : /\ a = [owner |-> g, about |-> graph[g].n, attempt |-> k]
               /\ rows[a] = "none"
               /\ poster' = [poster EXCEPT ![g] = [NoPost EXCEPT !.pc = "indexed", !.ask = a]]
  BY <1>1
<1>3. graph[g].n \in 1..MaxInterrupts
  BY <1>1, BoundsAssumption DEF OnRecord, TypeOK, Posted
<1>4. a \in Asks
  BY <1>2, <1>3 DEF Asks
<1>5. \A h \in Agents : poster'[h] = poster[h] \/ poster'[h].ask = a
  BY <1>2 DEF OnRecord, TypeOK, NoPost
<1> QED BY <1>2, <1>4, <1>5, Quiet

LEMMA RestQuiet ==
    ASSUME Answering, Next
    PROVE  \/ Promised!Leave
           \/ \E g \in Agents : Show(g) \/ Resolve(g) \/ Reply(g)
           \/ \E c \in Chats : Stop(c)
           \/ \E a \in retiring : Retire(a)
           \/ \E a \in Asks, text \in Answers \cup {""} : Respond(a, text)
           \/ \E r \in entering : Reenter(r)
<1> USE DEF registry, watcher, history
<1>1. OnRecord /\ poster \in [Agents -> Place]
      /\ \A g \in Agents : poster[g].pc \notin Asking => poster[g].ask = None
  BY DEF Answering, OnRecord, TypeOK, Place, Posted
<1>2. ASSUME NEW c \in Chats, Converse(c) PROVE Promised!Leave
  <2>1. \A g \in Agents : poster'[g].ask \in {poster[g].ask, None}
    BY <1>1, <1>2 DEF Converse, Driving, NoPost, Agents, Local
  <2> QED BY <1>1, <1>2, <2>1, Quiet DEF Converse
<1>3. ASSUME NEW f \in Foreground, Execute(f) PROVE Promised!Leave
  <2>1. \A g \in Agents : poster'[g].ask \in {poster[g].ask, None}
    BY <1>1, <1>3 DEF Execute, Driving, NoPost, Agents, Local
  <2> QED BY <1>1, <1>3, <2>1, Quiet DEF Execute
<1>4. ASSUME NEW g \in Agents, Ends(g) PROVE Promised!Leave
  <2>1. \A h \in Agents : poster'[h].ask \in {poster[h].ask, None}
    BY <1>1, <1>4 DEF Ends, NoPost
  <2> QED BY <1>1, <1>4, <2>1, Quiet DEF Ends
<1>5. ASSUME NEW g \in Agents, AskUser(g) PROVE Promised!Leave
  BY <1>1, <1>5, IndexQuiet DEF AskUser
<1>6. ASSUME NEW g \in Agents, Wake(g) PROVE Promised!Leave
  <2>1. \A h \in Agents : poster'[h].ask = poster[h].ask
    BY <1>1, <1>6 DEF Wake, Place
  <2> QED BY <1>1, <1>6, <2>1, Quiet DEF Wake
<1>7. ASSUME NEW b \in Agents, ReplyFails(b) PROVE Promised!Leave
  <2>1. \A h \in Agents : poster'[h].ask \in {poster[h].ask, None}
    BY <1>1, <1>7 DEF ReplyFails, NoPost
  <2> QED BY <1>1, <1>7, <2>1, Quiet DEF ReplyFails
<1>8. ASSUME NEW b \in Background, Poll(b) PROVE Promised!Leave
  <2>1. b \in Agents /\ (poster' = poster \/ Index(b)) /\ UNCHANGED <<rows, told, applied>>
    BY <1>8 DEF Poll, Agents
  <2> QED BY <1>1, <2>1, Quiet, IndexQuiet
<1>9. Restart => Promised!Leave
  <2>1. ASSUME Restart PROVE \A h \in Agents : poster'[h].ask = None
    BY <2>1 DEF Restart, NoPost
  <2> QED BY <1>1, <2>1, Quiet DEF Restart
<1>10. ASSUME UNCHANGED <<poster, rows, told, applied>> PROVE Promised!Leave
  BY <1>1, <1>10, Quiet
<1> QED
  BY <1>2, <1>3, <1>4, <1>5, <1>6, <1>7, <1>8, <1>9, <1>10
     DEF Next, AgentStep, PostStep, RespondStep, WatchStep, Launch, Interrupt, RespondLate,
         Refuse, Discover, Timeout

LEMMA InitPromised == Init => Promised!Init
<1> SUFFICES ASSUME Init PROVE Promised!Init
  OBVIOUS
<1>1. \A x \in Asks : ~Waited(x)
  BY DEF Init, Waited
<1> QED BY <1>1 DEF Init, Promised!Init

LEMMA StepPromised == Answering /\ [Next]_vars => [Promised!Next]_Promised!vars
<1> SUFFICES ASSUME Answering, [Next]_vars PROVE [Promised!Next]_Promised!vars
  OBVIOUS
<1>1. ASSUME NEW g \in Agents, Show(g) \/ Resolve(g) \/ Reply(g) PROVE Promised!Next
  <2>1. poster[g].pc \in Asking
    BY <1>1 DEF Show, Resolve, Reply, Posting, Asking
  <2>2. PICK a \in Asks : a = poster[g].ask
    BY <2>1, Own DEF Answering
  <2>3. poster[g].pc # "indexed" /\ poster[g].pc # "waiting" => poster[g].answer \in Answers
    BY <2>1 DEF Answering, OnRecord, Posted, Asking
  <2>4. CASE Show(g)
    BY <2>2, <2>4, ShowPoses DEF Promised!Next
  <2>5. CASE Resolve(g)
    <3>1. Promised!Settle(a, poster[g].answer)
      BY <2>2, <2>5, ResolveSettles
    <3> QED BY <2>3, <2>5, <3>1 DEF Promised!Next, Resolve, Posting
  <2>6. CASE Reply(g)
    <3>1. Promised!Apply(a, poster[g].answer)
      BY <2>2, <2>6, ReplyApplies
    <3> QED BY <2>3, <2>6, <3>1 DEF Promised!Next, Reply, Posting
  <2> QED BY <1>1, <2>4, <2>5, <2>6
<1>2. ASSUME NEW a \in Asks, NEW text \in Answers \cup {""}, Respond(a, text) PROVE Promised!Next
  BY <1>2, RespondAccepts, ResponseIsAnswer DEF Promised!Next
<1>3. CASE Next
  BY <1>1, <1>2, <1>3, RestQuiet, StopLeaves, RetireSettles, ReenterAnswersLate DEF Promised!Next
<1>4. CASE UNCHANGED vars
  BY <1>4 DEF vars, Promised!vars, Waited
<1> QED BY <1>3, <1>4

\* The router, the registry and the responders implement Question: nobody applies
\* an answer that was not accepted, nor a second decision about an interrupt,
\* however often the agent asked.
THEOREM Implements == Spec => Refines
<1>1. Answering /\ Answering' /\ [Next]_vars => [Promised!Next]_Promised!vars
  BY StepPromised
<1> QED BY InitPromised, <1>1, AlwaysAnswering, PTL DEF Spec, Refines, Promised!Spec


\* What that comes to: the decisions about one interrupt are one decision, over
\* all the asks that were posted about it.
DecidedOnce ==
    \A r, s \in applied :
        r.ask.owner = s.ask.owner /\ r.ask.about = s.ask.about => r = s

\* No graph is resumed twice from one interrupt: neither a second ask about it, a
\* late answer nor a restart gets another decision through.
THEOREM ResumedOnce == Spec => []DecidedOnce
<1>1. Init => DecidedOnce
  BY DEF Init, DecidedOnce
<1>2. DecidedOnce /\ Answering /\ [Next]_vars => DecidedOnce'
  <2> SUFFICES ASSUME DecidedOnce, Answering, [Next]_vars PROVE DecidedOnce'
    OBVIOUS
  <2>1. ASSUME NEW g \in Agents, Reply(g) PROVE DecidedOnce'
    <3>1. poster[g].pc \in Asking
      BY <2>1 DEF Reply, Posting, Asking
    <3>2. PICK a \in Asks : a = poster[g].ask
      BY <3>1, Own DEF Answering
    <3>3. Promised!Apply(a, poster[g].answer)
      BY <2>1, <3>2, ReplyApplies
    <3>4. applied \subseteq [ask : Asks, answer : Answers]
      BY DEF Answering, OnRecord, TypeOK
    <3>5. \A r \in applied : <<r.ask.owner, r.ask.about>> # <<a.owner, a.about>>
      BY <3>3, <3>4 DEF Promised!Apply
    <3>6. applied' = applied \cup {[ask |-> a, answer |-> poster[g].answer]}
      BY <3>3 DEF Promised!Apply, Promised!Says
    <3> QED BY <3>5, <3>6 DEF DecidedOnce
  <2>2. CASE applied' = applied
    BY <2>2 DEF DecidedOnce
  <2> QED BY <2>1, <2>2, Applying DEF Answering, vars
<1> QED BY <1>1, <1>2, AlwaysAnswering, PTL DEF Spec
=============================================================================
