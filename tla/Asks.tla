-------------------------------- MODULE Asks --------------------------------
(***************************************************************************)
(* Tier-2 asks: the questions an agent is parked on until a user answers.  *)
(* The channel router that shows them (daemon/channels.py), the durable    *)
(* index (daemon/ask_registry.py), the responders (the decision service),  *)
(* the re-entry after a restart (daemon/ask_resume.py) and the watcher     *)
(* that asks on behalf of background subagents (async_subagents/watcher).  *)
(*                                                                         *)
(* The graphs and the subagent host are LangGraph: a graph parks on an     *)
(* interrupt, which its checkpoint keeps, until it is resumed.  The host   *)
(* belongs to another process and outlives the daemon.  A thread parks on  *)
(* one interrupt at a time.  Writes do not fail; runs.create may.          *)
(***************************************************************************)
EXTENDS Integers, FiniteSets

CONSTANTS
    Chats,          \* conversations: the turn runs in this process
    Foreground,     \* tasks of the orchestrator loop
    Background,     \* subagents on the host
    MaxInterrupts,  \* bound: the interrupts of one agent
    MaxAttempts,    \* bound: the asks about one interrupt
    MaxRestarts,    \* bound: the restarts of the daemon
    MaxLate,        \* bound: the late answers on their way at once
    None

Agents == Chats \cup Foreground \cup Background
Local == Chats \cup Foreground

Answers == {"approve", "reject"}

ASSUME AgentsAssumption ==
    /\ Chats \cap Foreground = {} /\ Background \cap Local = {}
ASSUME BoundsAssumption ==
    /\ MaxInterrupts \in Nat \ {0} /\ MaxAttempts \in Nat \ {0}
    /\ MaxRestarts \in Nat /\ MaxLate \in Nat
ASSUME NoneAssumption == None \notin Answers \cup {"waiting"}

\* An ask id is minted for every posting; here it says what is asked.
Asks == [owner : Agents, about : 1..MaxInterrupts, attempt : 1..MaxAttempts]
ASSUME NoAskAssumption == None \notin Asks

VARIABLES
    graph,      \* the checkpoint of each agent: parked or not, and the interrupts so far
    poster,     \* ChannelRouter.post_ask for each agent, and the turn or poll around it
    rows,       \* pending_asks.status, and the response of an answered one
    index,      \* AskRegistry._pending
    orphaned,   \* AskRegistry._orphaned
    futures,    \* WebHub.pending_asks
    retiring,   \* detached tasks that resolve a cancelled ask
    entering,   \* AskResumeService.resume calls on their way
    mirror,     \* AsyncTaskMirror, and _known_threads
    round,      \* the tasks the watcher has still to poll in this cycle
    restarts,
    told,       \* history: the answers that were accepted with ok
    applied,    \* history: the decisions graphs were resumed with
    abandoned   \* history: asks whose waiter was stopped or died

registry == <<rows, index, orphaned>>
watcher == <<mirror, round>>
history == <<told, applied, abandoned>>
vars == <<graph, poster, rows, index, orphaned, futures, retiring, entering,
          mirror, round, restarts, told, applied, abandoned>>

NoPost == [pc |-> "none", ask |-> None, answer |-> None]
Driving == [NoPost EXCEPT !.pc = "driving"]

Init ==
    /\ graph = [g \in Agents |-> [at |-> "idle", n |-> 0]]
    /\ poster = [g \in Agents |-> NoPost]
    /\ rows = [a \in Asks |-> "none"]
    /\ index = {} /\ orphaned = {}
    /\ futures = [a \in Asks |-> None]
    /\ retiring = {} /\ entering = {}
    /\ mirror = [b \in Background |-> "unseen"]
    /\ round = {}
    /\ restarts = 0
    /\ told = {} /\ applied = {} /\ abandoned = {}

Decision(a, answer) == [ask |-> a, answer |-> answer]

Posting(g, pc) == poster[g].pc = pc

\* The watcher's loop is inside _handle_interrupt.
Watching == \E b \in Background : poster[b].pc # "none"

-----------------------------------------------------------------------------
(* The agents *)

\* A user's message starts a turn.  run_turn repairs the history first: an open
\* tool call is given a result that says it did not run, and with that the
\* interrupt is gone (LangGraph takes the next node from the messages).
Converse(c) ==
    /\ Posting(c, "none")
    /\ graph' = [graph EXCEPT ![c].at = "running"]
    /\ poster' = [poster EXCEPT ![c] = Driving]
    /\ UNCHANGED <<registry, futures, retiring, entering, watcher, restarts, history>>

\* The orchestrator runs a task, or resumes it after a restart from its
\* checkpoint: a parked graph stays parked and raises its interrupt again.
Execute(f) ==
    /\ Posting(f, "none") /\ graph[f].at # "ended"
    /\ graph' = [graph EXCEPT ![f].at = IF @ = "idle" THEN "running" ELSE @]
    /\ poster' = [poster EXCEPT ![f] = Driving]
    /\ UNCHANGED <<registry, futures, retiring, entering, watcher, restarts, history>>

\* start_async_task: a run on the host.
Launch(b) ==
    /\ graph[b].at = "idle"
    /\ graph' = [graph EXCEPT ![b].at = "running"]
    /\ UNCHANGED <<poster, registry, futures, retiring, entering, watcher, restarts, history>>

\* The graph calls interrupt().
Interrupt(g) ==
    /\ graph[g].at = "running" /\ graph[g].n < MaxInterrupts
    /\ g \in Local => Posting(g, "driving")
    /\ graph' = [graph EXCEPT ![g] = [at |-> "parked", n |-> @.n + 1]]
    /\ UNCHANGED <<poster, registry, futures, retiring, entering, watcher, restarts, history>>

\* The graph comes to its end; a conversation waits for the next message.
Ends(g) ==
    /\ graph[g].at = "running"
    /\ g \in Local => Posting(g, "driving")
    /\ graph' = [graph EXCEPT ![g].at = IF g \in Chats THEN "idle" ELSE "ended"]
    /\ poster' = IF g \in Local THEN [poster EXCEPT ![g] = NoPost] ELSE poster
    /\ UNCHANGED <<registry, futures, retiring, entering, watcher, restarts, history>>

-----------------------------------------------------------------------------
(* ChannelRouter.post_ask *)

Fresh(a) == rows[a] = "none" /\ a \notin index

\* AskRegistry.record up to the write: the ask is in the index.
Index(g) ==
    \E k \in 1..MaxAttempts :
        LET Ask(j) == [owner |-> g, about |-> graph[g].n, attempt |-> j] IN
        /\ graph[g].at = "parked"
        /\ Fresh(Ask(k)) /\ \A j \in 1..(k - 1) : ~Fresh(Ask(j))
        /\ index' = index \cup {Ask(k)}
        /\ poster' = [poster EXCEPT ![g] = [NoPost EXCEPT !.pc = "indexed", !.ask = Ask(k)]]

\* _drive_graph asks (make_ask_handler, converse's _ask_handler).
AskUser(g) ==
    /\ g \in Local /\ Posting(g, "driving")
    /\ Index(g)
    /\ UNCHANGED <<graph, rows, orphaned, futures, retiring, entering, watcher,
                   restarts, history>>

\* Mutant of Show: the write is left to a task nobody awaits.
Show_First(g) ==
    /\ Posting(g, "indexed")
    /\ futures' = [futures EXCEPT ![poster[g].ask] = "waiting"]
    /\ poster' = [poster EXCEPT ![g].pc = "waiting"]
    /\ UNCHANGED <<graph, registry, retiring, entering, watcher, restarts, history>>

\* put_pending_ask returned: the surfaces are raced, each parks a future under
\* the ask's id and broadcasts it.
Show(g) ==
    /\ Posting(g, "indexed")
    /\ rows' = [rows EXCEPT ![poster[g].ask] = "pending"]
    /\ futures' = [futures EXCEPT ![poster[g].ask] = "waiting"]
    /\ poster' = [poster EXCEPT ![g].pc = "waiting"]
    /\ UNCHANGED <<graph, index, orphaned, retiring, entering, watcher, restarts, history>>

\* Mutant of Wake: the race goes on after an answer, as after a surface that failed.
Wake_GoesOn(g) ==
    /\ Posting(g, "waiting") /\ futures[poster[g].ask] \in Answers
    /\ futures' = [futures EXCEPT ![poster[g].ask] = None]
    /\ UNCHANGED <<graph, poster, registry, retiring, entering, watcher, restarts, history>>

\* The race returns the answer, every surface is told, and AskRegistry.resolve
\* takes the ask from the index.
Wake(g) ==
    LET a == poster[g].ask IN
    /\ Posting(g, "waiting") /\ futures[a] \in Answers
    /\ poster' = [poster EXCEPT ![g].pc = "resolving", ![g].answer = futures[a]]
    /\ futures' = [futures EXCEPT ![a] = None]
    /\ index' = index \ {a}
    /\ UNCHANGED <<graph, rows, orphaned, retiring, entering, watcher, restarts, history>>

\* Mutant of Settled: the update does not compare.
Settled_NoCompare(a, status) == [rows EXCEPT ![a] = status]

\* resolve_pending_ask: an update of a pending row only.
Settled(a, status) ==
    [rows EXCEPT ![a] = IF @ = "pending" THEN status ELSE @]

Resolve(g) ==
    /\ Posting(g, "resolving")
    /\ rows' = Settled(poster[g].ask, poster[g].answer)
    /\ poster' = [poster EXCEPT ![g].pc = "replying"]
    /\ UNCHANGED <<graph, index, orphaned, futures, retiring, entering, watcher,
                   restarts, history>>

\* The graph is resumed with the answer: by the turn itself, or by the watcher
\* with runs.create.
Reply(g) ==
    /\ Posting(g, "replying")
    /\ graph' = [graph EXCEPT ![g].at = "running"]
    /\ applied' = applied \cup {Decision(poster[g].ask, poster[g].answer)}
    /\ poster' = [poster EXCEPT ![g] = IF g \in Local THEN Driving ELSE NoPost]
    /\ mirror' = IF g \in Background THEN [mirror EXCEPT ![g] = "running"] ELSE mirror
    /\ UNCHANGED <<registry, futures, retiring, entering, round, restarts, told, abandoned>>

\* runs.create fails: the task is marked as failed.
ReplyFails(b) ==
    /\ b \in Background /\ Posting(b, "replying")
    /\ mirror' = [mirror EXCEPT ![b] = "error"]
    /\ abandoned' = abandoned \cup {poster[b].ask}
    /\ poster' = [poster EXCEPT ![b] = NoPost]
    /\ UNCHANGED <<graph, registry, futures, retiring, entering, round, restarts,
                   told, applied>>

\* Stop: the turn is cancelled wherever it is.  In the race the ask is retired
\* by a detached task; in the two writes the cancellation passes through, and
\* the write may have happened or not.
Stop(c) ==
    LET a == poster[c].ask
        pc == poster[c].pc
    IN  /\ pc # "none"
        /\ retiring' = IF pc = "waiting" THEN retiring \cup {a} ELSE retiring
        /\ futures' = IF a = None THEN futures ELSE [futures EXCEPT ![a] = None]
        /\ \/ rows' = rows
           \/ pc = "indexed" /\ rows' = [rows EXCEPT ![a] = "pending"]
           \/ pc = "resolving" /\ rows' = Settled(a, poster[c].answer)
        /\ graph' = [graph EXCEPT ![c].at = IF @ = "running" THEN "idle" ELSE @]
        /\ poster' = [poster EXCEPT ![c] = NoPost]
        /\ abandoned' = IF a = None THEN abandoned ELSE abandoned \cup {a}
        /\ UNCHANGED <<index, orphaned, entering, watcher, restarts, told, applied>>

\* The detached resolve(status="cancelled").
Retire(a) ==
    /\ a \in retiring
    /\ retiring' = retiring \ {a}
    /\ index' = index \ {a} /\ orphaned' = orphaned \ {a}
    /\ rows' = Settled(a, "cancelled")
    /\ UNCHANGED <<graph, poster, futures, entering, watcher, restarts, history>>

-----------------------------------------------------------------------------
(* The responders *)

\* Mutant of Response: an empty answer goes through as it is.
Response_Raw(text) == text

Response(text) == IF text = "" THEN "reject" ELSE text

\* Mutant of Waiting: a future that has its answer takes another one.
Waiting_Done(a) == futures[a] # None

Waiting(a) == futures[a] = "waiting"

\* DecisionService.respond_ask with a live waiter.
Respond(a, text) ==
    /\ Waiting(a)
    /\ futures' = [futures EXCEPT ![a] = Response(text)]
    /\ told' = told \cup {Decision(a, Response(text))}
    /\ UNCHANGED <<graph, poster, registry, retiring, entering, watcher, restarts,
                   applied, abandoned>>

\* What resume_interrupt finds: a task of the mirror.
Mirrored(b) == mirror[b] \notin {"unseen", "ignored"}

\* The owner this daemon can re-enter; an ask of the orchestrator has none.
Owned(a) ==
    \/ a.owner \in Chats
    \/ a.owner \in Background /\ Mirrored(a.owner)

\* Without one: AskResumeService.resume, for an orphan with an owner.  All other
\* answers are refused at once.
RespondLate(a, text) ==
    /\ ~Waiting(a) /\ a \in index \cap orphaned /\ Owned(a)
    /\ Cardinality(entering) < MaxLate
    /\ entering' = entering \cup {Decision(a, Response(text))}
    /\ UNCHANGED <<graph, poster, registry, futures, retiring, watcher, restarts, history>>

\* start_turn refuses a second turn.
Busy(g) == g \in Chats /\ ~Posting(g, "none")

\* The owner is re-entered and the ask resolved.  A conversation goes through
\* run_turn, which repairs the history before it hands over the decision: the
\* interrupt is gone by then, and the decision with it.
Reenter(r) ==
    LET g == r.ask.owner IN
    /\ r \in entering /\ ~Busy(g)
    /\ entering' = entering \ {r}
    /\ graph' = [graph EXCEPT ![g].at = "running"]
    /\ IF g \in Chats
       THEN /\ poster' = [poster EXCEPT ![g] = Driving]
            /\ UNCHANGED <<mirror, applied>>
       ELSE /\ mirror' = [mirror EXCEPT ![g] = "running"]
            /\ applied' = applied \cup {r}
            /\ UNCHANGED poster
    /\ index' = index \ {r.ask} /\ orphaned' = orphaned \ {r.ask}
    /\ rows' = Settled(r.ask, r.answer)
    /\ told' = told \cup {r}
    /\ UNCHANGED <<futures, retiring, round, restarts, abandoned>>

Refuse(r) ==
    /\ r \in entering /\ Busy(r.ask.owner)
    /\ entering' = entering \ {r}
    /\ UNCHANGED <<graph, poster, registry, futures, retiring, watcher, restarts, history>>

-----------------------------------------------------------------------------
(* AsyncTaskHealthWatcher *)

Tracked(status) == status \in {"running", "awaiting_user"}

\* The status of the latest run: a run that ends at an interrupt was a success.
InFlight(b) == graph[b].at = "running"

\* Mutant of Discover: only what is new is polled.
Discover_NewOnly ==
    /\ ~Watching /\ round = {}
    /\ mirror' = [b \in Background |->
                    IF mirror[b] = "unseen" /\ graph[b].at # "idle"
                    THEN IF InFlight(b) THEN "running" ELSE "ignored"
                    ELSE mirror[b]]
    /\ round' = {b \in Background : Tracked(mirror'[b]) /\ ~Tracked(mirror[b])}
    /\ UNCHANGED <<graph, poster, registry, futures, retiring, entering, restarts, history>>

\* A cycle begins: every new thread is known from now on, and mirrored if its
\* latest run is in flight; then the tasks that are not terminal are listed.
Discover ==
    /\ ~Watching /\ round = {}
    /\ mirror' = [b \in Background |->
                    IF mirror[b] = "unseen" /\ graph[b].at # "idle"
                    THEN IF InFlight(b) THEN "running" ELSE "ignored"
                    ELSE mirror[b]]
    /\ round' = {b \in Background : Tracked(mirror'[b])}
    /\ UNCHANGED <<graph, poster, registry, futures, retiring, entering, restarts, history>>

\* _poll_known_tasks for one task.
Poll(b) ==
    /\ b \in round /\ ~Watching
    /\ round' = round \ {b}
    /\ \/ /\ InFlight(b)
          /\ mirror' = [mirror EXCEPT ![b] = "running"]
          /\ UNCHANGED <<poster, index>>
       \/ /\ graph[b].at = "parked"
          /\ mirror' = [mirror EXCEPT ![b] = "awaiting_user"]
          /\ Index(b)
       \/ /\ graph[b].at = "ended"
          /\ mirror' = [mirror EXCEPT ![b] = "success"]
          /\ UNCHANGED <<poster, index>>
    /\ UNCHANGED <<graph, rows, orphaned, futures, retiring, entering, restarts, history>>

\* _enforce_timeout: the latest run is cancelled if it is in flight.
Timeout(b) ==
    /\ b \in round /\ ~Watching
    /\ round' = round \ {b}
    /\ mirror' = [mirror EXCEPT ![b] = "timeout"]
    /\ graph' = [graph EXCEPT ![b].at = IF @ = "running" THEN "ended" ELSE @]
    /\ UNCHANGED <<poster, registry, futures, retiring, entering, restarts, history>>

-----------------------------------------------------------------------------
\* The daemon dies and boots: AskRegistry.hydrate reads what is pending before
\* anything else runs.
Restart ==
    /\ restarts < MaxRestarts
    /\ restarts' = restarts + 1
    /\ poster' = [g \in Agents |-> NoPost]
    /\ graph' = [g \in Agents |->
                    IF g \in Chats /\ graph[g].at = "running"
                    THEN [graph[g] EXCEPT !.at = "idle"] ELSE graph[g]]
    /\ index' = {a \in Asks : rows[a] = "pending"}
    /\ orphaned' = {a \in Asks : rows[a] = "pending"}
    /\ futures' = [a \in Asks |-> None]
    /\ retiring' = {} /\ entering' = {}
    /\ mirror' = [b \in Background |-> "unseen"]
    /\ round' = {}
    /\ abandoned' = abandoned \cup {a \in Asks : \E g \in Agents : poster[g].ask = a}
    /\ UNCHANGED <<rows, told, applied>>

PostStep(g) ==
    AskUser(g) \/ Show(g) \/ Wake(g) \/ Resolve(g) \/ Reply(g) \/ ReplyFails(g)

AgentStep ==
    \/ \E c \in Chats : Converse(c) \/ Stop(c)
    \/ \E f \in Foreground : Execute(f)
    \/ \E b \in Background : Launch(b)
    \/ \E g \in Agents : Interrupt(g) \/ Ends(g)

RespondStep ==
    \E a \in Asks, text \in Answers \cup {""} : Respond(a, text) \/ RespondLate(a, text)

WatchStep == Discover \/ \E b \in Background : Poll(b) \/ Timeout(b)

Next ==
    \/ AgentStep
    \/ \E g \in Agents : PostStep(g)
    \/ \E a \in retiring : Retire(a)
    \/ RespondStep
    \/ \E r \in entering : Reenter(r) \/ Refuse(r)
    \/ WatchStep
    \/ Restart

Spec == Init /\ [][Next]_vars

\* The coroutines of the event loop go on: an ask's own, and the watcher's, which
\* polls one task after another.  Users, graphs and the host owe nothing.
Fairness ==
    /\ \A g \in Agents : WF_vars(PostStep(g))
    /\ WF_vars(Discover)
    /\ \A b \in Background : WF_vars(Poll(b))

FairSpec == Spec /\ Fairness

-----------------------------------------------------------------------------
(* Properties *)

Pcs == {"none", "driving", "indexed", "waiting", "resolving", "replying"}

\* Every variable keeps its type; a decision is one of the answers.
TypeOK ==
    /\ graph \in [Agents -> [at : {"idle", "running", "parked", "ended"},
                             n : 0..MaxInterrupts]]
    /\ poster \in [Agents -> [pc : Pcs, ask : Asks \cup {None}, answer : Answers \cup {None}]]
    /\ rows \in [Asks -> {"none", "pending", "cancelled"} \cup Answers]
    /\ index \subseteq Asks /\ orphaned \subseteq index
    /\ futures \in [Asks -> {None, "waiting"} \cup Answers]
    /\ retiring \subseteq Asks
    /\ entering \subseteq [ask : Asks, answer : Answers]
    /\ mirror \in [Background -> {"unseen", "ignored", "running", "awaiting_user",
                                  "success", "error", "timeout"}]
    /\ round \subseteq Background
    /\ restarts \in 0..MaxRestarts
    /\ told \subseteq [ask : Asks, answer : Answers]
    /\ applied \subseteq [ask : Asks, answer : Answers]
    /\ abandoned \subseteq Asks

\* First answer wins: what a graph was resumed with is what the row says and what
\* the only responder that was told ok had answered.
DecisionOnRecord ==
    \A r \in applied :
        /\ rows[r.ask] = r.answer
        /\ \A s \in told : s.ask = r.ask => s = r

\* Durable first: an ask somebody can answer live is listed by GET /asks, is
\* pending in the store - so a crash keeps it - and is nobody's orphan.
LiveIsListed ==
    \A a \in Asks : futures[a] # None =>
        /\ a \in index \ orphaned
        /\ rows[a] = "pending"
        /\ poster[a.owner].ask = a /\ Posting(a.owner, "waiting")

\* The first answer, or the cancellation, stands: late and repeated answers and
\* restarts never change the row of a resolved ask.
ResolvedIsFinal ==
    [][\A a \in Asks : rows[a] \notin {"none", "pending"} => rows'[a] = rows[a]]_vars

\* An agent waits for the ask, which is on record.
Waited(a) == rows[a] # "none" /\ poster[a.owner].ask = a

\* The router, the registry and the responders do what Question says: an ask is
\* settled once, the agent goes on with the one answer that was accepted while it
\* waited, and an interrupt that is asked about again is decided once.
Promised ==
    INSTANCE Question WITH
        Ask <- Asks, Answer <- Answers,
        Subject <- [a \in Asks |-> <<a.owner, a.about>>],
        status <- rows, waited <- {a \in Asks : Waited(a)},
        heard <- told, applied <- applied
Refines == Promised!Spec

\* An answer that was accepted reaches the agent, unless its turn is stopped, its
\* run cannot be created or the daemon dies.
AnswerArrives ==
    \A a \in Asks :
        futures[a] \in Answers ~> a \in abandoned \/ \E r \in applied : r.ask = a

\* A finished subagent is reported; only a prompt nobody answers holds the
\* watcher.
Reported ==
    \A b \in Background :
        Tracked(mirror[b]) /\ graph[b].at = "ended" ~>
            ~Tracked(mirror[b]) \/ \E w \in Background : Posting(w, "waiting")
=============================================================================
