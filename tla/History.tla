-------------------------------- MODULE History --------------------------------
(***************************************************************************)
(* The message history of one conversation: what a turn sends to the       *)
(* model, what an interruption leaves behind and how it is repaired        *)
(* (conversation/repair, conversation/service), the graph loop with its    *)
(* interrupts (core/streaming), the compaction of old turns                *)
(* (context/compaction), their verbatim record (context/transcript_policy) *)
(* and the sweep of stale checkpoints (storage/sweeper).                   *)
(*                                                                         *)
(* A history is a set of messages ordered by `at', the step that wrote     *)
(* them; the results of one step of the tools share it.  The model, the    *)
(* tools and the graph are outside the repository.  A summary is recorded  *)
(* too, but nothing is said of that; offloaded results are left out.       *)
(***************************************************************************)
EXTENDS Integers, FiniteSets

CONSTANTS
    Slots,          \* the tool calls an answer may make
    Keep,           \* ContextSettings.keep_messages
    Pin,            \* ContextSettings.pin_first_messages
    StubKeep,       \* compaction._STUB_KEEP_RECENT
    RecursionLimit, \* calls of the model in one drive of the graph
    MaxTurns,       \* bound: the turns started
    MaxFaults       \* bound: the writes refused and the deaths of the daemon

ASSUME SlotsAssumption == Slots \subseteq Nat \ {0} /\ IsFiniteSet(Slots)
ASSUME SettingsAssumption ==
    /\ Keep \in Nat /\ Pin \in Nat /\ StubKeep \in Nat
    /\ RecursionLimit \in Nat /\ MaxTurns \in Nat /\ MaxFaults \in Nat

\* A tool call: the step of the answer that made it, and its place in it.
NoCall == <<0, 0>>
CallIds == (Nat \ {0}) \X Slots

Spoken == {"human", "ai", "tool"}
Message == [at : Nat \ {0}, kind : Spoken \cup {"summary", "system"},
            of : CallIds \cup {NoCall}, calls : SUBSET Slots,
            body : {"text", "empty", "ok", "error", "fabricated"},
            stub : BOOLEAN,
            row : {"none", "full", "stub"},  \* its row of the transcript
            clean : BOOLEAN]    \* a user message whose history was fit for it

VARIABLES
    hist,       \* the messages of the checkpoint
    next,       \* the next step
    parked,     \* the calls whose interrupts the checkpoint waits for
    pc,         \* where run_turn is
    answer,     \* run_turn has a resume_value
    clean,      \* the history was read, and repaired if it had to be
    said,       \* the drive produced assistant text
    retried,    \* the drive is the retry of _recover_empty_turn
    steps,      \* calls of the model in this drive
    ask,        \* the ask of the parked calls: none, live, or of a dead process
    summaries,  \* thread_summaries has a row
    refusing,   \* the transcript refused the last write
    shown,      \* history: the model has seen, or written, what is before this step
    turns, faults,
    lost        \* history: shown messages compaction took or stubbed that have no row

counters == <<turns, faults>>
history == <<shown, lost>>
drive == <<said, retried, steps>>
locals == <<answer, clean, said, retried, steps>>
vars == <<hist, next, parked, pc, answer, clean, said, retried, steps, ask,
          summaries, refusing, turns, faults, shown, lost>>

Init ==
    /\ hist = {} /\ next = 1 /\ parked = {}
    /\ pc = "idle" /\ answer = FALSE /\ clean = TRUE
    /\ said = FALSE /\ retried = FALSE /\ steps = 0
    /\ ask = "none" /\ summaries = FALSE /\ refusing = FALSE
    /\ turns = 0 /\ faults = 0 /\ shown = 1 /\ lost = {}

-----------------------------------------------------------------------------
(* Reading a history *)

Says(at, kind, body) ==
    [at |-> at, kind |-> kind, of |-> NoCall, calls |-> {}, body |-> body,
     stub |-> FALSE, row |-> "none", clean |-> TRUE]
Result(at, c, body) == [Says(at, "tool", body) EXCEPT !.of = c]

Last(h) == CHOOSE m \in h : \A x \in h : x.at <= m.at
CallsOf(m) == {<<m.at, s>> : s \in m.calls}
Asked(h) == UNION {CallsOf(m) : m \in h}
Answered(h) == {m.of : m \in {x \in h : x.kind = "tool"}}

\* diagnose
Cancelled(h) == {m \in h : m.kind = "tool" /\ m.body = "fabricated"}
Dangling(h) == Asked(h) \ Answered(h)
EmptyAssistant(h) == {m \in h : m.kind = "ai" /\ m.calls = {} /\ m.body = "empty"}
Unclosed_AsItIs(h) == h # {} /\ (Last(h).kind = "tool" \/ Last(h).calls # {})
Unclosed(h) ==
    LET tail == h \ EmptyAssistant(h)
    IN  tail # {} /\ (Last(tail).kind = "tool" \/ Last(tail).calls # {})
NeedsRepair(h, close) ==
    Cancelled(h) # {} \/ Dangling(h) # {} \/ EmptyAssistant(h) # {} \/ (close /\ Unclosed(h))

\* rewrite, and what the reducer makes of it.
Rewrite_Appends(h, close, at) ==
    (h \ EmptyAssistant(h))
    \cup {Result(at, c, "error") : c \in Dangling(h) \cup {m.of : m \in Cancelled(h)}}
    \cup (IF close /\ Unclosed(h) THEN {Says(at + 1, "ai", "text")} ELSE {})
Rewrite(h, close, at) ==
    {IF m \in Cancelled(h) THEN [m EXCEPT !.body = "error"] ELSE m : m \in h \ EmptyAssistant(h)}
    \cup {Result(at, c, "error") : c \in Dangling(h)}
    \cup (IF close /\ Unclosed(h) THEN {Says(at + 1, "ai", "text")} ELSE {})

-----------------------------------------------------------------------------
(* A turn *)

\* The user says something; a live ask has been retired by the turn's end.
Send ==
    /\ pc = "idle" /\ turns < MaxTurns
    /\ turns' = turns + 1
    /\ pc' = "repair"
    /\ UNCHANGED <<hist, next, parked, locals, ask, summaries, refusing, faults, history>>

\* ask_resume: the answer to an interrupt of a process that died.
Resume ==
    /\ pc = "idle" /\ ask = "orphan" /\ turns < MaxTurns
    /\ turns' = turns + 1 /\ ask' = "none"
    /\ pc' = "repair" /\ answer' = TRUE
    /\ UNCHANGED <<hist, next, parked, clean, drive, summaries, refusing, faults, history>>

\* The checkpoint is rewritten; calls that now have a result wait no longer.
Repaired(close) ==
    /\ NeedsRepair(hist, close)
    /\ hist' = Rewrite(hist, close, next) /\ next' = next + 2
    /\ parked' = parked \ Answered(hist')
    /\ clean' = TRUE /\ UNCHANGED faults

\* Read or write of the checkpoint fails: the turn proceeds all the same.
Unrepaired ==
    /\ faults < MaxFaults /\ faults' = faults + 1
    /\ clean' = FALSE /\ UNCHANGED <<hist, next, parked>>

Sound(close) ==
    /\ ~NeedsRepair(hist, close)
    /\ clean' = TRUE /\ UNCHANGED <<hist, next, parked, faults>>

RepairBeforeTurn ==
    /\ pc = "repair" /\ pc' = "enter"
    /\ Repaired(~answer) \/ Unrepaired \/ Sound(~answer)
    /\ UNCHANGED <<answer, drive, ask, summaries, refusing, turns, history>>

\* What the graph makes of a message that comes in while calls are open.
Fabricated(h, at) == {Result(at, c, "fabricated") : c \in Dangling(h)}

\* abefore_agent: the stored summary, for a history without a past.
Injected(h, at) ==
    IF Cardinality(h) <= 1 /\ summaries THEN h \cup {Says(at, "system", "text")} ELSE h

Posted(body, isClean) ==
    LET said0 == [Says(next + 1, "human", body) EXCEPT !.clean = isClean]
    IN  hist' = Injected(hist \cup Fabricated(hist, next) \cup {said0}, next + 2)

EnterMessage ==
    /\ pc = "enter" /\ ~answer
    /\ Posted("text", clean) /\ next' = next + 3 /\ parked' = {}
    /\ pc' = "before"
    /\ UNCHANGED <<answer, clean, drive, ask, summaries, refusing, counters, history>>

\* Command(resume): the graph goes on where its checkpoint says.
EnterAnswer ==
    /\ pc = "enter" /\ answer
    /\ pc' = IF Dangling(hist) # {} THEN "tools"
             ELSE IF Unclosed(hist) THEN "before" ELSE "after"
    /\ parked' = {}
    /\ UNCHANGED <<hist, next, answer, clean, drive, ask, summaries, refusing,
                   counters, history>>

-----------------------------------------------------------------------------
(* The graph: compaction, the record, the model, the tools *)

Goto(l) ==
    /\ pc' = l
    /\ UNCHANGED <<parked, answer, clean, ask, turns>>

\* The new messages of a history; a row that exists is left alone.
Unrecorded_Last(h) ==
    {m \in h : m.kind \in Spoken /\ m.row = "none" /\ \A x \in h : x.at <= m.at}
Unrecorded(h) == {m \in h : m.kind \in Spoken /\ m.row = "none"}
Recorded(h) ==
    LET new == Unrecorded(h)
    IN  {IF m \in new THEN [m EXCEPT !.row = IF m.stub THEN "stub" ELSE "full"] ELSE m : m \in h}
Record(h) ==
    \/ hist' = Recorded(h) /\ refusing' = FALSE /\ UNCHANGED faults
    \/ /\ Unrecorded(h) # {} /\ faults < MaxFaults /\ faults' = faults + 1
       /\ hist' = h /\ refusing' = TRUE

\* Leading user and system messages stay as they are.
Pinned(h) ==
    {m \in h : /\ Cardinality({x \in h : x.at < m.at}) < Pin
               /\ \A x \in h : x.at <= m.at => x.kind \in {"human", "summary", "system"}}
Rest(h) == h \ Pinned(h)

\* _find_safe_cutoff: an answer is never separated from its results.
Safe(rest, p) ==
    LET kept == {m \in rest : m.at >= p}
    IN  /\ Cardinality(kept) >= Keep
        /\ \A m \in kept : m.kind = "tool" => \E x \in kept : m.of \in CallsOf(x)
Evicted(h) ==
    LET rest == Rest(h)
        cuts == {p \in {m.at : m \in rest} : Safe(rest, p)}
    IN  {m \in rest : \E p \in cuts : m.at < p}

\* _stub_bulky_args: every call carries a bulky argument.
Old(h) == {m \in h : m.calls # {} /\ Cardinality({x \in h : x.at >= m.at}) > StubKeep}
Stubbed(h) ==
    LET old == Old(h) IN {IF m \in old THEN [m EXCEPT !.stub = TRUE] ELSE m : m \in h}

\* The summary stands where the last message it covers stood.
Compacted(h, evicted) ==
    Pinned(h) \cup {Says(Last(evicted).at, "summary", "text")} \cup Stubbed(Rest(h) \ evicted)

\* The summary is stored, or the store refuses it, before the state is rewritten.
PersistSummary ==
    /\ pc = "before" /\ steps < RecursionLimit /\ Evicted(hist) # {}
    /\ \/ summaries' = TRUE /\ UNCHANGED faults
       \/ faults < MaxFaults /\ faults' = faults + 1 /\ UNCHANGED summaries
    /\ Goto("rewrite")
    /\ UNCHANGED <<hist, next, drive, refusing, history>>

Compact ==
    LET evicted == Evicted(hist)
    IN  /\ pc = "rewrite"
        /\ hist' = Compacted(hist, evicted)
        /\ lost' = IF refusing THEN lost
                   ELSE lost \cup {m \in evicted \cup Old(Rest(hist) \ evicted) :
                                       m.kind \in Spoken /\ m.row = "none" /\ m.at < shown}
        /\ Goto("record")
        /\ UNCHANGED <<next, drive, summaries, refusing, faults, shown>>

\* Below the trigger, or nothing to summarise.
NoCompaction_NoLimit ==
    /\ pc = "before"
    /\ Goto("record")
    /\ UNCHANGED <<hist, next, drive, summaries, refusing, faults, history>>
NoCompaction ==
    /\ pc = "before" /\ steps < RecursionLimit
    /\ Goto("record")
    /\ UNCHANGED <<hist, next, drive, summaries, refusing, faults, history>>

BeforeModel ==
    /\ pc = "record"
    /\ Record(hist) /\ Goto("model")
    /\ UNCHANGED <<next, drive, summaries, history>>

AfterModel(m, speaks, l) ==
    /\ pc = "model"
    /\ Record(hist \cup {m}) /\ next' = next + 1
    /\ steps' = steps + 1 /\ shown' = next + 1
    /\ said' = (said \/ speaks) /\ Goto(l)
    /\ UNCHANGED <<retried, summaries, lost>>

Batches == {s \in SUBSET Slots \ {{}} : \A i \in s, j \in Slots : j < i => j \in s}

\* An answer that ends the drive, and one that calls tools, with or without a text.
ModelAnswers ==
    \E b \in {"text", "empty"} : AfterModel(Says(next, "ai", b), b = "text", "after")
ModelCalls ==
    \E s \in Batches, speaks \in BOOLEAN :
        AfterModel([Says(next, "ai", "text") EXCEPT !.calls = s], speaks, "tools")

\* The results of a step are written together, once every call has ended.
ToolsEnd ==
    /\ pc = "tools"
    /\ hist' = hist \cup {Result(next, c, "ok") : c \in Dangling(hist)}
    /\ next' = next + 1
    /\ Goto("before")
    /\ UNCHANGED <<drive, summaries, refusing, faults, history>>

\* Calls interrupt the graph, which ends the pass; each is asked about.
Interrupt ==
    /\ pc = "tools" /\ pc' = "asking" /\ ask' = "live"
    /\ \E c \in SUBSET Dangling(hist) \ {{}} : parked' = c
    /\ UNCHANGED <<hist, next, answer, clean, drive, summaries, refusing,
                   counters, history>>

\* Every pending interrupt has its decision: the graph is re-entered.
Decide ==
    /\ pc = "asking" /\ ask' = "none"
    /\ pc' = IF Dangling(hist) # {} THEN "tools" ELSE "after"
    /\ parked' = {}
    /\ UNCHANGED <<hist, next, answer, clean, drive, summaries, refusing,
                   counters, history>>

-----------------------------------------------------------------------------
(* How a turn ends *)

Ended ==
    /\ pc' = "idle"
    /\ answer' = FALSE /\ clean' = TRUE /\ said' = FALSE /\ retried' = FALSE /\ steps' = 0
    /\ UNCHANGED <<hist, next, parked, summaries, refusing, turns, history>>

Finish == pc = "after" /\ said /\ Ended /\ UNCHANGED <<ask, faults>>

\* _recover_empty_turn: repair what there is, then one more drive.
Recover ==
    /\ pc = "after" /\ ~said /\ ~retried /\ pc' = "retry"
    /\ Repaired(TRUE) \/ Unrepaired \/ Sound(TRUE)
    /\ UNCHANGED <<answer, drive, ask, summaries, refusing, turns, history>>

\* drive(None, None): a user message without a content, unless it is refused.
RetryPosts_Again ==
    /\ pc = "retry" /\ pc' = "before"
    /\ retried' = FALSE /\ steps' = 0
    /\ Posted("empty", clean) /\ next' = next + 3 /\ parked' = {}
    /\ UNCHANGED <<answer, clean, said, ask, summaries, refusing, counters, history>>
RetryPosts ==
    /\ pc = "retry" /\ pc' = "before"
    /\ retried' = TRUE /\ steps' = 0
    /\ Posted("empty", clean) /\ next' = next + 3 /\ parked' = {}
    /\ UNCHANGED <<answer, clean, said, ask, summaries, refusing, counters, history>>
RetryRefused == pc = "retry" /\ Ended /\ UNCHANGED <<ask, faults>>

GiveUp == pc = "after" /\ ~said /\ retried /\ Ended /\ UNCHANGED <<ask, faults>>

\* The provider fails, or the recursion limit is hit.
RunFails ==
    /\ \/ pc = "model" /\ faults < MaxFaults /\ faults' = faults + 1
       \/ pc = "before" /\ steps = RecursionLimit /\ UNCHANGED faults
    /\ Ended /\ UNCHANGED ask

\* The turn is cancelled wherever it is; its ask is retired, the checkpoint is not.
Stop ==
    /\ pc # "idle" /\ Ended /\ UNCHANGED faults
    /\ ask' = IF ask = "live" THEN "none" ELSE ask

\* The daemon dies; an ask is on record and outlives it.
Crash ==
    /\ pc # "idle" /\ faults < MaxFaults /\ faults' = faults + 1
    /\ Ended
    /\ ask' = IF ask = "live" THEN "orphan" ELSE ask

\* _sweep_checkpoints: an hour after the last write, whoever waits.
Sweep ==
    /\ pc \in {"idle", "asking"} /\ hist # {}
    /\ hist' = {} /\ parked' = {} /\ next' = 1 /\ shown' = 1
    /\ UNCHANGED <<pc, locals, ask, summaries, refusing, counters, lost>>

TurnStep ==
    \/ RepairBeforeTurn \/ EnterMessage \/ EnterAnswer
    \/ PersistSummary \/ Compact \/ NoCompaction \/ BeforeModel
    \/ ModelAnswers \/ ModelCalls \/ ToolsEnd \/ Interrupt
    \/ Finish \/ Recover \/ RetryPosts \/ RetryRefused \/ GiveUp \/ RunFails

Next == Send \/ Resume \/ TurnStep \/ Decide \/ Stop \/ Crash \/ Sweep

Spec == Init /\ [][Next]_vars

-----------------------------------------------------------------------------
(* Properties *)

\* The state has its type.
TypeOK ==
    /\ hist \subseteq Message /\ next \in Nat \ {0}
    /\ parked \subseteq CallIds
    /\ pc \in {"idle", "repair", "enter", "before", "rewrite", "record", "model",
              "tools", "asking", "after", "retry"}
    /\ answer \in BOOLEAN /\ clean \in BOOLEAN /\ said \in BOOLEAN /\ retried \in BOOLEAN
    /\ steps \in 0..RecursionLimit
    /\ ask \in {"none", "live", "orphan"}
    /\ summaries \in BOOLEAN /\ refusing \in BOOLEAN
    /\ turns \in 0..MaxTurns /\ faults \in 0..MaxFaults
    /\ shown \in 1..next /\ lost \subseteq Message

\* What is sent to the model has exactly one result for every tool call and no result
\* without its call, whatever was interrupted, repaired, compacted or swept before.
EveryCallAnswered ==
    pc = "model" =>
        /\ Asked(hist) = Answered(hist)
        /\ \A x, y \in hist : x.kind = "tool" /\ y.kind = "tool" /\ x.of = y.of => x = y

\* A user message never follows a tool result, an open call or an empty answer, but for
\* one that came in although its history could not be repaired.
UserFollowsModel ==
    \A m \in hist :
        LET before == {x \in hist : x.at < m.at}
        IN  m.kind = "human" /\ m.clean /\ before # {} =>
                /\ Last(before).kind # "tool" /\ Last(before).calls = {}
                /\ Last(before) \notin EmptyAssistant(hist)

\* "The summarized turns are still recorded verbatim": what the model has seen or said,
\* and compaction takes out of the history or stubs, has its row, unless the transcript
\* refused the last write.
Recoverable == lost = {}

\* What is left of a turn before it must end or ask the user.
Rank ==
    LET drives == IF retried THEN 0 ELSE 10 * RecursionLimit + 20
        left == 10 * (RecursionLimit - steps)
    IN  CASE pc = "idle" -> 0
          [] pc = "repair" -> drives + 10 * RecursionLimit + 9
          [] pc = "enter" -> drives + 10 * RecursionLimit + 8
          [] pc = "tools" -> drives + left + 7
          [] pc = "asking" -> drives + left + 6
          [] pc = "before" -> drives + left + 5
          [] pc = "rewrite" -> drives + left + 4
          [] pc = "record" -> drives + left + 3
          [] pc = "model" -> drives + left + 2
          [] pc = "after" -> drives + 2
          [] pc = "retry" -> drives + 1

\* No turn goes on for ever, nor is an empty one retried for ever: each of its steps
\* leaves less to do, until it has ended or waits for the user.
RunsOut == [][TurnStep => Rank' < Rank]_vars

\* What service.py says of a resume: "the graph simply continues from its checkpoint
\* with that decision", so the repair before it leaves the waiting calls as they are.
ResumeKeepsCall == [][pc = "repair" /\ answer /\ pc' = "enter" => parked' = parked]_vars
====
