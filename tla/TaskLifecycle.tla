----------------------------- MODULE TaskLifecycle -----------------------------
(***************************************************************************)
(* The life of a task, from its submission to its terminal row:            *)
(* submission (daemon/task_submission.py), triage and Tier-1 consent       *)
(* (daemon/triage_loop.py, consent.py, the decision service), the          *)
(* orchestrator's queue and loop (daemon/orchestrator_loop.py), the task   *)
(* registry (daemon/task_registry.py) and the resumption of interrupted    *)
(* tasks at boot.                                                          *)
(*                                                                         *)
(* One event loop runs all of it; a step is the code between two awaits    *)
(* that matter to another actor.  A write to the store and the return from *)
(* it are one step when nothing reads in between.  Writes do not fail.     *)
(***************************************************************************)
EXTENDS Integers, FiniteSets, SequencesExt

CONSTANTS
    Direct,       \* tasks submitted with mode=direct
    Submitted,    \* tasks submitted with mode=triage
    Organic,      \* tasks that an event source gives rise to
    MaxHandlers,  \* TriageLoop's max_concurrent
    Unwanted,     \* bound: the tasks somebody may ask to cancel
    None

Triaged == Submitted \cup Organic
Tasks == Direct \cup Triaged

ASSUME KindsAssumption ==
    /\ Direct \cap Triaged = {} /\ Submitted \cap Organic = {}
    /\ IsFiniteSet(Tasks)
ASSUME HandlersAssumption == MaxHandlers \in Nat \ {0}
ASSUME UnwantedAssumption == Unwanted \subseteq Tasks

VARIABLES
    row,         \* tasks.status
    proposal,    \* proposals.status of the task's proposal
    decisions,   \* the outcomes recorded in the decisions table
    rules,       \* consent_rules, newest first, for each topic
    submission,  \* how far the call that submits the task, or publishes the event, is
    handler,     \* TriageLoop._handle: its place, the future it awaits, its verdict
    reply,       \* a respond call between its compare-and-set and the future
    cancelling,  \* request_cancel calls between the read of the row and the flag
    flags,       \* TaskRegistry._cancel_requested
    queue,       \* the orchestrator's queue
    loop,        \* OrchestratorLoop: its place and the task in hand
    boot,        \* resume_interrupted_tasks: its place and the rows it listed
    barred       \* history: tasks whose cancellation was accepted before they started

store == <<row, proposal, decisions, rules>>
triage == <<handler, reply>>
cancels == <<cancelling, flags, barred>>
vars == <<row, proposal, decisions, rules, submission, handler, reply,
          cancelling, flags, queue, loop, boot, barred>>

Terminal == {"done", "failed", "cancelled"}
Approving == {"approve", "approve_remember", "modify"}
Declining == {"skip", "skip_remember"}
Answers == Approving \cup Declining

ASSUME NoneAssumption == None \notin Tasks \cup Answers

\* The outcomes that authorise a task, and those that refuse it.
Grants == Approving \cup {"user_submitted", "auto_approved"}
Refusals == {"skipped", "expired", "dropped", "logged", "skipped_by_rule"}

\* All events of one kind in the model share topic, directory and extension.
Topics == {"submitted", "organic"}
Topic(t) == IF t \in Submitted THEN "submitted" ELSE "organic"

NoHandler == [pc |-> "none", future |-> None, verdict |-> None]
IdleLoop == [pc |-> "idle", task |-> None, resume |-> FALSE]

Init ==
    /\ row = [t \in Tasks |-> "none"]
    /\ proposal = [t \in Tasks |-> "none"]
    /\ decisions = [t \in Tasks |-> {}]
    /\ rules = [k \in Topics |-> <<>>]
    /\ submission = [t \in Tasks |-> "idle"]
    /\ handler = [t \in Triaged |-> NoHandler]
    /\ reply = [t \in Triaged |-> None]
    /\ cancelling = {} /\ flags = {} /\ barred = {}
    /\ queue = <<>>
    /\ loop = IdleLoop
    /\ boot = [pc |-> "booting", listed |-> {}]

\* Mutant of Item: a resumed task is queued like a new one.
Item_Fresh(t, resume) == [task |-> t, resume |-> FALSE]

Item(t, resume) == [task |-> t, resume |-> resume]

Record(t, outcome) == decisions' = [decisions EXCEPT ![t] = @ \cup {outcome}]

-----------------------------------------------------------------------------
(* TaskSubmission *)

\* submit_direct: the approved proposal, then the decision, then the row, then
\* the queue.
ProposeDirect(t) ==
    /\ submission[t] = "idle"
    /\ proposal' = [proposal EXCEPT ![t] = "approved"]
    /\ submission' = [submission EXCEPT ![t] = "proposed"]
    /\ UNCHANGED <<row, decisions, rules, triage, cancels, queue, loop, boot>>

DecideDirect(t) ==
    /\ submission[t] = "proposed"
    /\ Record(t, "user_submitted")
    /\ submission' = [submission EXCEPT ![t] = "decided"]
    /\ UNCHANGED <<row, proposal, rules, triage, cancels, queue, loop, boot>>

\* registry.create.  A triage submission does nothing before it.
CreateRow(t) ==
    /\ submission[t] = IF t \in Direct THEN "decided" ELSE "idle"
    /\ t \notin Organic
    /\ row' = [row EXCEPT ![t] = "queued"]
    /\ submission' = [submission EXCEPT ![t] = "created"]
    /\ UNCHANGED <<proposal, decisions, rules, triage, cancels, queue, loop, boot>>

EnqueueDirect(t) ==
    /\ submission[t] = "created"
    /\ queue' = Append(queue, Item(t, FALSE))
    /\ submission' = [submission EXCEPT ![t] = "returned"]
    /\ UNCHANGED <<store, triage, cancels, loop, boot>>

\* EventBus.publish: the triage loop starts a handler, unless its queue is full.
Publish(t) ==
    /\ submission[t] = IF t \in Organic THEN "idle" ELSE "created"
    /\ submission' = [submission EXCEPT ![t] = "returned"]
    /\ \/ handler' = [handler EXCEPT ![t].pc = "waiting"]
       \/ handler' = handler
    /\ UNCHANGED <<store, reply, cancels, queue, loop, boot>>

-----------------------------------------------------------------------------
(* TriageLoop._handle *)

Working == {t \in Triaged : handler[t].pc \notin {"none", "waiting"}}

At(t, pc) == handler[t].pc = pc

Goto(t, pc, verdict) ==
    handler' = [handler EXCEPT ![t] = [pc |-> pc, future |-> None, verdict |-> verdict]]

Return(t) == handler' = [handler EXCEPT ![t] = NoHandler]

\* The handler gets the semaphore.
Take(t) ==
    /\ At(t, "waiting")
    /\ Cardinality(Working) < MaxHandlers
    /\ Goto(t, "judging", None)
    /\ UNCHANGED <<store, submission, reply, cancels, queue, loop, boot>>

\* ConsentEvaluator.evaluate and what follows from the newest rule.
Judge(t) ==
    LET found == rules[Topic(t)] IN
    /\ At(t, "judging")
    /\ \/ /\ found = <<>>
          /\ Goto(t, "classifying", None)
          /\ UNCHANGED <<proposal, decisions>>
       \/ /\ found # <<>> /\ Head(found) = "auto_skip"
          /\ Record(t, "skipped_by_rule")
          /\ Return(t)
          /\ UNCHANGED proposal
       \/ /\ found # <<>> /\ Head(found) = "auto_approve"
          /\ proposal' = [proposal EXCEPT ![t] = "approved"]
          /\ Goto(t, "authorising", "auto_approved")
          /\ UNCHANGED decisions
    /\ UNCHANGED <<row, rules, submission, reply, cancels, queue, loop, boot>>

\* TriageAgent.classify: drop (its failures too), log, or propose.
Classify(t) ==
    /\ At(t, "classifying")
    /\ \/ /\ \E outcome \in {"dropped", "logged"} : Record(t, outcome)
          /\ Return(t)
          /\ UNCHANGED proposal
       \/ /\ proposal' = [proposal EXCEPT ![t] = "pending"]
          /\ Goto(t, "proposing", None)
          /\ UNCHANGED decisions
    /\ UNCHANGED <<row, rules, submission, reply, cancels, queue, loop, boot>>

\* WebChannel.post_proposal up to its await: the future is in the map.
Post(t) ==
    /\ At(t, "proposing")
    /\ handler' = [handler EXCEPT ![t].pc = "asking", ![t].future = "waiting"]
    /\ UNCHANGED <<store, submission, reply, cancels, queue, loop, boot>>

\* Mutant of Target: the answer is written where the status belongs.
Target_Answer(answer) == answer

Target(answer) ==
    CASE answer \in {"approve", "approve_remember"} -> "approved"
      [] answer = "modify" -> "modified"
      [] answer \in Declining -> "skipped"

\* Mutant of Respond: the status is set without comparing it.
Respond_NoCompare(t, answer) ==
    /\ proposal[t] # "none" /\ reply[t] = None
    /\ proposal' = [proposal EXCEPT ![t] = Target(answer)]
    /\ reply' = [reply EXCEPT ![t] = answer]
    /\ UNCHANGED <<row, decisions, rules, submission, handler, cancels, queue, loop, boot>>

\* DecisionService.respond_proposal up to the compare-and-set.
Respond(t, answer) ==
    /\ proposal[t] = "pending" /\ reply[t] = None
    /\ proposal' = [proposal EXCEPT ![t] = Target(answer)]
    /\ reply' = [reply EXCEPT ![t] = answer]
    /\ UNCHANGED <<row, decisions, rules, submission, handler, cancels, queue, loop, boot>>

\* respond_proposal after it: set the future, if there is one and it is not done.
Deliver(t) ==
    /\ reply[t] # None
    /\ reply' = [reply EXCEPT ![t] = None]
    /\ handler' = IF handler[t].future = "waiting"
                  THEN [handler EXCEPT ![t].future = reply[t]]
                  ELSE handler
    /\ UNCHANGED <<store, submission, cancels, queue, loop, boot>>

\* wait_for returns the answer.
Answered(t) ==
    LET answer == handler[t].future IN
    /\ At(t, "asking") /\ answer \in Answers
    /\ Goto(t, CASE answer \in Declining -> "declining"
                 [] answer = "approve_remember" -> "remembering"
                 [] OTHER -> "authorising",
            answer)
    /\ UNCHANGED <<store, submission, reply, cancels, queue, loop, boot>>

\* Mutant of Expire: post_proposal waits without a timeout.
Expire_Never(t) == At(t, "asking") /\ FALSE /\ UNCHANGED vars

\* wait_for times out.  From Python 3.12 on, a timer that fires before the
\* handler ran again wins over an answer that is already in the future.
Expire(t) ==
    /\ At(t, "asking")
    /\ Goto(t, "declining", "expired")
    /\ UNCHANGED <<store, submission, reply, cancels, queue, loop, boot>>

\* _handle_user_decision for skip, skip_remember and expired.
Decline(t) ==
    LET verdict == handler[t].verdict IN
    /\ At(t, "declining")
    /\ Record(t, IF verdict = "expired" THEN "expired" ELSE "skipped")
    /\ IF verdict = "skip_remember" THEN Goto(t, "remembering", verdict) ELSE Return(t)
    /\ UNCHANGED <<row, proposal, rules, submission, reply, cancels, queue, loop, boot>>

\* _add_consent_rule_for.
Remember(t) ==
    LET approved == handler[t].verdict = "approve_remember"
        rule == IF approved THEN "auto_approve" ELSE "auto_skip"
    IN  /\ At(t, "remembering")
        /\ rules' = [rules EXCEPT ![Topic(t)] = <<rule>> \o @]
        /\ IF approved THEN Goto(t, "authorising", "approve_remember") ELSE Return(t)
        /\ UNCHANGED <<row, proposal, decisions, submission, reply, cancels, queue, loop, boot>>

\* The decision that authorises the task is recorded, then the task queued
\* (_handle_user_decision, _auto_approve_path).
Authorise(t) ==
    /\ At(t, "authorising")
    /\ Record(t, handler[t].verdict)
    /\ Goto(t, "enqueuing", handler[t].verdict)
    /\ UNCHANGED <<row, proposal, rules, submission, reply, cancels, queue, loop, boot>>

EnqueueTriaged(t) ==
    /\ At(t, "enqueuing")
    /\ queue' = Append(queue, Item(t, FALSE))
    /\ Return(t)
    /\ UNCHANGED <<store, submission, reply, cancels, loop, boot>>

\* A rule is revoked through the API, or an auto_approve rule expires.
RuleGone(k) ==
    /\ \E i \in DOMAIN rules[k] : rules' = [rules EXCEPT ![k] = RemoveAt(@, i)]
    /\ UNCHANGED <<row, proposal, decisions, submission, triage, cancels, queue, loop, boot>>

-----------------------------------------------------------------------------
(* TaskRegistry.request_cancel *)

\* The row is read and is not terminal.
ReadForCancel(t) ==
    /\ row[t] \in {"queued", "running"} /\ t \notin cancelling
    /\ cancelling' = cancelling \cup {t}
    /\ UNCHANGED <<store, submission, triage, flags, barred, queue, loop, boot>>

\* The flag is added and the caller told ok.
FlagCancel(t) ==
    /\ t \in cancelling
    /\ cancelling' = cancelling \ {t}
    /\ flags' = flags \cup {t}
    /\ barred' = IF row[t] = "queued" /\ ~(loop.task = t /\ loop.pc = "starting")
                 THEN barred \cup {t} ELSE barred
    /\ UNCHANGED <<store, submission, triage, queue, loop, boot>>

-----------------------------------------------------------------------------
(* OrchestratorLoop *)

InHand(t, pc) == loop.task = t /\ loop.pc = pc

Step(t, from, to) == InHand(t, from) /\ loop' = [loop EXCEPT !.pc = to]

\* The row is written, with mark_done and its kin the flag discarded, and the
\* loop goes on.
Mark(t, status, next) ==
    /\ row' = [row EXCEPT ![t] = status]
    /\ flags' = IF status \in Terminal THEN flags \ {t} ELSE flags
    /\ loop' = IF next = "idle" THEN IdleLoop ELSE [loop EXCEPT !.pc = next]
    /\ UNCHANGED <<proposal, decisions, rules, submission, triage, cancelling, barred,
                   queue, boot>>

Quiet == UNCHANGED <<store, submission, triage, cancels, queue, boot>>

\* run: an event-born task has no row yet.
Dequeue(t) ==
    /\ loop.pc = "idle" /\ queue # <<>> /\ Head(queue).task = t
    /\ queue' = Tail(queue)
    /\ loop' = [pc |-> IF t \in Organic /\ ~Head(queue).resume THEN "registering"
                       ELSE "arrived",
                task |-> t, resume |-> Head(queue).resume]
    /\ UNCHANGED <<store, submission, triage, cancels, boot>>

\* _register_task.
Register(t) == InHand(t, "registering") /\ Mark(t, "queued", "arrived")

\* _run_task, the first look at the flag.
Arrive(t) == Step(t, "arrived", IF t \in flags THEN "dropping" ELSE "admitting") /\ Quiet

\* Mutant of Admit: the flag is not looked at again after the deferral.
Admit_NoSecondLook(t) == Step(t, "admitting", "starting") /\ Quiet

\* AdmissionController.slot lets the task in, now or after a deferral of any
\* length; _run_task looks at the flag again.
Admit(t) == Step(t, "admitting", IF t \in flags THEN "dropping" ELSE "starting") /\ Quiet

Start(t) == InHand(t, "starting") /\ Mark(t, "running", "streaming")

\* Between two events of the stream a flag is seen.
SeeFlag(t) == t \in flags /\ Step(t, "streaming", "stopping") /\ Quiet

\* The graph interrupts: the loop waits in the stream for a Tier-2 answer.
AskUser(t) == Step(t, "streaming", "asking") /\ Quiet

AnswerUser(t) == Step(t, "asking", "streaming") /\ Quiet

\* The stream ends; the flag was looked at after its final event too.
StreamEnds(t) ==
    /\ t \notin flags
    /\ Step(t, "streaming", IF loop.resume THEN "finishing" ELSE "concluding")
    /\ Quiet

\* The disk is critical, or the run raises.
Raise(t) ==
    /\ \/ Step(t, "admitting", "failing")
       \/ Step(t, "streaming", "failing")
    /\ Quiet

\* _execute's tail: the decision of a proposal-born task, then mark_done.
Conclude(t) ==
    /\ Step(t, "concluding", "finishing")
    /\ Record(t, "orchestrator_done")
    /\ UNCHANGED <<row, proposal, rules, submission, triage, cancels, queue, boot>>

Finish(t) == InHand(t, "finishing") /\ Mark(t, "done", "idle")

\* Mutants of Fail: the row is left alone when the run raises; the loop is left
\* by the exception.
Fail_NoMark(t) == InHand(t, "failing") /\ loop' = IdleLoop /\ Quiet
Fail_LeavesLoop(t) ==
    /\ InHand(t, "failing")
    /\ row' = [row EXCEPT ![t] = "failed"]
    /\ loop' = [IdleLoop EXCEPT !.pc = "failing"]
    /\ UNCHANGED <<proposal, decisions, rules, submission, triage, cancels, queue, boot>>

Fail(t) == InHand(t, "failing") /\ Mark(t, "failed", "idle")

Drop(t) == InHand(t, "dropping") /\ Mark(t, "cancelled", "idle")

\* _execute, cancelled: mark_cancelled, then the decision.
Stop(t) ==
    InHand(t, "stopping") /\ Mark(t, "cancelled", IF loop.resume THEN "idle" ELSE "noting")

Note(t) ==
    /\ InHand(t, "noting")
    /\ Record(t, "orchestrator_cancelled")
    /\ loop' = IdleLoop
    /\ UNCHANGED <<row, proposal, rules, submission, triage, cancels, queue, boot>>

-----------------------------------------------------------------------------
(* Boot and restart *)

\* Mutant of Interrupted: queued rows are resumed as well.
Interrupted_Queued(t) == row[t] \in {"queued", "running"}

Interrupted(t) == row[t] = "running"

\* resume_interrupted_tasks reads the running rows.  The triage loop, the
\* orchestrator loop and the web server run already.
ListRows ==
    /\ boot.pc = "booting"
    /\ boot' = [pc |-> "listed", listed |-> {t \in Tasks : Interrupted(t)}]
    /\ UNCHANGED <<store, submission, triage, cancels, queue, loop>>

\* It queues them, with no proposal, to go on from their checkpoints.
Resume ==
    /\ boot.pc = "listed"
    /\ \E order \in SetToSeqs(boot.listed) :
            queue' = queue \o [i \in 1..Len(order) |-> Item(order[i], TRUE)]
    /\ boot' = [pc |-> "on", listed |-> {}]
    /\ UNCHANGED <<store, submission, triage, cancels, loop>>

\* The daemon dies or is reloaded; only the store survives.
Restart ==
    /\ submission' = [t \in Tasks |-> IF submission[t] = "idle" THEN "idle" ELSE "returned"]
    /\ handler' = [t \in Triaged |-> NoHandler]
    /\ reply' = [t \in Triaged |-> None]
    /\ cancelling' = {} /\ flags' = {}
    /\ queue' = <<>>
    /\ loop' = IdleLoop
    /\ boot' = [pc |-> "booting", listed |-> {}]
    /\ UNCHANGED <<store, barred>>

-----------------------------------------------------------------------------
SubmitStep ==
    \/ \E t \in Direct : ProposeDirect(t) \/ DecideDirect(t) \/ EnqueueDirect(t)
    \/ \E t \in Tasks : CreateRow(t)
    \/ \E t \in Triaged : Publish(t)

\* What the handler does by itself.
HandlerStep(t) ==
    \/ Take(t) \/ Judge(t) \/ Classify(t) \/ Post(t) \/ Answered(t) \/ Expire(t)
    \/ Decline(t) \/ Remember(t) \/ Authorise(t) \/ EnqueueTriaged(t)

UserStep ==
    \/ \E t \in Triaged : Deliver(t) \/ \E answer \in Answers : Respond(t, answer)
    \/ \E k \in Topics : RuleGone(k)
    \/ \E t \in Unwanted : ReadForCancel(t) \/ FlagCancel(t)
    \/ \E t \in Tasks : AnswerUser(t)

\* What the loop does by itself.
LoopStep(t) ==
    \/ Dequeue(t) \/ Register(t) \/ Arrive(t) \/ Admit(t) \/ Start(t) \/ SeeFlag(t)
    \/ AskUser(t) \/ StreamEnds(t) \/ Raise(t) \/ Conclude(t) \/ Finish(t)
    \/ Fail(t) \/ Drop(t) \/ Stop(t) \/ Note(t)

BootStep == ListRows \/ Resume

Next ==
    \/ SubmitStep
    \/ \E t \in Triaged : HandlerStep(t)
    \/ UserStep
    \/ \E t \in Tasks : LoopStep(t)
    \/ BootStep
    \/ Restart

Spec == Init /\ [][Next]_vars

\* Handlers and the loop are tasks of the event loop; the store and the model
\* answer, a proposal's timer fires, a deferral has a ceiling (defer_max_sec)
\* and a stream an end (recursion_limit).  Users owe nothing.
Fairness ==
    /\ \A t \in Triaged : WF_vars(HandlerStep(t))
    /\ \A t \in Tasks : WF_vars(LoopStep(t))

FairSpec == Spec /\ Fairness

-----------------------------------------------------------------------------
(* Properties *)

HandlerPcs == {"none", "waiting", "judging", "classifying", "proposing", "asking",
               "declining", "remembering", "authorising", "enqueuing"}
LoopPcs == {"idle", "registering", "arrived", "admitting", "dropping", "starting",
            "streaming", "asking", "stopping", "noting", "concluding", "finishing",
            "failing"}

\* Every variable keeps its type; the statuses are those of the tables.
TypeOK ==
    /\ row \in [Tasks -> {"none", "queued", "running"} \cup Terminal]
    /\ proposal \in [Tasks -> {"none", "pending", "approved", "modified", "skipped"}]
    /\ decisions \in [Tasks -> SUBSET (Grants \cup Refusals \cup
                            {"orchestrator_done", "orchestrator_cancelled"})]
    /\ rules \in [Topics -> Seq({"auto_approve", "auto_skip"})]
    /\ submission \in [Tasks -> {"idle", "proposed", "decided", "created", "returned"}]
    /\ handler \in [Triaged -> [pc : HandlerPcs,
                                future : {None, "waiting"} \cup Answers,
                                verdict : {None, "expired", "auto_approved"} \cup Answers]]
    /\ reply \in [Triaged -> {None} \cup Answers]
    /\ cancelling \subseteq Tasks /\ flags \subseteq Tasks /\ barred \subseteq Tasks
    /\ queue \in Seq([task : Tasks, resume : BOOLEAN])
    /\ loop \in [pc : LoopPcs, task : Tasks \cup {None}, resume : BOOLEAN]
    /\ boot \in [pc : {"booting", "listed", "on"}, listed : SUBSET Tasks]

Queued(t) == \E i \in DOMAIN queue : queue[i].task = t

\* The consent boundary ("nothing acts without a standing rule or an explicit
\* approval"): a running task has an approved or modified proposal and the
\* record of who granted it, and nobody - no user, timeout, rule or model -
\* is on record as having refused it.  Resumption included.
Cleared(t) ==
    /\ proposal[t] \in {"approved", "modified"}
    /\ decisions[t] \cap Grants # {}
    /\ decisions[t] \cap Refusals = {}

ConsentBoundary == \A t \in Tasks : row[t] = "running" => Cleared(t)

\* A row that says running is somebody's: the loop has the task in hand, or it
\* is queued to be resumed, or the boot has still to look.
RunningIsOwned ==
    \A t \in Tasks : row[t] = "running" =>
        \/ loop.task = t
        \/ Queued(t)
        \/ boot.pc = "booting"
        \/ boot.pc = "listed" /\ t \in boot.listed

\* A proposal is answered once: what the triage handler acted on is what the
\* proposals table says, whoever else answered meanwhile.
VerdictMatches ==
    \A t \in Triaged :
        /\ \A answer \in Approving : answer \in decisions[t] => proposal[t] = Target(answer)
        /\ "skipped" \in decisions[t] => proposal[t] = "skipped"

\* A task whose cancellation was accepted before it started never starts, not
\* after a deferral, an approval or a restart.
NeverStarts == \A t \in barred : row[t] \notin {"running", "done"}

\* The task is to be run again: the boot has listed it, its item is in the queue
\* or the loop has it in hand.
ItemAt(i, t, resume) == queue[i].task = t /\ queue[i].resume = resume
Repeats(t) == \E i \in DOMAIN queue : ItemAt(i, t, TRUE)
Resumed(t) == t \in boot.listed \/ Repeats(t) \/ (loop.task = t /\ loop.resume)

\* A task is granted or refused.
Ruling(t) ==
    {k \in {"grant", "refusal"} :
        decisions[t] \cap (IF k = "grant" THEN Grants ELSE Refusals) # {}}

\* Users, timeouts, rules, the loop and restarts together write what PaperTrail
\* allows: one answer, one ruling, no move of a row without a grant, and the end
\* of a task stands unless a boot had listed it.
Trail ==
    INSTANCE PaperTrail WITH
        Task <- Tasks, Ahead <- Submitted,
        ruled <- [t \in Tasks |-> Ruling(t)], status <- row,
        listed <- {t \in Tasks : Resumed(t)}
Refines == Trail!Spec

\* The queue is served: a failed, cancelled or deferred task never stops the
\* loop; only a Tier-2 prompt nobody answers holds it.
Served == \A t \in Tasks : Queued(t) ~> ~Queued(t) \/ loop.pc = "asking"

\* Every event is decided, with as few handlers as there may be: an unanswered
\* proposal does not hold its place for ever.
Decided == \A t \in Triaged : handler[t].pc # "none" ~> handler[t].pc = "none"
=============================================================================
