-------------------------- MODULE TaskLifecycleProofs --------------------------
(***************************************************************************)
(* Theorems about TaskLifecycle, for any sets of tasks and any number of   *)
(* handlers.                                                               *)
(***************************************************************************)
EXTENDS TaskLifecycle, SequenceTheorems, FiniteSetTheorems, TLAPS

-----------------------------------------------------------------------------
(* Types *)

HandlerType ==
    [pc : HandlerPcs, future : {None, "waiting"} \cup Answers,
     verdict : {None, "expired", "auto_approved"} \cup Answers]

LoopType == [pc : LoopPcs, task : Tasks \cup {None}, resume : BOOLEAN]

\* The outcomes on record.
Outcomes == Grants \cup Refusals \cup {"orchestrator_done", "orchestrator_cancelled"}

\* What the handler is about to record as a grant is one.
GrantInHand ==
    \A t \in Triaged : handler[t].pc = "authorising" => handler[t].verdict \in Grants

\* A handler that goes on to a place keeps its type.
LEMMA GotoType ==
    ASSUME NEW t \in Triaged, handler \in [Triaged -> HandlerType], NEW pc \in HandlerPcs,
           NEW verdict \in {None, "expired", "auto_approved"} \cup Answers, Goto(t, pc, verdict)
    PROVE  handler' \in [Triaged -> HandlerType]
BY DEF Goto, HandlerType

\* A handler that returns keeps its type.
LEMMA ReturnType ==
    ASSUME NEW t \in Triaged, handler \in [Triaged -> HandlerType], Return(t)
    PROVE  handler' \in [Triaged -> HandlerType]
<1>1. NoHandler \in HandlerType
  BY DEF NoHandler, HandlerType, HandlerPcs
<1> QED BY <1>1 DEF Return

\* Recording an outcome keeps the type of the record.
LEMMA RecordType ==
    ASSUME NEW t \in Tasks, decisions \in [Tasks -> SUBSET Outcomes],
           NEW outcome \in Outcomes, Record(t, outcome)
    PROVE  decisions' \in [Tasks -> SUBSET Outcomes]
BY DEF Record

\* A step of the loop within a task keeps the loop's type.
LEMMA StepType ==
    ASSUME NEW t \in Tasks, loop \in LoopType, NEW from, NEW to \in LoopPcs, Step(t, from, to)
    PROVE  loop' \in LoopType
BY DEF Step, LoopType

\* Writing the row keeps the types.
LEMMA MarkType ==
    ASSUME TypeOK, NEW t \in Tasks, NEW status \in {"queued", "running"} \cup Terminal,
           NEW next \in LoopPcs, Mark(t, status, next)
    PROVE  TypeOK'
<1>1. row' \in [Tasks -> {"none", "queued", "running"} \cup Terminal]
  BY DEF Mark, TypeOK
<1>2. flags' \subseteq Tasks
  BY DEF Mark, TypeOK
<1>3. loop' \in LoopType
  <2>1. IdleLoop \in LoopType
    BY DEF IdleLoop, LoopType, LoopPcs
  <2> QED BY <2>1 DEF Mark, TypeOK, LoopType
<1> HIDE DEF LoopType
<1> QED BY <1>1, <1>2, <1>3 DEF Mark, TypeOK, LoopType, triage

\* The initial state has its type.
LEMMA InitType == Init => TypeOK
  BY DEF Init, TypeOK, NoHandler, IdleLoop, HandlerPcs, LoopPcs, Terminal, Topics

\* The steps of a submission keep the types.
LEMMA SubmitType == TypeOK /\ SubmitStep => TypeOK'
<1> SUFFICES ASSUME TypeOK, SubmitStep PROVE TypeOK'
  OBVIOUS
<1> USE DEF TypeOK, store, triage, cancels
<1>1. ASSUME NEW t \in Direct, ProposeDirect(t) PROVE TypeOK'
  BY <1>1 DEF ProposeDirect
<1>2. ASSUME NEW t \in Direct, DecideDirect(t) PROVE TypeOK'
  BY <1>2 DEF DecideDirect, Record, Grants
<1>3. ASSUME NEW t \in Direct, EnqueueDirect(t) PROVE TypeOK'
  BY <1>3 DEF EnqueueDirect, Item, Tasks
<1>4. ASSUME NEW t \in Tasks, CreateRow(t) PROVE TypeOK'
  BY <1>4 DEF CreateRow
<1>5. ASSUME NEW t \in Triaged, Publish(t) PROVE TypeOK'
  <2>1. t \in Tasks /\ "waiting" \in HandlerPcs
    BY DEF HandlerPcs, Tasks
  <2>2. CASE handler' = [handler EXCEPT ![t].pc = "waiting"]
    <3>1. handler' \in [Triaged -> [pc : HandlerPcs,
                                    future : {None, "waiting"} \cup Answers,
                                    verdict : {None, "expired", "auto_approved"} \cup Answers]]
      <4> DEFINE h == handler[t]
      <4>1. [h EXCEPT !.pc = "waiting"] \in
                [pc : HandlerPcs, future : {None, "waiting"} \cup Answers,
                 verdict : {None, "expired", "auto_approved"} \cup Answers]
        <5>1. h \in [pc : HandlerPcs, future : {None, "waiting"} \cup Answers,
                     verdict : {None, "expired", "auto_approved"} \cup Answers]
          OBVIOUS
        <5> HIDE DEF h
        <5> QED BY <2>1, <5>1
      <4>2. handler' = [handler EXCEPT ![t] = [handler[t] EXCEPT !.pc = "waiting"]]
        BY <2>2
      <4> QED BY <4>1, <4>2
    <3> QED BY <1>5, <2>1, <3>1 DEF Publish
  <2>3. CASE handler' = handler
    BY <1>5, <2>1, <2>3 DEF Publish
  <2> QED BY <1>5, <2>2, <2>3 DEF Publish
<1> QED BY <1>1, <1>2, <1>3, <1>4, <1>5 DEF SubmitStep

\* The steps of a triage handler keep the types.
LEMMA HandlerStepType ==
    ASSUME TypeOK, GrantInHand, NEW t \in Triaged, HandlerStep(t)
    PROVE  TypeOK' /\ GrantInHand'
<1>1. handler \in [Triaged -> HandlerType] /\ decisions \in [Tasks -> SUBSET Outcomes]
  BY DEF TypeOK, HandlerType, Outcomes
<1>2. t \in Tasks
  BY DEF Tasks
<1>3. handler' \in [Triaged -> HandlerType]
  <2>1. handler[t] \in HandlerType
    BY <1>1
  <2>2. CASE Post(t)
    BY <2>1, <2>2, <1>1 DEF Post, HandlerType, HandlerPcs
  <2>3. CASE Take(t) \/ Expire(t) \/ EnqueueTriaged(t)
    BY <2>3, <1>1, GotoType, ReturnType DEF Take, Expire, EnqueueTriaged, HandlerPcs
  <2>4. CASE Judge(t) \/ Classify(t)
    BY <2>4, <1>1, GotoType, ReturnType DEF Judge, Classify, HandlerPcs
  <2>5. CASE Answered(t)
    BY <2>5, <2>1, <1>1, GotoType DEF Answered, HandlerPcs, HandlerType
  <2>6. CASE Decline(t)
    BY <2>6, <1>1, GotoType, ReturnType DEF Decline, HandlerPcs, Answers, Declining
  <2>7. CASE Remember(t)
    BY <2>7, <1>1, GotoType, ReturnType DEF Remember, HandlerPcs, Answers, Approving
  <2>8. CASE Authorise(t)
    <3>1. handler[t].verdict \in {None, "expired", "auto_approved"} \cup Answers
      BY <2>1 DEF HandlerType
    <3> QED BY <2>8, <3>1, <1>1, GotoType DEF Authorise, HandlerPcs
  <2> QED BY <2>2, <2>3, <2>4, <2>5, <2>6, <2>7, <2>8 DEF HandlerStep
<1>4. decisions' \in [Tasks -> SUBSET Outcomes]
  <2>1. CASE UNCHANGED decisions
    BY <2>1, <1>1
  <2>2. CASE \E outcome \in Outcomes : Record(t, outcome)
    BY <2>2, <1>1, <1>2, RecordType
  <2>3. CASE Judge(t)
    <3>1. "skipped_by_rule" \in Outcomes
      BY DEF Outcomes, Refusals
    <3> QED BY <2>3, <3>1, <2>1, <2>2 DEF Judge
  <2>4. CASE Classify(t)
    <3>1. {"dropped", "logged"} \subseteq Outcomes
      BY DEF Outcomes, Refusals
    <3> QED BY <2>4, <3>1, <2>1, <2>2 DEF Classify
  <2>5. CASE Decline(t)
    <3>1. "expired" \in Outcomes /\ "skipped" \in Outcomes
      BY DEF Outcomes, Refusals
    <3> QED BY <2>5, <3>1, <2>2 DEF Decline
  <2>6. CASE Authorise(t)
    <3>1. handler[t].verdict \in Outcomes
      BY <2>6 DEF GrantInHand, Authorise, At, Outcomes
    <3> QED BY <2>6, <3>1, <2>2 DEF Authorise
  <2> QED BY <2>1, <2>3, <2>4, <2>5, <2>6
    DEF HandlerStep, Take, Post, Answered, Expire, Remember, EnqueueTriaged, store
<1>5. rules' \in [Topics -> Seq({"auto_approve", "auto_skip"})]
  <2>1. CASE Remember(t)
    <3>1. Topic(t) \in Topics /\ rules[Topic(t)] \in Seq({"auto_approve", "auto_skip"})
      BY DEF Topic, Topics, TypeOK
    <3>2. \A rule \in {"auto_approve", "auto_skip"} :
            <<rule>> \o rules[Topic(t)] \in Seq({"auto_approve", "auto_skip"})
      BY <3>1
    <3> QED BY <2>1, <3>1, <3>2 DEF Remember, TypeOK
  <2>2. CASE UNCHANGED rules
    BY <2>2 DEF TypeOK
  <2> QED BY <2>1, <2>2
    DEF HandlerStep, Take, Judge, Classify, Post, Answered, Expire, Decline, Authorise,
        EnqueueTriaged, store
<1>6. proposal' \in [Tasks -> {"none", "pending", "approved", "modified", "skipped"}]
  BY <1>2 DEF TypeOK, HandlerStep, Take, Judge, Classify, Post, Answered, Expire, Decline,
        Remember, Authorise, EnqueueTriaged, store
<1>7. queue' \in Seq([task : Tasks, resume : BOOLEAN])
  <2>1. CASE UNCHANGED queue
    BY <2>1 DEF TypeOK
  <2>2. CASE EnqueueTriaged(t)
    <3>1. Item(t, FALSE) \in [task : Tasks, resume : BOOLEAN]
      BY <1>2 DEF Item
    <3> QED BY <2>2, <3>1, AppendProperties DEF EnqueueTriaged, TypeOK
  <2> QED BY <2>1, <2>2 DEF HandlerStep, Take, Judge, Classify, Post, Answered, Expire,
        Decline, Remember, Authorise
<1>8. UNCHANGED <<row, submission, reply, cancels, loop, boot>>
  BY DEF HandlerStep, Take, Judge, Classify, Post, Answered, Expire, Decline,
        Remember, Authorise, EnqueueTriaged, store
<1>9. TypeOK'
  BY <1>3, <1>4, <1>5, <1>6, <1>7, <1>8 DEF TypeOK, HandlerType, Outcomes, cancels
<1>10. \A u \in Triaged \ {t} : handler'[u] = handler[u]
  BY <1>1, <1>3 DEF HandlerStep, Take, Judge, Classify, Post, Answered, Expire, Decline,
        Remember, Authorise, EnqueueTriaged, Goto, Return
<1>11. handler'[t].pc = "authorising" => handler'[t].verdict \in Grants
  <2>1. \A pc, verdict : Goto(t, pc, verdict) =>
            handler'[t].pc = pc /\ handler'[t].verdict = verdict
    BY <1>1 DEF Goto
  <2>2. Return(t) => handler'[t].pc # "authorising"
    BY <1>1 DEF Return, NoHandler
  <2>3. CASE Answered(t)
    <3>1. handler[t].future \in Answers
      BY <2>3 DEF Answered
    <3>2. CASE handler[t].future \in Declining \/ handler[t].future = "approve_remember"
      BY <2>1, <2>3, <3>2 DEF Answered, Declining
    <3>3. CASE handler[t].future \notin Declining /\ handler[t].future # "approve_remember"
      <4>1. handler[t].future \in Grants
        BY <3>1, <3>3 DEF Answers, Grants
      <4> QED BY <2>1, <2>3, <3>3, <4>1 DEF Answered
    <3> QED BY <3>2, <3>3
  <2>4. CASE Post(t)
    BY <2>4, <1>1 DEF Post
  <2>5. CASE Judge(t)
    BY <2>5, <2>1, <2>2 DEF Judge, Grants
  <2>6. CASE Remember(t)
    BY <2>6, <2>1, <2>2 DEF Remember, Grants, Approving
  <2>7. CASE Take(t) \/ Classify(t)
    BY <2>7, <2>1, <2>2 DEF Take, Classify
  <2>8. CASE Expire(t)
    BY <2>8, <2>1 DEF Expire
  <2>10. CASE Authorise(t)
    BY <2>10, <2>1 DEF Authorise
  <2>11. CASE EnqueueTriaged(t)
    BY <2>11, <2>2 DEF EnqueueTriaged
  <2>9. CASE Decline(t)
    BY <2>9, <2>1, <2>2 DEF Decline
  <2> QED BY <2>3, <2>4, <2>5, <2>6, <2>7, <2>8, <2>9, <2>10, <2>11 DEF HandlerStep
<1> QED BY <1>9, <1>10, <1>11 DEF GrantInHand

\* The steps of users keep the types.
LEMMA UserStepType == TypeOK /\ UserStep => TypeOK'
<1> SUFFICES ASSUME TypeOK, UserStep PROVE TypeOK'
  OBVIOUS
<1> USE DEF TypeOK, store, triage, cancels
<1>1. ASSUME NEW t \in Triaged, Deliver(t) PROVE TypeOK'
  <2>1. CASE handler[t].future = "waiting"
    <3>1. handler' \in [Triaged -> [pc : HandlerPcs,
                                    future : {None, "waiting"} \cup Answers,
                                    verdict : {None, "expired", "auto_approved"} \cup Answers]]
      BY <1>1, <2>1 DEF Deliver
    <3> QED BY <1>1, <3>1 DEF Deliver
  <2>2. CASE handler[t].future # "waiting"
    BY <1>1, <2>2 DEF Deliver
  <2> QED BY <2>1, <2>2
<1>2. ASSUME NEW t \in Triaged, NEW answer \in Answers, Respond(t, answer) PROVE TypeOK'
  BY <1>2 DEF Respond, Target, Answers, Approving, Declining
<1>3. ASSUME NEW k \in Topics, RuleGone(k) PROVE TypeOK'
  BY <1>3 DEF RuleGone, RemoveAt
<1>4. ASSUME NEW t \in Unwanted, ReadForCancel(t) \/ FlagCancel(t) PROVE TypeOK'
  BY <1>4, UnwantedAssumption DEF ReadForCancel, FlagCancel
<1>5. ASSUME NEW t \in Tasks, AnswerUser(t) PROVE TypeOK'
  BY <1>5 DEF AnswerUser, Step, Quiet, LoopPcs
<1> QED BY <1>1, <1>2, <1>3, <1>4, <1>5 DEF UserStep

\* The steps of the orchestrator loop keep the types.
LEMMA LoopStepType == ASSUME TypeOK, NEW t \in Tasks, LoopStep(t) PROVE TypeOK'
<1>1. loop \in LoopType /\ decisions \in [Tasks -> SUBSET Outcomes]
  BY DEF TypeOK, LoopType, Outcomes
<1>2. ASSUME loop' \in LoopType, Quiet PROVE TypeOK'
  BY <1>2 DEF Quiet, TypeOK, LoopType, store, triage, cancels
<1>3. CASE Dequeue(t)
  <2>1. queue # <<>> /\ queue \in Seq([task : Tasks, resume : BOOLEAN])
    BY <1>3 DEF Dequeue, TypeOK
  <2>2. Head(queue) \in [task : Tasks, resume : BOOLEAN]
        /\ Tail(queue) \in Seq([task : Tasks, resume : BOOLEAN])
    BY <2>1, HeadTailProperties
  <2>3. loop' \in LoopType
    BY <1>3, <2>2 DEF Dequeue, LoopType, LoopPcs
  <2> QED BY <1>3, <2>2, <2>3 DEF Dequeue, TypeOK, LoopType, store, triage, cancels
<1>4. CASE Register(t) \/ Start(t) \/ Finish(t) \/ Fail(t) \/ Drop(t) \/ Stop(t)
  <2>1. {"queued", "running", "done", "failed", "cancelled"}
            \subseteq {"queued", "running"} \cup Terminal
        /\ {"arrived", "streaming", "idle", "noting"} \subseteq LoopPcs
    BY DEF Terminal, LoopPcs
  <2> QED BY <1>4, <2>1, MarkType DEF Register, Start, Finish, Fail, Drop, Stop
<1>5. CASE Arrive(t) \/ Admit(t) \/ SeeFlag(t) \/ AskUser(t) \/ StreamEnds(t) \/ Raise(t)
  <2>1. {"dropping", "admitting", "starting", "stopping", "asking", "finishing", "concluding",
         "failing"} \subseteq LoopPcs
    BY DEF LoopPcs
  <2>2. loop' \in LoopType
    BY <1>1, <1>5, <2>1, StepType DEF Arrive, Admit, SeeFlag, AskUser, StreamEnds, Raise
  <2> QED BY <1>2, <1>5, <2>2 DEF Arrive, Admit, SeeFlag, AskUser, StreamEnds, Raise
<1>6. CASE Conclude(t) \/ Note(t)
  <2>1. loop' \in LoopType
    <3>1. IdleLoop \in LoopType /\ "finishing" \in LoopPcs
      BY DEF IdleLoop, LoopType, LoopPcs
    <3> QED BY <1>1, <1>6, <3>1, StepType DEF Conclude, Note
  <2>2. {"orchestrator_done", "orchestrator_cancelled"} \subseteq Outcomes
    BY DEF Outcomes
  <2>3. decisions' \in [Tasks -> SUBSET Outcomes]
    BY <1>1, <1>6, <2>2, RecordType DEF Conclude, Note
  <2> QED BY <1>6, <2>1, <2>3 DEF Conclude, Note, TypeOK, LoopType, Outcomes, triage, cancels
<1> QED BY <1>3, <1>4, <1>5, <1>6 DEF LoopStep

\* An order of the listed rows is a sequence of them.
LEMMA OrderType ==
    ASSUME NEW S \in SUBSET Tasks, NEW order \in SetToSeqs(S)
    PROVE  Len(order) \in Nat /\ \A i \in 1..Len(order) : order[i] \in S
<1>1. Cardinality(S) \in Nat
  BY KindsAssumption, FS_Subset, FS_CardinalityType
<1>2. order \in [1..Cardinality(S) -> S]
  BY DEF SetToSeqs
<1>3. order \in Seq(S) /\ Len(order) = Cardinality(S)
  BY <1>1, <1>2
<1> QED BY <1>2, <1>3

\* Boot and restart keep the types.
LEMMA BootType == TypeOK /\ (BootStep \/ Restart) => TypeOK'
<1> SUFFICES ASSUME TypeOK, BootStep \/ Restart PROVE TypeOK'
  OBVIOUS
<1> USE DEF TypeOK, store, triage, cancels
<1>1. CASE ListRows
  BY <1>1 DEF ListRows
<1>2. CASE Resume
  <2>1. PICK order \in SetToSeqs(boot.listed) :
            queue' = queue \o [i \in 1..Len(order) |-> Item(order[i], TRUE)]
    BY <1>2 DEF Resume
  <2> DEFINE items == [i \in 1..Len(order) |-> Item(order[i], TRUE)]
  <2>2. Len(order) \in Nat /\ \A i \in 1..Len(order) : order[i] \in Tasks
    BY OrderType
  <2>3. items \in Seq([task : Tasks, resume : BOOLEAN])
    BY <2>2 DEF Item
  <2>4. queue' \in Seq([task : Tasks, resume : BOOLEAN])
    <3> HIDE DEF items
    <3> QED BY <2>1, <2>3, ConcatProperties DEF items
  <2> QED BY <1>2, <2>4 DEF Resume
<1>3. CASE Restart
  BY <1>3 DEF Restart, NoHandler, IdleLoop, HandlerPcs, LoopPcs
<1> QED BY <1>1, <1>2, <1>3 DEF BootStep

\* The steps that are no handler's leave the grant in hand alone.
LEMMA OthersGrant ==
    ASSUME TypeOK, GrantInHand,
           SubmitStep \/ UserStep \/ (\E t \in Tasks : LoopStep(t)) \/ BootStep \/ Restart
    PROVE  GrantInHand'
<1>1. CASE UNCHANGED handler
  BY <1>1 DEF GrantInHand
<1>2. CASE SubmitStep
  <2>1. ASSUME NEW t \in Triaged, Publish(t) PROVE GrantInHand'
    BY <2>1 DEF Publish, GrantInHand, TypeOK
  <2> QED BY <1>1, <1>2, <2>1 DEF SubmitStep, ProposeDirect, DecideDirect, EnqueueDirect,
        CreateRow, triage
<1>3. CASE UserStep
  <2>1. ASSUME NEW t \in Triaged, Deliver(t) PROVE GrantInHand'
    BY <2>1 DEF Deliver, GrantInHand, TypeOK
  <2> QED BY <1>1, <1>3, <2>1 DEF UserStep, Respond, RuleGone, ReadForCancel, FlagCancel,
        AnswerUser, Quiet, triage
<1>4. CASE \E t \in Tasks : LoopStep(t)
  BY <1>1, <1>4 DEF LoopStep, Dequeue, Register, Arrive, Admit, Start, SeeFlag, AskUser,
        StreamEnds, Raise, Conclude, Finish, Fail, Drop, Stop, Note, Mark, Quiet, triage
<1>5. CASE BootStep
  BY <1>1, <1>5 DEF BootStep, ListRows, Resume, triage
<1>6. CASE Restart
  BY <1>6 DEF Restart, GrantInHand, NoHandler
<1> QED BY <1>2, <1>3, <1>4, <1>5, <1>6

\* Every reachable state has its type, whatever the tasks and handlers.
THEOREM TypeCorrect == Spec => []TypeOK
<1>1. Init => TypeOK /\ GrantInHand
  BY InitType DEF Init, GrantInHand, NoHandler
<1>2. TypeOK /\ GrantInHand /\ [Next]_vars => TypeOK' /\ GrantInHand'
  <2>1. TypeOK /\ GrantInHand /\ UNCHANGED vars => TypeOK' /\ GrantInHand'
    BY DEF TypeOK, GrantInHand, vars
  <2> QED BY <2>1, SubmitType, HandlerStepType, UserStepType, LoopStepType, BootType,
        OthersGrant DEF Next
<1> QED BY <1>1, <1>2, PTL DEF Spec

-----------------------------------------------------------------------------
(* The consent boundary *)

\* Everything that runs t, will run it, or ran it when the rows were listed.
Pledged(t) ==
    \/ row[t] = "running"
    \/ Queued(t)
    \/ loop.task = t
    \/ t \in boot.listed
    \/ t \in Triaged /\ handler[t].pc = "enqueuing"
    \/ t \in Direct /\ submission[t] \in {"decided", "created"}

Blank(t) == proposal[t] = "none" /\ decisions[t] = {}
Granted(t) == proposal[t] \in {"approved", "modified"}

\* What is pledged is cleared, and a submission is on no record before its call
\* wrote one.
Stage(t) ==
    /\ Pledged(t) => Cleared(t)
    /\ submission[t] = "idle" \/ (t \in Triaged /\ submission[t] # "returned") => Blank(t)
    /\ t \in Direct /\ submission[t] = "proposed" => Granted(t) /\ decisions[t] = {}

\* What the place of its handler tells of a task's proposal and record.
TriageStage(t) ==
    /\ handler[t].pc # "none" => submission[t] = "returned"
    /\ handler[t].pc \in {"waiting", "judging", "classifying"} => Blank(t)
    /\ handler[t].pc \in {"proposing", "asking", "declining"} => decisions[t] = {}
    /\ \/ handler[t].pc = "authorising"
       \/ handler[t].pc = "remembering" /\ handler[t].verdict = "approve_remember"
       => Granted(t) /\ decisions[t] = {}
    /\ handler[t].future \in Approving => Granted(t)
    /\ reply[t] \in Approving => Granted(t)

\* The inductive invariant.
Consent ==
    /\ TypeOK
    /\ GrantInHand
    /\ \A t \in Tasks : Stage(t)
    /\ \A t \in Triaged : TriageStage(t)

\* A step that concerns no task but t.
Only(t) ==
    \A u \in Tasks \ {t} :
        /\ proposal'[u] = proposal[u] /\ decisions'[u] = decisions[u]
        /\ submission'[u] = submission[u]
        /\ u \in Triaged => handler'[u] = handler[u] /\ reply'[u] = reply[u]
        /\ Pledged(u)' => Pledged(u)

\* A task whose papers stay and that nobody newly pledges keeps its stage.
LEMMA SameStage ==
    ASSUME NEW t \in Tasks, Stage(t),
           proposal'[t] = proposal[t], decisions'[t] = decisions[t],
           submission'[t] = submission[t], Pledged(t)' => Pledged(t)
    PROVE  Stage(t)'
BY DEF Stage, Cleared, Blank, Granted

LEMMA SameTriageStage ==
    ASSUME NEW t \in Triaged, TriageStage(t),
           proposal'[t] = proposal[t], decisions'[t] = decisions[t],
           submission'[t] = submission[t], handler'[t] = handler[t], reply'[t] = reply[t]
    PROVE  TriageStage(t)'
BY DEF TriageStage, Blank, Granted

\* It is enough to look at the task a step concerns.
LEMMA Concerned ==
    ASSUME Consent, NEW t \in Tasks, Only(t), Stage(t)', t \in Triaged => TriageStage(t)'
    PROVE  \A u \in Tasks : Stage(u)' /\ (u \in Triaged => TriageStage(u)')
<1> SUFFICES ASSUME NEW u \in Tasks PROVE Stage(u)' /\ (u \in Triaged => TriageStage(u)')
  OBVIOUS
<1>1. CASE u = t
  BY <1>1
<1>2. CASE u # t
  BY <1>2, SameStage, SameTriageStage DEF Only, Consent
<1> QED BY <1>1, <1>2

\* Steps that touch no paper and pledge nothing keep every stage.
LEMMA NoPaper ==
    ASSUME Consent, UNCHANGED <<proposal, decisions, submission, handler, reply>>,
           \A t \in Tasks : Pledged(t)' => Pledged(t)
    PROVE  \A u \in Tasks : Stage(u)' /\ (u \in Triaged => TriageStage(u)')
BY SameStage, SameTriageStage DEF Consent

\* Appending an item pledges its task only.
LEMMA AppendPledges ==
    ASSUME TypeOK, NEW t \in Tasks, NEW resume \in BOOLEAN, queue' = Append(queue, Item(t, resume)),
           NEW u \in Tasks, Queued(u)'
    PROVE  u = t \/ Queued(u)
<1>1. queue \in Seq([task : Tasks, resume : BOOLEAN])
      /\ Item(t, resume) \in [task : Tasks, resume : BOOLEAN]
  BY DEF TypeOK, Item
<1>2. /\ Len(queue') = Len(queue) + 1
      /\ \A i \in 1..Len(queue) : queue'[i] = queue[i]
      /\ queue'[Len(queue) + 1] = Item(t, resume)
  BY <1>1, AppendProperties
<1>3. PICK i \in 1..Len(queue') : queue'[i].task = u
  BY <1>1, <1>2 DEF Queued
<1> QED BY <1>1, <1>2, <1>3 DEF Queued, Item

\* The steps of a submission keep the invariant.
LEMMA SubmitConsent ==
    ASSUME Consent, SubmitStep
    PROVE  \A u \in Tasks : Stage(u)' /\ (u \in Triaged => TriageStage(u)')
<1> USE DEF store, triage, cancels
<1>1. ASSUME NEW t \in Direct, ProposeDirect(t) \/ DecideDirect(t)
      PROVE  \A u \in Tasks : Stage(u)' /\ (u \in Triaged => TriageStage(u)')
  <2>1. t \in Tasks /\ t \notin Triaged
    BY KindsAssumption DEF Tasks
  <2>2. Only(t)
    BY <1>1, <2>1 DEF Only, Pledged, Queued, ProposeDirect, DecideDirect, Record, Consent,
          TypeOK
  <2>3. Stage(t)'
    <3>1. CASE ProposeDirect(t)
      BY <3>1, <2>1 DEF ProposeDirect, Stage, Pledged, Queued, Cleared, Blank, Granted,
          Consent, TypeOK
    <3>2. CASE DecideDirect(t)
      <4>1. Granted(t) /\ decisions[t] = {}
        BY <3>2, <2>1 DEF DecideDirect, Stage, Consent
      <4>2. proposal'[t] = proposal[t] /\ decisions'[t] = {"user_submitted"}
            /\ submission'[t] = "decided"
        BY <3>2, <2>1, <4>1 DEF DecideDirect, Record, Consent, TypeOK
      <4>3. Cleared(t)'
        BY <4>1, <4>2 DEF Cleared, Granted, Grants, Refusals
      <4> QED BY <4>2, <4>3, <2>1 DEF Stage
    <3> QED BY <1>1, <3>1, <3>2
  <2> QED BY <2>1, <2>2, <2>3, Concerned
<1>2. ASSUME NEW t \in Direct, EnqueueDirect(t)
      PROVE  \A u \in Tasks : Stage(u)' /\ (u \in Triaged => TriageStage(u)')
  <2>1. t \in Tasks /\ t \notin Triaged
    BY KindsAssumption DEF Tasks
  <2>2. Pledged(t) /\ Cleared(t)
    BY <1>2, <2>1 DEF EnqueueDirect, Pledged, Consent, Stage
  <2>3. ASSUME NEW u \in Tasks, u # t, Queued(u)' PROVE Queued(u)
    BY <1>2, <2>1, <2>3, AppendPledges DEF EnqueueDirect, Consent
  <2>4. Only(t)
    BY <1>2, <2>1, <2>3 DEF Only, Pledged, EnqueueDirect, Consent, TypeOK
  <2>5. Stage(t)'
    BY <1>2, <2>1, <2>2 DEF EnqueueDirect, Stage, Cleared, Consent, TypeOK
  <2> QED BY <2>1, <2>4, <2>5, Concerned
<1>3. ASSUME NEW t \in Tasks, CreateRow(t)
      PROVE  \A u \in Tasks : Stage(u)' /\ (u \in Triaged => TriageStage(u)')
  <2>1. /\ UNCHANGED <<proposal, decisions, handler, reply, queue, loop, boot>>
        /\ row'[t] = "queued" /\ submission'[t] = "created"
        /\ \A u \in Tasks \ {t} : row'[u] = row[u] /\ submission'[u] = submission[u]
    BY <1>3 DEF CreateRow, Consent, TypeOK
  <2>2. Only(t)
    BY <2>1 DEF Only, Pledged, Queued
  <2>3. CASE t \in Direct
    <3>1. Cleared(t) /\ t \notin Triaged
      BY <1>3, <2>3, KindsAssumption DEF CreateRow, Pledged, Consent, Stage
    <3>2. Stage(t)'
      BY <2>1, <3>1 DEF Stage, Cleared
    <3> QED BY <2>2, <3>1, <3>2, Concerned
  <2>4. CASE t \notin Direct
    <3>1. t \in Triaged /\ submission[t] = "idle"
      BY <1>3, <2>4 DEF CreateRow, Tasks
    <3>2. Stage(t)'
      <4>1. Pledged(t)' => Pledged(t)
        BY <2>1, <2>4 DEF Pledged, Queued
      <4>2. Blank(t) /\ (Pledged(t) => Cleared(t))
        BY <3>1 DEF Consent, Stage
      <4> QED BY <2>1, <2>4, <4>1, <4>2 DEF Stage, Blank, Cleared
    <3>3. TriageStage(t)'
      BY <2>1, <3>1 DEF Consent, TriageStage, Blank, Granted
    <3> QED BY <2>2, <3>2, <3>3, Concerned
  <2> QED BY <2>3, <2>4
<1>4. ASSUME NEW t \in Triaged, Publish(t)
      PROVE  \A u \in Tasks : Stage(u)' /\ (u \in Triaged => TriageStage(u)')
  <2>1. t \in Tasks /\ t \notin Direct
    BY KindsAssumption DEF Tasks
  <2>2. /\ UNCHANGED <<row, proposal, decisions, reply, queue, loop, boot>>
        /\ submission[t] # "returned" /\ submission'[t] = "returned"
        /\ \A u \in Tasks \ {t} : submission'[u] = submission[u]
        /\ \A u \in Triaged \ {t} : handler'[u] = handler[u]
        /\ \/ handler'[t] = handler[t]
           \/ handler'[t] = [handler[t] EXCEPT !.pc = "waiting"]
    BY <1>4, <2>1 DEF Publish, Consent, TypeOK
  <2>3. Only(t)
    BY <2>2 DEF Only, Pledged, Queued
  <2>4. handler[t] \in HandlerType /\ handler[t].pc = "none" /\ Blank(t)
    BY <2>1, <2>2 DEF Consent, Stage, TriageStage, TypeOK, HandlerType
  <2>5. handler'[t].pc \in {"none", "waiting"} /\ handler'[t].future = handler[t].future
    BY <2>2, <2>4 DEF HandlerType
  <2>6. Stage(t)'
    BY <2>1, <2>2, <2>4, <2>5 DEF Consent, Stage, Pledged, Queued, Cleared, Blank
  <2>7. TriageStage(t)'
    BY <2>2, <2>4, <2>5 DEF Consent, TriageStage, Blank, Granted
  <2> QED BY <2>1, <2>3, <2>6, <2>7, Concerned
<1> QED BY <1>1, <1>2, <1>3, <1>4 DEF SubmitStep

\* What a step of t's handler leaves alone.
LEMMA HandlerOnly ==
    ASSUME Consent, NEW t \in Triaged, HandlerStep(t)
    PROVE  /\ t \in Tasks /\ t \notin Direct
           /\ UNCHANGED <<row, submission, reply, loop, boot>>
           /\ \A u \in Triaged \ {t} : handler'[u] = handler[u]
           /\ \A u \in Tasks \ {t} :
                 proposal'[u] = proposal[u] /\ decisions'[u] = decisions[u]
           /\ EnqueueTriaged(t) \/ UNCHANGED queue
           /\ Only(t)
<1>1. t \in Tasks /\ t \notin Direct
  BY KindsAssumption DEF Tasks
<1>2. UNCHANGED <<row, submission, reply, loop, boot>> /\ (EnqueueTriaged(t) \/ UNCHANGED queue)
  BY DEF HandlerStep, Take, Judge, Classify, Post, Answered, Expire, Decline, Remember,
        Authorise, EnqueueTriaged, store
<1>3. \A u \in Triaged \ {t} : handler'[u] = handler[u]
  <2>1. DOMAIN handler = Triaged
    BY DEF Consent, TypeOK
  <2>2. CASE Take(t) \/ Judge(t) \/ Classify(t) \/ Decline(t) \/ Remember(t) \/ Authorise(t)
    BY <2>1, <2>2 DEF Take, Judge, Classify, Decline, Remember, Authorise, Goto, Return
  <2>3. CASE Post(t) \/ Answered(t) \/ Expire(t) \/ EnqueueTriaged(t)
    BY <2>1, <2>3 DEF Post, Answered, Expire, EnqueueTriaged, Goto, Return
  <2> QED BY <2>2, <2>3 DEF HandlerStep
<1>4. \A u \in Tasks \ {t} : proposal'[u] = proposal[u] /\ decisions'[u] = decisions[u]
  BY <1>1 DEF Consent, TypeOK, HandlerStep, Take, Judge, Classify, Post, Answered, Expire,
        Decline, Remember, Authorise, EnqueueTriaged, store, Record
<1>5. ASSUME NEW u \in Tasks \ {t}, Queued(u)' PROVE Queued(u)
  <2>1. CASE EnqueueTriaged(t)
    BY <1>1, <1>5, <2>1, AppendPledges DEF EnqueueTriaged, Consent
  <2>2. CASE UNCHANGED queue
    BY <1>5, <2>2 DEF Queued
  <2> QED BY <1>2, <2>1, <2>2
<1>6. Only(t)
  BY <1>2, <1>3, <1>4, <1>5 DEF Only, Pledged
<1> QED BY <1>1, <1>2, <1>3, <1>4, <1>6

\* The steps of a handler keep the invariant.
LEMMA HandlerConsent ==
    ASSUME Consent, NEW t \in Triaged, HandlerStep(t)
    PROVE  \A u \in Tasks : Stage(u)' /\ (u \in Triaged => TriageStage(u)')
<1>1. /\ t \in Tasks /\ t \notin Direct
      /\ UNCHANGED <<row, submission, reply, loop, boot>>
      /\ EnqueueTriaged(t) \/ UNCHANGED queue
      /\ Only(t)
  BY HandlerOnly
<1>2. /\ handler[t] \in HandlerType /\ None \notin Approving
      /\ \A pc, verdict : Goto(t, pc, verdict) =>
            handler'[t].pc = pc /\ handler'[t].future = None /\ handler'[t].verdict = verdict
      /\ Return(t) => handler'[t].pc = "none" /\ handler'[t].future = None
  <2>1. handler[t] \in HandlerType
    BY DEF Consent, TypeOK, HandlerType
  <2>2. handler \in [Triaged -> HandlerType]
    BY DEF Consent, TypeOK, HandlerType
  <2>3. \A pc, verdict : Goto(t, pc, verdict) =>
            handler'[t].pc = pc /\ handler'[t].future = None /\ handler'[t].verdict = verdict
    BY <2>2 DEF Goto
  <2>4. Return(t) => handler'[t].pc = "none" /\ handler'[t].future = None
    BY <2>2 DEF Return, NoHandler
  <2>5. None \notin Approving
    BY NoneAssumption DEF Answers
  <2> QED BY <2>1, <2>3, <2>4, <2>5
<1>3. Stage(t) /\ TriageStage(t)
  BY <1>1 DEF Consent
<1>4. submission[t] = "returned" /\ submission'[t] = "returned" /\ reply'[t] = reply[t]
  <2>1. handler[t].pc # "none"
    BY DEF HandlerStep, Take, Judge, Classify, Post, Answered, Expire, Decline, Remember,
          Authorise, EnqueueTriaged, At
  <2> QED BY <1>1, <1>3, <2>1 DEF TriageStage
<1>5. ASSUME handler'[t].pc # "enqueuing", ~EnqueueTriaged(t),
             (Pledged(t) => Cleared(t)')
      PROVE  Stage(t)'
  <2>1. Pledged(t)' => Pledged(t)
    BY <1>1, <1>5 DEF Pledged, Queued
  <2> QED BY <1>1, <1>4, <1>5, <2>1 DEF Stage
<1>6. ASSUME UNCHANGED <<proposal, decisions>> PROVE Pledged(t) => Cleared(t)'
  BY <1>3, <1>6 DEF Stage, Cleared
<1>7. ASSUME proposal[t] = "none" \/ decisions[t] = {} PROVE ~Pledged(t)
  BY <1>3, <1>7 DEF Stage, Cleared
<1>8. CASE Take(t)
  <2>1. UNCHANGED <<proposal, decisions>> /\ Blank(t)
        /\ handler'[t].pc = "judging" /\ handler'[t].future = None
    BY <1>2, <1>3, <1>8 DEF Take, At, TriageStage, store
  <2>2. ~EnqueueTriaged(t)
    BY <1>8 DEF Take, EnqueueTriaged, At
  <2>3. TriageStage(t)'
    BY <1>2, <1>3, <1>4, <2>1 DEF TriageStage, Blank, Granted
  <2> QED BY <1>1, <1>5, <1>6, <2>1, <2>2, <2>3, Concerned
<1>9. CASE Judge(t)
  <2>1. Blank(t) /\ ~Pledged(t) /\ ~EnqueueTriaged(t)
    BY <1>3, <1>7, <1>9 DEF Judge, EnqueueTriaged, At, TriageStage, Blank
  <2>2. reply[t] \notin Approving
    BY <1>3, <2>1 DEF TriageStage, Blank, Granted
  <2>3. \/ /\ handler'[t].pc = "classifying" /\ handler'[t].future = None
           /\ Blank(t)'
        \/ handler'[t].pc = "none" /\ handler'[t].future = None
        \/ /\ handler'[t].pc = "authorising" /\ handler'[t].future = None
           /\ proposal'[t] = "approved" /\ decisions'[t] = {}
    BY <1>1, <1>2, <1>9, <2>1 DEF Judge, Blank, Consent, TypeOK
  <2>4. TriageStage(t)'
    BY <1>2, <1>4, <2>2, <2>3 DEF TriageStage, Blank, Granted
  <2>5. Stage(t)'
    BY <1>5, <2>1, <2>3
  <2> QED BY <1>1, <2>4, <2>5, Concerned
<1>10. CASE Classify(t)
  <2>1. Blank(t) /\ ~Pledged(t) /\ ~EnqueueTriaged(t)
    BY <1>3, <1>7, <1>10 DEF Classify, EnqueueTriaged, At, TriageStage, Blank
  <2>2. reply[t] \notin Approving
    BY <1>3, <2>1 DEF TriageStage, Blank, Granted
  <2>3. \/ handler'[t].pc = "none" /\ handler'[t].future = None
        \/ /\ handler'[t].pc = "proposing" /\ handler'[t].future = None
           /\ decisions'[t] = {}
    BY <1>1, <1>2, <1>10, <2>1 DEF Classify, Blank
  <2>4. TriageStage(t)'
    BY <1>2, <1>4, <2>2, <2>3 DEF TriageStage, Blank, Granted
  <2>5. Stage(t)'
    BY <1>5, <2>1, <2>3
  <2> QED BY <1>1, <2>4, <2>5, Concerned
<1>11. CASE Post(t)
  <2>1. UNCHANGED <<proposal, decisions>> /\ decisions[t] = {} /\ ~EnqueueTriaged(t)
    BY <1>3, <1>11 DEF Post, At, TriageStage, store, EnqueueTriaged
  <2>2. handler'[t].pc = "asking" /\ handler'[t].future = "waiting"
    BY <1>2, <1>11 DEF Post, HandlerType, Consent, TypeOK
  <2>3. TriageStage(t)'
    BY <1>3, <1>4, <2>1, <2>2 DEF TriageStage, Granted, Approving
  <2> QED BY <1>1, <1>5, <1>6, <2>1, <2>2, <2>3, Concerned
<1>12. CASE Answered(t)
  <2>1. UNCHANGED <<proposal, decisions>> /\ decisions[t] = {} /\ ~EnqueueTriaged(t)
    BY <1>3, <1>12 DEF Answered, At, TriageStage, store, EnqueueTriaged
  <2>2. handler[t].future \in Answers
    BY <1>12 DEF Answered
  <2>3. CASE handler[t].future \in Declining
    <3>1. handler'[t].pc = "declining" /\ handler'[t].future = None
      BY <1>2, <1>12, <2>3 DEF Answered, Declining
    <3>2. TriageStage(t)'
      BY <1>2, <1>3, <1>4, <2>1, <3>1 DEF TriageStage, Granted
    <3> QED BY <1>1, <1>5, <1>6, <2>1, <3>1, <3>2, Concerned
  <2>4. CASE handler[t].future \notin Declining
    <3>1. Granted(t)
      BY <1>3, <2>2, <2>4 DEF TriageStage, Answers
    <3>2. handler'[t].pc \in {"remembering", "authorising"} /\ handler'[t].future = None
      BY <1>2, <1>12, <2>4 DEF Answered, Declining
    <3>3. TriageStage(t)'
      BY <1>2, <1>3, <1>4, <2>1, <3>1, <3>2 DEF TriageStage, Granted
    <3> QED BY <1>1, <1>5, <1>6, <2>1, <3>2, <3>3, Concerned
  <2> QED BY <2>3, <2>4
<1>13. CASE Expire(t)
  <2>1. UNCHANGED <<proposal, decisions>> /\ decisions[t] = {} /\ ~EnqueueTriaged(t)
    BY <1>3, <1>13 DEF Expire, At, TriageStage, store, EnqueueTriaged
  <2>2. handler'[t].pc = "declining" /\ handler'[t].future = None
    BY <1>2, <1>13 DEF Expire
  <2>3. TriageStage(t)'
    BY <1>2, <1>3, <1>4, <2>1, <2>2 DEF TriageStage, Granted
  <2> QED BY <1>1, <1>5, <1>6, <2>1, <2>2, <2>3, Concerned
<1>14. CASE Decline(t)
  <2>1. UNCHANGED proposal /\ ~Pledged(t) /\ ~EnqueueTriaged(t)
    BY <1>3, <1>7, <1>14 DEF Decline, At, TriageStage, EnqueueTriaged
  <2>2. \/ /\ handler'[t].pc = "remembering" /\ handler'[t].future = None
           /\ handler'[t].verdict = "skip_remember"
        \/ handler'[t].pc = "none" /\ handler'[t].future = None
    BY <1>2, <1>14 DEF Decline
  <2>3. TriageStage(t)'
    BY <1>2, <1>3, <1>4, <2>1, <2>2 DEF TriageStage, Granted
  <2> QED BY <1>1, <1>5, <2>1, <2>2, <2>3, Concerned
<1>15. CASE Remember(t)
  <2>1. UNCHANGED <<proposal, decisions>> /\ ~EnqueueTriaged(t)
    BY <1>15 DEF Remember, At, EnqueueTriaged
  <2>2. \/ /\ handler'[t].pc = "authorising" /\ handler'[t].future = None
           /\ Granted(t) /\ decisions[t] = {}
        \/ handler'[t].pc = "none" /\ handler'[t].future = None
    BY <1>2, <1>3, <1>15 DEF Remember, At, TriageStage
  <2>3. TriageStage(t)'
    BY <1>2, <1>3, <1>4, <2>1, <2>2 DEF TriageStage, Granted
  <2> QED BY <1>1, <1>5, <1>6, <2>1, <2>2, <2>3, Concerned
<1>16. CASE Authorise(t)
  <2>1. Granted(t) /\ decisions[t] = {} /\ handler[t].verdict \in Grants
    BY <1>3, <1>16 DEF Authorise, At, TriageStage, Consent, GrantInHand
  <2>2. handler'[t].pc = "enqueuing" /\ handler'[t].future = None
    BY <1>2, <1>16 DEF Authorise
  <2>3. proposal'[t] = proposal[t] /\ decisions'[t] = {handler[t].verdict}
    BY <1>1, <1>16, <2>1 DEF Authorise, Record, Consent, TypeOK
  <2>4. Cleared(t)'
    <3>1. Grants \cap Refusals = {}
      BY DEF Grants, Refusals, Approving
    <3> QED BY <2>1, <2>3, <3>1 DEF Cleared, Granted
  <2>5. Stage(t)' /\ TriageStage(t)'
    BY <1>1, <1>2, <1>3, <1>4, <2>2, <2>3, <2>4 DEF Stage, TriageStage, Granted
  <2> QED BY <1>1, <2>5, Concerned
<1>17. CASE EnqueueTriaged(t)
  <2>1. UNCHANGED <<proposal, decisions>> /\ Cleared(t)
    BY <1>3, <1>17 DEF EnqueueTriaged, At, Stage, Pledged, store
  <2>2. handler'[t].pc = "none" /\ handler'[t].future = None
    BY <1>2, <1>17 DEF EnqueueTriaged
  <2>3. Stage(t)' /\ TriageStage(t)'
    BY <1>1, <1>2, <1>3, <1>4, <2>1, <2>2 DEF Stage, TriageStage, Granted, Cleared
  <2> QED BY <1>1, <2>3, Concerned
<1> QED BY <1>8, <1>9, <1>10, <1>11, <1>12, <1>13, <1>14, <1>15, <1>16, <1>17 DEF HandlerStep

\* An answer is taken only while the proposal is pending: nothing is pledged.
LEMMA RespondConsent ==
    ASSUME Consent, NEW t \in Triaged, NEW answer \in Answers, Respond(t, answer)
    PROVE  \A u \in Tasks : Stage(u)' /\ (u \in Triaged => TriageStage(u)')
<1>1. t \in Tasks /\ t \notin Direct
  BY KindsAssumption DEF Tasks
<1>2. /\ UNCHANGED <<row, decisions, submission, handler, queue, loop, boot>>
      /\ proposal'[t] = Target(answer) /\ reply'[t] = answer
      /\ \A u \in Tasks \ {t} : proposal'[u] = proposal[u]
      /\ \A u \in Triaged \ {t} : reply'[u] = reply[u]
  BY <1>1 DEF Respond, Consent, TypeOK
<1>3. Only(t)
  BY <1>2 DEF Only, Pledged, Queued
<1>4. ~Granted(t) /\ ~Blank(t) /\ Stage(t) /\ TriageStage(t)
  BY <1>1 DEF Respond, Granted, Blank, Consent
<1>5. ~Pledged(t)
  BY <1>4 DEF Stage, Cleared, Granted
<1>6. Stage(t)'
  BY <1>1, <1>2, <1>4, <1>5 DEF Stage, Pledged, Queued
<1>7. TriageStage(t)'
  <2>1. answer \in Approving => Granted(t)'
    <3>1. answer \in Approving => Target(answer) \in {"approved", "modified"}
      BY DEF Approving, Declining, Target
    <3> QED BY <1>2, <3>1 DEF Granted
  <2> QED BY <1>2, <1>4, <2>1 DEF TriageStage
<1> QED BY <1>1, <1>3, <1>6, <1>7, Concerned

\* Handing an answer to the handler that waits for it keeps the invariant.
LEMMA DeliverConsent ==
    ASSUME Consent, NEW t \in Triaged, Deliver(t)
    PROVE  \A u \in Tasks : Stage(u)' /\ (u \in Triaged => TriageStage(u)')
<1>1. t \in Tasks
  BY DEF Tasks
<1>2. /\ UNCHANGED <<row, proposal, decisions, submission, queue, loop, boot>>
      /\ reply'[t] = None
      /\ \A u \in Triaged \ {t} : handler'[u] = handler[u] /\ reply'[u] = reply[u]
      /\ handler'[t].pc = handler[t].pc /\ handler'[t].verdict = handler[t].verdict
      /\ handler'[t].future \in {handler[t].future, reply[t]}
  <2>1. handler \in [Triaged -> HandlerType]
    BY DEF Consent, TypeOK, HandlerType
  <2>2. /\ handler'[t].pc = handler[t].pc /\ handler'[t].verdict = handler[t].verdict
        /\ handler'[t].future \in {handler[t].future, reply[t]}
        /\ \A u \in Triaged \ {t} : handler'[u] = handler[u]
    BY <2>1 DEF Deliver, HandlerType
  <2> QED BY <2>2 DEF Deliver, store, Consent, TypeOK
<1>3. Only(t)
  BY <1>2 DEF Only, Pledged, Queued
<1>4. Stage(t) /\ TriageStage(t) /\ None \notin Approving
  BY <1>1, NoneAssumption DEF Consent, Answers
<1>5. Stage(t)'
  BY <1>2, <1>4 DEF Stage, Pledged, Queued, Cleared, Blank, Granted
<1>6. TriageStage(t)'
  BY <1>2, <1>4 DEF TriageStage, Blank, Granted
<1> QED BY <1>1, <1>3, <1>5, <1>6, Concerned

\* What users do keeps the invariant.
LEMMA UserConsent ==
    ASSUME Consent, UserStep
    PROVE  \A u \in Tasks : Stage(u)' /\ (u \in Triaged => TriageStage(u)')
<1>1. ASSUME NEW k \in Topics, RuleGone(k)
      PROVE  \A u \in Tasks : Stage(u)' /\ (u \in Triaged => TriageStage(u)')
  BY <1>1, NoPaper DEF RuleGone, Pledged, Queued, triage
<1>2. ASSUME NEW t \in Tasks, ReadForCancel(t) \/ FlagCancel(t)
      PROVE  \A u \in Tasks : Stage(u)' /\ (u \in Triaged => TriageStage(u)')
  BY <1>2, NoPaper DEF ReadForCancel, FlagCancel, Pledged, Queued, store, triage
<1>3. ASSUME NEW t \in Tasks, AnswerUser(t)
      PROVE  \A u \in Tasks : Stage(u)' /\ (u \in Triaged => TriageStage(u)')
  <2>1. UNCHANGED <<row, proposal, decisions, submission, handler, reply, queue, boot>>
        /\ loop'.task = loop.task
    BY <1>3 DEF AnswerUser, Step, Quiet, store, triage, Consent, TypeOK
  <2> QED BY <2>1, NoPaper DEF Pledged, Queued
<1> QED BY <1>1, <1>2, <1>3, RespondConsent, DeliverConsent, UnwantedAssumption DEF UserStep

\* A step of the loop that writes no paper keeps the invariant, when the task
\* it has in hand, and marks running if any, was pledged.
LEMMA LoopPledge ==
    ASSUME Consent, NEW t \in Tasks, Pledged(t),
           UNCHANGED <<proposal, decisions, submission, handler, reply, boot>>,
           loop'.task \in {t, None}, \A u \in Tasks : Queued(u)' => Queued(u),
           \A u \in Tasks \ {t} : row'[u] = row[u]
    PROVE  \A u \in Tasks : Stage(u)' /\ (u \in Triaged => TriageStage(u)')
<1>1. ASSUME NEW u \in Tasks, Pledged(u)' PROVE Pledged(u)
  <2>1. CASE u = t
    BY <2>1
  <2>2. CASE u # t
    BY <1>1, <2>2, NoneAssumption DEF Pledged
  <2> QED BY <2>1, <2>2
<1> QED BY <1>1, NoPaper

\* Recording what became of the task in hand keeps the invariant.
LEMMA OutcomeConsent ==
    ASSUME Consent, NEW t \in Tasks, loop.task = t, loop'.task \in {t, None},
           NEW outcome \in {"orchestrator_done", "orchestrator_cancelled"}, Record(t, outcome),
           UNCHANGED <<row, proposal, submission, triage, queue, boot>>
    PROVE  \A u \in Tasks : Stage(u)' /\ (u \in Triaged => TriageStage(u)')
<1>1. /\ decisions'[t] = decisions[t] \cup {outcome}
      /\ \A u \in Tasks \ {t} : decisions'[u] = decisions[u]
  BY DEF Record, Consent, TypeOK
<1>2. \A u \in Tasks : Pledged(u)' => Pledged(u)
  BY NoneAssumption DEF Pledged, Queued, triage
<1>3. Only(t)
  BY <1>1, <1>2 DEF Only, triage
<1>4. Cleared(t) /\ Stage(t) /\ (t \in Triaged => TriageStage(t))
  BY DEF Consent, Stage, Pledged
<1>5. decisions[t] # {}
  BY <1>4 DEF Cleared
<1>6. Cleared(t)'
  <2>1. outcome \notin Refusals
    BY DEF Refusals
  <2> QED BY <1>1, <1>4, <2>1 DEF Cleared
<1>7. Stage(t)'
  BY <1>4, <1>5, <1>6 DEF Stage, Blank
<1>8. t \in Triaged => TriageStage(t)'
  BY <1>4, <1>5 DEF TriageStage, Blank, Granted, triage
<1> QED BY <1>3, <1>7, <1>8, Concerned

\* What a step of the loop does to the task it has in hand, or takes in hand.
LEMMA LoopFrame ==
    ASSUME Consent, NEW t \in Tasks, LoopStep(t)
    PROVE  /\ Pledged(t) /\ loop'.task \in {t, None}
           /\ UNCHANGED <<proposal, submission, triage, boot>>
           /\ \A u \in Tasks : Queued(u)' => Queued(u)
           /\ \A u \in Tasks \ {t} : row'[u] = row[u]
<1>1. CASE Dequeue(t)
  <2>1. queue \in Seq([task : Tasks, resume : BOOLEAN])
    BY DEF Consent, TypeOK
  <2>2. 1 \in DOMAIN queue /\ queue[1].task = t
    BY <1>1, <2>1 DEF Dequeue
  <2>3. Queued(t)
    BY <2>2 DEF Queued
  <2>4. \A u \in Tasks : Queued(u)' => Queued(u)
    <3>1. queue' = Tail(queue) /\ queue # <<>>
      BY <1>1 DEF Dequeue
    <3>2. /\ Len(queue') = Len(queue) - 1 /\ queue' \in Seq([task : Tasks, resume : BOOLEAN])
          /\ \A i \in 1..Len(queue') : queue'[i] = queue[i + 1]
      BY <2>1, <3>1, HeadTailProperties
    <3>3. /\ DOMAIN queue = 1..Len(queue) /\ DOMAIN queue' = 1..Len(queue')
          /\ Len(queue) \in Nat /\ Len(queue') = Len(queue) - 1
      BY <2>1, <3>2, LenProperties
    <3>4. \A i \in DOMAIN queue' : i + 1 \in DOMAIN queue /\ queue'[i] = queue[i + 1]
      <4>1. \A i \in 1..Len(queue') : i + 1 \in 1..Len(queue)
        BY <3>3
      <4> QED BY <3>2, <3>3, <4>1
    <3> QED BY <3>4 DEF Queued
  <2> QED BY <1>1, <2>3, <2>4 DEF Dequeue, Pledged, store
<1>2. CASE Register(t) \/ Start(t) \/ Finish(t) \/ Fail(t) \/ Drop(t) \/ Stop(t)
  BY <1>2 DEF Register, Start, Finish, Fail, Drop, Stop, Mark, InHand, IdleLoop, Pledged,
        Queued, Consent, TypeOK
<1>3. CASE \/ Arrive(t) \/ Admit(t) \/ SeeFlag(t) \/ AskUser(t) \/ StreamEnds(t) \/ Raise(t)
           \/ Conclude(t) \/ Note(t)
  <2>1. UNCHANGED <<row, proposal, submission, triage, queue, boot>>
    BY <1>3 DEF Arrive, Admit, SeeFlag, AskUser, StreamEnds, Raise, Conclude, Note, Quiet, store
  <2>2. loop.task = t /\ loop'.task \in {t, None}
    BY <1>3 DEF Arrive, Admit, SeeFlag, AskUser, StreamEnds, Raise, Conclude, Note, Step,
          InHand, IdleLoop, Consent, TypeOK
  <2> QED BY <2>1, <2>2 DEF Pledged, Queued
<1> QED BY <1>1, <1>2, <1>3 DEF LoopStep

\* The steps of the loop keep the invariant.
LEMMA LoopConsent ==
    ASSUME Consent, NEW t \in Tasks, LoopStep(t)
    PROVE  \A u \in Tasks : Stage(u)' /\ (u \in Triaged => TriageStage(u)')
<1>1. CASE Conclude(t)
  BY <1>1, OutcomeConsent, LoopFrame DEF Conclude, Step, InHand
<1>2. CASE Note(t)
  BY <1>2, OutcomeConsent, LoopFrame DEF Note, InHand
<1>3. CASE UNCHANGED decisions
  BY <1>3, LoopPledge, LoopFrame DEF triage
<1> QED BY <1>1, <1>2, <1>3 DEF LoopStep, Dequeue, Register, Arrive, Admit, Start, SeeFlag,
      AskUser, StreamEnds, Raise, Finish, Fail, Drop, Stop, Mark, Quiet, store

\* Every item that Resume queues is of a listed task.
LEMMA ResumePledges ==
    ASSUME TypeOK, Resume, NEW u \in Tasks, Queued(u)'
    PROVE  Queued(u) \/ u \in boot.listed
<1>0. PICK order \in SetToSeqs(boot.listed) :
              queue' = queue \o [i \in 1..Len(order) |-> Item(order[i], TRUE)]
  BY DEF Resume
<1> DEFINE items == [i \in 1..Len(order) |-> Item(order[i], TRUE)]
<1>1. queue' = queue \o items
  BY <1>0
<1>2. /\ queue \in Seq([task : Tasks, resume : BOOLEAN]) /\ boot.listed \subseteq Tasks
      /\ Len(order) \in Nat /\ \A i \in 1..Len(order) : order[i] \in boot.listed
  BY OrderType DEF TypeOK
<1>3. /\ items \in Seq([task : Tasks, resume : BOOLEAN])
      /\ Len(items) = Len(order)
      /\ \A i \in 1..Len(order) : items[i].task \in boot.listed
  BY <1>2 DEF Item
<1> HIDE DEF items
<1>4. /\ queue' \in Seq([task : Tasks, resume : BOOLEAN])
      /\ Len(queue') = Len(queue) + Len(order)
      /\ \A i \in 1..Len(queue') :
            queue'[i] = IF i <= Len(queue) THEN queue[i] ELSE items[i - Len(queue)]
  <2>1. queue \in Seq([task : Tasks, resume : BOOLEAN])
        /\ items \in Seq([task : Tasks, resume : BOOLEAN])
    BY <1>2, <1>3
  <2>2. /\ queue \o items \in Seq([task : Tasks, resume : BOOLEAN])
        /\ Len(queue \o items) = Len(queue) + Len(items)
        /\ \A i \in 1..(Len(queue) + Len(items)) :
              (queue \o items)[i] = IF i <= Len(queue) THEN queue[i]
                                   ELSE items[i - Len(queue)]
    BY <2>1, ConcatProperties, Zenon
  <2> QED BY <1>1, <1>3, <2>2
<1>5. PICK i \in 1..Len(queue') : queue'[i].task = u
  BY <1>4 DEF Queued
<1>6. CASE i <= Len(queue)
  BY <1>2, <1>4, <1>5, <1>6 DEF Queued
<1>7. CASE i > Len(queue)
  <2>1. i - Len(queue) \in 1..Len(order)
    BY <1>2, <1>4, <1>5, <1>7
  <2> QED BY <1>2, <1>3, <1>4, <1>5, <1>7, <2>1
<1> QED BY <1>2, <1>4, <1>5, <1>6, <1>7

\* Booting and restarting keep the invariant.
LEMMA BootConsent ==
    ASSUME Consent, BootStep \/ Restart
    PROVE  \A u \in Tasks : Stage(u)' /\ (u \in Triaged => TriageStage(u)')
<1>1. CASE ListRows
  BY <1>1, NoPaper DEF ListRows, Interrupted, Pledged, Queued, store, triage
<1>2. CASE Resume
  <2>1. \A u \in Tasks : Queued(u)' => Queued(u) \/ u \in boot.listed
    BY <1>2, ResumePledges DEF Consent
  <2> QED BY <1>2, <2>1, NoPaper DEF Resume, Pledged, store, triage
<1>3. CASE Restart
  <2>1. /\ UNCHANGED <<row, proposal, decisions>> /\ queue' = <<>> /\ loop'.task = None
        /\ boot'.listed = {}
        /\ \A u \in Tasks :
              submission'[u] = IF submission[u] = "idle" THEN "idle" ELSE "returned"
        /\ \A u \in Triaged : /\ handler'[u].pc = "none" /\ handler'[u].future = None
                              /\ reply'[u] = None
    BY <1>3 DEF Restart, NoHandler, IdleLoop, store
  <2>2. \A u \in Tasks : Pledged(u)' => row[u] = "running"
    BY <2>1, NoneAssumption DEF Pledged, Queued
  <2>3. \A u \in Tasks : Stage(u)'
    BY <2>1, <2>2 DEF Consent, Stage, Pledged, Cleared, Blank
  <2>4. \A u \in Triaged : TriageStage(u)'
    BY <2>1, NoneAssumption DEF TriageStage, Answers
  <2> QED BY <2>3, <2>4
<1> QED BY <1>1, <1>2, <1>3 DEF BootStep

\* Initially nothing is pledged and nothing recorded.
LEMMA InitConsent == Init => Consent
<1> SUFFICES ASSUME Init PROVE Consent
  OBVIOUS
<1>1. TypeOK /\ GrantInHand
  BY InitType DEF Init, GrantInHand, NoHandler
<1>2. ASSUME NEW t \in Tasks PROVE Stage(t)
  BY NoneAssumption, KindsAssumption DEF Init, Stage, Pledged, Queued, Blank, IdleLoop,
        NoHandler
<1>3. ASSUME NEW t \in Triaged PROVE TriageStage(t)
  BY NoneAssumption DEF Init, TriageStage, NoHandler, Answers, Tasks
<1> QED BY <1>1, <1>2, <1>3 DEF Consent

\* Every step keeps the invariant.
LEMMA ConsentKept == Consent /\ [Next]_vars => Consent'
<1> SUFFICES ASSUME Consent, [Next]_vars PROVE Consent'
  OBVIOUS
<1>1. CASE UNCHANGED vars
  BY <1>1 DEF vars, Consent, TypeOK, GrantInHand, Stage, TriageStage, Pledged, Queued,
        Cleared, Blank, Granted
<1>2. CASE Next
  <2>1. TypeOK' /\ GrantInHand'
    BY <1>2, SubmitType, HandlerStepType, UserStepType, LoopStepType, BootType, OthersGrant
    DEF Next, Consent
  <2>2. \A u \in Tasks : Stage(u)' /\ (u \in Triaged => TriageStage(u)')
    BY <1>2, SubmitConsent, HandlerConsent, UserConsent, LoopConsent, BootConsent DEF Next
  <2> QED BY <2>1, <2>2 DEF Consent, Tasks
<1> QED BY <1>1, <1>2

\* Nothing acts without a standing rule or an explicit approval: for any tasks
\* and handlers, through declines, timeouts, restarts and resumptions.
THEOREM NothingUnapproved == Spec => []ConsentBoundary
<1>1. Consent => ConsentBoundary
  BY DEF Consent, Stage, Pledged, ConsentBoundary
<1> QED BY InitConsent, ConsentKept, <1>1, PTL DEF Spec
=============================================================================
