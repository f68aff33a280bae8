----------------------------- MODULE TaskRowProofs -----------------------------
(***************************************************************************)
(* More theorems about TaskLifecycle: a proposal has one verdict, a        *)
(* running row has an owner, a task cancelled in time never starts, and    *)
(* all of it implements PaperTrail.                                        *)
(***************************************************************************)
EXTENDS TaskLifecycleProofs

-----------------------------------------------------------------------------
(* One verdict: VerdictMatches *)

\* The answer on its way to the record, in a respond call, in the future or in
\* the handler, is the one the proposals table has.
Verdict(t) ==
    /\ handler[t].future \in Answers => proposal[t] = Target(handler[t].future)
    /\ reply[t] # None => proposal[t] = Target(reply[t])
    /\ handler[t].pc \in {"declining", "remembering", "authorising"}
            /\ handler[t].verdict \in Answers
       => proposal[t] = Target(handler[t].verdict)
    /\ handler[t].pc = "declining" => handler[t].verdict \in Declining \cup {"expired"}
    /\ handler[t].pc = "remembering" =>
            handler[t].verdict \in {"approve_remember", "skip_remember"}
    /\ \A answer \in Approving : answer \in decisions[t] => proposal[t] = Target(answer)
    /\ "skipped" \in decisions[t] => proposal[t] = "skipped"

Verdicts == Consent /\ \A t \in Triaged : Verdict(t)

\* Each answer sets a status of its own, which is not that of an open proposal.
LEMMA Targets ==
    /\ \A answer \in Answers : Target(answer) \in {"approved", "modified", "skipped"}
    /\ \A answer \in Declining : Target(answer) = "skipped"
    /\ Target("approve") = "approved" /\ Target("approve_remember") = "approved"
    /\ Target("modify") = "modified"
BY DEF Target, Answers, Approving, Declining

LEMMA SameVerdict ==
    ASSUME NEW t \in Triaged, Verdict(t),
           proposal'[t] = proposal[t], decisions'[t] = decisions[t],
           handler'[t] = handler[t], reply'[t] = reply[t]
    PROVE  Verdict(t)'
BY DEF Verdict

\* The handler's steps keep the verdict of its task.
LEMMA HandlerVerdict ==
    ASSUME Verdicts, NEW t \in Triaged, HandlerStep(t)
    PROVE  Verdict(t)'
<1>1. /\ t \in Tasks /\ Verdict(t) /\ TriageStage(t)
      /\ handler \in [Triaged -> HandlerType]
      /\ proposal \in [Tasks -> {"none", "pending", "approved", "modified", "skipped"}]
      /\ decisions \in [Tasks -> SUBSET Outcomes]
      /\ reply \in [Triaged -> {None} \cup Answers]
  BY DEF Verdicts, Consent, TypeOK, HandlerType, Outcomes, Tasks
<1>2. /\ None \notin Answers /\ "waiting" \notin Answers
      /\ "expired" \notin Answers /\ "auto_approved" \notin Answers
  BY NoneAssumption DEF Answers, Approving, Declining
<1>3. ASSUME UNCHANGED <<proposal, decisions>>, Return(t) PROVE Verdict(t)'
  BY <1>1, <1>2, <1>3 DEF Return, NoHandler, Verdict, HandlerStep, Take, Judge, Classify,
        Post, Answered, Expire, Decline, Remember, Authorise, EnqueueTriaged
<1>4. CASE Take(t)
  BY <1>1, <1>2, <1>4 DEF Take, At, Goto, Verdict, store
<1>5. CASE Judge(t)
  <2>1. proposal[t] = "none" /\ decisions[t] = {} /\ reply[t] = None
    BY <1>1, <1>5, Targets DEF Judge, At, Verdict, TriageStage, Blank
  <2> QED BY <1>1, <1>2, <1>5, <2>1 DEF Judge, At, Goto, Return, NoHandler, Record, Verdict,
            Approving
<1>6. CASE Classify(t)
  <2>1. proposal[t] = "none" /\ decisions[t] = {} /\ reply[t] = None
    BY <1>1, <1>6, Targets DEF Classify, At, Verdict, TriageStage, Blank
  <2> QED BY <1>1, <1>2, <1>6, <2>1 DEF Classify, At, Goto, Return, NoHandler, Record,
            Verdict, Approving
<1>7. CASE Post(t)
  BY <1>1, <1>2, <1>7 DEF Post, At, Verdict, store, HandlerType
<1>8. CASE Answered(t)
  <2> DEFINE answer == handler[t].future
  <2>1. answer \in Answers /\ proposal[t] = Target(answer)
    BY <1>1, <1>8 DEF Answered, Verdict
  <2>2. /\ handler'[t].future = None /\ handler'[t].verdict = answer
        /\ answer \in Declining => handler'[t].pc = "declining"
        /\ answer = "approve_remember" => handler'[t].pc = "remembering"
        /\ answer \in {"approve", "modify"} => handler'[t].pc = "authorising"
    BY <1>1, <1>8 DEF Answered, Goto, Declining
  <2>3. UNCHANGED <<proposal, decisions, reply>>
    BY <1>8 DEF Answered, store
  <2> HIDE DEF answer
  <2>4. answer \in Declining \/ answer \in {"approve", "modify"} \/ answer = "approve_remember"
    BY <2>1 DEF Answers, Approving
  <2> QED BY <1>1, <1>2, <2>1, <2>2, <2>3, <2>4 DEF Verdict
<1>9. CASE Expire(t)
  BY <1>1, <1>2, <1>9 DEF Expire, At, Goto, Verdict, store
<1>10. CASE Decline(t)
  <2>1. handler[t].verdict \in Declining => proposal[t] = "skipped"
    BY <1>1, <1>10, Targets DEF Decline, At, Verdict, Answers
  <2>2. decisions'[t] = decisions[t] \cup
            {IF handler[t].verdict = "expired" THEN "expired" ELSE "skipped"}
        /\ UNCHANGED <<proposal, reply>>
    BY <1>1, <1>10 DEF Decline, Record
  <2>3. /\ \A answer \in Approving : answer \in decisions'[t] => answer \in decisions[t]
        /\ "skipped" \in decisions'[t] => "skipped" \in decisions[t] \/ proposal[t] = "skipped"
    BY <1>1, <1>10, <2>1, <2>2 DEF Decline, At, Verdict, Approving
  <2>4. \/ handler'[t] = NoHandler
        \/ /\ handler'[t].pc = "remembering" /\ handler'[t].future = None
           /\ handler'[t].verdict = "skip_remember" /\ handler[t].verdict = "skip_remember"
    BY <1>1, <1>10 DEF Decline, Goto, Return
  <2>5. CASE handler'[t] = NoHandler
    BY <1>1, <1>2, <2>2, <2>3, <2>5 DEF NoHandler, Verdict
  <2>6. CASE handler'[t] # NoHandler
    <3>1. Target("skip_remember") = "skipped" /\ proposal[t] = "skipped"
      BY <2>1, <2>4, <2>6, Targets DEF Declining
    <3> QED BY <1>1, <1>2, <2>2, <2>3, <2>4, <2>6, <3>1 DEF Verdict
  <2> QED BY <2>5, <2>6
<1>11. CASE Remember(t)
  <2>1. UNCHANGED <<proposal, decisions, reply>>
    BY <1>11 DEF Remember
  <2>2. \/ Return(t)
        \/ /\ handler'[t].pc = "authorising" /\ handler'[t].future = None
           /\ handler'[t].verdict = "approve_remember"
           /\ handler[t].verdict = "approve_remember"
    BY <1>1, <1>11 DEF Remember, Goto
  <2>3. handler[t].pc = "remembering"
    BY <1>11 DEF Remember, At
  <2>4. "approve_remember" \in Answers
    BY DEF Answers, Approving
  <2> QED BY <1>1, <1>2, <1>3, <2>1, <2>2, <2>3, <2>4 DEF Verdict
<1>12. CASE Authorise(t)
  <2>1. /\ decisions'[t] = decisions[t] \cup {handler[t].verdict}
        /\ UNCHANGED <<proposal, reply>>
        /\ handler'[t].pc = "enqueuing" /\ handler'[t].future = None
    BY <1>1, <1>12 DEF Authorise, Record, Goto
  <2>2. handler[t].pc = "authorising" /\ handler[t].verdict \in Grants
    BY <1>12 DEF Authorise, At, Verdicts, Consent, GrantInHand
  <2>3. \A answer \in Approving : answer \in decisions'[t] => proposal[t] = Target(answer)
    BY <1>1, <2>1, <2>2 DEF Verdict, Answers
  <2>4. "skipped" \in decisions'[t] => "skipped" \in decisions[t]
    BY <2>1, <2>2 DEF Grants, Approving
  <2> QED BY <1>1, <1>2, <2>1, <2>3, <2>4 DEF Verdict
<1>13. CASE EnqueueTriaged(t)
  BY <1>3, <1>13 DEF EnqueueTriaged, store
<1> QED BY <1>4, <1>5, <1>6, <1>7, <1>8, <1>9, <1>10, <1>11, <1>12, <1>13 DEF HandlerStep

\* The other steps keep every verdict.
LEMMA OtherVerdict ==
    ASSUME Verdicts,
           SubmitStep \/ UserStep \/ (\E t \in Tasks : LoopStep(t)) \/ BootStep \/ Restart
    PROVE  \A u \in Triaged : Verdict(u)'
<1> SUFFICES ASSUME NEW u \in Triaged PROVE Verdict(u)'
  OBVIOUS
<1>1. /\ u \in Tasks /\ u \notin Direct /\ Verdict(u) /\ TriageStage(u)
      /\ handler \in [Triaged -> HandlerType]
      /\ proposal \in [Tasks -> {"none", "pending", "approved", "modified", "skipped"}]
      /\ decisions \in [Tasks -> SUBSET Outcomes]
      /\ reply \in [Triaged -> {None} \cup Answers]
  BY KindsAssumption DEF Verdicts, Consent, TypeOK, HandlerType, Outcomes, Tasks
<1>2. None \notin Answers /\ "waiting" \notin Answers
  BY NoneAssumption DEF Answers, Approving, Declining
<1>3. CASE SubmitStep
  <2>1. ASSUME NEW t \in Direct, ProposeDirect(t) \/ DecideDirect(t) \/ EnqueueDirect(t)
        PROVE  Verdict(u)'
    BY <1>1, <2>1, SameVerdict DEF ProposeDirect, DecideDirect, EnqueueDirect, Record, triage,
          store
  <2>2. ASSUME NEW t \in Tasks, CreateRow(t) PROVE Verdict(u)'
    BY <1>1, <2>2, SameVerdict DEF CreateRow, triage
  <2>3. ASSUME NEW t \in Triaged, Publish(t) PROVE Verdict(u)'
    <3>1. UNCHANGED <<proposal, decisions, reply>>
          /\ handler'[u].future = handler[u].future /\ handler'[u].verdict = handler[u].verdict
          /\ (handler'[u].pc = handler[u].pc \/ handler'[u].pc = "waiting")
      BY <1>1, <2>3 DEF Publish, store, HandlerType
    <3> QED BY <1>1, <3>1 DEF Verdict
  <2> QED BY <1>3, <2>1, <2>2, <2>3 DEF SubmitStep
<1>4. CASE UserStep
  <2>1. ASSUME NEW t \in Triaged, Deliver(t) PROVE Verdict(u)'
    <3>1. /\ UNCHANGED <<proposal, decisions>>
          /\ handler'[u].pc = handler[u].pc /\ handler'[u].verdict = handler[u].verdict
          /\ reply'[u] \in {reply[u], None}
          /\ \/ handler'[u].future = handler[u].future
             \/ reply[u] # None /\ handler'[u].future = reply[u]
      BY <1>1, <2>1 DEF Deliver, store, HandlerType
    <3> QED BY <1>1, <3>1 DEF Verdict
  <2>2. ASSUME NEW t \in Triaged, NEW answer \in Answers, Respond(t, answer) PROVE Verdict(u)'
    <3>1. CASE t # u
      BY <1>1, <2>2, <3>1, SameVerdict DEF Respond
    <3>2. CASE t = u
      <4>1. /\ proposal[u] = "pending" /\ proposal'[u] = Target(answer)
            /\ reply'[u] = answer /\ UNCHANGED <<decisions, handler>>
        BY <1>1, <2>2, <3>2 DEF Respond
      <4>2. \A a \in Answers : Target(a) # "pending"
        BY Targets
      <4>3. Approving \subseteq Answers
        BY DEF Answers
      <4> HIDE DEF Target
      <4> QED BY <1>1, <4>1, <4>2, <4>3 DEF Verdict
    <3> QED BY <3>1, <3>2
  <2>3. ASSUME UNCHANGED <<proposal, decisions, handler, reply>> PROVE Verdict(u)'
    BY <1>1, <2>3, SameVerdict
  <2> QED BY <1>4, <2>1, <2>2, <2>3 DEF UserStep, RuleGone, ReadForCancel, FlagCancel,
        AnswerUser, Quiet, triage, store
<1>5. CASE \E t \in Tasks : LoopStep(t)
  <2>1. PICK t \in Tasks : LoopStep(t)
    BY <1>5
  <2>2. CASE Conclude(t) \/ Note(t)
    <3>1. UNCHANGED <<proposal, handler, reply>>
          /\ \A a \in Approving \cup {"skipped"} : a \in decisions'[u] => a \in decisions[u]
      BY <1>1, <2>2 DEF Conclude, Note, Record, triage, Approving
    <3> QED BY <1>1, <3>1 DEF Verdict
  <2>3. CASE ~(Conclude(t) \/ Note(t))
    <3>1. UNCHANGED <<proposal, decisions, handler, reply>>
      BY <2>1, <2>3 DEF LoopStep, Dequeue, Register, Arrive, Admit, Start, SeeFlag, AskUser,
            StreamEnds, Raise, Finish, Fail, Drop, Stop, Mark, Quiet, triage, store
    <3> QED BY <1>1, <3>1, SameVerdict
  <2> QED BY <2>2, <2>3
<1>6. CASE BootStep
  BY <1>1, <1>6, SameVerdict DEF BootStep, ListRows, Resume, triage, store
<1>7. CASE Restart
  BY <1>1, <1>2, <1>7 DEF Restart, NoHandler, Verdict, store
<1> QED BY <1>3, <1>4, <1>5, <1>6, <1>7

\* A proposal is answered once: for any number of users, handlers and timeouts
\* the outcome that is recorded is the one in the proposals table.
THEOREM OneVerdict == Spec => []VerdictMatches
<1>1. Init => Verdicts
  <2> SUFFICES ASSUME Init PROVE Verdicts
    OBVIOUS
  <2>1. ASSUME NEW t \in Triaged PROVE Verdict(t)
    BY NoneAssumption DEF Init, Verdict, NoHandler, Tasks, Answers
  <2> QED BY <2>1, InitConsent DEF Verdicts
<1>2. Verdicts /\ [Next]_vars => Verdicts'
  <2> SUFFICES ASSUME Verdicts, [Next]_vars PROVE Verdicts'
    OBVIOUS
  <2>1. Consent'
    BY ConsentKept DEF Verdicts
  <2>2. CASE UNCHANGED vars
    BY <2>1, <2>2, SameVerdict DEF vars, Verdicts
  <2>3. ASSUME NEW t \in Triaged, HandlerStep(t) PROVE \A u \in Triaged : Verdict(u)'
    <3>1. \A u \in Triaged \ {t} : Verdict(u)'
      <4> SUFFICES ASSUME NEW u \in Triaged \ {t} PROVE Verdict(u)'
        OBVIOUS
      <4>1. u \in Tasks \ {t}
        BY DEF Tasks
      <4>2. /\ proposal'[u] = proposal[u] /\ decisions'[u] = decisions[u]
            /\ handler'[u] = handler[u] /\ reply'[u] = reply[u]
        BY <2>3, <4>1, HandlerOnly DEF Verdicts
      <4> QED BY <4>2, SameVerdict DEF Verdicts
    <3> QED BY <2>3, <3>1, HandlerVerdict
  <2> QED BY <2>1, <2>2, <2>3, OtherVerdict DEF Next, Verdicts
<1>3. Verdicts => VerdictMatches
  BY Targets DEF Verdicts, Verdict, VerdictMatches
<1> QED BY <1>1, <1>2, <1>3, PTL DEF Spec
-----------------------------------------------------------------------------
(* The rows and their owners: RunningIsOwned, NeverStarts *)

\* The one chance of a task goes from the call that submits it, or the event,
\* through the handler and the queue into the loop.
Pledging(t) == IF t \in Organic THEN submission[t] = "idle" ELSE submission[t] # "returned"
Handled(t) == t \in Triaged /\ handler[t].pc # "none"
Waits(t) == \E i \in DOMAIN queue : ItemAt(i, t, FALSE)
Twice(t) == \E i, j \in DOMAIN queue : i # j /\ ItemAt(i, t, FALSE) /\ ItemAt(j, t, FALSE)
Taken(t) == loop.task = t /\ ~loop.resume

\* There is only one such chance, beside those of a task that is resumed.
Once(t) ==
    /\ Pledging(t) => ~Handled(t) /\ ~Waits(t) /\ ~Taken(t)
    /\ Handled(t) => ~Waits(t) /\ ~Taken(t)
    /\ Waits(t) => ~Taken(t)
    /\ ~Twice(t)

\* What the places of a task tell of its row.
RowOf(t) ==
    /\ Resumed(t) => row[t] \notin {"none", "queued"}
    /\ Pledging(t) /\ submission[t] # "created" => row[t] = "none"
    /\ t \in Organic /\ (Handled(t) \/ Waits(t) \/ InHand(t, "registering")) => row[t] = "none"

\* What the place of the loop tells of the task in hand.
InLoop(t) ==
    loop.task = t =>
        /\ loop.pc # "idle"
        /\ loop.pc = "registering" => t \in Organic /\ ~loop.resume
        /\ loop.pc \in {"streaming", "asking", "stopping", "concluding", "finishing"} =>
              row[t] = "running"
        /\ loop.pc = "noting" => row[t] = "cancelled"

\* A task cancelled before it started still has its flag, or no chance left.
Spent(t) == ~Pledging(t) /\ ~Handled(t) /\ ~Waits(t) /\ loop.task # t
Barred(t) ==
    t \in barred =>
        /\ row[t] \in {"queued", "failed", "cancelled"}
        /\ ~Resumed(t) /\ ~InHand(t, "starting")
        /\ t \in flags \/ Spent(t)

Owned(t) ==
    row[t] = "running" =>
        \/ loop.task = t
        \/ Queued(t)
        \/ boot.pc = "booting"
        \/ boot.pc = "listed" /\ t \in boot.listed

Line(t) == Once(t) /\ RowOf(t) /\ InLoop(t) /\ Barred(t) /\ Owned(t)

\* The inductive invariant.
Rows == Consent /\ \A t \in Tasks : Line(t)

\* What a step may do in the queue to a task it does not concern: take it off no
\* place and put it on none.
QueueKeeps(t) ==
    /\ Waits(t)' => Waits(t)
    /\ Repeats(t)' => Repeats(t)
    /\ Twice(t)' => Twice(t)
    /\ Queued(t) => Queued(t)'

LEMMA QueueStays ==
    ASSUME queue' = queue, NEW t \in Tasks
    PROVE  QueueKeeps(t) /\ (Waits(t) <=> Waits(t)') /\ (Repeats(t) <=> Repeats(t)')
BY DEF QueueKeeps, Waits, Repeats, Twice, Queued, ItemAt

\* Appending an item adds one chance of its task.
LEMMA AppendAdds ==
    ASSUME TypeOK, NEW t \in Tasks, NEW item \in [task : Tasks, resume : BOOLEAN],
           item.task = t, item.resume = FALSE, queue' = Append(queue, item)
    PROVE  /\ \A u \in Tasks \ {t} : QueueKeeps(u)
           /\ (Repeats(t)' => Repeats(t)) /\ (~Waits(t) => ~Twice(t)') /\ Queued(t)'
<1>1. queue \in Seq([task : Tasks, resume : BOOLEAN])
  BY DEF TypeOK
<1>2. /\ Len(queue) \in Nat /\ Len(queue') = Len(queue) + 1
      /\ \A i \in 1..Len(queue) : queue'[i] = queue[i]
      /\ queue'[Len(queue) + 1] = item
      /\ DOMAIN queue = 1..Len(queue) /\ DOMAIN queue' = 1..Len(queue')
  <2>1. queue' \in Seq([task : Tasks, resume : BOOLEAN])
    BY <1>1, AppendProperties
  <2>2. /\ Len(queue) \in Nat /\ DOMAIN queue = 1..Len(queue)
        /\ DOMAIN queue' = 1..Len(queue')
    BY <1>1, <2>1, LenProperties
  <2>3. /\ Len(queue') = Len(queue) + 1
        /\ \A i \in 1..Len(queue) : queue'[i] = queue[i]
        /\ queue'[Len(queue) + 1] = item
    BY <1>1, AppendProperties
  <2> QED BY <2>2, <2>3
<1>3. /\ DOMAIN queue' = DOMAIN queue \cup {Len(queue) + 1}
      /\ Len(queue) + 1 \notin DOMAIN queue
  BY <1>2
<1> DEFINE new == Len(queue) + 1
<1>4. /\ \A i \in DOMAIN queue : i \in DOMAIN queue' /\ queue'[i] = queue[i]
      /\ queue'[new].task = t /\ queue'[new].resume = FALSE
      /\ \A i \in DOMAIN queue' : i \in DOMAIN queue \/ i = new
      /\ new \in DOMAIN queue' /\ new \notin DOMAIN queue
  BY <1>2, <1>3
<1> HIDE DEF new
<1>5. ASSUME NEW u \in Tasks \ {t} PROVE QueueKeeps(u)
  <2>1. (Waits(u)' => Waits(u)) /\ (Repeats(u)' => Repeats(u))
    BY <1>4 DEF Waits, Repeats, ItemAt
  <2>2. Twice(u)' => Twice(u)
    <3> SUFFICES ASSUME NEW i \in DOMAIN queue', NEW j \in DOMAIN queue', i # j,
                        ItemAt(i, u, FALSE)', ItemAt(j, u, FALSE)'
                 PROVE  Twice(u)
      BY DEF Twice
    <3>1. i \in DOMAIN queue /\ j \in DOMAIN queue
      BY <1>4 DEF ItemAt
    <3> QED BY <1>4, <3>1 DEF Twice, ItemAt
  <2>3. Queued(u) => Queued(u)'
    BY <1>4 DEF Queued
  <2> QED BY <2>1, <2>2, <2>3 DEF QueueKeeps
<1>6. (Repeats(t)' => Repeats(t)) /\ Queued(t)'
  BY <1>4 DEF Repeats, Queued, ItemAt
<1>7. ~Waits(t) => ~Twice(t)'
  <2> SUFFICES ASSUME NEW i \in DOMAIN queue', NEW j \in DOMAIN queue', i # j,
                      ItemAt(i, t, FALSE)', ItemAt(j, t, FALSE)'
               PROVE  Waits(t)
    BY DEF Twice
  <2>1. i \in DOMAIN queue \/ j \in DOMAIN queue
    BY <1>4
  <2> QED BY <1>4, <2>1 DEF Waits, ItemAt
<1> QED BY <1>5, <1>6, <1>7

LEMMA EnqueueAdds ==
    ASSUME TypeOK, NEW t \in Tasks, queue' = Append(queue, Item(t, FALSE))
    PROVE  /\ \A u \in Tasks \ {t} : QueueKeeps(u)
           /\ (Repeats(t)' => Repeats(t)) /\ (~Waits(t) => ~Twice(t)') /\ Queued(t)'
<1>1. /\ Item(t, FALSE) \in [task : Tasks, resume : BOOLEAN]
      /\ Item(t, FALSE).task = t /\ Item(t, FALSE).resume = FALSE
  BY DEF Item
<1> QED BY <1>1, AppendAdds, Zenon

\* Taking the head takes a chance of its task.
LEMMA TailTakes ==
    ASSUME TypeOK, queue # <<>>, queue' = Tail(queue), NEW t \in Tasks, Head(queue).task = t
    PROVE  /\ \A u \in Tasks \ {t} : QueueKeeps(u)
           /\ (Waits(t)' => Waits(t)) /\ (Repeats(t)' => Repeats(t)) /\ (Twice(t)' => Twice(t))
           /\ Head(queue).resume \in BOOLEAN
           /\ Head(queue).resume => Repeats(t)
           /\ ~Head(queue).resume => Waits(t) /\ (Waits(t)' => Twice(t))
<1>1. queue \in Seq([task : Tasks, resume : BOOLEAN])
  BY DEF TypeOK
<1>2. /\ Len(queue) \in Nat /\ Len(queue') = Len(queue) - 1
      /\ queue' \in Seq([task : Tasks, resume : BOOLEAN])
      /\ \A i \in 1..Len(queue') : queue'[i] = queue[i + 1]
      /\ queue[1] = Head(queue) /\ Len(queue) # 0
  BY <1>1, HeadTailProperties, LenProperties, EmptySeq
<1>3. /\ DOMAIN queue = 1..Len(queue) /\ DOMAIN queue' = 1..Len(queue')
      /\ Len(queue') \in Nat
  BY <1>1, <1>2, LenProperties
<1>4. /\ \A i \in DOMAIN queue' : i + 1 \in DOMAIN queue /\ queue'[i] = queue[i + 1] /\ i + 1 # 1
      /\ 1 \in DOMAIN queue
      /\ \A i, j \in DOMAIN queue' : i # j => i + 1 # j + 1
  BY <1>2, <1>3
<1>5. \A i \in DOMAIN queue : i = 1 \/ (i - 1 \in DOMAIN queue' /\ queue'[i - 1] = queue[i])
  <2> SUFFICES ASSUME NEW i \in DOMAIN queue, i # 1
               PROVE  i - 1 \in DOMAIN queue' /\ queue'[i - 1] = queue[i]
    OBVIOUS
  <2>1. i \in Nat /\ i - 1 \in 1..Len(queue') /\ (i - 1) + 1 = i
    BY <1>2, <1>3
  <2> QED BY <1>2, <1>3, <2>1
<1>6. queue[1].task = t /\ queue[1].resume \in BOOLEAN
  <2>1. queue[1] \in [task : Tasks, resume : BOOLEAN]
    BY <1>1, <1>2, <1>3, <1>4, ElementOfSeq
  <2> QED BY <1>2, <2>1
<1>7. ASSUME NEW u \in Tasks
      PROVE  /\ (Waits(u)' => Waits(u)) /\ (Repeats(u)' => Repeats(u)) /\ (Twice(u)' => Twice(u))
             /\ u # t => (Queued(u) => Queued(u)')
  <2>1. (Waits(u)' => Waits(u)) /\ (Repeats(u)' => Repeats(u))
    BY <1>4 DEF Waits, Repeats, ItemAt
  <2>2. Twice(u)' => Twice(u)
    BY <1>4 DEF Twice, ItemAt
  <2>3. u # t => (Queued(u) => Queued(u)')
    BY <1>5, <1>6 DEF Queued
  <2> QED BY <2>1, <2>2, <2>3
<1>8. /\ queue[1].resume => Repeats(t)
      /\ ~queue[1].resume => Waits(t) /\ (Waits(t)' => Twice(t))
  BY <1>4, <1>6 DEF Waits, Repeats, Twice, ItemAt
<1> QED BY <1>2, <1>6, <1>7, <1>8 DEF QueueKeeps

\* The boot appends the rows it listed, each to be resumed.
LEMMA ResumeAdds ==
    ASSUME TypeOK, Resume, NEW u \in Tasks
    PROVE  /\ Waits(u)' => Waits(u)
           /\ Repeats(u)' => Repeats(u) \/ u \in boot.listed
           /\ Twice(u)' => Twice(u)
           /\ Queued(u) \/ u \in boot.listed => Queued(u)'
<1>0. PICK order \in SetToSeqs(boot.listed) :
          queue' = queue \o [i \in 1..Len(order) |-> Item(order[i], TRUE)]
  BY DEF Resume
<1> DEFINE items == [i \in 1..Len(order) |-> Item(order[i], TRUE)]
           n == Len(queue)
<1>1. /\ queue \in Seq([task : Tasks, resume : BOOLEAN]) /\ boot.listed \subseteq Tasks
      /\ Len(order) \in Nat /\ \A i \in 1..Len(order) : order[i] \in boot.listed
  BY OrderType DEF TypeOK
<1>2. \A s \in boot.listed : \E i \in 1..Len(order) : order[i] = s
  <2> DEFINE S == boot.listed
             D == 1..Cardinality(S)
  <2>1. IsFiniteSet(S) /\ Cardinality(S) \in Nat
    BY <1>1, KindsAssumption, FS_Subset, FS_CardinalityType
  <2>2. order \in [D -> S] /\ \A i, j \in D : i # j => order[i] # order[j]
    BY DEF SetToSeqs
  <2>3. Len(order) = Cardinality(S)
    BY <2>1, <2>2
  <2>4. IsFiniteSet(D) /\ Cardinality(D) = Cardinality(S)
    BY <2>1, FS_Interval
  <2> HIDE DEF S, D
  <2>5. order \in Injection(D, S)
    BY <2>2 DEF Injection, IsInjective
  <2>6. order \in Surjection(D, S)
    BY <2>1, <2>4, <2>5, FS_Injection
  <2>7. \A s \in S : \E i \in D : order[i] = s
    BY <2>6 DEF Surjection
  <2> QED BY <2>3, <2>7 DEF D, S
<1>3. /\ items \in Seq([task : Tasks, resume : BOOLEAN]) /\ Len(items) = Len(order)
      /\ \A i \in 1..Len(order) : items[i].task = order[i] /\ items[i].resume = TRUE
  BY <1>1 DEF Item
<1> HIDE DEF items
<1>4. /\ n \in Nat /\ DOMAIN queue = 1..n
      /\ DOMAIN queue' = 1..(n + Len(order))
      /\ \A i \in 1..n : queue'[i] = queue[i]
      /\ \A i \in 1..(n + Len(order)) : i > n => queue'[i] = items[i - n]
  <2>1. queue' = queue \o items
    BY <1>0 DEF items
  <2>2. /\ queue \o items \in Seq([task : Tasks, resume : BOOLEAN])
        /\ Len(queue \o items) = Len(queue) + Len(items)
        /\ \A i \in 1..(Len(queue) + Len(items)) :
              (queue \o items)[i] = IF i <= Len(queue) THEN queue[i]
                                   ELSE items[i - Len(queue)]
    <3>1. queue \in Seq([task : Tasks, resume : BOOLEAN])
          /\ items \in Seq([task : Tasks, resume : BOOLEAN])
      BY <1>1, <1>3
    <3> QED BY <3>1, ConcatProperties, Zenon
  <2>3. n \in Nat /\ DOMAIN queue = 1..n /\ DOMAIN (queue \o items) = 1..(n + Len(order))
    BY <1>1, <1>3, <2>2, LenProperties
  <2>4. \A i \in 1..n : i \in 1..(n + Len(order)) /\ i <= n
    BY <1>1, <2>3
  <2>5. \A i \in 1..(n + Len(order)) : i > n => ~(i <= n)
    BY <1>1, <2>3
  <2> QED BY <1>1, <1>3, <2>1, <2>2, <2>3, <2>4, <2>5
<1> HIDE DEF n
<1>5. /\ \A i \in DOMAIN queue : i \in DOMAIN queue' /\ queue'[i] = queue[i]
      /\ \A i \in DOMAIN queue' : i \in DOMAIN queue
                                  \/ (queue'[i].resume = TRUE /\ queue'[i].task \in boot.listed)
  <2>1. \A i \in 1..(n + Len(order)) : i \in 1..n \/ (i > n /\ i - n \in 1..Len(order))
    BY <1>1, <1>4
  <2>2. \A i \in 1..n : i \in 1..(n + Len(order))
    BY <1>1, <1>4
  <2>3. ASSUME NEW i \in 1..(n + Len(order)), i > n, i - n \in 1..Len(order)
        PROVE  queue'[i].resume = TRUE /\ queue'[i].task \in boot.listed
    <3>1. queue'[i] = items[i - n]
      BY <1>4, <2>3
    <3> QED BY <1>1, <1>3, <2>3, <3>1
  <2>4. /\ DOMAIN queue = 1..n /\ DOMAIN queue' = 1..(n + Len(order))
        /\ \A i \in 1..n : queue'[i] = queue[i]
    BY <1>4
  <2>5. ASSUME NEW i \in DOMAIN queue'
        PROVE  i \in DOMAIN queue \/ (queue'[i].resume = TRUE /\ queue'[i].task \in boot.listed)
    <3>1. i \in 1..(n + Len(order))
      BY <2>4, <2>5
    <3>2. CASE i \in 1..n
      BY <2>4, <3>2
    <3>3. CASE i > n /\ i - n \in 1..Len(order)
      BY <2>3, <3>1, <3>3
    <3> QED BY <2>1, <3>1, <3>2, <3>3
  <2> QED BY <2>2, <2>4, <2>5
<1>6. ASSUME u \in boot.listed PROVE Queued(u)'
  <2>1. PICK i \in 1..Len(order) : order[i] = u
    BY <1>2, <1>6
  <2>2. n + i \in 1..(n + Len(order)) /\ n + i > n /\ (n + i) - n = i
    BY <1>1, <1>4
  <2>3. queue'[n + i] = items[i]
    BY <1>4, <2>2
  <2> QED BY <1>3, <1>4, <2>1, <2>2, <2>3 DEF Queued
<1>7. ASSUME NEW i \in DOMAIN queue', queue'[i].resume = FALSE PROVE i \in DOMAIN queue
  BY <1>5, <1>7
<1>8. /\ Waits(u)' => Waits(u)
      /\ Twice(u)' => Twice(u)
  BY <1>5, <1>7 DEF Waits, Twice, ItemAt
<1>9. Repeats(u)' => Repeats(u) \/ u \in boot.listed
  BY <1>5 DEF Repeats, ItemAt
<1>10. Queued(u) => Queued(u)'
  BY <1>5 DEF Queued
<1> QED BY <1>6, <1>8, <1>9, <1>10
\* A task that a step does not concern keeps its line.
LEMMA SameLine ==
    ASSUME NEW u \in Tasks, Line(u), QueueKeeps(u), row'[u] = row[u],
           submission'[u] = submission[u], Handled(u)' => Handled(u), boot' = boot,
           loop' = loop \/ (loop.task # u /\ loop'.task # u),
           u \in barred' => u \in barred, u \in flags => u \in flags'
    PROVE  Line(u)'
<1>1. Resumed(u)' => Resumed(u)
  BY DEF Resumed, QueueKeeps
<1>2. (Pledging(u)' => Pledging(u)) /\ (Taken(u)' => Taken(u))
      /\ \A pc : InHand(u, pc)' => InHand(u, pc)
  BY DEF Pledging, Taken, InHand
<1>3. Once(u)'
  BY <1>2 DEF Line, Once, QueueKeeps
<1>4. RowOf(u)'
  BY <1>1, <1>2 DEF Line, RowOf, QueueKeeps
<1>5. InLoop(u)'
  BY DEF Line, InLoop
<1>6. Barred(u)'
  BY <1>1, <1>2 DEF Line, Barred, Spent, QueueKeeps
<1>7. Owned(u)'
  BY DEF Line, Owned, QueueKeeps
<1> QED BY <1>3, <1>4, <1>5, <1>6, <1>7 DEF Line

\* The steps of a submission keep the lines.
LEMMA SubmitRows == ASSUME Rows, SubmitStep PROVE \A u \in Tasks : Line(u)'
<1> SUFFICES ASSUME NEW u \in Tasks PROVE Line(u)'
  OBVIOUS
<1>0. /\ Line(u) /\ TypeOK
      /\ row \in [Tasks -> {"none", "queued", "running"} \cup Terminal]
      /\ submission \in [Tasks -> {"idle", "proposed", "decided", "created", "returned"}]
      /\ handler \in [Triaged -> HandlerType]
  BY DEF Rows, Consent, TypeOK, HandlerType
<1>1. ASSUME NEW t \in Direct, ProposeDirect(t) \/ DecideDirect(t) PROVE Line(u)'
  <2>1. t \in Tasks /\ t \notin Organic
    BY KindsAssumption DEF Tasks, Triaged
  <2>2. /\ UNCHANGED <<row, handler, queue, loop, boot, barred, flags>>
        /\ u # t => submission'[u] = submission[u]
        /\ submission[t] \in {"idle", "proposed"}
        /\ submission'[t] \in {"proposed", "decided"}
    BY <1>0, <1>1, <2>1 DEF ProposeDirect, DecideDirect, triage, cancels
  <2>3. CASE u # t
    BY <1>0, <2>2, <2>3, QueueStays, SameLine DEF Handled
  <2>4. CASE u = t
    BY <1>0, <2>1, <2>2, <2>4 DEF Line, Once, RowOf, InLoop, Barred, Owned, Spent, Pledging,
          Handled, Waits, Twice, Taken, Repeats, Resumed, ItemAt, Queued, InHand
  <2> QED BY <2>3, <2>4
<1>2. ASSUME NEW t \in Tasks, CreateRow(t) PROVE Line(u)'
  <2>1. /\ UNCHANGED <<handler, queue, loop, boot, barred, flags>>
        /\ u # t => submission'[u] = submission[u] /\ row'[u] = row[u]
        /\ t \notin Organic /\ submission[t] \in {"decided", "idle"}
        /\ submission'[t] = "created" /\ row'[t] = "queued"
    BY <1>0, <1>2 DEF CreateRow, triage, cancels
  <2>2. CASE u # t
    BY <1>0, <2>1, <2>2, QueueStays, SameLine DEF Handled
  <2>3. CASE u = t
    <3>1. Pledging(u) /\ row[u] = "none" /\ ~Resumed(u) /\ loop.task # u
      BY <1>0, <2>1, <2>3 DEF Line, Once, RowOf, Pledging, Resumed, Taken
    <3>2. u \notin barred
      BY <1>0, <3>1 DEF Line, Barred
    <3> QED BY <1>0, <2>1, <2>3, <3>1, <3>2 DEF Line, Once, RowOf, InLoop, Barred, Owned,
              Pledging, Handled, Waits, Twice, Taken, Repeats, Resumed, ItemAt, InHand
  <2> QED BY <2>2, <2>3
<1>3. ASSUME NEW t \in Direct, EnqueueDirect(t) PROVE Line(u)'
  <2>1. t \in Tasks /\ t \notin Organic /\ t \notin Triaged
    BY KindsAssumption DEF Tasks, Triaged
  <2>2. /\ UNCHANGED <<row, handler, loop, boot, barred, flags>>
        /\ u # t => submission'[u] = submission[u]
        /\ submission[t] = "created" /\ submission'[t] = "returned"
    BY <1>0, <1>3, <2>1 DEF EnqueueDirect, triage, cancels, store
  <2>3. /\ \A v \in Tasks \ {t} : QueueKeeps(v)
        /\ (Repeats(t)' => Repeats(t)) /\ (~Waits(t) => ~Twice(t)') /\ Queued(t)'
    BY <1>0, <1>3, <2>1, EnqueueAdds DEF EnqueueDirect
  <2>4. CASE u # t
    BY <1>0, <2>2, <2>3, <2>4, SameLine DEF Handled
  <2>5. CASE u = t
    <3>1. Pledging(u) /\ ~Handled(u) /\ ~Waits(u) /\ ~Taken(u)
      BY <1>0, <2>1, <2>2, <2>5 DEF Line, Once, Pledging
    <3>2. ~Pledging(u)' /\ ~Handled(u)' /\ ~Taken(u)' /\ ~Twice(u)'
      BY <2>1, <2>2, <2>3, <2>5, <3>1 DEF Pledging, Handled, Taken
    <3>3. Resumed(u)' => Resumed(u)
      BY <2>2, <2>3, <2>5 DEF Resumed
    <3>4. Once(u)'
      BY <3>2 DEF Once
    <3>5. RowOf(u)' /\ InLoop(u)' /\ Owned(u)'
      BY <1>0, <2>1, <2>2, <2>3, <2>5, <3>2, <3>3 DEF Line, RowOf, InLoop, Owned
    <3>6. Barred(u)'
      BY <1>0, <2>2, <2>5, <3>1, <3>3 DEF Line, Barred, Spent, InHand
    <3> QED BY <3>4, <3>5, <3>6 DEF Line
  <2> QED BY <2>4, <2>5
<1>4. ASSUME NEW t \in Triaged, Publish(t) PROVE Line(u)'
  <2>1. /\ UNCHANGED <<row, queue, loop, boot, barred, flags>> /\ t \in Tasks
        /\ u # t => submission'[u] = submission[u] /\ (u \in Triaged => handler'[u] = handler[u])
        /\ submission[t] = IF t \in Organic THEN "idle" ELSE "created"
        /\ submission'[t] = "returned"
    BY <1>0, <1>4 DEF Publish, triage, cancels, store, Tasks
  <2>2. CASE u # t
    BY <1>0, <2>1, <2>2, QueueStays, SameLine DEF Handled
  <2>3. CASE u = t
    <3>1. Pledging(u) /\ ~Handled(u) /\ ~Waits(u) /\ ~Taken(u) /\ ~Twice(u)
      BY <1>0, <2>1, <2>3 DEF Line, Once, Pledging
    <3>2. ~Pledging(u)' /\ ~Waits(u)' /\ ~Taken(u)' /\ ~Twice(u)'
          /\ (Queued(u) <=> Queued(u)') /\ (Resumed(u) <=> Resumed(u)')
      BY <2>1, <2>3, <3>1 DEF Pledging, Waits, Taken, Twice, Queued, Resumed, Repeats, ItemAt
    <3>3. u \in Organic => row[u] = "none"
      BY <1>0, <2>1, <2>3, <3>1 DEF Line, RowOf
    <3>4. Once(u)' /\ RowOf(u)' /\ InLoop(u)' /\ Owned(u)'
      BY <1>0, <2>1, <2>3, <3>2, <3>3 DEF Line, Once, RowOf, InLoop, Owned
    <3>5. Barred(u)'
      BY <1>0, <2>1, <2>3, <3>1, <3>2 DEF Line, Barred, Spent, InHand
    <3> QED BY <3>4, <3>5 DEF Line
  <2> QED BY <2>2, <2>3
<1> QED BY <1>1, <1>2, <1>3, <1>4 DEF SubmitStep

\* The steps of a handler keep the lines.
LEMMA HandlerRows ==
    ASSUME Rows, NEW t \in Triaged, HandlerStep(t)
    PROVE  \A u \in Tasks : Line(u)'
<1> SUFFICES ASSUME NEW u \in Tasks PROVE Line(u)'
  OBVIOUS
<1>1. /\ Line(u) /\ TypeOK /\ Consent /\ t \in Tasks /\ t \notin Direct
      /\ handler \in [Triaged -> HandlerType]
  BY KindsAssumption DEF Rows, Consent, TypeOK, HandlerType, Tasks
<1>2. /\ UNCHANGED <<row, submission, loop, boot>>
      /\ \A v \in Triaged \ {t} : handler'[v] = handler[v]
      /\ EnqueueTriaged(t) \/ UNCHANGED queue
  BY <1>1, HandlerOnly
<1>3. Handled(t) /\ UNCHANGED <<flags, barred>>
  BY DEF Handled, HandlerStep, Take, Judge, Classify, Post, Answered, Expire, Decline,
        Remember, Authorise, EnqueueTriaged, At, cancels
<1>4. (Handled(u)' => Handled(u))
  BY <1>2, <1>3 DEF Handled
<1>5. CASE UNCHANGED queue
  BY <1>1, <1>2, <1>3, <1>4, <1>5, QueueStays, SameLine
<1>6. CASE EnqueueTriaged(t)
  <2>1. /\ \A v \in Tasks \ {t} : QueueKeeps(v)
        /\ (Repeats(t)' => Repeats(t)) /\ (~Waits(t) => ~Twice(t)') /\ Queued(t)'
    BY <1>1, <1>6, EnqueueAdds DEF EnqueueTriaged
  <2>2. CASE u # t
    BY <1>1, <1>2, <1>3, <1>4, <2>1, <2>2, SameLine
  <2>3. CASE u = t
    <3>1. Handled(u) /\ ~Pledging(u) /\ ~Waits(u) /\ ~Taken(u)
      BY <1>1, <1>3, <2>3 DEF Line, Once
    <3>2. ~Pledging(u)' /\ ~Taken(u)' /\ ~Twice(u)'
      BY <1>2, <2>1, <2>3, <3>1 DEF Pledging, Taken
    <3>3. ~Handled(u)'
      BY <1>1, <1>6, <2>3 DEF EnqueueTriaged, Return, NoHandler, Handled
    <3>4. Resumed(u)' => Resumed(u)
      BY <1>2, <2>1, <2>3 DEF Resumed
    <3>5. u \in Organic => row[u] = "none"
      BY <1>1, <3>1 DEF Line, RowOf
    <3>6. Once(u)' /\ RowOf(u)' /\ InLoop(u)' /\ Owned(u)'
      BY <1>1, <1>2, <2>1, <2>3, <3>2, <3>3, <3>4, <3>5 DEF Line, Once, RowOf, InLoop, Owned
    <3>7. Barred(u)'
      BY <1>1, <1>2, <1>3, <3>1, <3>4 DEF Line, Barred, Spent, InHand
    <3> QED BY <3>6, <3>7 DEF Line
  <2> QED BY <2>2, <2>3
<1> QED BY <1>2, <1>5, <1>6

\* The steps of users keep the lines: a flag bars a task only while its chance
\* is still ahead.
LEMMA UserRows == ASSUME Rows, UserStep PROVE \A u \in Tasks : Line(u)'
<1> SUFFICES ASSUME NEW u \in Tasks PROVE Line(u)'
  OBVIOUS
<1>0. /\ Line(u) /\ TypeOK /\ handler \in [Triaged -> HandlerType]
  BY DEF Rows, Consent, TypeOK, HandlerType
<1>1. ASSUME NEW t \in Triaged, Deliver(t) \/ \E answer \in Answers : Respond(t, answer)
      PROVE  Line(u)'
  <2>1. /\ UNCHANGED <<row, submission, queue, loop, boot, barred, flags>>
        /\ u \in Triaged => handler'[u].pc = handler[u].pc
    BY <1>0, <1>1 DEF Deliver, Respond, store, cancels, HandlerType
  <2> QED BY <1>0, <2>1, QueueStays, SameLine DEF Handled
<1>2. ASSUME NEW k \in Topics, RuleGone(k) PROVE Line(u)'
  BY <1>0, <1>2, QueueStays, SameLine DEF RuleGone, triage, cancels, Handled
<1>3. ASSUME NEW t \in Unwanted, ReadForCancel(t) PROVE Line(u)'
  BY <1>0, <1>3, QueueStays, SameLine DEF ReadForCancel, triage, store, Handled
<1>4. ASSUME NEW t \in Unwanted, FlagCancel(t) PROVE Line(u)'
  <2>1. /\ UNCHANGED <<row, submission, handler, queue, loop, boot>>
        /\ flags' = flags \cup {t}
        /\ barred' = barred \/ (barred' = barred \cup {t} /\ row[t] = "queued"
                                /\ ~(loop.task = t /\ loop.pc = "starting"))
    BY <1>4 DEF FlagCancel, store, triage
  <2>2. CASE u # t \/ barred' = barred
    BY <1>0, <2>1, <2>2, QueueStays, SameLine DEF Handled
  <2>3. CASE u = t /\ row[u] = "queued" /\ ~(loop.task = u /\ loop.pc = "starting")
    <3>1. (Resumed(u)' => Resumed(u)) /\ ~Resumed(u)
      BY <1>0, <2>1, <2>3, QueueStays DEF Line, RowOf, Resumed
    <3>2. Once(u)' /\ RowOf(u)' /\ InLoop(u)' /\ Owned(u)'
      BY <1>0, <2>1, QueueStays DEF Line, Once, RowOf, InLoop, Owned, Pledging, Handled, Taken,
            Resumed, InHand, QueueKeeps
    <3>3. Barred(u)'
      BY <2>1, <2>3, <3>1 DEF Barred, InHand
    <3> QED BY <3>2, <3>3 DEF Line
  <2> QED BY <2>1, <2>2, <2>3
<1>5. ASSUME NEW t \in Tasks, AnswerUser(t) PROVE Line(u)'
  <2>1. /\ UNCHANGED <<row, submission, handler, queue, boot, barred, flags>>
        /\ loop.task = t /\ loop.pc = "asking" /\ loop'.task = t /\ loop'.pc = "streaming"
        /\ loop'.resume = loop.resume
    BY <1>0, <1>5 DEF AnswerUser, Step, InHand, Quiet, store, triage, cancels, TypeOK
  <2>2. CASE u # t
    BY <1>0, <2>1, <2>2, QueueStays, SameLine DEF Handled
  <2>3. CASE u = t
    <3>1. Once(u)' /\ RowOf(u)' /\ InLoop(u)' /\ Owned(u)'
      BY <1>0, <2>1, <2>3, QueueStays DEF Line, Once, RowOf, InLoop, Owned, Pledging, Handled,
            Taken, Resumed, InHand, QueueKeeps
    <3>2. Barred(u)'
      BY <1>0, <2>1, <2>3, QueueStays DEF Line, Barred, Spent, Pledging, Handled, Resumed,
            InHand, QueueKeeps
    <3> QED BY <3>1, <3>2 DEF Line
  <2> QED BY <2>2, <2>3
<1> QED BY <1>1, <1>2, <1>3, <1>4, <1>5 DEF UserStep
\* What the loop has in hand stays in hand, with its row, at another place.
RunPcs == {"streaming", "asking", "stopping", "concluding", "finishing"}

LEMMA StepLine ==
    ASSUME NEW t \in Tasks, Line(t), loop.task = t, loop'.task = t, loop'.resume = loop.resume,
           loop'.pc \notin {"idle", "registering", "noting"},
           loop'.pc \in RunPcs => loop.pc \in RunPcs,
           loop'.pc = "starting" => t \notin flags,
           UNCHANGED <<row, submission, handler, queue, boot, barred, flags>>
    PROVE  Line(t)'
<1>1. Once(t)' /\ RowOf(t)' /\ Owned(t)'
  BY QueueStays DEF Line, Once, RowOf, Owned, Pledging, Handled, Taken, Resumed, InHand,
        QueueKeeps
<1>2. InLoop(t)'
  BY DEF Line, InLoop, RunPcs
<1>3. t \in barred => t \in flags
  BY DEF Line, Barred, Spent
<1>4. Barred(t)'
  BY <1>3, QueueStays DEF Line, Barred, Resumed, InHand, QueueKeeps
<1> QED BY <1>1, <1>2, <1>4 DEF Line

\* The loop lets go of a task whose row does not say running.
LEMMA LeaveLine ==
    ASSUME NEW t \in Tasks, Line(t), loop.task = t, loop' = IdleLoop,
           row'[t] \notin {"none", "queued", "running"},
           t \in barred => row'[t] \in {"failed", "cancelled"},
           UNCHANGED <<submission, handler, queue, boot, barred>>
    PROVE  Line(t)'
<1>1. loop'.task # t /\ ~Taken(t)' /\ \A pc : ~InHand(t, pc)'
  BY NoneAssumption DEF IdleLoop, Taken, InHand
<1>2. (Resumed(t)' => Resumed(t)) /\ Pledging(t)' = Pledging(t) /\ Handled(t)' = Handled(t)
      /\ (Waits(t)' => Waits(t)) /\ (Twice(t)' => Twice(t))
  BY <1>1, QueueStays DEF Resumed, Pledging, Handled, QueueKeeps
<1>3. Once(t)'
  BY <1>1, <1>2 DEF Line, Once
<1>4. Taken(t) \/ row[t] \notin {"none", "queued"}
  BY DEF Taken, Line, RowOf, Resumed
<1>5. /\ ~(Pledging(t) /\ submission[t] # "created")
      /\ ~(t \in Organic /\ (Handled(t) \/ Waits(t)))
  BY <1>4 DEF Line, Once, RowOf
<1>6. RowOf(t)' /\ InLoop(t)' /\ Owned(t)'
  BY <1>1, <1>2, <1>5 DEF RowOf, InLoop, Owned
<1>7. ASSUME t \in barred PROVE Spent(t)'
  <2>1. Taken(t)
    BY <1>7 DEF Line, Barred, Resumed, Taken
  <2> QED BY <1>1, <1>2, <2>1 DEF Line, Once, Spent
<1>8. Barred(t)'
  BY <1>1, <1>2, <1>7 DEF Line, Barred
<1> QED BY <1>3, <1>6, <1>8 DEF Line

\* The steps of the loop keep the lines.
LEMMA LoopRows ==
    ASSUME Rows, NEW t \in Tasks, LoopStep(t)
    PROVE  \A u \in Tasks : Line(u)'
<1>0. /\ \A u \in Tasks : Line(u)
      /\ TypeOK /\ Consent
      /\ row \in [Tasks -> {"none", "queued", "running"} \cup Terminal]
      /\ loop \in LoopType
  BY DEF Rows, Consent, TypeOK, LoopType
<1>1. CASE Dequeue(t)
  <2>1. /\ UNCHANGED <<row, submission, handler, boot, barred, flags>>
        /\ queue # <<>> /\ queue' = Tail(queue) /\ Head(queue).task = t
        /\ loop.pc = "idle" /\ loop'.task = t /\ loop'.resume = Head(queue).resume
        /\ loop'.pc = IF t \in Organic /\ ~Head(queue).resume THEN "registering" ELSE "arrived"
    BY <1>1 DEF Dequeue, store, triage, cancels
  <2>2. \A u \in Tasks : loop.task # u
    BY <1>0, <2>1 DEF Line, InLoop
  <2>3. /\ \A u \in Tasks \ {t} : QueueKeeps(u)
        /\ (Waits(t)' => Waits(t)) /\ (Repeats(t)' => Repeats(t)) /\ (Twice(t)' => Twice(t))
        /\ Head(queue).resume \in BOOLEAN
        /\ Head(queue).resume => Repeats(t)
        /\ ~Head(queue).resume => Waits(t) /\ (Waits(t)' => Twice(t))
    BY <1>0, <2>1, TailTakes
  <2>4. ASSUME NEW u \in Tasks, u # t PROVE Line(u)'
    BY <1>0, <2>1, <2>2, <2>3, <2>4, SameLine DEF Handled
  <2>5. Line(t)'
    <3>1. (Resumed(t)' => Resumed(t)) /\ Pledging(t)' = Pledging(t) /\ Handled(t)' = Handled(t)
      BY <2>1, <2>2, <2>3 DEF Resumed, Pledging, Handled
    <3>2. CASE Head(queue).resume
      <4>1. Resumed(t) /\ ~Taken(t)'
        BY <2>1, <2>3, <3>2 DEF Resumed, Taken
      <4>2. Once(t)'
        BY <1>0, <2>3, <3>1, <4>1 DEF Line, Once
      <4>3. RowOf(t)' /\ InLoop(t)' /\ Owned(t)'
        BY <1>0, <2>1, <2>3, <3>1, <3>2, <4>1 DEF Line, RowOf, InLoop, Owned, InHand
      <4>4. Barred(t)'
        BY <1>0, <2>1, <4>1 DEF Line, Barred
      <4> QED BY <4>2, <4>3, <4>4 DEF Line
    <3>3. CASE ~Head(queue).resume
      <4>1. Waits(t) /\ ~Waits(t)' /\ ~Twice(t)' /\ ~Pledging(t) /\ ~Handled(t)
        BY <1>0, <2>3, <3>3 DEF Line, Once
      <4>2. Once(t)'
        BY <3>1, <4>1 DEF Once
      <4>3. RowOf(t)' /\ InLoop(t)' /\ Owned(t)'
        BY <1>0, <2>1, <2>3, <3>1, <3>3, <4>1 DEF Line, RowOf, InLoop, Owned, InHand
      <4>4. Barred(t)'
        BY <1>0, <2>1, <3>1, <3>3, <4>1 DEF Line, Barred, Spent, InHand
      <4> QED BY <4>2, <4>3, <4>4 DEF Line
    <3> QED BY <2>3, <3>2, <3>3
  <2> QED BY <2>4, <2>5
<1>2. CASE Arrive(t) \/ Admit(t) \/ SeeFlag(t) \/ AskUser(t) \/ StreamEnds(t) \/ Raise(t)
          \/ Conclude(t)
  <2>1. /\ UNCHANGED <<row, submission, handler, queue, boot, barred, flags>>
        /\ loop.task = t /\ loop'.task = t /\ loop'.resume = loop.resume
        /\ loop'.pc \notin {"idle", "registering", "noting"}
        /\ loop'.pc \in RunPcs => loop.pc \in RunPcs
        /\ loop'.pc = "starting" => t \notin flags
    BY <1>0, <1>2 DEF Arrive, Admit, SeeFlag, AskUser, StreamEnds, Raise, Conclude, Step,
          InHand, Quiet, store, triage, cancels, LoopType, RunPcs
  <2>2. Line(t)'
    BY <1>0, <2>1, StepLine
  <2> QED BY <1>0, <2>1, <2>2, QueueStays, SameLine DEF Handled
<1>3. CASE Note(t) \/ Finish(t) \/ Fail(t) \/ Drop(t) \/ (Stop(t) /\ loop.resume)
  <2>1. /\ UNCHANGED <<submission, handler, queue, boot, barred>>
        /\ loop.task = t /\ loop' = IdleLoop
        /\ \A u \in Tasks \ {t} : row'[u] = row[u] /\ (u \in flags => u \in flags')
    BY <1>0, <1>3 DEF Note, Finish, Fail, Drop, Stop, Mark, InHand, triage, cancels
  <2>2. /\ Note(t) => row'[t] = row[t] /\ row[t] = "cancelled"
        /\ Finish(t) => row'[t] = "done" /\ row[t] = "running"
        /\ Fail(t) => row'[t] = "failed"
        /\ Drop(t) \/ Stop(t) => row'[t] = "cancelled"
    BY <1>0 DEF Note, Finish, Fail, Drop, Stop, Mark, InHand, Line, InLoop
  <2>3. /\ row'[t] \notin {"none", "queued", "running"}
        /\ t \in barred => row'[t] \in {"failed", "cancelled"}
    BY <1>0, <1>3, <2>2 DEF Line, Barred
  <2>4. Line(t)'
    BY <1>0, <2>1, <2>3, LeaveLine
  <2>5. \A u \in Tasks \ {t} : loop.task # u /\ loop'.task # u
    BY <2>1, NoneAssumption DEF IdleLoop
  <2> QED BY <1>0, <2>1, <2>4, <2>5, QueueStays, SameLine DEF Handled
<1>4. CASE Register(t) \/ Start(t) \/ (Stop(t) /\ ~loop.resume)
  <2>1. /\ UNCHANGED <<submission, handler, queue, boot, barred>>
        /\ loop.task = t /\ loop'.task = t /\ loop'.resume = loop.resume
        /\ \A u \in Tasks \ {t} : row'[u] = row[u] /\ (u \in flags => u \in flags')
    BY <1>0, <1>4 DEF Register, Start, Stop, Mark, InHand, triage, cancels, LoopType
  <2>2. /\ Register(t) => row'[t] = "queued" /\ loop.pc = "registering" /\ loop'.pc = "arrived"
        /\ Start(t) => row'[t] = "running" /\ loop.pc = "starting" /\ loop'.pc = "streaming"
        /\ Stop(t) => row'[t] = "cancelled" /\ loop.pc = "stopping" /\ (~loop.resume => loop'.pc = "noting")
    BY <1>0 DEF Register, Start, Stop, Mark, InHand, LoopType
  <2>3. (Resumed(t)' <=> Resumed(t)) /\ Pledging(t)' = Pledging(t) /\ Handled(t)' = Handled(t)
        /\ (Waits(t)' <=> Waits(t)) /\ (Twice(t)' => Twice(t)) /\ (Taken(t)' <=> Taken(t))
    BY <2>1, QueueStays DEF Resumed, Pledging, Handled, QueueKeeps, Taken
  <2>4. t \notin barred
    BY <1>0, <1>4, <2>1, <2>2 DEF Line, Barred, InLoop, RowOf, InHand
  <2>5. Taken(t) \/ row[t] \notin {"none", "queued"}
    BY <1>0, <2>1 DEF Taken, Line, RowOf, Resumed
  <2>6. /\ ~(Pledging(t) /\ submission[t] # "created")
        /\ ~(t \in Organic /\ (Handled(t) \/ Waits(t)))
    BY <1>0, <2>5 DEF Line, Once, RowOf
  <2>7. Register(t) => ~Resumed(t)
    BY <1>0, <2>1, <2>2 DEF Line, RowOf, InLoop, InHand
  <2>8. Once(t)'
    BY <1>0, <2>3 DEF Line, Once
  <2>9. RowOf(t)'
    BY <1>4, <2>1, <2>2, <2>3, <2>6, <2>7 DEF RowOf, InHand
  <2>10. InLoop(t)' /\ Owned(t)' /\ Barred(t)'
    BY <1>4, <2>1, <2>2, <2>4 DEF InLoop, Owned, Barred
  <2>11. Line(t)'
    BY <2>8, <2>9, <2>10 DEF Line
  <2> QED BY <1>0, <2>1, <2>11, QueueStays, SameLine DEF Handled
<1> QED BY <1>1, <1>2, <1>3, <1>4 DEF LoopStep

\* Listing, resuming and restarting keep the lines.
LEMMA BootRows == ASSUME Rows, BootStep \/ Restart PROVE \A u \in Tasks : Line(u)'
<1> SUFFICES ASSUME NEW u \in Tasks PROVE Line(u)'
  OBVIOUS
<1>0. /\ Line(u) /\ TypeOK
      /\ submission \in [Tasks -> {"idle", "proposed", "decided", "created", "returned"}]
  BY DEF Rows, Consent, TypeOK
<1>1. CASE ListRows
  <2>1. /\ UNCHANGED <<row, submission, handler, queue, loop, barred, flags>>
        /\ boot.pc = "booting" /\ boot'.pc = "listed"
        /\ boot'.listed = {v \in Tasks : row[v] = "running"}
    BY <1>1 DEF ListRows, Interrupted, store, triage, cancels
  <2>2. Resumed(u)' => Resumed(u) \/ row[u] = "running"
    BY <2>1, QueueStays DEF Resumed, QueueKeeps
  <2>3. Once(u)' /\ InLoop(u)' /\ Owned(u)'
    BY <1>0, <2>1, QueueStays DEF Line, Once, InLoop, Owned, Pledging, Handled, Taken, QueueKeeps
  <2>4. RowOf(u)' /\ Barred(u)'
    BY <1>0, <2>1, <2>2, QueueStays DEF Line, RowOf, Barred, Spent, Pledging, Handled, InHand,
          QueueKeeps
  <2> QED BY <2>3, <2>4 DEF Line
<1>2. CASE Resume
  <2>1. /\ UNCHANGED <<row, submission, handler, loop, barred, flags>>
        /\ boot.pc = "listed" /\ boot'.pc = "on" /\ boot'.listed = {}
    BY <1>2 DEF Resume, store, triage, cancels
  <2>2. /\ Waits(u)' => Waits(u)
        /\ Repeats(u)' => Repeats(u) \/ u \in boot.listed
        /\ Twice(u)' => Twice(u)
        /\ Queued(u) \/ u \in boot.listed => Queued(u)'
    BY <1>0, <1>2, ResumeAdds
  <2>3. Resumed(u)' => Resumed(u)
    BY <2>1, <2>2 DEF Resumed
  <2>4. Once(u)' /\ InLoop(u)' /\ Owned(u)'
    BY <1>0, <2>1, <2>2 DEF Line, Once, InLoop, Owned, Pledging, Handled, Taken
  <2>5. RowOf(u)' /\ Barred(u)'
    BY <1>0, <2>1, <2>2, <2>3 DEF Line, RowOf, Barred, Spent, Pledging, Handled, InHand
  <2> QED BY <2>4, <2>5 DEF Line
<1>3. CASE Restart
  <2>1. /\ UNCHANGED <<row, barred>> /\ queue' = <<>> /\ loop'.task # u
        /\ boot'.listed = {} /\ boot'.pc = "booting"
        /\ submission'[u] = IF submission[u] = "idle" THEN "idle" ELSE "returned"
        /\ u \in Triaged => handler'[u].pc = "none"
    BY <1>3, NoneAssumption DEF Restart, NoHandler, IdleLoop, store
  <2>2. ~Waits(u)' /\ ~Repeats(u)' /\ ~Twice(u)' /\ ~Taken(u)' /\ ~Handled(u)' /\ ~Resumed(u)'
        /\ \A pc : ~InHand(u, pc)'
    BY <2>1 DEF Waits, Repeats, Twice, Taken, Handled, Resumed, InHand, ItemAt
  <2>3. Pledging(u)' => Pledging(u) /\ submission[u] # "created"
    BY <1>0, <2>1 DEF Pledging
  <2>4. Once(u)' /\ RowOf(u)' /\ InLoop(u)' /\ Owned(u)'
    BY <1>0, <2>1, <2>2, <2>3 DEF Line, Once, RowOf, InLoop, Owned
  <2>5. Barred(u)'
    BY <1>0, <2>1, <2>2, <2>3 DEF Line, RowOf, Barred, Spent
  <2> QED BY <2>4, <2>5 DEF Line
<1> QED BY <1>1, <1>2, <1>3 DEF BootStep

LEMMA RowsKept == Spec => []Rows
<1>1. Init => Rows
  <2> SUFFICES ASSUME Init, NEW t \in Tasks PROVE Line(t)
    BY InitConsent DEF Rows
  <2>1. /\ row[t] = "none" /\ submission[t] = "idle" /\ queue = <<>> /\ loop.task # t
        /\ boot.listed = {} /\ barred = {} /\ (t \in Triaged => handler[t].pc = "none")
    BY NoneAssumption DEF Init, IdleLoop, NoHandler
  <2>2. ~Waits(t) /\ ~Repeats(t) /\ ~Twice(t) /\ ~Taken(t) /\ ~Handled(t) /\ ~Resumed(t)
        /\ \A pc : ~InHand(t, pc)
    BY <2>1 DEF Waits, Repeats, Twice, Taken, Handled, Resumed, InHand, ItemAt
  <2> QED BY <2>1, <2>2 DEF Line, Once, RowOf, InLoop, Barred, Owned
<1>2. Rows /\ [Next]_vars => Rows'
  <2> SUFFICES ASSUME Rows, [Next]_vars PROVE Rows'
    OBVIOUS
  <2>1. Consent'
    BY ConsentKept DEF Rows
  <2>2. CASE UNCHANGED vars
    <3>1. \A u \in Tasks : Line(u)'
      BY <2>2, QueueStays, SameLine DEF vars, Rows, Handled
    <3> QED BY <2>1, <3>1 DEF Rows
  <2>3. CASE Next
    <3>1. \A u \in Tasks : Line(u)'
      BY <2>3, SubmitRows, HandlerRows, UserRows, LoopRows, BootRows DEF Next
    <3> QED BY <2>1, <3>1 DEF Rows, Tasks
  <2> QED BY <2>2, <2>3
<1> QED BY <1>1, <1>2, PTL DEF Spec

\* A row that says running is somebody's, for any tasks, also after a restart
\* at any step: the loop's, the queue's or the boot's.
THEOREM RunningHasAnOwner == Spec => []RunningIsOwned
<1>1. Rows => RunningIsOwned
  BY DEF Rows, Line, Owned, RunningIsOwned
<1> QED BY RowsKept, <1>1, PTL

\* What was cancelled before it started never starts, for any tasks and any
\* number of cancellations, deferrals and restarts.
THEOREM CancelledNeverStarts == Spec => []NeverStarts
<1>1. Rows => NeverStarts
  BY DEF Rows, Consent, TypeOK, Line, Barred, NeverStarts
<1> QED BY RowsKept, <1>1, PTL


-----------------------------------------------------------------------------
(* The paper trail: the refinement *)

\* Its one chance is still before the task.
Ready(t) == submission[t] = "created" \/ Handled(t) \/ Waits(t)

\* The row of a task that has yet to start says queued; an organic one has none
\* until the loop takes it.
Fresh(t) ==
    /\ t \notin Organic /\ Ready(t) => row[t] = "queued"
    /\ Taken(t) =>
        /\ loop.pc \in {"arrived", "admitting", "dropping", "starting"} => row[t] = "queued"
        /\ loop.pc = "failing" => row[t] \in {"queued", "running"}

\* The inductive invariant of the refinement.
Filed == Rows /\ \A t \in Tasks : Fresh(t)

LEMMA SameFresh ==
    ASSUME NEW u \in Tasks, Fresh(u), row'[u] = row[u],
           u \in Organic \/ (Ready(u)' => Ready(u)),
           Taken(u)' => Taken(u) /\ loop'.pc = loop.pc
    PROVE  Fresh(u)'
BY DEF Fresh

\* A task in hand has no other chance to start.
LEMMA InHandOnly ==
    ASSUME Filed, NEW t \in Tasks, loop.task = t
    PROVE  t \in Organic \/ ~Ready(t)
<1>1. Once(t) /\ RowOf(t) /\ Fresh(t)
  BY DEF Filed, Rows, Line
<1>2. CASE loop.resume
  BY <1>1, <1>2 DEF RowOf, Fresh, Resumed
<1>3. CASE ~loop.resume
  BY <1>1, <1>3 DEF Once, Taken, Ready, Pledging
<1> QED BY <1>2, <1>3

LEMMA SubmitFresh == ASSUME Filed, SubmitStep, NEW u \in Tasks PROVE Fresh(u)'
<1>0. /\ Fresh(u) /\ Line(u) /\ TypeOK
      /\ submission \in [Tasks -> {"idle", "proposed", "decided", "created", "returned"}]
      /\ row \in [Tasks -> {"none", "queued", "running"} \cup Terminal]
  BY DEF Filed, Rows, Consent, TypeOK
<1> USE DEF store, triage, cancels
<1>1. ASSUME NEW t \in Direct, ProposeDirect(t) \/ DecideDirect(t) PROVE Fresh(u)'
  <2>1. /\ UNCHANGED <<row, handler, queue, loop>>
        /\ submission'[u] = "created" => submission[u] = "created"
    BY <1>0, <1>1 DEF ProposeDirect, DecideDirect
  <2> QED BY <1>0, <2>1, QueueStays, SameFresh DEF Ready, Handled, Taken
<1>2. ASSUME NEW t \in Direct, EnqueueDirect(t) PROVE Fresh(u)'
  <2>1. /\ UNCHANGED <<row, handler, loop>> /\ submission[t] = "created" /\ t \in Tasks
        /\ submission' = [submission EXCEPT ![t] = "returned"]
        /\ queue' = Append(queue, Item(t, FALSE))
    BY <1>2 DEF EnqueueDirect, Tasks
  <2>2. Ready(u)' => Ready(u)
    <3>1. u # t => QueueKeeps(u) /\ submission'[u] = submission[u]
      BY <1>0, <2>1, EnqueueAdds
    <3> QED BY <2>1, <3>1 DEF Ready, Handled, QueueKeeps
  <2> QED BY <1>0, <2>1, <2>2, SameFresh DEF Taken
<1>3. ASSUME NEW t \in Tasks, CreateRow(t) PROVE Fresh(u)'
  <2>1. /\ UNCHANGED <<handler, queue, loop>>
        /\ u # t => row'[u] = row[u] /\ submission'[u] = submission[u]
        /\ row'[t] = "queued" /\ Pledging(t)
    BY <1>0, <1>3 DEF CreateRow, Pledging
  <2>2. CASE u = t
    BY <1>0, <2>1, <2>2 DEF Line, Once, Fresh, Taken
  <2>3. CASE u # t
    BY <1>0, <2>1, <2>3, QueueStays, SameFresh DEF Ready, Handled, Taken
  <2> QED BY <2>2, <2>3
<1>4. ASSUME NEW t \in Triaged, Publish(t) PROVE Fresh(u)'
  <2>1. /\ UNCHANGED <<row, queue, loop>>
        /\ t \in Organic \/ submission[t] = "created"
        /\ submission' = [submission EXCEPT ![t] = "returned"]
        /\ u # t /\ u \in Triaged => handler'[u] = handler[u]
    BY <1>0, <1>4 DEF Publish, TypeOK
  <2>2. u \in Organic \/ (Ready(u)' => Ready(u))
    <3>1. t \in Tasks /\ (u # t => submission'[u] = submission[u])
      BY <2>1 DEF Tasks
    <3>2. Waits(u)' => Waits(u)
      BY <2>1, QueueStays
    <3> QED BY <2>1, <3>1, <3>2 DEF Ready, Handled
  <2> QED BY <1>0, <2>1, <2>2, SameFresh DEF Taken
<1> QED BY <1>1, <1>2, <1>3, <1>4 DEF SubmitStep

LEMMA HandlerFresh ==
    ASSUME Filed, NEW t \in Triaged, HandlerStep(t), NEW u \in Tasks PROVE Fresh(u)'
<1>0. Fresh(u) /\ Consent /\ TypeOK
  BY DEF Filed, Rows, Consent
<1>1. /\ UNCHANGED <<row, submission, loop>> /\ t \in Tasks
      /\ \A v \in Triaged \ {t} : handler'[v] = handler[v]
      /\ EnqueueTriaged(t) \/ UNCHANGED queue
  BY <1>0, HandlerOnly
<1>2. handler[t].pc # "none"
  BY DEF HandlerStep, Take, Judge, Classify, Post, Answered, Expire, Decline, Remember,
        Authorise, EnqueueTriaged, At
<1>3. u # t => (Waits(u)' => Waits(u))
  <2>1. CASE EnqueueTriaged(t)
    BY <1>0, <1>1, <2>1, EnqueueAdds DEF EnqueueTriaged, QueueKeeps
  <2>2. CASE UNCHANGED queue
    BY <2>2, QueueStays
  <2> QED BY <1>1, <2>1, <2>2
<1>4. Ready(u)' => Ready(u)
  BY <1>1, <1>2, <1>3 DEF Ready, Handled
<1> QED BY <1>0, <1>1, <1>4, SameFresh DEF Taken

LEMMA UserFresh == ASSUME Filed, UserStep, NEW u \in Tasks PROVE Fresh(u)'
<1>0. Fresh(u) /\ TypeOK /\ handler \in [Triaged -> HandlerType]
  BY DEF Filed, Rows, Consent, TypeOK, HandlerType
<1>1. ASSUME NEW t \in Tasks, AnswerUser(t) PROVE Fresh(u)'
  <2>1. UNCHANGED <<row, submission, handler, queue>>
        /\ loop.task = t /\ loop'.task = t /\ loop'.resume = loop.resume /\ loop'.pc = "streaming"
    BY <1>0, <1>1 DEF AnswerUser, Step, InHand, Quiet, store, triage, TypeOK
  <2>2. Ready(u)' => Ready(u)
    BY <2>1, QueueStays DEF Ready, Handled
  <2> QED BY <1>0, <2>1, <2>2 DEF Fresh
<1>2. ASSUME UNCHANGED <<row, submission, queue, loop>>,
             u \in Triaged => handler'[u].pc = handler[u].pc
      PROVE  Fresh(u)'
  BY <1>0, <1>2, QueueStays, SameFresh DEF Ready, Handled, Taken
<1>3. ASSUME NEW t \in Triaged, Deliver(t) PROVE Fresh(u)'
  <2>1. u \in Triaged => handler'[u].pc = handler[u].pc
    BY <1>0, <1>3 DEF Deliver, HandlerType
  <2> QED BY <1>2, <1>3, <2>1 DEF Deliver, store
<1> QED BY <1>1, <1>2, <1>3 DEF UserStep, Respond, RuleGone, ReadForCancel, FlagCancel,
      triage, store

LEMMA LoopFresh ==
    ASSUME Filed, NEW t \in Tasks, LoopStep(t), NEW u \in Tasks PROVE Fresh(u)'
<1>0. /\ Fresh(u) /\ Fresh(t) /\ Line(t) /\ Consent /\ TypeOK /\ loop \in LoopType
      /\ row \in [Tasks -> {"none", "queued", "running"} \cup Terminal]
  BY DEF Filed, Rows, Consent, TypeOK, LoopType
<1>1. /\ loop'.task \in {t, None} /\ UNCHANGED <<submission, handler>>
      /\ u # t => row'[u] = row[u]
  BY <1>0, LoopFrame DEF triage
<1>2. Waits(u)' => Waits(u)
  <2>1. CASE Dequeue(t)
    BY <1>0, <2>1, TailTakes DEF Dequeue, QueueKeeps
  <2>2. CASE UNCHANGED queue
    BY <2>2, QueueStays
  <2> QED BY <2>1, <2>2 DEF LoopStep, Register, Arrive, Admit, Start, SeeFlag, AskUser,
        StreamEnds, Raise, Conclude, Finish, Fail, Drop, Stop, Note, Mark, Quiet
<1>3. Ready(u)' => Ready(u)
  BY <1>1, <1>2 DEF Ready, Handled
<1>4. CASE u # t
  BY <1>0, <1>1, <1>3, <1>4, NoneAssumption, SameFresh DEF Taken
<1>5. CASE u = t /\ Dequeue(t)
  <2>1. /\ UNCHANGED row /\ loop'.resume = Head(queue).resume
        /\ loop'.pc = IF t \in Organic /\ ~Head(queue).resume THEN "registering" ELSE "arrived"
        /\ ~Head(queue).resume => Waits(t)
    BY <1>0, <1>5, TailTakes DEF Dequeue, store
  <2> QED BY <1>0, <1>3, <1>5, <2>1 DEF Fresh, Taken, Ready
<1>6. CASE u = t /\ ~Dequeue(t)
  <2>1. loop.task = t
    BY <1>6 DEF LoopStep, Register, Arrive, Admit, Start, SeeFlag, AskUser, StreamEnds, Raise,
          Conclude, Finish, Fail, Drop, Stop, Note, Step, InHand
  <2>2. t \in Organic \/ ~Ready(t)'
    BY <1>3, <1>6, <2>1, InHandOnly
  <2>3. CASE Arrive(t) \/ Admit(t) \/ SeeFlag(t) \/ AskUser(t) \/ StreamEnds(t) \/ Raise(t)
             \/ Conclude(t)
    <3>1. /\ UNCHANGED row /\ loop'.resume = loop.resume
          /\ loop'.pc \in {"dropping", "admitting", "starting"} =>
                loop.pc \in {"arrived", "admitting"}
          /\ loop'.pc = "failing" => loop.pc \in {"admitting", "streaming"}
          /\ loop'.pc # "arrived"
      BY <1>0, <2>3 DEF Arrive, Admit, SeeFlag, AskUser, StreamEnds, Raise, Conclude, Step,
            InHand, Quiet, store, LoopType
    <3>2. loop.pc = "streaming" => row[t] = "running"
      BY <1>0, <2>1 DEF Line, InLoop
    <3> QED BY <1>0, <1>6, <2>1, <2>2, <3>1, <3>2 DEF Fresh, Taken
  <2>4. CASE Register(t)
    BY <1>0, <1>6, <2>2, <2>4 DEF Register, Mark, Fresh, LoopType
  <2>5. CASE Start(t) \/ Finish(t) \/ Fail(t) \/ Drop(t) \/ Stop(t) \/ Note(t)
    <3>1. loop'.task = None \/ loop'.pc \in {"streaming", "noting"}
      BY <1>0, <2>5 DEF Start, Finish, Fail, Drop, Stop, Note, Mark, IdleLoop, LoopType
    <3> QED BY <1>6, <2>2, <3>1, NoneAssumption DEF Fresh, Taken
  <2> QED BY <1>6, <2>3, <2>4, <2>5 DEF LoopStep
<1> QED BY <1>4, <1>5, <1>6

LEMMA BootFresh == ASSUME Filed, BootStep \/ Restart, NEW u \in Tasks PROVE Fresh(u)'
<1>0. Fresh(u) /\ TypeOK
  BY DEF Filed, Rows, Consent
<1>1. CASE ListRows
  BY <1>0, <1>1, QueueStays, SameFresh DEF ListRows, store, triage, Ready, Handled, Taken
<1>2. CASE Resume
  <2>1. (Waits(u)' => Waits(u)) /\ UNCHANGED <<row, submission, handler, loop>>
    BY <1>0, <1>2, ResumeAdds DEF Resume, store, triage
  <2> QED BY <1>0, <2>1, SameFresh DEF Ready, Handled, Taken
<1>3. CASE Restart
  <2>1. ~Ready(u)' /\ ~Taken(u)'
    BY <1>3, NoneAssumption DEF Restart, Ready, Handled, Waits, Taken, NoHandler, IdleLoop
  <2> QED BY <2>1 DEF Fresh
<1> QED BY <1>1, <1>2, <1>3 DEF BootStep

LEMMA AlwaysFiled == Spec => []Filed
<1>1. Init /\ Rows => Filed
  BY NoneAssumption
     DEF Init, Filed, Fresh, Ready, Handled, Waits, Taken, IdleLoop, NoHandler
<1>2. Filed /\ Rows' /\ [Next]_vars => Filed'
  <2> SUFFICES ASSUME Filed, [Next]_vars, NEW u \in Tasks PROVE Fresh(u)'
    BY DEF Filed
  <2>1. CASE UNCHANGED vars
    BY <2>1, QueueStays, SameFresh DEF vars, Filed, Ready, Handled, Taken
  <2>2. CASE Next
    BY <2>2, SubmitFresh, HandlerFresh, UserFresh, LoopFresh, BootFresh DEF Next, Tasks
  <2> QED BY <2>1, <2>2
<1> QED BY <1>1, <1>2, RowsKept, PTL DEF Spec

\* Most steps write no paper and move no row: at the most a task is listed to be
\* resumed, or no longer.
LEMMA ListOnly ==
    ASSUME UNCHANGED <<proposal, row>>,
           \A t \in Tasks : Ruling(t)' = Ruling(t) /\ (Resumed(t)' => Resumed(t) \/ row[t] = "running")
    PROVE  Trail!List
<1>1. [t \in Tasks |-> Ruling(t)]' = [t \in Tasks |-> Ruling(t)]
  OBVIOUS
<1> QED BY <1>1 DEF Trail!List

\* What is on record of a task that is granted, and of one nobody ruled on.
LEMMA Rulings ==
    ASSUME NEW t \in Tasks
    PROVE  /\ Cleared(t) => Trail!Granted(t)
           /\ decisions[t] = {} => Ruling(t) = {}
           /\ "user_submitted" \in Grants /\ "auto_approved" \in Grants
           /\ \A o \in Grants : decisions'[t] = decisions[t] \cup {o} /\ decisions[t] = {} =>
                Ruling(t)' = {"grant"}
           /\ \A o \in Refusals : decisions'[t] = decisions[t] \cup {o} /\ decisions[t] = {} =>
                Ruling(t)' = {"refusal"}
           /\ \A o \in {"orchestrator_done", "orchestrator_cancelled"} :
                decisions'[t] = decisions[t] \cup {o} => Ruling(t)' = Ruling(t)
<1>1. Grants \cap Refusals = {}
  BY DEF Grants, Refusals, Approving
<1>2. "orchestrator_done" \notin Grants \cup Refusals
      /\ "orchestrator_cancelled" \notin Grants \cup Refusals
  BY DEF Grants, Refusals, Approving
<1>3. "user_submitted" \in Grants /\ "auto_approved" \in Grants
  BY DEF Grants
<1>4. Cleared(t) => Trail!Granted(t)
  BY DEF Cleared, Trail!Granted, Ruling
<1>5. decisions[t] = {} => Ruling(t) = {}
  BY DEF Ruling
<1>6. ASSUME NEW o \in Grants, decisions'[t] = {o} PROVE Ruling(t)' = {"grant"}
  BY <1>1, <1>6 DEF Ruling
<1>7. ASSUME NEW o \in Refusals, decisions'[t] = {o} PROVE Ruling(t)' = {"refusal"}
  BY <1>1, <1>7 DEF Ruling
<1>8. ASSUME NEW o \in {"orchestrator_done", "orchestrator_cancelled"},
             decisions'[t] = decisions[t] \cup {o}
      PROVE  Ruling(t)' = Ruling(t)
  <2>1. /\ decisions'[t] \cap Grants = decisions[t] \cap Grants
        /\ decisions'[t] \cap Refusals = decisions[t] \cap Refusals
    BY <1>2, <1>8
  <2> QED BY <2>1 DEF Ruling
<1> QED BY <1>3, <1>4, <1>5, <1>6, <1>7, <1>8

\* A step that records one ruling.
LEMMA Rules ==
    ASSUME TypeOK, NEW t \in Tasks, decisions[t] = {}, NEW o \in Grants \cup Refusals, Record(t, o),
           o \in Grants => Granted(t),
           UNCHANGED <<row, proposal, queue, loop, boot>>
    PROVE  Trail!Grant(t) \/ Trail!Refuse(t)
<1>1. /\ decisions'[t] = decisions[t] \cup {o}
      /\ \A u \in Tasks \ {t} : decisions'[u] = decisions[u]
  BY DEF Record, TypeOK
<1>2. \A u \in Tasks \ {t} : Ruling(u)' = Ruling(u)
  BY <1>1 DEF Ruling
<1>3. {u \in Tasks : Resumed(u)}' = {u \in Tasks : Resumed(u)}
  BY DEF Resumed, Repeats, ItemAt
<1>4. Ruling(t) = {} /\ (o \in Grants => Ruling(t)' = {"grant"})
      /\ (o \in Refusals => Ruling(t)' = {"refusal"})
  BY <1>1, Rulings
<1>5. CASE o \in Grants
  BY <1>2, <1>3, <1>4, <1>5 DEF Trail!Grant, Granted
<1>6. CASE o \in Refusals
  BY <1>2, <1>3, <1>4, <1>6 DEF Trail!Refuse
<1> QED BY <1>5, <1>6

\* A step that sets the proposal.
LEMMA Proposes ==
    ASSUME NEW t \in Tasks, NEW s \in {"pending", "approved"},
           proposal[t] = "none", decisions[t] = {}, proposal' = [proposal EXCEPT ![t] = s],
           UNCHANGED <<row, decisions, queue, loop, boot>>
    PROVE  Trail!Propose(t)
<1>1. Ruling(t) = {} /\ [u \in Tasks |-> Ruling(u)]' = [u \in Tasks |-> Ruling(u)]
  BY Rulings DEF Ruling
<1>2. {u \in Tasks : Resumed(u)}' = {u \in Tasks : Resumed(u)}
  BY DEF Resumed, Repeats, ItemAt
<1> QED BY <1>1, <1>2 DEF Trail!Propose

\* A row that is made.
LEMMA Submits ==
    ASSUME NEW t \in Tasks, row[t] = "none", t \in Submitted \/ Cleared(t),
           row' = [row EXCEPT ![t] = "queued"], UNCHANGED <<proposal, decisions>>,
           \A u \in Tasks : Resumed(u)' <=> Resumed(u)
    PROVE  Trail!Submit(t)
<1>1. [u \in Tasks |-> Ruling(u)]' = [u \in Tasks |-> Ruling(u)]
  BY DEF Ruling
<1>2. {u \in Tasks : Resumed(u)}' = {u \in Tasks : Resumed(u)}
  OBVIOUS
<1> QED BY <1>1, <1>2, Rulings DEF Trail!Submit

\* The steps of a submission.
LEMMA SubmitTrail == ASSUME Filed, SubmitStep PROVE Trail!Next
<1>0. TypeOK /\ Consent /\ \A t \in Tasks : Stage(t) /\ Line(t)
  BY DEF Filed, Rows, Consent
<1> USE DEF store, triage, cancels
<1>1. ASSUME NEW t \in Direct, ProposeDirect(t) PROVE Trail!Next
  <2>1. t \in Tasks /\ Blank(t)
    BY <1>0, <1>1 DEF Stage, ProposeDirect, Tasks
  <2>2. Trail!Propose(t)
    BY <1>1, <2>1, Proposes DEF ProposeDirect, Blank
  <2> QED BY <2>1, <2>2 DEF Trail!Next
<1>2. ASSUME NEW t \in Direct, DecideDirect(t) PROVE Trail!Next
  <2>1. t \in Tasks /\ Granted(t) /\ decisions[t] = {} /\ "user_submitted" \in Grants
    BY <1>0, <1>2, Rulings DEF Stage, DecideDirect, Tasks
  <2>2. Trail!Grant(t) \/ Trail!Refuse(t)
    BY <1>0, <1>2, <2>1, Rules DEF DecideDirect
  <2> QED BY <2>1, <2>2 DEF Trail!Next
<1>3. ASSUME NEW t \in Tasks, CreateRow(t) PROVE Trail!Next
  <2>1. row[t] = "none"
    BY <1>0, <1>3, KindsAssumption DEF Line, RowOf, Pledging, CreateRow, Tasks
  <2>2. t \in Submitted \/ Cleared(t)
    BY <1>0, <1>3 DEF Stage, Pledged, CreateRow, Tasks, Triaged
  <2>3. Trail!Submit(t)
    BY <1>3, <2>1, <2>2, Submits DEF CreateRow, Resumed, Repeats, ItemAt
  <2> QED BY <2>3 DEF Trail!Next
<1>4. ASSUME NEW t \in Direct, EnqueueDirect(t) PROVE Trail!Next
  <2>1. t \in Tasks /\ queue' = Append(queue, Item(t, FALSE)) /\ UNCHANGED <<store, loop, boot>>
    BY <1>4 DEF EnqueueDirect, Tasks
  <2>2. \A u \in Tasks : Repeats(u)' => Repeats(u)
    BY <1>0, <2>1, EnqueueAdds DEF QueueKeeps
  <2>3. Trail!List
    BY <2>1, <2>2, ListOnly DEF Resumed, Ruling
  <2> QED BY <2>3 DEF Trail!Next
<1>5. ASSUME NEW t \in Triaged, Publish(t) PROVE Trail!Next
  <2>1. Trail!List
    BY <1>5, ListOnly DEF Publish, Resumed, Repeats, ItemAt, Ruling
  <2> QED BY <2>1 DEF Trail!Next
<1> QED BY <1>1, <1>2, <1>3, <1>4, <1>5 DEF SubmitStep

\* The steps of a handler: a rule, a verdict of the model, an answer or a timeout
\* rules on a task nobody ruled on.
LEMMA HandlerTrail == ASSUME Filed, NEW t \in Triaged, HandlerStep(t) PROVE Trail!Next
<1>0. TypeOK /\ Consent /\ GrantInHand /\ t \in Tasks /\ TriageStage(t)
  BY DEF Filed, Rows, Consent, Tasks
<1> USE DEF store, triage, cancels
<1>1. ASSUME UNCHANGED <<proposal, row, decisions, loop, boot>>,
             \A u \in Tasks : Repeats(u)' => Repeats(u)
      PROVE  Trail!Next
  <2>1. Trail!List
    BY <1>1, ListOnly DEF Resumed, Ruling
  <2> QED BY <2>1 DEF Trail!Next
<1>2. CASE Take(t) \/ Post(t) \/ Answered(t) \/ Expire(t) \/ Remember(t)
  BY <1>1, <1>2 DEF Take, Post, Answered, Expire, Remember, Repeats, ItemAt
<1>3. CASE EnqueueTriaged(t)
  <2>1. \A u \in Tasks : Repeats(u)' => Repeats(u)
    BY <1>0, <1>3, EnqueueAdds DEF EnqueueTriaged, QueueKeeps
  <2> QED BY <1>1, <1>3, <2>1 DEF EnqueueTriaged
<1>4. CASE Judge(t)
  <2>1. Blank(t) /\ "skipped_by_rule" \in Refusals /\ "skipped_by_rule" \notin Grants
    BY <1>0, <1>4 DEF Judge, At, TriageStage, Refusals, Grants, Approving
  <2>2. CASE UNCHANGED <<proposal, decisions>>
    BY <1>1, <1>4, <2>2 DEF Judge, Repeats, ItemAt
  <2>3. CASE Record(t, "skipped_by_rule") /\ UNCHANGED proposal
    <3>1. Trail!Grant(t) \/ Trail!Refuse(t)
      BY <1>0, <1>4, <2>1, <2>3, Rules DEF Judge, Blank
    <3> QED BY <1>0, <3>1 DEF Trail!Next
  <2>4. CASE proposal' = [proposal EXCEPT ![t] = "approved"] /\ UNCHANGED decisions
    <3>1. Trail!Propose(t)
      BY <1>0, <1>4, <2>1, <2>4, Proposes DEF Judge, Blank
    <3> QED BY <1>0, <3>1 DEF Trail!Next
  <2> QED BY <1>4, <2>2, <2>3, <2>4 DEF Judge
<1>5. CASE Classify(t)
  <2>1. Blank(t) /\ \A o \in {"dropped", "logged"} : o \in Refusals /\ o \notin Grants
    BY <1>0, <1>5 DEF Classify, At, TriageStage, Refusals, Grants, Approving
  <2>2. ASSUME NEW o \in {"dropped", "logged"}, Record(t, o), UNCHANGED proposal
        PROVE  Trail!Next
    <3>1. Trail!Grant(t) \/ Trail!Refuse(t)
      BY <1>0, <1>5, <2>1, <2>2, Rules DEF Classify, Blank
    <3> QED BY <1>0, <3>1 DEF Trail!Next
  <2>3. CASE proposal' = [proposal EXCEPT ![t] = "pending"] /\ UNCHANGED decisions
    <3>1. Trail!Propose(t)
      BY <1>0, <1>5, <2>1, <2>3, Proposes DEF Classify, Blank
    <3> QED BY <1>0, <3>1 DEF Trail!Next
  <2> QED BY <1>5, <2>2, <2>3 DEF Classify
<1>6. CASE Decline(t)
  <2>1. PICK o \in {"expired", "skipped"} : Record(t, o)
    BY <1>6 DEF Decline
  <2>2. o \in Refusals /\ o \notin Grants /\ decisions[t] = {}
    BY <1>0, <1>6 DEF Decline, At, TriageStage, Refusals, Grants, Approving
  <2>3. Trail!Grant(t) \/ Trail!Refuse(t)
    BY <1>0, <1>6, <2>1, <2>2, Rules DEF Decline
  <2> QED BY <1>0, <2>3 DEF Trail!Next
<1>7. CASE Authorise(t)
  <2>1. handler[t].verdict \in Grants /\ Granted(t) /\ decisions[t] = {}
    BY <1>0, <1>7 DEF Authorise, At, TriageStage, GrantInHand
  <2>2. Trail!Grant(t) \/ Trail!Refuse(t)
    BY <1>0, <1>7, <2>1, Rules DEF Authorise
  <2> QED BY <1>0, <2>2 DEF Trail!Next
<1> QED BY <1>2, <1>3, <1>4, <1>5, <1>6, <1>7 DEF HandlerStep

\* The steps of the users: one answer to a pending proposal.
LEMMA UserTrail == ASSUME Filed, UserStep PROVE Trail!Next
<1>0. TypeOK
  BY DEF Filed, Rows, Consent
<1> USE DEF store, triage, cancels
<1>1. ASSUME NEW t \in Triaged, NEW answer \in Answers, Respond(t, answer) PROVE Trail!Next
  <2>1. /\ t \in Tasks /\ proposal[t] = "pending"
        /\ \E s \in {"approved", "modified", "skipped"} : proposal' = [proposal EXCEPT ![t] = s]
    BY <1>1, Targets DEF Respond, Tasks
  <2>2. [u \in Tasks |-> Ruling(u)]' = [u \in Tasks |-> Ruling(u)]
        /\ {u \in Tasks : Resumed(u)}' = {u \in Tasks : Resumed(u)}
    BY <1>1 DEF Respond, Ruling, Resumed, Repeats, ItemAt
  <2>3. Trail!Answer(t)
    BY <1>1, <2>1, <2>2 DEF Respond, Trail!Answer
  <2> QED BY <2>1, <2>3 DEF Trail!Next
<1>2. ASSUME UNCHANGED <<proposal, row, decisions, queue, boot>>,
             loop'.task = loop.task /\ loop'.resume = loop.resume
      PROVE  Trail!Next
  <2>1. Trail!List
    BY <1>2, ListOnly DEF Resumed, Repeats, ItemAt, Ruling
  <2> QED BY <2>1 DEF Trail!Next
<1>3. ASSUME NEW t \in Tasks, AnswerUser(t) PROVE Trail!Next
  BY <1>0, <1>2, <1>3 DEF AnswerUser, Step, Quiet, TypeOK
<1> QED BY <1>1, <1>2, <1>3 DEF UserStep, Deliver, RuleGone, ReadForCancel, FlagCancel

\* A move of the row by the loop.
LEMMA Advances ==
    ASSUME Filed, NEW t \in Tasks, loop.task = t,
           NEW s \in {"running"} \cup Terminal, row' = [row EXCEPT ![t] = s],
           UNCHANGED <<proposal, decisions, queue, boot>>,
           \/ loop'.task = t /\ loop'.resume = loop.resume
           \/ loop' = IdleLoop,
           ~loop.resume => <<row[t], s>> \in Trail!Moves
    PROVE  Trail!Advance(t)
<1>1. TypeOK /\ Stage(t) /\ Line(t)
  BY DEF Filed, Rows, Consent
<1>2. Trail!Granted(t)
  BY <1>1, Rulings DEF Stage, Pledged
<1>3. [u \in Tasks |-> Ruling(u)]' = [u \in Tasks |-> Ruling(u)]
  BY DEF Ruling
<1>4. \A u \in Tasks \ {t} : Resumed(u)' <=> Resumed(u)
  BY NoneAssumption DEF Resumed, Repeats, ItemAt, IdleLoop
<1>5. Resumed(t)' => Resumed(t)
  BY DEF Resumed, Repeats, ItemAt, IdleLoop
<1>6. {u \in Tasks : Resumed(u)}' \in {{u \in Tasks : Resumed(u)}, {u \in Tasks : Resumed(u)} \ {t}}
  <2>1. CASE Resumed(t)' <=> Resumed(t)
    BY <1>4, <2>1
  <2>2. CASE ~Resumed(t)'
    BY <1>4, <2>2
  <2> QED BY <1>5, <2>1, <2>2
<1>7. <<row[t], s>> \in Trail!Moves
      \/ (t \in {u \in Tasks : Resumed(u)} /\ <<row[t], s>> \in Trail!Again)
  <2>1. CASE loop.resume
    <3>1. Resumed(t) /\ row[t] \in {"running"} \cup Terminal
      BY <1>1, <2>1 DEF Resumed, Line, RowOf, TypeOK
    <3> QED BY <3>1 DEF Trail!Again, Trail!Ends, Terminal
  <2> QED BY <2>1
<1> QED BY <1>2, <1>3, <1>6, <1>7 DEF Trail!Advance, Trail!Ends, Terminal

\* The steps of the loop.
LEMMA LoopTrail == ASSUME Filed, NEW t \in Tasks, LoopStep(t) PROVE Trail!Next
<1>0. /\ TypeOK /\ Consent /\ Stage(t) /\ Line(t) /\ Fresh(t) /\ loop \in LoopType
  BY DEF Filed, Rows, Consent, TypeOK, LoopType
<1> USE DEF store, triage, cancels
<1>1. ASSUME UNCHANGED <<proposal, row>>, \A u \in Tasks : Ruling(u)' = Ruling(u),
             \A u \in Tasks : Resumed(u)' => Resumed(u)
      PROVE  Trail!Next
  <2>1. Trail!List
    BY <1>1, ListOnly
  <2> QED BY <2>1 DEF Trail!Next
<1>2. CASE Dequeue(t)
  <2>1. \A u \in Tasks : (Repeats(u)' => Repeats(u)) /\ (Head(queue).resume => Repeats(t))
    BY <1>0, <1>2, TailTakes DEF Dequeue, QueueKeeps
  <2>2. \A u \in Tasks : Resumed(u)' => Resumed(u)
    BY <1>2, <2>1 DEF Dequeue, Resumed
  <2> QED BY <1>1, <1>2, <2>2 DEF Dequeue, Ruling
<1>3. CASE Arrive(t) \/ Admit(t) \/ SeeFlag(t) \/ AskUser(t) \/ StreamEnds(t) \/ Raise(t)
  <2>1. UNCHANGED <<proposal, row, decisions, queue, boot>>
        /\ loop'.task = loop.task /\ loop'.resume = loop.resume
    BY <1>0, <1>3 DEF Arrive, Admit, SeeFlag, AskUser, StreamEnds, Raise, Step, Quiet, LoopType
  <2> QED BY <1>1, <2>1 DEF Resumed, Repeats, ItemAt, Ruling
<1>4. CASE Conclude(t) \/ Note(t)
  <2>1. PICK o \in {"orchestrator_done", "orchestrator_cancelled"} : Record(t, o)
    BY <1>4 DEF Conclude, Note
  <2>2. UNCHANGED <<proposal, row, queue, boot>>
        /\ (loop' = IdleLoop \/ (loop'.task = loop.task /\ loop'.resume = loop.resume))
    BY <1>0, <1>4 DEF Conclude, Note, Step, LoopType
  <2>3. /\ decisions'[t] = decisions[t] \cup {o}
        /\ \A u \in Tasks \ {t} : decisions'[u] = decisions[u]
    BY <1>0, <2>1 DEF Record, TypeOK
  <2>4. ASSUME NEW u \in Tasks PROVE Ruling(u)' = Ruling(u)
    <3>1. CASE u = t
      BY <2>3, <3>1, Rulings
    <3>2. CASE u # t
      BY <2>3, <3>2 DEF Ruling
    <3> QED BY <3>1, <3>2
  <2>5. \A u \in Tasks : Resumed(u)' => Resumed(u)
    BY <2>2, NoneAssumption DEF Resumed, Repeats, ItemAt, IdleLoop
  <2> QED BY <1>1, <2>2, <2>4, <2>5
<1>5. CASE Register(t)
  <2>1. row[t] = "none" /\ Cleared(t)
    BY <1>0, <1>5 DEF Register, InHand, Line, RowOf, InLoop, Stage, Pledged
  <2>2. row' = [row EXCEPT ![t] = "queued"] /\ UNCHANGED <<proposal, decisions, queue, boot>>
        /\ loop'.task = loop.task /\ loop'.resume = loop.resume
    BY <1>0, <1>5 DEF Register, Mark, LoopType
  <2>3. Trail!Submit(t)
    BY <2>1, <2>2, Submits DEF Resumed, Repeats, ItemAt
  <2> QED BY <2>3 DEF Trail!Next
<1>6. CASE Start(t) \/ Finish(t) \/ Fail(t) \/ Drop(t) \/ Stop(t)
  <2>1. PICK s \in {"running"} \cup Terminal :
          /\ row' = [row EXCEPT ![t] = s]
          /\ ~loop.resume => <<row[t], s>> \in Trail!Moves
    <3> USE <1>0 DEF Fresh, Taken, Line, InLoop, InHand, Mark, Terminal, Trail!Moves, Trail!Ends
    <3>1. CASE Start(t)
      BY <3>1 DEF Start
    <3>2. CASE Finish(t)
      BY <3>2 DEF Finish
    <3>3. CASE Fail(t)
      BY <3>3 DEF Fail
    <3>4. CASE Drop(t)
      BY <3>4 DEF Drop
    <3>5. CASE Stop(t)
      BY <3>5 DEF Stop
    <3> QED BY <1>6, <3>1, <3>2, <3>3, <3>4, <3>5
  <2>2. /\ loop.task = t /\ UNCHANGED <<proposal, decisions, queue, boot>>
        /\ (loop'.task = t /\ loop'.resume = loop.resume) \/ loop' = IdleLoop
    BY <1>0, <1>6 DEF Start, Finish, Fail, Drop, Stop, Mark, InHand, LoopType
  <2>3. Trail!Advance(t)
    BY <2>1, <2>2, Advances
  <2> QED BY <2>3 DEF Trail!Next
<1> QED BY <1>2, <1>3, <1>4, <1>5, <1>6 DEF LoopStep

\* A boot lists what it finds running; a restart forgets.
LEMMA BootTrail == ASSUME Filed, BootStep \/ Restart PROVE Trail!Next
<1>0. TypeOK
  BY DEF Filed, Rows, Consent
<1>1. UNCHANGED <<proposal, row, decisions>>
  BY DEF BootStep, ListRows, Resume, Restart, store
<1>2. ASSUME NEW u \in Tasks, Resumed(u)' PROVE Resumed(u) \/ row[u] = "running"
  <2>1. CASE ListRows
    BY <1>2, <2>1 DEF ListRows, Interrupted, Resumed, Repeats, ItemAt
  <2>2. CASE Resume
    BY <1>0, <1>2, <2>2, ResumeAdds DEF Resume, Resumed
  <2>3. CASE Restart
    BY <1>2, <2>3, NoneAssumption DEF Restart, Resumed, Repeats, IdleLoop
  <2> QED BY <2>1, <2>2, <2>3 DEF BootStep
<1>3. Trail!List
  BY <1>1, <1>2, ListOnly DEF Ruling
<1> QED BY <1>3 DEF Trail!Next

LEMMA InitTrail == Init => Trail!Init
<1> SUFFICES ASSUME Init PROVE Trail!Init
  OBVIOUS
<1>1. \A t \in Tasks : ~Resumed(t) /\ Ruling(t) = {}
  BY NoneAssumption DEF Init, Resumed, Repeats, IdleLoop, Ruling
<1> QED BY <1>1 DEF Init, Trail!Init

LEMMA StepTrail == Filed /\ [Next]_vars => [Trail!Next]_Trail!vars
<1>1. ASSUME UNCHANGED vars PROVE UNCHANGED Trail!vars
  BY <1>1 DEF vars, Trail!vars, Ruling, Resumed, Repeats, ItemAt
<1>2. ASSUME Filed, Next PROVE Trail!Next
  BY <1>2, SubmitTrail, HandlerTrail, UserTrail, LoopTrail, BootTrail DEF Next
<1> QED BY <1>1, <1>2

\* For any tasks, users, handlers and restarts the tables tell one story: a task
\* is granted or refused and never both, its row moves only once it was granted,
\* and it leaves its end only when a boot had listed the task.
THEOREM Implements == Spec => Refines
<1>1. Filed /\ Filed' /\ [Next]_vars => [Trail!Next]_Trail!vars
  BY StepTrail
<1> QED BY InitTrail, <1>1, AlwaysFiled, PTL DEF Spec, Refines, Trail!Spec
=============================================================================
