------------------------------ MODULE PaperTrail ------------------------------
(***************************************************************************)
(* What the tables say of a task, whoever writes them (daemon/triage_loop, *)
(* daemon/task_submission, daemon/task_registry, daemon/orchestrator_loop, *)
(* the decision service): its proposal is answered once, it is granted or  *)
(* refused once and never both, its row moves only once it was granted,    *)
(* and a row that came to its end stays there.  The exception is a task    *)
(* that a boot has listed as interrupted: that one may run once more.      *)
(***************************************************************************)
CONSTANTS
    Task,
    Ahead       \* the tasks whose row is made before anybody has decided

VARIABLES
    proposal,   \* "none", "pending", "approved", "modified" or "skipped"
    ruled,      \* what is on record of each task: "grant", "refusal"
    status,     \* of the row
    listed      \* the tasks a boot found running and that are to be resumed

vars == <<proposal, ruled, status, listed>>

Ends == {"done", "failed", "cancelled"}

Init ==
    /\ proposal = [t \in Task |-> "none"] /\ ruled = [t \in Task |-> {}]
    /\ status = [t \in Task |-> "none"]
    /\ listed = {}

Granted(t) == proposal[t] \in {"approved", "modified"} /\ ruled[t] = {"grant"}

\* A proposal is put to the users, or is approved from the start.
Propose(t) ==
    /\ proposal[t] = "none" /\ ruled[t] = {}
    /\ \E s \in {"pending", "approved"} : proposal' = [proposal EXCEPT ![t] = s]
    /\ UNCHANGED <<ruled, status, listed>>

Answer(t) ==
    /\ proposal[t] = "pending"
    /\ \E s \in {"approved", "modified", "skipped"} : proposal' = [proposal EXCEPT ![t] = s]
    /\ UNCHANGED <<ruled, status, listed>>

Grant(t) ==
    /\ ruled[t] = {} /\ proposal[t] \in {"approved", "modified"}
    /\ ruled' = [ruled EXCEPT ![t] = {"grant"}]
    /\ UNCHANGED <<proposal, status, listed>>

\* An expiry does not look at the proposal.
Refuse(t) ==
    /\ ruled[t] = {}
    /\ ruled' = [ruled EXCEPT ![t] = {"refusal"}]
    /\ UNCHANGED <<proposal, status, listed>>

Submit(t) ==
    /\ status[t] = "none" /\ (t \in Ahead \/ Granted(t))
    /\ status' = [status EXCEPT ![t] = "queued"]
    /\ UNCHANGED <<proposal, ruled, listed>>

\* The steps of a row, from what it was to what it is.
Moves ==
    {<<"queued", "running">>, <<"queued", "failed">>, <<"queued", "cancelled">>}
        \cup ({"running"} \X Ends)
Again == ({"running"} \cup Ends) \X ({"running"} \cup Ends)

\* The row moves; a task that was to be resumed may be through with it.
Advance(t) ==
    /\ Granted(t)
    /\ \E s \in {"running"} \cup Ends :
        /\ <<status[t], s>> \in Moves \/ (t \in listed /\ <<status[t], s>> \in Again)
        /\ status' = [status EXCEPT ![t] = s]
    /\ listed' \in {listed, listed \ {t}}
    /\ UNCHANGED <<proposal, ruled>>

\* A boot lists what it finds running; tasks are resumed or, in a crash, forgotten.
List ==
    /\ listed' \in SUBSET (listed \cup {t \in Task : status[t] = "running"})
    /\ UNCHANGED <<proposal, ruled, status>>

Next ==
    \/ \E t \in Task : Propose(t) \/ Answer(t) \/ Grant(t) \/ Refuse(t) \/ Submit(t) \/ Advance(t)
    \/ List

Spec == Init /\ [][Next]_vars

=============================================================================
