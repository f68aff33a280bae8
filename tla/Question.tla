------------------------------- MODULE Question -------------------------------
(***************************************************************************)
(* What a Tier-2 ask promises to the agent and to the users                *)
(* (daemon/channels, daemon/ask_registry, daemon/ask_resume): it is        *)
(* settled once, while somebody waits for it one answer is accepted and    *)
(* that one is put on record, the agent gets what is on record, and it     *)
(* gets one decision about an interrupt, however often it asked.           *)
(***************************************************************************)
CONSTANTS
    Ask,
    Answer,
    Subject     \* the interrupt each ask is about

VARIABLES
    status,     \* "none", "pending", "cancelled" or an answer
    waited,     \* the asks somebody waits for
    heard,      \* the answers users were told ok for
    applied     \* the decisions agents went on with

vars == <<status, waited, heard, applied>>

Init ==
    /\ status = [a \in Ask |-> "none"]
    /\ waited = {} /\ heard = {} /\ applied = {}

Says(a, d) == [ask |-> a, answer |-> d]

HeardOf(a) == {d \in Answer : Says(a, d) \in heard}

\* The agent may be stopped before it waits.
Pose(a) ==
    /\ status[a] = "none"
    /\ status' = [status EXCEPT ![a] = "pending"]
    /\ waited' \in {waited, waited \cup {a}}
    /\ UNCHANGED <<heard, applied>>

Accept(a, d) ==
    /\ a \in waited /\ status[a] = "pending" /\ HeardOf(a) = {}
    /\ heard' = heard \cup {Says(a, d)}
    /\ UNCHANGED <<status, waited, applied>>

\* The agent may be stopped as the row is written.
Settle(a, s) ==
    /\ status[a] = "pending"
    /\ a \in waited => HeardOf(a) = {s}
    /\ status' = [status EXCEPT ![a] = s]
    /\ waited' \in {waited, waited \ {a}}
    /\ UNCHANGED <<heard, applied>>

Apply(a, d) ==
    /\ a \in waited /\ status[a] = d /\ HeardOf(a) = {d}
    /\ \A r \in applied : Subject[r.ask] # Subject[a]
    /\ applied' = applied \cup {Says(a, d)}
    /\ waited' = waited \ {a}
    /\ UNCHANGED <<status, heard>>

\* An answer to an ask nobody waits for, which no agent went on with.
AnswerLate(a, d) ==
    /\ a \notin waited /\ status[a] # "none"
    /\ \A r \in applied : r.ask # a
    /\ status' = [status EXCEPT ![a] = IF @ = "pending" THEN d ELSE @]
    /\ heard' = heard \cup {Says(a, d)}
    /\ UNCHANGED <<waited, applied>>

\* A stop, a run that cannot be resumed, a crash.
Leave == waited' \in SUBSET waited /\ UNCHANGED <<status, heard, applied>>

Next ==
    \/ \E a \in Ask :
        \/ Pose(a)
        \/ \E s \in Answer \cup {"cancelled"} : Settle(a, s)
        \/ \E d \in Answer : Accept(a, d) \/ Apply(a, d) \/ AnswerLate(a, d)
    \/ Leave

Spec == Init /\ [][Next]_vars

=============================================================================
