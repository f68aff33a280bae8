---------------------------------- MODULE Board ----------------------------------
(***************************************************************************)
(* What the todo board promises of its cards and attachments, with one     *)
(* database, no directories, no calls under way and no faults: a card is   *)
(* created once and deleted once, with all it has; an attachment goes to a *)
(* card that is there, under an id nobody had before; only a generated one *)
(* is ever replaced, in place; and no two attachments are one file.        *)
(*                                                                         *)
(* TodoBoard implements it: see Refines there.                             *)
(***************************************************************************)
CONSTANTS Card, Att, File, None

VARIABLES
    stage,      \* "none", "live" or "gone", for each card
    rows,       \* the attachments: their kind, and their file in a card's workspace
    used,       \* the attachment ids given out
    excused     \* files that more than one attachment may be

vars == <<stage, rows, used, excused>>

Path == Card \X File

Init ==
    /\ stage = [c \in Card |-> "none"]
    /\ rows = [a \in Att |-> None]
    /\ used = {} /\ excused = {}

There(a) == rows[a] # None

Create(c) ==
    /\ stage[c] = "none"
    /\ stage' = [stage EXCEPT ![c] = "live"]
    /\ UNCHANGED <<rows, used, excused>>

Delete(c) ==
    /\ stage[c] = "live"
    /\ stage' = [stage EXCEPT ![c] = "gone"]
    /\ rows' = [a \in Att |-> IF There(a) /\ rows[a].path[1] = c THEN None ELSE rows[a]]
    /\ UNCHANGED <<used, excused>>

\* The file is no other attachment's.
Alone(a, p) == \A b \in Att \ {a} : There(b) /\ rows[b].path = p => p \in excused

Attach(a, kind, p) ==
    /\ stage[p[1]] = "live" /\ a \notin used /\ Alone(a, p)
    /\ rows' = [rows EXCEPT ![a] = [kind |-> kind, path |-> p]]
    /\ used' = used \cup {a}
    /\ UNCHANGED <<stage, excused>>

Replace(a, p) ==
    /\ There(a) /\ rows[a].kind = "journey" /\ Alone(a, p)
    /\ p[1] = rows[a].path[1] /\ stage[p[1]] = "live"
    /\ rows' = [rows EXCEPT ![a] = [kind |-> "journey", path |-> p]]
    /\ UNCHANGED <<stage, used, excused>>

Detach(a) ==
    /\ There(a) /\ stage[rows[a].path[1]] = "live"
    /\ rows' = [rows EXCEPT ![a] = None]
    /\ UNCHANGED <<stage, used, excused>>

\* Two uploads race for a name, or a directory goes by the word of the wrong
\* database: nothing else is excused, and nothing ever changes an attachment here.
Excuse == excused \subseteq excused' /\ UNCHANGED <<stage, rows, used>>

Next ==
    \/ Excuse
    \/ \E c \in Card : Create(c) \/ Delete(c)
    \/ \E a \in Att, p \in Path :
            Replace(a, p) \/ \E kind \in {"upload", "journey"} : Attach(a, kind, p)
    \/ \E a \in Att : Detach(a)

Spec == Init /\ [][Next]_vars
=============================================================================
