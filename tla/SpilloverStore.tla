--------------------------- MODULE SpilloverStore ---------------------------
(***************************************************************************)
(* What the routed stores promise their callers (storage/routing/facade,   *)
(* storage/routing/reconcile): a row whose write was acknowledged stays in *)
(* the store, whichever of the two databases holds it.  The one exception  *)
(* is a cascade: the rows that refer to a stored one may go together when  *)
(* the buffer deletes its copy of that one.                                *)
(***************************************************************************)
CONSTANTS
    Row,
    Refers      \* pairs <<child, parent>>

VARIABLES
    stored,     \* the rows some database holds
    owed        \* the rows a caller was told are written

Init == stored = {} /\ owed = {}

Write(r) == stored' = stored \cup {r} /\ UNCHANGED owed

Acknowledge(r) == r \in stored /\ owed' = owed \cup {r} /\ UNCHANGED stored

\* A write nobody was told about may be undone.
Forget(r) == r \notin owed /\ stored' = stored \ {r} /\ UNCHANGED owed

Cascade(r) ==
    /\ r \in stored
    /\ \E lost \in SUBSET {s \in Row : <<s, r>> \in Refers} :
          stored' = stored \ lost /\ owed' = owed \ lost

Next == \E r \in Row : Write(r) \/ Acknowledge(r) \/ Forget(r) \/ Cascade(r)

Spec == Init /\ [][Next]_<<stored, owed>>

=============================================================================
