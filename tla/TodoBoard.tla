------------------------------- MODULE TodoBoard -------------------------------
(***************************************************************************)
(* Cards, their workspace directories and the files attached to them: the  *)
(* calls of todoboard/exchange and of the upload endpoint, the sweep of    *)
(* orphaned directories (storage/sweeper), and the two databases the rows  *)
(* of a card may be in (StorageRouting).                                   *)
(*                                                                         *)
(* A call is cut where it awaits.  A store call is one step: the answer    *)
(* that Postgres does not deliver is in StorageRouting, and so is the      *)
(* drain table by table; here it takes a card with its children.  Notes,   *)
(* objectives and the timeline are rows without files and are left out.    *)
(***************************************************************************)
EXTENDS Integers, FiniteSets

CONSTANTS
    Cards,
    Atts,           \* attachment ids
    Names,          \* what _unique_path may call an uploaded file
    Made,           \* the files the generators write, each named by a fresh ULID
    Jobs,           \* calls in progress
    MaxFaults,      \* bound: the times Postgres goes away or the daemon dies
    None

Files == Names \cup Made
Paths == Cards \X Files

ASSUME SetsAssumption ==
    /\ Names \cap Made = {} /\ Atts \cap Made = {}
    /\ None \notin Cards \cup Atts \cup Jobs \cup Paths
ASSUME BoundsAssumption == MaxFaults \in Nat

VARIABLES
    up, degraded, draining, faults,
    home,       \* where the rows of a card are: "none", "pg", "buf" or "gone"
    att,        \* todo_attachments, None for no row
    spent,      \* the attachment ids and the ULIDs of files already used
    dirs,       \* the workspace directories on the disk
    fresh,      \* those changed within todo_orphan_grace_sec
    disk,       \* the files in them
    job,        \* what each call is doing
    sweep,      \* the sweep of orphaned directories
    lost,       \* history: cards whose directory went by the word of a database without them
    torn        \* history: paths two uploads were given, or unlinked after the commit

storage == <<up, degraded, draining, faults>>
history == <<lost, torn>>
vars == <<up, degraded, draining, faults, home, att, spent, dirs, fresh, disk,
          job, sweep, lost, torn>>

Idle == [pc |-> "idle", kind |-> "upload", card |-> None, path |-> None,
         att |-> None, old |-> None, blind |-> FALSE]
NoSweep == [pc |-> "idle", live |-> {}, blind |-> {}]

Init ==
    /\ up = TRUE /\ degraded = FALSE /\ draining = FALSE
    /\ faults = 0
    /\ home = [c \in Cards |-> "none"]
    /\ att = [a \in Atts |-> None]
    /\ spent = {} /\ dirs = {} /\ fresh = {} /\ disk = {}
    /\ job = [j \in Jobs |-> Idle]
    /\ sweep = NoSweep
    /\ lost = {} /\ torn = {}

At(j, pc) == job[j].pc = pc
Become(j, k) == job' = [job EXCEPT ![j] = k]
Goto(j, pc) == job' = [job EXCEPT ![j].pc = pc]
Return(j) == Become(j, Idle)
On(j, c) == ~At(j, "idle") /\ job[j].card = c

Live(c) == home[c] \in {"pg", "buf"}

\* RoutedStore: the database that serves a call, which notices an outage.
Serving == IF up /\ ~degraded THEN "pg" ELSE "buf"
Call == degraded' = (degraded \/ ~up) /\ UNCHANGED <<up, draining, faults>>
Sees(c) == home[c] = Serving

In(c) == {p \in disk : p[1] = c}
RowsOf(c) == {a \in Atts : att[a] # None /\ att[a].path[1] = c}

-----------------------------------------------------------------------------
(* Cards *)

\* The workspace first, the row second.
MakeWorkspace(j, c) ==
    /\ At(j, "idle") /\ home[c] = "none" /\ c \notin dirs
    /\ dirs' = dirs \cup {c} /\ fresh' = fresh \cup {c}
    /\ Become(j, [Idle EXCEPT !.pc = "insert", !.card = c])
    /\ UNCHANGED <<storage, home, att, spent, disk, sweep, history>>

InsertCard(j) ==
    /\ At(j, "insert") /\ Call
    /\ home' = [home EXCEPT ![job[j].card] = Serving]
    /\ Return(j)
    /\ UNCHANGED <<att, spent, dirs, fresh, disk, sweep, history>>

\* The store raises: the directory is removed again.
InsertFails(j) ==
    /\ At(j, "insert") /\ Call
    /\ dirs' = dirs \ {job[j].card} /\ fresh' = fresh \ {job[j].card}
    /\ Return(j)
    /\ UNCHANGED <<home, att, spent, disk, sweep, history>>

\* get_card: 404 before any destructive step.
DeleteCard(j, c) ==
    /\ At(j, "idle") /\ Sees(c) /\ Call
    /\ Become(j, [Idle EXCEPT !.pc = "delete", !.card = c])
    /\ UNCHANGED <<home, att, spent, dirs, fresh, disk, sweep, history>>

\* The answer of the store is not looked at.
DeleteRows(j) ==
    LET c == job[j].card
    IN  /\ At(j, "delete") /\ Call
        /\ home' = IF Sees(c) THEN [home EXCEPT ![c] = "gone"] ELSE home
        /\ att' = IF Sees(c) THEN [a \in Atts |-> IF a \in RowsOf(c) THEN None ELSE att[a]]
                  ELSE att
        /\ job' = [job EXCEPT ![j].pc = "rmtree", ![j].blind = Live(c) /\ ~Sees(c)]
        /\ UNCHANGED <<spent, dirs, fresh, disk, sweep, history>>

RemoveWorkspace(j) ==
    LET c == job[j].card
    IN  /\ At(j, "rmtree")
        /\ dirs' = dirs \ {c} /\ fresh' = fresh \ {c} /\ disk' = disk \ In(c)
        /\ lost' = IF job[j].blind THEN lost \cup {c} ELSE lost
        /\ Return(j)
        /\ UNCHANGED <<storage, home, att, spent, sweep, torn>>

-----------------------------------------------------------------------------
(* Attachments *)

\* A fresh ULID: ids of one kind are used in turn.
NextId(ids) == CHOOSE i \in ids \ spent : TRUE

Touch(c) == dirs' = dirs \cup {c} /\ fresh' = fresh \cup {c}
Row(k) == [kind |-> k.kind, path |-> k.path]

Upload(j, c) ==
    /\ At(j, "idle") /\ Sees(c) /\ Call
    /\ Become(j, [Idle EXCEPT !.pc = "upload", !.card = c])
    /\ UNCHANGED <<home, att, spent, dirs, fresh, disk, sweep, history>>

\* mkdir, then _unique_path: a name no file has yet.
ChoosePath(j, n) ==
    LET p == <<job[j].card, n>>
    IN  /\ At(j, "upload") /\ p \notin disk
        /\ Touch(job[j].card)
        /\ job' = [job EXCEPT ![j].pc = "open", ![j].path = p]
        /\ torn' = IF \E k \in Jobs : job[k].path = p THEN torn \cup {p} ELSE torn
        /\ UNCHANGED <<storage, home, att, spent, disk, sweep, lost>>

\* Mutant: the directory is taken to be there still.
OpenFile_Blindly(j) ==
    LET k == job[j]
    IN  /\ At(j, "open")
        /\ disk' = disk \cup {k.path} /\ fresh' = fresh \cup {k.card}
        /\ Goto(j, "attach")
        /\ UNCHANGED <<storage, home, att, spent, dirs, sweep, history>>

\* dest.open("wb") in a thread; the workspace may be gone by now.
OpenFile(j) ==
    LET k == job[j]
    IN  /\ At(j, "open")
        /\ \/ /\ k.card \in dirs
              /\ disk' = disk \cup {k.path} /\ fresh' = fresh \cup {k.card}
              /\ Goto(j, "attach")
           \/ k.card \notin dirs /\ Return(j) /\ UNCHANGED <<disk, fresh>>
        /\ UNCHANGED <<storage, home, att, spent, dirs, sweep, history>>

\* "unlink on ANY later failure": over the size limit, the client is gone, or the
\* call is cancelled, the last also while the event of a committed row is written.
UploadFails(j) ==
    LET k == job[j]
    IN  /\ k.kind = "upload" /\ (At(j, "attach") \/ At(j, "emit"))
        /\ disk' = disk \ {k.path}
        /\ torn' = IF At(j, "emit") THEN torn \cup {k.path} ELSE torn
        /\ Return(j)
        /\ UNCHANGED <<storage, home, att, spent, dirs, fresh, sweep, lost>>

\* get_card, whose attachments tell whether the journey, the one singleton block,
\* was generated before; the other blocks always attach.
Generate(j, c) ==
    LET old == {a \in RowsOf(c) : att[a].kind = "journey"}
        k == [Idle EXCEPT !.pc = "make", !.kind = "journey", !.card = c]
    IN  /\ At(j, "idle") /\ Sees(c) /\ Call
        /\ \/ old = {} /\ Become(j, k)
           \/ \E a \in old : Become(j, [k EXCEPT !.att = a, !.old = att[a].path])
        /\ UNCHANGED <<home, att, spent, dirs, fresh, disk, sweep, history>>

\* The timeline is read; the generator, in a thread, makes the directory if need be and writes a new file.
WriteFile(j) ==
    LET k == job[j]
        f == NextId(Made)
        p == <<k.card, f>>
    IN  /\ At(j, "make") /\ Call /\ ~(Made \subseteq spent)
        /\ spent' = spent \cup {f}
        /\ Touch(k.card) /\ disk' = disk \cup {p}
        /\ Become(j, [k EXCEPT !.path = p, !.pc = IF k.att = None THEN "attach" ELSE "swap"])
        /\ UNCHANGED <<home, att, sweep, history>>

\* Mutant: the insert does not look for the card, as on SQLite without the check.
Attach_AnyCard(j) ==
    LET k == job[j]
        a == NextId(Atts)
    IN  /\ At(j, "attach") /\ k.path \in disk /\ Call
        /\ ~(Atts \subseteq spent) /\ spent' = spent \cup {a}
        /\ att' = [att EXCEPT ![a] = Row(k)]
        /\ Return(j)
        /\ UNCHANGED <<home, dirs, fresh, disk, sweep, history>>

\* attach: the file is validated, the row goes in if the card is there.
Attach(j) ==
    LET k == job[j]
        a == NextId(Atts)
    IN  /\ At(j, "attach") /\ k.path \in disk /\ Sees(k.card) /\ Call
        /\ ~(Atts \subseteq spent) /\ spent' = spent \cup {a}
        /\ att' = [att EXCEPT ![a] = Row(k)]
        /\ IF k.kind = "upload" THEN Goto(j, "emit") ELSE Return(j)
        /\ UNCHANGED <<home, dirs, fresh, disk, sweep, history>>

\* No file, or no card: an upload takes its file back.
AttachFails(j) ==
    LET k == job[j]
    IN  /\ At(j, "attach") /\ (k.path \notin disk \/ ~Sees(k.card)) /\ Call
        /\ disk' = IF k.kind = "upload" THEN disk \ {k.path} ELSE disk
        /\ Return(j)
        /\ UNCHANGED <<home, att, spent, dirs, fresh, sweep, history>>

\* The event is written, or not: the call returns.  The events of the other calls
\* come after their last effect and are part of it.
Emit(j) ==
    /\ At(j, "emit") /\ Call /\ Return(j)
    /\ UNCHANGED <<home, att, spent, dirs, fresh, disk, sweep, history>>

\* Mutant: the old file goes first.
SwapRow_UnlinksFirst(j) ==
    LET k == job[j]
    IN  /\ At(j, "swap") /\ Call
        /\ att' = IF att[k.att] # None /\ Sees(k.card) THEN [att EXCEPT ![k.att] = Row(k)]
                  ELSE att
        /\ disk' = disk \ {k.old} /\ Return(j)
        /\ UNCHANGED <<home, spent, dirs, fresh, sweep, history>>

\* _update_generated: the row is pointed at the new file ...
SwapRow(j) ==
    LET k == job[j]
    IN  /\ At(j, "swap") /\ Call
        /\ \/ /\ att[k.att] # None /\ Sees(k.card)
              /\ att' = [att EXCEPT ![k.att] = Row(k)]
              /\ Goto(j, "unlink")
           \/ (att[k.att] = None \/ ~Sees(k.card)) /\ Return(j) /\ UNCHANGED att
        /\ UNCHANGED <<home, spent, dirs, fresh, disk, sweep, history>>

\* ... and the superseded one is unlinked.
Unlink(j) ==
    /\ At(j, "unlink")
    /\ disk' = disk \ {job[j].old}
    /\ Return(j)
    /\ UNCHANGED <<storage, home, att, spent, dirs, fresh, sweep, history>>

DeleteAttachment(j, a) ==
    /\ At(j, "idle") /\ att[a] # None /\ Sees(att[a].path[1]) /\ Call
    /\ att' = [att EXCEPT ![a] = None]
    /\ Become(j, [Idle EXCEPT !.pc = "unlink", !.card = att[a].path[1], !.old = att[a].path])
    /\ UNCHANGED <<home, spent, dirs, fresh, disk, sweep, history>>

-----------------------------------------------------------------------------
(* UnifiedSweeper._sweep_todo_orphans *)

\* Not while degraded; the listing itself may be the call that finds out.
ListCards ==
    /\ sweep.pc = "idle" /\ ~degraded /\ Call
    /\ sweep' = [pc |-> "listed", live |-> {c \in Cards : Sees(c)},
                 blind |-> {c \in Cards : Live(c) /\ ~Sees(c)}]
    /\ UNCHANGED <<home, att, spent, dirs, fresh, disk, job, history>>

\* Mutant: no grace for a directory whose row is still to come.
Orphaned_NoGrace == dirs \ sweep.live

\* Mutant: rmdir for rmtree.
Orphaned_Empty == {c \in (dirs \ sweep.live) \ fresh : In(c) = {}}

Orphaned == (dirs \ sweep.live) \ fresh

SweepDir(c) ==
    /\ sweep.pc = "listed" /\ c \in Orphaned
    /\ dirs' = dirs \ {c} /\ disk' = disk \ In(c)
    /\ lost' = lost \cup ({c} \cap sweep.blind)
    /\ UNCHANGED <<storage, home, att, spent, fresh, job, sweep, torn>>

SweepDone ==
    /\ sweep.pc = "listed" /\ Orphaned = {}
    /\ sweep' = NoSweep
    /\ UNCHANGED <<storage, home, att, spent, dirs, fresh, disk, job, history>>

\* An hour goes by; no call and no sweep takes that long.
Age(c) ==
    /\ c \in fresh /\ sweep.pc = "idle" /\ \A j \in Jobs : ~On(j, c)
    /\ fresh' = fresh \ {c}
    /\ UNCHANGED <<storage, home, att, spent, dirs, disk, job, sweep, history>>

-----------------------------------------------------------------------------
(* Postgres and the process *)

Rest == UNCHANGED <<att, spent, dirs, fresh, disk, history>>

Outage ==
    /\ up /\ faults < MaxFaults
    /\ up' = FALSE /\ faults' = faults + 1
    /\ draining' = FALSE
    /\ UNCHANGED <<degraded, home, job, sweep>> /\ Rest

Recover ==
    /\ ~up /\ up' = TRUE
    /\ UNCHANGED <<degraded, draining, faults, home, job, sweep>> /\ Rest

\* The probe clears the flag, then runs the drain.
Probe ==
    /\ up /\ degraded
    /\ degraded' = FALSE /\ draining' = TRUE
    /\ UNCHANGED <<up, faults, home, job, sweep>> /\ Rest

Drain ==
    /\ draining /\ draining' = FALSE
    /\ home' = [c \in Cards |-> IF home[c] = "buf" THEN "pg" ELSE home[c]]
    /\ UNCHANGED <<up, degraded, faults, job, sweep>> /\ Rest

\* The daemon dies between any two steps; what is on the disk and in the
\* databases stays, and no drain runs at the boot.
Crash ==
    /\ up /\ faults < MaxFaults /\ faults' = faults + 1
    /\ degraded' = FALSE /\ draining' = FALSE
    /\ job' = [j \in Jobs |-> Idle] /\ sweep' = NoSweep
    /\ UNCHANGED <<up, home>> /\ Rest

Begin(j) ==
    \/ \E c \in Cards : MakeWorkspace(j, c) \/ DeleteCard(j, c) \/ Upload(j, c)
                       \/ Generate(j, c)
    \/ \E a \in Atts : DeleteAttachment(j, a)

Continue(j) ==
    \/ InsertCard(j) \/ DeleteRows(j) \/ RemoveWorkspace(j)
    \/ OpenFile(j) \/ AttachFails(j) \/ Emit(j) \/ SwapRow(j) \/ Unlink(j)
    \/ WriteFile(j) \/ Attach(j) \/ \E n \in Names : ChoosePath(j, n)

Sweeper == ListCards \/ SweepDone \/ \E c \in Cards : SweepDir(c)

Next ==
    \/ \E j \in Jobs : Begin(j) \/ Continue(j) \/ InsertFails(j) \/ UploadFails(j)
    \/ Sweeper \/ \E c \in Cards : Age(c)
    \/ Outage \/ Recover \/ Probe \/ Drain \/ Crash

Spec == Init /\ [][Next]_vars

\* The event loop runs its tasks and the sweeper its ticks; time passes;
\* Postgres does not stay away.
Fairness ==
    /\ WF_vars(Sweeper) /\ WF_vars(Recover) /\ WF_vars(Probe) /\ WF_vars(Drain)
    /\ \A j \in Jobs : WF_vars(Continue(j))
    /\ \A c \in Cards : SF_vars(Age(c))
FairSpec == Spec /\ Fairness

-----------------------------------------------------------------------------
(* Properties *)

JobPcs == {"idle", "insert", "delete", "rmtree", "upload", "open", "attach", "emit",
           "make", "swap", "unlink"}
Kinds == {"upload", "journey"}

\* The types of the rows, the disk, the calls and the sweep.
TypeOK ==
    /\ up \in BOOLEAN /\ degraded \in BOOLEAN /\ draining \in BOOLEAN
    /\ faults \in 0..MaxFaults
    /\ home \in [Cards -> {"none", "pg", "buf", "gone"}]
    /\ att \in [Atts -> [kind : Kinds, path : Paths] \cup {None}]
    /\ spent \subseteq Atts \cup Made
    /\ dirs \subseteq Cards /\ fresh \subseteq dirs /\ disk \subseteq Paths
    /\ \A p \in disk : p[1] \in dirs
    /\ job \in [Jobs -> [pc : JobPcs, kind : Kinds, card : Cards \cup {None},
                         path : Paths \cup {None}, att : Atts \cup {None},
                         old : Paths \cup {None}, blind : BOOLEAN]]
    /\ sweep \in [pc : {"idle", "listed"}, live : SUBSET Cards, blind : SUBSET Cards]
    /\ lost \subseteq Cards /\ torn \subseteq Paths

\* "a crash mid-way always leaves a working attachment, never a dangling row":
\* every row has its file, through regenerations, deletions, sweeps and crashes.
\* The exceptions are the two kinds of upload in torn and the cards in lost.
NeverDangling ==
    \A a \in Atts : att[a] # None =>
        att[a].path \in disk \/ att[a].path \in torn \/ att[a].path[1] \in lost

\* A card has its workspace directory from its first moment on, whatever the
\* sweeper finds between the mkdir and the row.
WorkspaceKept == \A c \in Cards : Live(c) => c \in dirs \cup lost

\* No attachment survives its card, however the calls overlap.
NoOrphanRows == \A a \in Atts : att[a] # None => Live(att[a].path[1])

\* Two databases, half-done calls, outages, drains and crashes together show what
\* Board allows: a card deleted with all it has and for good, attachments under
\* new ids to cards that are there, each its own file, and changed by nothing but
\* the call that regenerates them.
Shown ==
    INSTANCE Board WITH
        Card <- Cards, Att <- Atts, File <- Files, rows <- att,
        stage <- [c \in Cards |-> IF Live(c) THEN "live" ELSE home[c]],
        used <- spent \cap Atts,
        excused <- torn \cup {p \in Paths : p[1] \in lost}
Refines == Shown!Spec

\* A directory left by a crash, a failed rmtree or a generator that came too late
\* is swept in the end.
OrphansSwept ==
    \A c \in Cards : c \in dirs /\ ~Live(c) ~> c \notin dirs \/ Live(c)

=============================================================================
