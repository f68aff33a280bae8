---------------------------- MODULE TodoBoardProofs ----------------------------
(***************************************************************************)
(* Theorems about TodoBoard, for any cards, attachments, files, calls and  *)
(* number of faults: a card keeps its workspace, no attachment survives    *)
(* its card, and every attachment has its file.                            *)
(***************************************************************************)
EXTENDS TodoBoard, TLAPS

Calls == [pc : JobPcs, kind : Kinds, card : Cards \cup {None},
          path : Paths \cup {None}, att : Atts \cup {None},
          old : Paths \cup {None}, blind : BOOLEAN]

\* Nothing is promised of such a path any more.
Doubt(p) == p \in torn \/ p[1] \in lost \/ home[p[1]] = "gone"

\* A call that will put its path into a row, one that will unlink what was in a
\* row, and one that will do so once it has replaced it.
Holds(k, p) == k.pc \in {"open", "attach", "swap"} /\ k.path = p
Drops(k, p) == k.pc = "unlink" /\ k.old = p
Keeps(k, p) == k.pc \in {"make", "swap"} /\ k.att # None /\ k.old = p

\* A call is about paths of its card; a generated file has its name for itself.
Shape(k) ==
    /\ k.pc # "idle" => k.card \in Cards
    /\ k.path # None =>
          /\ k.path[1] = k.card /\ k.pc # "idle"
          /\ k.kind = "upload" => k.path[2] \in Names
          /\ k.kind = "journey" => k.path[2] \in Made \cap spent
    /\ k.old # None => k.old[1] = k.card /\ k.old[2] \in Names \cup spent
    /\ k.pc \in {"open", "attach", "swap", "emit"} => k.path # None
    /\ k.pc \in {"upload", "open", "emit"} => k.kind = "upload"
    /\ k.pc \in {"make", "swap"} => k.kind = "journey"
    /\ k.pc = "make" => k.path = None
    /\ k.pc = "swap" => k.att # None
    /\ k.pc = "unlink" => k.old # None
    /\ k.pc \in {"make", "swap"} /\ k.att # None => k.old # None /\ k.old[2] \in Made

RowShape(r) ==
    /\ r.path[2] \in Names \cup spent
    /\ r.kind = "journey" => r.path[2] \in Made

Shapes ==
    /\ \A j \in Jobs : Shape(job[j])
    /\ \A a \in Atts : att[a] # None => RowShape(att[a])

\* Between the mkdir and the row the directory is fresh and nobody else knows the
\* card; a directory is removed by a call only when its card is gone, or blindly.
Homed(k) ==
    /\ k.pc = "insert" => home[k.card] = "none" /\ k.card \in dirs /\ k.card \in fresh
    /\ k.pc \notin {"idle", "insert"} => home[k.card] # "none"
    /\ k.pc = "rmtree" => home[k.card] = "gone" \/ k.blind

Housed ==
    /\ \A j \in Jobs : Homed(job[j])
    /\ \A j, k \in Jobs : j # k /\ At(j, "insert") /\ At(k, "insert")
                              => job[j].card # job[k].card
    /\ \A p \in disk : home[p[1]] # "none"
    /\ sweep.pc = "listed" =>
          \A c \in Cards : Live(c) => c \in sweep.live \cup sweep.blind \cup fresh \cup lost
    /\ WorkspaceKept
    /\ NoOrphanRows

\* Who may refer to a path together.
RowsFiled ==
    /\ \A a \in Atts : att[a] # None => att[a].path \in disk \/ Doubt(att[a].path)
    /\ \A a, b \in Atts :
          a # b /\ att[a] # None /\ att[b] # None /\ att[a].path = att[b].path
              => Doubt(att[a].path)
    /\ \A a \in Atts, j \in Jobs :
          att[a] # None /\ (Holds(job[j], att[a].path) \/ Drops(job[j], att[a].path))
              => Doubt(att[a].path)
    /\ \A a \in Atts, j \in Jobs :
          att[a] # None /\ Keeps(job[j], att[a].path) /\ job[j].att # a
              => Doubt(att[a].path)

CallsFiled ==
    /\ \A i, j \in Jobs :
          i # j /\ job[i].path # None /\ job[i].path = job[j].path => Doubt(job[i].path)
    /\ \A i, j \in Jobs :
          Holds(job[i], job[i].path)
              /\ (Drops(job[j], job[i].path) \/ Keeps(job[j], job[i].path))
              => Doubt(job[i].path)
    /\ \A i, j \in Jobs :
          i # j /\ Drops(job[i], job[i].old) /\ Drops(job[j], job[i].old)
              => Doubt(job[i].old) \/ job[i].old[2] \in Made
    /\ \A i \in Jobs :
          At(i, "unlink") => \/ job[i].old \in disk \/ Doubt(job[i].old)
                             \/ job[i].old[2] \in Made
    /\ \A i \in Jobs : At(i, "swap") => job[i].path \in disk \/ Doubt(job[i].path)

\* The inductive invariant.
Filed == TypeOK /\ Shapes /\ Housed /\ RowsFiled /\ CallsFiled

-----------------------------------------------------------------------------
(* What every step has in common *)

LEMMA IdleIsACall == Idle \in Calls /\ Shape(Idle) /\ Homed(Idle)
BY SetsAssumption DEF Idle, Calls, JobPcs, Kinds, Shape, Homed

\* A call makes no claim it did not make before.
Lesser(k, l) ==
    /\ k.path # None => k.path = l.path
    /\ k.pc \in {"open", "attach", "swap"} =>
          l.pc \in {"open", "attach", "swap"} /\ k.path = l.path
    /\ k.pc = "swap" => l.pc = "swap"
    /\ k.pc = "unlink" => l.pc = "unlink" /\ k.old = l.old
    /\ k.pc \in {"make", "swap"} /\ k.att # None =>
          l.pc \in {"make", "swap"} /\ k.att = l.att /\ k.old = l.old

\* What is promised of a path still is, or it is in doubt.
Settled(p) ==
    /\ \A a \in Atts : att[a] # None /\ att[a].path = p => Doubt(p)
    /\ \A i \in Jobs : At(i, "swap") /\ job[i].path = p => Doubt(p)
    /\ \A i \in Jobs : At(i, "unlink") /\ job[i].old = p => Doubt(p) \/ p[2] \in Made

LEMMA DoubtStays ==
    ASSUME NEW p \in Paths, Doubt(p), torn \subseteq torn', lost \subseteq lost',
           \A c \in Cards : home[c] = "gone" => home'[c] = "gone"
    PROVE  Doubt(p)'
BY DEF Doubt, Paths

\* The paths in rows and calls are paths.
LEMMA PathTypes ==
    ASSUME TypeOK
    PROVE  /\ None \notin Paths
           /\ \A a \in Atts : att[a] # None =>
                 /\ att[a].path \in Paths /\ att[a].path[1] \in Cards
                 /\ att[a].kind \in Kinds
           /\ \A j \in Jobs :
                 /\ job[j].path # None => job[j].path \in Paths /\ job[j].path[1] \in Cards
                 /\ job[j].old # None => job[j].old \in Paths /\ job[j].old[1] \in Cards
BY SetsAssumption DEF TypeOK, Paths

\* Steps that only let go of rows and calls.
LEMMA FilesKept ==
    ASSUME Filed,
           \A i \in Jobs : Lesser(job'[i], job[i]),
           \A a \in Atts : att'[a] = None \/ att'[a] = att[a],
           torn \subseteq torn', lost \subseteq lost',
           \A c \in Cards : home[c] = "gone" => home'[c] = "gone",
           \A p \in disk : p \notin disk' => Settled(p)'
    PROVE  RowsFiled' /\ CallsFiled'
<1> USE DEF Filed
<1>1. \A p \in Paths : Doubt(p) => Doubt(p)'
  BY DoubtStays
<1>2. /\ \A a \in Atts : att[a] # None => att[a].path \in Paths
      /\ \A j \in Jobs : job[j].path # None => job[j].path \in Paths
      /\ \A j \in Jobs : job[j].pc = "unlink" => job[j].old # None /\ job[j].old \in Paths
      /\ \A j \in Jobs : job[j].pc \in {"open", "attach", "swap"} => job[j].path # None
      /\ \A j \in Jobs : job[j].pc \in {"make", "swap"} /\ job[j].att # None => job[j].old # None
  BY PathTypes DEF Shapes, Shape
<1>3. RowsFiled'
  <2>1. ASSUME NEW a \in Atts, att'[a] # None
        PROVE  att'[a].path \in disk' \/ Doubt(att[a].path)'
    <3>1. att'[a] = att[a]
      BY <2>1
    <3>2. att[a].path \in disk \/ Doubt(att[a].path)
      BY <2>1, <3>1 DEF RowsFiled
    <3>3. CASE att[a].path \in disk /\ att[a].path \notin disk'
      BY <2>1, <3>1, <3>3 DEF Settled
    <3>4. CASE Doubt(att[a].path)
      BY <1>1, <1>2, <2>1, <3>1, <3>4
    <3> QED BY <3>1, <3>2, <3>3, <3>4
  <2>2. ASSUME NEW a \in Atts, NEW b \in Atts, a # b, att'[a] # None, att'[b] # None,
               att'[a].path = att'[b].path
        PROVE  Doubt(att[a].path)'
    BY <1>1, <1>2, <2>2 DEF RowsFiled
  <2>3. ASSUME NEW a \in Atts, NEW j \in Jobs, att'[a] # None,
               Holds(job'[j], att'[a].path) \/ Drops(job'[j], att'[a].path)
        PROVE  Doubt(att[a].path)'
    <3>1. Holds(job[j], att[a].path) \/ Drops(job[j], att[a].path)
      BY <2>3 DEF Holds, Drops, Lesser
    <3> QED BY <1>1, <1>2, <2>3, <3>1 DEF RowsFiled
  <2>4. ASSUME NEW a \in Atts, NEW j \in Jobs, att'[a] # None,
               Keeps(job'[j], att'[a].path), job'[j].att # a
        PROVE  Doubt(att[a].path)'
    <3>1. Keeps(job[j], att[a].path) /\ job[j].att # a
      BY <2>4 DEF Keeps, Lesser
    <3> QED BY <1>1, <1>2, <2>4, <3>1 DEF RowsFiled
  <2> QED BY <2>1, <2>2, <2>3, <2>4 DEF RowsFiled
<1>4. CallsFiled'
  <2>1. ASSUME NEW i \in Jobs, NEW j \in Jobs, i # j, job'[i].path # None,
               job'[i].path = job'[j].path
        PROVE  Doubt(job[i].path)'
    BY <1>1, <1>2, <2>1 DEF CallsFiled, Lesser
  <2>2. ASSUME NEW i \in Jobs, NEW j \in Jobs, Holds(job'[i], job'[i].path),
               Drops(job'[j], job'[i].path) \/ Keeps(job'[j], job'[i].path)
        PROVE  Doubt(job[i].path)'
    <3>1. job'[i].path = job[i].path /\ Holds(job[i], job[i].path)
      BY <2>2 DEF Holds, Lesser
    <3>2. Drops(job[j], job[i].path) \/ Keeps(job[j], job[i].path)
      BY <2>2, <3>1 DEF Drops, Keeps, Lesser
    <3>3. Doubt(job[i].path)
      BY <3>1, <3>2 DEF CallsFiled
    <3> QED BY <1>1, <1>2, <3>1, <3>3 DEF Holds
  <2>3. ASSUME NEW i \in Jobs, NEW j \in Jobs, i # j, Drops(job'[i], job'[i].old),
               Drops(job'[j], job'[i].old)
        PROVE  Doubt(job[i].old)' \/ job'[i].old[2] \in Made
    <3>1. job'[i].old = job[i].old /\ Drops(job[i], job[i].old) /\ Drops(job[j], job[i].old)
      BY <2>3 DEF Drops, Lesser
    <3>2. Doubt(job[i].old) \/ job[i].old[2] \in Made
      BY <2>3, <3>1 DEF CallsFiled
    <3> QED BY <1>1, <1>2, <3>1, <3>2 DEF Drops
  <2>4. ASSUME NEW i \in Jobs, At(i, "unlink")'
        PROVE  job'[i].old \in disk' \/ Doubt(job[i].old)' \/ job'[i].old[2] \in Made
    <3>1. job'[i].old = job[i].old /\ At(i, "unlink")
      BY <2>4 DEF At, Lesser
    <3>2. job[i].old \in disk \/ Doubt(job[i].old) \/ job[i].old[2] \in Made
      BY <3>1 DEF CallsFiled
    <3>3. CASE job[i].old \in disk /\ job[i].old \notin disk'
      BY <2>4, <3>1, <3>3 DEF Settled
    <3>4. CASE Doubt(job[i].old)
      BY <1>1, <1>2, <3>1, <3>4 DEF At
    <3> QED BY <3>1, <3>2, <3>3, <3>4
  <2>5. ASSUME NEW i \in Jobs, At(i, "swap")'
        PROVE  job'[i].path \in disk' \/ Doubt(job[i].path)'
    <3>1. job'[i].path = job[i].path /\ At(i, "swap")
      BY <2>5 DEF At, Lesser
    <3>2. job[i].path \in disk \/ Doubt(job[i].path)
      BY <3>1 DEF CallsFiled
    <3>3. CASE job[i].path \in disk /\ job[i].path \notin disk'
      BY <2>5, <3>1, <3>3 DEF Settled
    <3>4. CASE Doubt(job[i].path)
      BY <1>1, <1>2, <3>1, <3>4 DEF At
    <3> QED BY <3>1, <3>2, <3>3, <3>4
  <2> QED BY <2>1, <2>2, <2>3, <2>4, <2>5 DEF CallsFiled
<1> QED BY <1>3, <1>4

LEMMA ShapesKept ==
    ASSUME Filed, NEW j \in Jobs, NEW k \in Calls, job' = [job EXCEPT ![j] = k],
           Shape(k)', spent \subseteq spent',
           \A a \in Atts : att'[a] # None =>
               att'[a] = att[a] \/ RowShape(att[a])'
    PROVE  Shapes'
<1> USE DEF Filed
<1>1. ASSUME NEW i \in Jobs PROVE Shape(job[i])'
  <2>1. CASE i = j
    BY <2>1 DEF TypeOK
  <2>2. CASE i # j
    <3>1. job'[i] = job[i] /\ Shape(job[i])
      BY <2>2 DEF TypeOK, Shapes
    <3> QED BY <3>1 DEF Shape
  <2> QED BY <2>1, <2>2
<1>2. ASSUME NEW a \in Atts, att'[a] # None PROVE RowShape(att[a])'
  BY <1>2 DEF Shapes, RowShape
<1> QED BY <1>1, <1>2 DEF Shapes

\* Steps of a call that do not disturb the cards.
LEMMA HousedKept ==
    ASSUME Filed, NEW j \in Jobs, NEW k \in Calls, job' = [job EXCEPT ![j] = k],
           Homed(k)', k.pc # "insert",
           UNCHANGED <<home, sweep, lost>>, dirs \subseteq dirs', fresh \subseteq fresh',
           \A p \in disk' : p \in disk \/ home[p[1]] # "none",
           \A a \in Atts : att'[a] # None => att'[a] = att[a] \/ Live(att'[a].path[1])
    PROVE  Housed'
<1> USE DEF Filed
<1>1. ASSUME NEW i \in Jobs PROVE Homed(job[i])' /\ (i # j => job'[i] = job[i])
  <2>1. CASE i = j
    BY <2>1 DEF TypeOK
  <2>2. CASE i # j
    <3>1. job'[i] = job[i] /\ Homed(job[i])
      BY <2>2 DEF TypeOK, Housed
    <3> QED BY <3>1 DEF Homed
  <2> QED BY <2>1, <2>2
<1>2. job'[j] = k
  BY DEF TypeOK
<1>3. \A i, l \in Jobs : i # l /\ At(i, "insert")' /\ At(l, "insert")'
                           => job'[i].card # job'[l].card
  BY <1>1, <1>2 DEF Housed, At
<1>4. \A p \in disk' : home'[p[1]] # "none"
  BY DEF Housed
<1>5. sweep'.pc = "listed" =>
        \A c \in Cards : Live(c)' => c \in sweep'.live \cup sweep'.blind \cup fresh' \cup lost'
  BY DEF Housed, Live
<1>6. WorkspaceKept' /\ NoOrphanRows'
  BY DEF Housed, WorkspaceKept, NoOrphanRows, Live
<1> QED BY <1>1, <1>3, <1>4, <1>5, <1>6 DEF Housed

-----------------------------------------------------------------------------
(* Steps of one call that let go *)

LEMMA LesserKept ==
    ASSUME Filed, NEW j \in Jobs, NEW k \in Calls, job' = [job EXCEPT ![j] = k],
           Lesser(k, job[j])
    PROVE  \A i \in Jobs : Lesser(job'[i], job[i])
BY DEF Filed, TypeOK, Lesser

LEMMA IdleIsLess == \A l \in Calls : Lesser(Idle, l)
BY DEF Idle, Lesser

\* TypeOK of what a call leaves alone, and of the call itself.
LEMMA JobTyped ==
    ASSUME TypeOK, NEW j \in Jobs, NEW k \in Calls, job' = [job EXCEPT ![j] = k]
    PROVE  /\ job' \in [Jobs -> Calls] /\ job'[j] = k
           /\ \A i \in Jobs : i # j => job'[i] = job[i]
BY DEF TypeOK, Calls

LEMMA MakeWorkspaceFiled ==
    ASSUME Filed, NEW j \in Jobs, NEW c \in Cards, MakeWorkspace(j, c)
    PROVE  Filed'
<1> USE DEF Filed
<1> DEFINE k == [Idle EXCEPT !.pc = "insert", !.card = c]
<1>1. /\ k \in Calls /\ job' = [job EXCEPT ![j] = k] /\ k.pc = "insert" /\ k.card = c
      /\ k.path = None /\ k.old = None /\ k.att = None
  BY IdleIsACall DEF MakeWorkspace, Become, Calls, Idle, JobPcs
<1> HIDE DEF k
<1>2. /\ home[c] = "none" /\ c \notin dirs
      /\ dirs' = dirs \cup {c} /\ fresh' = fresh \cup {c}
      /\ UNCHANGED <<storage, home, att, spent, disk, sweep, history>>
  BY DEF MakeWorkspace
<1>3. /\ job' \in [Jobs -> Calls] /\ job'[j] = k
      /\ \A i \in Jobs : i # j => job'[i] = job[i]
  BY <1>1, JobTyped
<1>4. TypeOK'
  BY <1>2, <1>3 DEF TypeOK, storage, history, Calls
<1>5. Shapes'
  BY <1>1, <1>2, ShapesKept DEF Shape
<1>6. Housed'
  <2>1. \A i \in Jobs : i # j => Homed(job[i])'
    BY <1>2, <1>3 DEF Housed, Homed
  <2>2. Homed(job[j])'
    BY <1>1, <1>2, <1>3 DEF Homed
  <2>3. \A i \in Jobs : At(i, "insert") => job[i].card # c
    BY <1>2 DEF Housed, Homed, At
  <2>4. \A i, l \in Jobs : i # l /\ At(i, "insert")' /\ At(l, "insert")'
                           => job'[i].card # job'[l].card
    BY <1>1, <1>3, <2>3 DEF Housed, At
  <2>5. WorkspaceKept' /\ NoOrphanRows'
    BY <1>2 DEF Housed, WorkspaceKept, NoOrphanRows, Live, history
  <2> QED BY <1>2, <2>1, <2>2, <2>4, <2>5 DEF Housed, Live, history
<1>7. RowsFiled' /\ CallsFiled'
  <2>1. Lesser(k, job[j])
    BY <1>1 DEF Lesser
  <2> QED BY <1>1, <1>2, <2>1, LesserKept, FilesKept DEF history
<1> QED BY <1>4, <1>5, <1>6, <1>7

LEMMA InsertFiled ==
    ASSUME Filed, NEW j \in Jobs, InsertCard(j) \/ InsertFails(j)
    PROVE  Filed'
<1> USE DEF Filed
<1>1. PICK c \in Cards : c = job[j].card
  BY DEF InsertCard, InsertFails, At, Shapes, Shape
<1>2. /\ At(j, "insert") /\ home[c] = "none" /\ c \in dirs
      /\ \A i \in Jobs : i # j /\ ~At(i, "idle") => job[i].card # c
  BY <1>1 DEF InsertCard, InsertFails, Housed, Homed, At
<1>3. /\ job' = [job EXCEPT ![j] = Idle]
      /\ UNCHANGED <<att, spent, disk, sweep, lost, torn>>
      /\ UNCHANGED <<up, draining, faults>> /\ degraded' \in BOOLEAN
      /\ \/ home' = [home EXCEPT ![c] = Serving] /\ UNCHANGED <<dirs, fresh>>
         \/ dirs' = dirs \ {c} /\ fresh' = fresh \ {c} /\ home' = home
  BY <1>1 DEF InsertCard, InsertFails, Return, Become, Call, history, TypeOK
<1>4. Idle.pc = "idle"
  BY DEF Idle
<1>5. /\ job' \in [Jobs -> Calls] /\ job'[j] = Idle
      /\ \A i \in Jobs : i # j => job'[i] = job[i]
  BY <1>3, IdleIsACall, JobTyped
<1>6. /\ home' \in [Cards -> {"none", "pg", "buf", "gone"}]
      /\ \A d \in Cards : d # c => home'[d] = home[d] /\ (d \in dirs' <=> d \in dirs)
                                  /\ (d \in fresh' <=> d \in fresh)
      /\ home'[c] \in {"none", "pg", "buf"}
      /\ home'[c] # "none" => c \in dirs' /\ c \in fresh'
  BY <1>1, <1>2, <1>3 DEF Serving, TypeOK, Housed, Homed, At
<1>7. \A p \in disk : p[1] \in Cards /\ p[1] # c
  BY <1>2 DEF Housed, TypeOK, Paths
<1>8. TypeOK'
  <2>1. dirs' \subseteq Cards /\ fresh' \subseteq dirs' /\ \A p \in disk : p[1] \in dirs'
    BY <1>3, <1>6, <1>7 DEF TypeOK
  <2> QED BY <1>3, <1>5, <1>6, <2>1 DEF TypeOK, Calls
<1>9. Shapes'
  <2>1. Shape(Idle)'
    BY DEF Shape, Idle
  <2> QED BY <1>3, <2>1, IdleIsACall, ShapesKept
<1>10. Housed'
  <2>1. ASSUME NEW i \in Jobs PROVE Homed(job[i])'
    <3>1. CASE i = j
      BY <1>4, <1>5, <3>1 DEF Homed
    <3>2. CASE i # j /\ At(i, "idle")
      BY <1>5, <3>2 DEF Homed, At
    <3>3. CASE i # j /\ ~At(i, "idle")
      <4>1. job'[i] = job[i] /\ job[i].card # c /\ job[i].card \in Cards /\ Homed(job[i])
        BY <1>2, <1>5, <3>3 DEF Shapes, Shape, Housed, At
      <4> QED BY <1>6, <4>1 DEF Homed
    <3> QED BY <3>1, <3>2, <3>3
  <2>2. \A i, l \in Jobs : i # l /\ At(i, "insert")' /\ At(l, "insert")'
                           => job'[i].card # job'[l].card
    BY <1>4, <1>5 DEF Housed, At
  <2>3. \A p \in disk' : home'[p[1]] # "none"
    BY <1>3, <1>6, <1>7 DEF Housed
  <2>4. WorkspaceKept'
    BY <1>3, <1>6 DEF Housed, WorkspaceKept, Live
  <2>5. NoOrphanRows'
    <3>1. \A a \in Atts : att[a] # None => att[a].path[1] \in Cards /\ att[a].path[1] # c
      BY <1>2, PathTypes DEF Housed, NoOrphanRows, Live
    <3> QED BY <1>3, <1>6, <3>1 DEF Housed, NoOrphanRows, Live
  <2>6. sweep'.pc = "listed" =>
          \A d \in Cards : Live(d)' =>
              d \in sweep'.live \cup sweep'.blind \cup fresh' \cup lost'
    BY <1>3, <1>6 DEF Housed, Live
  <2> QED BY <2>1, <2>2, <2>3, <2>4, <2>5, <2>6 DEF Housed
<1>11. RowsFiled' /\ CallsFiled'
  <2>1. \A d \in Cards : home[d] = "gone" => home'[d] = "gone"
    BY <1>2, <1>6
  <2>2. Lesser(Idle, job[j])
    BY IdleIsLess DEF TypeOK, Calls
  <2> QED BY <1>3, <2>1, <2>2, IdleIsACall, LesserKept, FilesKept
<1> QED BY <1>8, <1>9, <1>10, <1>11

\* A call that begins, ends or goes on without an effect on rows and disk.
LEMMA QuietFiled ==
    ASSUME Filed, NEW j \in Jobs, NEW k \in Calls, job' = [job EXCEPT ![j] = k],
           Call, UNCHANGED <<home, att, spent, dirs, fresh, disk, sweep, history>>,
           Lesser(k, job[j]), Shape(k), Homed(k), k.pc # "insert"
    PROVE  Filed'
<1> USE DEF Filed
<1>1. TypeOK'
  BY JobTyped DEF TypeOK, Call, history, Calls
<1>2. Shapes'
  BY ShapesKept DEF Shape
<1>3. Housed'
  BY HousedKept DEF Homed, history
<1>4. RowsFiled' /\ CallsFiled'
  BY LesserKept, FilesKept DEF history
<1> QED BY <1>1, <1>2, <1>3, <1>4

LEMMA BeginFiled ==
    ASSUME Filed, NEW j \in Jobs, NEW c \in Cards, DeleteCard(j, c) \/ Upload(j, c)
    PROVE  Filed'
<1>1. PICK pc \in {"delete", "upload"} :
          /\ job' = [job EXCEPT ![j] = [Idle EXCEPT !.pc = pc, !.card = c]]
          /\ Sees(c) /\ Call
          /\ UNCHANGED <<home, att, spent, dirs, fresh, disk, sweep, history>>
  BY DEF DeleteCard, Upload, Become
<1> DEFINE k == [Idle EXCEPT !.pc = pc, !.card = c]
<1>2. /\ k \in Calls /\ k.pc = pc /\ k.card = c /\ k.path = None /\ k.old = None
      /\ k.att = None /\ k.kind = "upload"
  BY SetsAssumption DEF Idle, Calls, JobPcs, Kinds
<1>3. job' = [job EXCEPT ![j] = k]
  BY <1>1
<1> HIDE DEF k
<1>4. Lesser(k, job[j]) /\ Shape(k) /\ Homed(k)
  BY <1>1, <1>2 DEF Lesser, Shape, Homed, Sees, Serving
<1> QED BY <1>1, <1>2, <1>3, <1>4, QuietFiled

LEMMA EmitFiled ==
    ASSUME Filed, NEW j \in Jobs, Emit(j)
    PROVE  Filed'
<1>1. Lesser(Idle, job[j])
  BY IdleIsLess DEF Filed, TypeOK, Calls
<1>2. Idle.pc # "insert"
  BY DEF Idle
<1> QED BY <1>1, <1>2, IdleIsACall, QuietFiled DEF Emit, Return, Become

LEMMA DeleteRowsFiled ==
    ASSUME Filed, NEW j \in Jobs, DeleteRows(j)
    PROVE  Filed'
<1> USE DEF Filed
<1>1. PICK c \in Cards : c = job[j].card
  BY DEF DeleteRows, At, Shapes, Shape
<1> DEFINE k == [job[j] EXCEPT !.pc = "rmtree", !.blind = Live(c) /\ ~Sees(c)]
<1>2. job[j] \in Calls /\ At(j, "delete") /\ home[c] # "none"
  BY <1>1 DEF TypeOK, Calls, DeleteRows, Housed, Homed, At
<1>3. /\ k \in Calls /\ k.pc = "rmtree" /\ k.card = c
      /\ k.path = job[j].path /\ k.old = job[j].old /\ k.kind = job[j].kind
      /\ k.blind <=> Live(c) /\ ~Sees(c)
  BY <1>1, <1>2 DEF Calls, JobPcs, Live, Sees
<1>4. job' = [job EXCEPT ![j] = k]
  BY <1>1, <1>2 DEF DeleteRows, Calls, TypeOK
<1> HIDE DEF k
<1>5. /\ UNCHANGED <<spent, dirs, fresh, disk, sweep, history>> /\ Call
      /\ \/ /\ Sees(c) /\ home' = [home EXCEPT ![c] = "gone"]
            /\ att' = [a \in Atts |-> IF a \in RowsOf(c) THEN None ELSE att[a]]
         \/ ~Sees(c) /\ UNCHANGED <<home, att>>
  BY <1>1 DEF DeleteRows
<1>6. /\ \A a \in Atts : att'[a] = None \/ att'[a] = att[a]
      /\ \A a \in Atts : att'[a] # None /\ home' # home => att[a].path[1] # c
  BY <1>5 DEF RowsOf
<1>7. /\ home' \in [Cards -> {"none", "pg", "buf", "gone"}]
      /\ \A d \in Cards : home'[d] = home[d] \/ (d = c /\ home'[d] = "gone")
      /\ home'[c] = "gone" \/ k.blind
  BY <1>1, <1>2, <1>3, <1>5 DEF TypeOK, Live
<1>8. /\ job' \in [Jobs -> Calls] /\ job'[j] = k
      /\ \A i \in Jobs : i # j => job'[i] = job[i]
  BY <1>3, <1>4, JobTyped
<1>9. TypeOK'
  <2>1. att' \in [Atts -> [kind : Kinds, path : Paths] \cup {None}]
    BY <1>5 DEF TypeOK
  <2> QED BY <1>5, <1>7, <1>8, <2>1 DEF TypeOK, Call, history, Calls
<1>10. Shapes'
  <2>1. Shape(job[j]) /\ Shape(k)
    BY <1>1, <1>2, <1>3 DEF Shapes, Shape, At
  <2> QED BY <1>3, <1>4, <1>5, <1>6, <2>1, ShapesKept DEF Shape
<1>11. Housed'
  <2>1. ASSUME NEW i \in Jobs PROVE Homed(job[i])'
    <3>1. CASE i = j
      BY <1>2, <1>3, <1>7, <1>8, <3>1 DEF Homed
    <3>2. CASE i # j /\ At(i, "idle")
      BY <1>8, <3>2 DEF Homed, At
    <3>3. CASE i # j /\ ~At(i, "idle")
      <4>1. job'[i] = job[i] /\ job[i].card \in Cards /\ Homed(job[i])
        BY <1>8, <3>3 DEF Shapes, Shape, Housed, At
      <4> QED BY <1>2, <1>5, <1>7, <4>1 DEF Homed
    <3> QED BY <3>1, <3>2, <3>3
  <2>2. \A i, l \in Jobs : i # l /\ At(i, "insert")' /\ At(l, "insert")'
                           => job'[i].card # job'[l].card
    BY <1>3, <1>8 DEF Housed, At
  <2>3. \A p \in disk' : home'[p[1]] # "none"
    BY <1>5, <1>7 DEF Housed, TypeOK, Paths
  <2>4. \A d \in Cards : Live(d)' => Live(d)
    BY <1>7 DEF Live
  <2>5. WorkspaceKept'
    BY <1>5, <2>4 DEF Housed, WorkspaceKept, history
  <2>6. NoOrphanRows'
    <3>1. ASSUME NEW a \in Atts, att'[a] # None PROVE Live(att[a].path[1])'
      <4>1. att[a] # None /\ att'[a] = att[a]
        BY <1>6, <3>1
      <4>2. att[a].path[1] \in Cards
        BY <4>1, PathTypes
      <4>3. Live(att[a].path[1])
        BY <4>1 DEF Housed, NoOrphanRows, Live
      <4>4. CASE UNCHANGED home
        BY <4>1, <4>3, <4>4 DEF Live
      <4>5. CASE home' = [home EXCEPT ![c] = "gone"] /\ att[a].path[1] # c
        BY <4>1, <4>2, <4>3, <4>5 DEF Live, TypeOK
      <4>6. UNCHANGED home \/ (home' = [home EXCEPT ![c] = "gone"] /\ att[a].path[1] # c)
        BY <1>5, <3>1, <4>1 DEF RowsOf
      <4> QED BY <4>4, <4>5, <4>6
    <3> QED BY <1>6, <3>1 DEF NoOrphanRows, Live
  <2>7. sweep'.pc = "listed" =>
          \A d \in Cards : Live(d)' =>
              d \in sweep'.live \cup sweep'.blind \cup fresh' \cup lost'
    BY <1>5, <2>4 DEF Housed, history
  <2> QED BY <2>1, <2>2, <2>3, <2>5, <2>6, <2>7 DEF Housed
<1>12. RowsFiled' /\ CallsFiled'
  <2>1. Lesser(k, job[j])
    BY <1>3 DEF Lesser
  <2> QED BY <1>3, <1>4, <1>5, <1>6, <1>7, <2>1, LesserKept, FilesKept DEF history
<1> QED BY <1>9, <1>10, <1>11, <1>12

\* A card that goes with its files: the call that removed it, or the sweep.
LEMMA GoneFiled ==
    ASSUME Filed, NEW c \in Cards,
           dirs' = dirs \ {c}, disk' = disk \ In(c),
           fresh' = fresh \ {c}, lost \subseteq lost', lost' \subseteq lost \cup {c},
           Live(c) => c \in lost',
           home[c] # "none",
           \A i \in Jobs : job'[i] = job[i] \/ job'[i] = Idle,
           job' \in [Jobs -> Calls],
           UNCHANGED <<storage, home, att, spent, sweep, torn>>
    PROVE  Filed'
<1> USE DEF Filed
<1>1. TypeOK'
  <2>1. \A p \in disk' : p \in Paths /\ p[1] \in dirs'
    BY DEF In, TypeOK
  <2>2. fresh' \subseteq dirs' /\ dirs' \subseteq Cards /\ lost' \subseteq Cards
    BY DEF TypeOK
  <2> QED BY <2>1, <2>2 DEF TypeOK, storage, Calls
<1>2. Shapes'
  <2>1. \A i \in Jobs : Shape(job[i])'
    BY IdleIsACall DEF Shapes, Shape
  <2> QED BY <2>1 DEF Shapes, RowShape
<1>3. Housed'
  <2>1. ASSUME NEW i \in Jobs PROVE Homed(job[i])'
    <3>1. CASE job'[i] = Idle
      BY <3>1 DEF Homed, Idle
    <3>2. CASE job'[i] = job[i]
      BY <3>2 DEF Housed, Homed
    <3> QED BY <3>1, <3>2
  <2>2. \A i, l \in Jobs : i # l /\ At(i, "insert")' /\ At(l, "insert")'
                           => job'[i].card # job'[l].card
    BY DEF Housed, At, Idle
  <2>3. \A p \in disk' : home'[p[1]] # "none"
    BY DEF Housed
  <2>4. WorkspaceKept' /\ NoOrphanRows'
    BY DEF Housed, WorkspaceKept, NoOrphanRows, Live
  <2>5. sweep'.pc = "listed" =>
          \A d \in Cards : Live(d)' =>
              d \in sweep'.live \cup sweep'.blind \cup fresh' \cup lost'
    BY DEF Housed, Live
  <2> QED BY <2>1, <2>2, <2>3, <2>4, <2>5 DEF Housed
<1>4. RowsFiled' /\ CallsFiled'
  <2>1. \A i \in Jobs : Lesser(job'[i], job[i])
    <3>1. \A l \in Calls : Lesser(l, l)
      BY DEF Lesser
    <3> QED BY <3>1, IdleIsLess DEF TypeOK, Calls
  <2>2. ASSUME NEW p \in disk, p \notin disk' PROVE Settled(p)'
    <3>1. p \in Paths /\ p[1] = c
      BY <2>2 DEF In, TypeOK
    <3>2. home[c] = "gone" \/ c \in lost'
      BY DEF Live, TypeOK
    <3>3. Doubt(p)'
      BY <3>1, <3>2 DEF Doubt
    <3> QED BY <3>3 DEF Settled
  <2> QED BY <2>1, <2>2, FilesKept
<1> QED BY <1>1, <1>2, <1>3, <1>4

LEMMA RemoveWorkspaceFiled ==
    ASSUME Filed, NEW j \in Jobs, RemoveWorkspace(j)
    PROVE  Filed'
<1>1. PICK c \in Cards : c = job[j].card
  BY DEF RemoveWorkspace, At, Filed, Shapes, Shape
<1>2. home[c] # "none" /\ (home[c] = "gone" \/ job[j].blind)
  BY <1>1 DEF Filed, Housed, Homed, RemoveWorkspace, At
<1>3. /\ dirs' = dirs \ {c} /\ disk' = disk \ In(c) /\ fresh' = fresh \ {c}
      /\ lost' = IF job[j].blind THEN lost \cup {c} ELSE lost
      /\ job' = [job EXCEPT ![j] = Idle]
      /\ UNCHANGED <<storage, home, att, spent, sweep, torn>>
  BY <1>1 DEF RemoveWorkspace, Return, Become
<1>4. job' \in [Jobs -> Calls] /\ \A i \in Jobs : job'[i] = job[i] \/ job'[i] = Idle
  BY <1>3, IdleIsACall, JobTyped DEF Filed
<1>5. /\ lost \subseteq lost' /\ lost' \subseteq lost \cup {c} /\ (Live(c) => c \in lost')
  BY <1>2, <1>3 DEF Live
<1> QED BY <1>2, <1>3, <1>4, <1>5, GoneFiled

LEMMA SweepDirFiled ==
    ASSUME Filed, NEW c \in Cards, SweepDir(c)
    PROVE  Filed'
<1> USE DEF Filed
<1>1. /\ sweep.pc = "listed" /\ c \in dirs /\ c \notin sweep.live /\ c \notin fresh
      /\ dirs' = dirs \ {c} /\ disk' = disk \ In(c) /\ fresh' = fresh \ {c}
      /\ lost' = lost \cup ({c} \cap sweep.blind)
      /\ UNCHANGED <<storage, home, att, spent, job, sweep, torn>>
  BY DEF SweepDir, Orphaned
<1>2. Live(c) => c \in lost'
  BY <1>1 DEF Housed
<1>3. CASE home[c] # "none"
  <2>1. job' \in [Jobs -> Calls] /\ \A i \in Jobs : job'[i] = job[i]
    BY <1>1 DEF TypeOK, Calls
  <2>2. lost \subseteq lost' /\ lost' \subseteq lost \cup {c}
    BY <1>1
  <2> QED BY <1>1, <1>2, <1>3, <2>1, <2>2, GoneFiled
<1>4. CASE home[c] = "none"
  <2>1. \A p \in disk : p[1] # c
    BY <1>4 DEF Housed
  <2>2. disk' = disk
    BY <1>1, <2>1 DEF In
  <2>3. \A i \in Jobs : ~At(i, "insert") \/ job[i].card # c
    BY <1>1 DEF Housed, Homed, At
  <2>4. TypeOK'
    <3>1. dirs' \subseteq Cards /\ fresh' \subseteq dirs' /\ lost' \subseteq Cards
          /\ \A p \in disk : p[1] \in dirs'
      BY <1>1, <2>1 DEF TypeOK
    <3> QED BY <1>1, <2>2, <3>1 DEF TypeOK, storage
  <2>5. Shapes'
    BY <1>1 DEF Shapes, Shape, RowShape
  <2>6. Housed'
    <3>1. \A i \in Jobs : Homed(job[i])'
      BY <1>1, <2>3 DEF Housed, Homed, At
    <3>2. WorkspaceKept' /\ NoOrphanRows'
      BY <1>1, <1>4 DEF Housed, WorkspaceKept, NoOrphanRows, Live
    <3>3. sweep'.pc = "listed" =>
          \A d \in Cards : Live(d)' =>
              d \in sweep'.live \cup sweep'.blind \cup fresh' \cup lost'
      BY <1>1 DEF Housed, Live
    <3> QED BY <1>1, <2>2, <3>1, <3>2, <3>3 DEF Housed, At
  <2>7. RowsFiled' /\ CallsFiled'
    <3>1. \A l \in Calls : Lesser(l, l)
      BY DEF Lesser
    <3>2. \A i \in Jobs : Lesser(job'[i], job[i])
      BY <1>1, <3>1 DEF TypeOK, Calls
    <3> QED BY <1>1, <2>2, <3>2, FilesKept
  <2> QED BY <2>4, <2>5, <2>6, <2>7
<1> QED BY <1>3, <1>4

LEMMA OpenFileFiled ==
    ASSUME Filed, NEW j \in Jobs, OpenFile(j)
    PROVE  Filed'
<1> USE DEF Filed
<1>1. PICK c \in Cards : c = job[j].card
  BY DEF OpenFile, At, Shapes, Shape
<1>2. PICK p \in Paths : p = job[j].path
  BY PathTypes DEF OpenFile, At, Shapes, Shape
<1>3. /\ job[j] \in Calls /\ At(j, "open") /\ p[1] = c /\ home[c] # "none"
      /\ job[j].kind = "upload" /\ Shape(job[j])
  BY <1>1, <1>2, PathTypes DEF OpenFile, TypeOK, Calls, Shapes, Shape, Housed, Homed, At
<1>4. PICK k \in Calls :
        /\ job' = [job EXCEPT ![j] = k]
        /\ \/ k = Idle /\ UNCHANGED <<disk, fresh>>
           \/ /\ k.pc = "attach" /\ k.path = p /\ k.card = c /\ k.old = job[j].old
              /\ k.kind = "upload" /\ k.att = job[j].att
              /\ c \in dirs /\ disk' = disk \cup {p} /\ fresh' = fresh \cup {c}
  <2>1. CASE job[j].card \in dirs
    <3> DEFINE k == [job[j] EXCEPT !.pc = "attach"]
    <3>1. k \in Calls /\ k.pc = "attach" /\ k.path = p /\ k.card = c /\ k.old = job[j].old
          /\ k.kind = "upload" /\ k.att = job[j].att
      BY <1>1, <1>2, <1>3 DEF Calls, JobPcs
    <3>2. /\ job' = [job EXCEPT ![j] = k]
          /\ c \in dirs /\ disk' = disk \cup {p} /\ fresh' = fresh \cup {c}
      BY <1>1, <1>2, <2>1 DEF OpenFile, Goto
    <3> QED BY <3>1, <3>2
  <2>2. CASE job[j].card \notin dirs
    BY <2>2, IdleIsACall DEF OpenFile, Return, Become
  <2> QED BY <2>1, <2>2
<1>5. /\ UNCHANGED <<storage, home, att, spent, dirs, sweep, history>>
      /\ disk \subseteq disk' /\ fresh \subseteq fresh' /\ disk' \subseteq disk \cup {p}
  BY <1>4 DEF OpenFile
<1>6. TypeOK'
  <2>1. fresh' \subseteq dirs /\ \A q \in disk' : q \in Paths /\ q[1] \in dirs
    BY <1>3, <1>4 DEF TypeOK
  <2> QED BY <1>4, <1>5, <2>1, JobTyped DEF TypeOK, storage, history, Calls
<1>7. Shapes'
  <2>1. Shape(k)
    BY <1>2, <1>3, <1>4, IdleIsACall DEF Shape, At
  <2> QED BY <1>4, <1>5, <2>1, ShapesKept DEF Shape
<1>8. Housed'
  <2>1. Homed(k) /\ k.pc # "insert"
    BY <1>3, <1>4 DEF Homed, Idle
  <2>2. \A q \in disk' : q \in disk \/ home[q[1]] # "none"
    BY <1>3, <1>5
  <2> QED BY <1>4, <1>5, <2>1, <2>2, HousedKept DEF Homed, history
<1>9. RowsFiled' /\ CallsFiled'
  <2>1. Lesser(k, job[j])
    BY <1>2, <1>3, <1>4 DEF Lesser, At, Idle
  <2> QED BY <1>4, <1>5, <2>1, LesserKept, FilesKept DEF history
<1> QED BY <1>6, <1>7, <1>8, <1>9

\* A call that takes back its own file, or unlinks the one its row had.
LEMMA UnlinkedFiled ==
    ASSUME Filed, NEW j \in Jobs, NEW p \in Paths, job' = [job EXCEPT ![j] = Idle],
           disk' = disk \/ disk' = disk \ {p},
           UNCHANGED <<home, att, spent, dirs, fresh, sweep, lost>>,
           UNCHANGED <<up, draining, faults>>, degraded' \in BOOLEAN,
           torn \subseteq torn', torn' \subseteq torn \cup {p},
           \/ At(j, "attach") /\ job[j].path = p
           \/ p \in torn'
           \/ At(j, "unlink") /\ job[j].old = p
    PROVE  Filed'
<1> USE DEF Filed
<1>1. TypeOK'
  <2>1. disk' \subseteq disk /\ torn' \subseteq Paths
    BY DEF TypeOK
  <2> QED BY <2>1, IdleIsACall, JobTyped DEF TypeOK, Calls
<1>2. Shapes'
  <2>1. Shape(Idle)'
    BY DEF Shape, Idle
  <2> QED BY <2>1, IdleIsACall, ShapesKept
<1>3. Housed'
  <2>1. Homed(Idle)' /\ Idle.pc # "insert"
    BY DEF Homed, Idle
  <2> QED BY <2>1, IdleIsACall, HousedKept
<1>4. RowsFiled' /\ CallsFiled'
  <2>1. Settled(p)'
    <3>1. /\ job'[j] = Idle /\ Idle.pc = "idle"
          /\ \A i \in Jobs : i # j => job'[i] = job[i]
      BY IdleIsACall, JobTyped DEF Idle
    <3>2. Doubt(p) => Doubt(p)'
      BY DoubtStays
    <3>3. CASE p \in torn'
      BY <3>3 DEF Settled, Doubt
    <3>4. CASE At(j, "attach") /\ job[j].path = p
      <4>1. \A a \in Atts : att[a] # None /\ att[a].path = p => Doubt(p)
        BY <3>4 DEF RowsFiled, Holds, At
      <4>2. \A i \in Jobs : i # j /\ job[i].path = p => Doubt(p)
        BY <3>4, PathTypes DEF CallsFiled
      <4>3. \A i \in Jobs : At(i, "unlink") /\ job[i].old = p => Doubt(p)
        BY <3>4 DEF CallsFiled, Holds, Drops, At
      <4> QED BY <3>1, <3>2, <4>1, <4>2, <4>3 DEF Settled, At
    <3>5. CASE At(j, "unlink") /\ job[j].old = p
      <4>1. \A a \in Atts : att[a] # None /\ att[a].path = p => Doubt(p)
        BY <3>5 DEF RowsFiled, Drops, At
      <4>2. \A i \in Jobs : At(i, "swap") /\ job[i].path = p => Doubt(p)
        BY <3>5 DEF CallsFiled, Holds, Drops, At
      <4>3. \A i \in Jobs : i # j /\ At(i, "unlink") /\ job[i].old = p => Doubt(p) \/ p[2] \in Made
        BY <3>5 DEF CallsFiled, Drops, At
      <4> QED BY <3>1, <3>2, <4>1, <4>2, <4>3 DEF Settled, At
    <3> QED BY <3>3, <3>4, <3>5
  <2>2. Lesser(Idle, job[j])
    BY IdleIsLess DEF TypeOK, Calls
  <2> QED BY <2>1, <2>2, IdleIsACall, LesserKept, FilesKept
<1> QED BY <1>1, <1>2, <1>3, <1>4

LEMMA TakeBackFiled ==
    ASSUME Filed, NEW j \in Jobs, UploadFails(j) \/ AttachFails(j) \/ Unlink(j)
    PROVE  Filed'
<1>1. At(j, "attach") \/ At(j, "emit") => job[j].path \in Paths
  BY PathTypes DEF Filed, Shapes, Shape, At
<1>2. At(j, "unlink") => job[j].old \in Paths
  BY PathTypes DEF Filed, Shapes, Shape, At
<1>3. UNCHANGED <<up, degraded, draining, faults>> => degraded' \in BOOLEAN
  BY DEF Filed, TypeOK
<1>4. CASE UploadFails(j)
  BY <1>1, <1>3, <1>4, UnlinkedFiled DEF UploadFails, Return, Become, storage
<1>5. CASE AttachFails(j)
  <2>1. degraded' \in BOOLEAN /\ UNCHANGED <<up, draining, faults>>
    BY <1>5 DEF AttachFails, Call, Filed, TypeOK
  <2> QED BY <1>1, <1>5, <2>1, UnlinkedFiled DEF AttachFails, Return, Become, history
<1>6. CASE Unlink(j)
  BY <1>2, <1>3, <1>6, UnlinkedFiled DEF Unlink, Return, Become, storage, history
<1> QED BY <1>4, <1>5, <1>6

-----------------------------------------------------------------------------
(* Steps of one call that make a claim *)

\* A call gives itself a path that nobody else has a claim on, or that is in doubt.
LEMMA ClaimKept ==
    ASSUME Filed, NEW j \in Jobs, NEW k \in Calls, NEW p \in Paths,
           job' = [job EXCEPT ![j] = k],
           k.path = p, k.pc \in {"open", "attach", "swap"},
           k.pc = "swap" /\ k.att # None =>
               job[j].pc \in {"make", "swap"} /\ k.att = job[j].att /\ k.old = job[j].old,
           k.pc = "swap" => p \in disk',
           att' = att, disk \subseteq disk',
           \A q \in Paths : Doubt(q) => Doubt(q)',
           \A a \in Atts : att[a] # None /\ att[a].path = p => Doubt(p)',
           \A i \in Jobs : i # j /\ job[i].path = p => Doubt(p)',
           \A i \in Jobs : Drops(job[i], p) \/ Keeps(job[i], p) => Doubt(p)'
    PROVE  RowsFiled' /\ CallsFiled'
<1> USE DEF Filed
<1>1. /\ job'[j] = k /\ k.path = p /\ k.pc \in {"open", "attach", "swap"}
      /\ k.pc = "swap" /\ k.att # None =>
             job[j].pc \in {"make", "swap"} /\ k.att = job[j].att /\ k.old = job[j].old
      /\ k.pc = "swap" => p \in disk'
      /\ \A i \in Jobs : i # j => job'[i] = job[i]
  BY JobTyped
<1>2. /\ att' = att /\ disk \subseteq disk'
      /\ \A q \in Paths : Doubt(q) => Doubt(q)'
      /\ \A a \in Atts : att[a] # None /\ att[a].path = p => Doubt(p)'
      /\ \A i \in Jobs : i # j /\ job[i].path = p => Doubt(p)'
      /\ \A i \in Jobs : Drops(job[i], p) \/ Keeps(job[i], p) => Doubt(p)'
  OBVIOUS
<1>3. RowsFiled'
  <2>1. \A a \in Atts : att[a] # None => att[a].path \in Paths
    BY PathTypes
  <2>2. \A i \in Jobs, q \in Paths :
           /\ Holds(job'[i], q) => Holds(job[i], q) \/ q = p
           /\ Drops(job'[i], q) => Drops(job[i], q)
           /\ Keeps(job'[i], q) => Keeps(job[i], q) /\ job'[i].att = job[i].att
    BY <1>1 DEF Holds, Drops, Keeps
  <2>3. \A a \in Atts : att[a] # None => att[a].path \in disk' \/ Doubt(att[a].path)'
    BY <1>2, <2>1 DEF RowsFiled
  <2>4. \A a, b \in Atts :
          a # b /\ att[a] # None /\ att[b] # None /\ att[a].path = att[b].path
              => Doubt(att[a].path)'
    BY <1>2, <2>1 DEF RowsFiled
  <2>5. \A a \in Atts, i \in Jobs :
          att[a] # None /\ (Holds(job'[i], att[a].path) \/ Drops(job'[i], att[a].path))
              => Doubt(att[a].path)'
    BY <1>2, <2>1, <2>2 DEF RowsFiled
  <2>6. \A a \in Atts, i \in Jobs :
          att[a] # None /\ Keeps(job'[i], att[a].path) /\ job'[i].att # a
              => Doubt(att[a].path)'
    BY <1>2, <2>1, <2>2 DEF RowsFiled
  <2> QED BY <2>3, <2>4, <2>5, <2>6 DEF RowsFiled
<1>4. CallsFiled'
  <2>1. /\ \A i \in Jobs : job[i].path # None => job[i].path \in Paths
        /\ \A i \in Jobs : job[i].pc = "unlink" => job[i].old \in Paths
        /\ \A i \in Jobs : job[i].pc \in {"open", "attach", "swap"} => job[i].path # None
    BY PathTypes DEF Shapes, Shape
  <2>2. \A i, l \in Jobs :
          i # l /\ job'[i].path # None /\ job'[i].path = job'[l].path => Doubt(job[i].path)'
    BY <1>1, <1>2, <2>1 DEF CallsFiled
  <2>3. ASSUME NEW i \in Jobs, NEW l \in Jobs, Holds(job'[i], job'[i].path),
               Drops(job'[l], job'[i].path) \/ Keeps(job'[l], job'[i].path)
        PROVE  Doubt(job[i].path)'
    <3>1. /\ Drops(job'[l], job'[i].path) => Drops(job[l], job'[i].path)
          /\ Keeps(job'[l], job'[i].path) => Keeps(job[l], job'[i].path)
      BY <1>1 DEF Drops, Keeps
    <3>2. CASE i = j
      BY <1>1, <1>2, <2>3, <3>1, <3>2
    <3>3. CASE i # j
      <4>1. job'[i] = job[i] /\ Doubt(job[i].path)
        BY <1>1, <2>3, <3>1, <3>3 DEF CallsFiled
      <4> QED BY <1>2, <2>1, <2>3, <4>1 DEF Holds
    <3> QED BY <3>2, <3>3
  <2>4. ASSUME NEW i \in Jobs, At(i, "unlink")'
        PROVE  job'[i] = job[i] /\ job[i].old \in Paths /\ At(i, "unlink")
    BY <1>1, <2>1, <2>4 DEF At
  <2>5. \A i, l \in Jobs :
          i # l /\ Drops(job'[i], job'[i].old) /\ Drops(job'[l], job'[i].old)
              => Doubt(job[i].old)' \/ job'[i].old[2] \in Made
    BY <1>2, <2>4 DEF CallsFiled, Drops, At
  <2>6. \A i \in Jobs :
          At(i, "unlink")' => \/ job'[i].old \in disk' \/ Doubt(job[i].old)'
                              \/ job'[i].old[2] \in Made
    BY <1>2, <2>4 DEF CallsFiled
  <2>7. ASSUME NEW i \in Jobs, At(i, "swap")'
        PROVE  job'[i].path \in disk' \/ Doubt(job[i].path)'
    <3>1. CASE i = j
      BY <1>1, <2>7, <3>1 DEF At
    <3>2. CASE i # j
      <4>1. job'[i] = job[i] /\ job[i].path \in Paths /\ At(i, "swap")
        BY <1>1, <2>1, <2>7, <3>2 DEF At
      <4> QED BY <1>2, <4>1 DEF CallsFiled
    <3> QED BY <3>1, <3>2
  <2> QED BY <2>2, <2>3, <2>5, <2>6, <2>7 DEF CallsFiled
<1> QED BY <1>3, <1>4

LEMMA ChoosePathFiled ==
    ASSUME Filed, NEW j \in Jobs, NEW n \in Names, ChoosePath(j, n)
    PROVE  Filed'
<1> USE DEF Filed
<1>1. PICK c \in Cards : c = job[j].card
  BY DEF ChoosePath, At, Shapes, Shape
<1>2. PICK p \in Paths : p = <<c, n>>
  BY <1>1 DEF Paths, Files
<1>3. /\ job[j] \in Calls /\ At(j, "upload") /\ home[c] # "none" /\ Shape(job[j])
      /\ p \notin disk /\ p[1] = c /\ p[2] = n /\ n \notin Made /\ p # None
  BY <1>1, <1>2, PathTypes, SetsAssumption
     DEF ChoosePath, TypeOK, Calls, Shapes, Housed, Homed, At
<1>4. PICK k \in Calls :
        /\ job' = [job EXCEPT ![j] = k]
        /\ k.pc = "open" /\ k.path = p /\ k.card = c /\ k.kind = "upload"
        /\ k.old = job[j].old /\ k.att = job[j].att
  <2> DEFINE k == [job[j] EXCEPT !.pc = "open", !.path = p]
  <2>1. /\ k \in Calls /\ k.pc = "open" /\ k.path = p /\ k.card = c /\ k.kind = "upload"
        /\ k.old = job[j].old /\ k.att = job[j].att
    BY <1>1, <1>3 DEF Calls, JobPcs, Shape, At
  <2>2. job' = [job EXCEPT ![j] = k]
    BY <1>1, <1>2, <1>3 DEF ChoosePath, Calls, TypeOK
  <2> QED BY <2>1, <2>2
<1>5. job' = [job EXCEPT ![j] = k]
  BY <1>4
<1>6. /\ UNCHANGED <<storage, home, att, spent, disk, sweep, lost>>
      /\ dirs' = dirs \cup {c} /\ fresh' = fresh \cup {c}
      /\ torn' = IF \E i \in Jobs : job[i].path = p THEN torn \cup {p} ELSE torn
  BY <1>1, <1>2 DEF ChoosePath, Touch
<1>7. /\ job' \in [Jobs -> Calls] /\ job'[j] = k
      /\ \A i \in Jobs : i # j => job'[i] = job[i]
  BY <1>4, <1>5, JobTyped
<1>8. torn \subseteq torn'
  BY <1>6
<1>9. TypeOK'
  <2>1. dirs' \subseteq Cards /\ fresh' \subseteq dirs' /\ torn' \subseteq Paths
        /\ \A q \in disk : q[1] \in dirs'
    BY <1>6 DEF TypeOK
  <2> QED BY <1>6, <1>7, <2>1 DEF TypeOK, storage, Calls
<1>10. Shapes'
  <2>1. k.path[1] = k.card /\ k.path[2] \in Names /\ k.path # None
    BY <1>3, <1>4
  <2>2. k.old # None => k.old[1] = k.card /\ k.old[2] \in Names \cup spent'
    BY <1>1, <1>3, <1>4, <1>6 DEF Shape
  <2>3. Shape(k)'
    BY <1>4, <2>1, <2>2 DEF Shape
  <2> QED BY <1>4, <1>5, <1>6, <2>3, ShapesKept
<1>11. Housed'
  <2>1. Homed(k)'
    BY <1>3, <1>4, <1>6 DEF Homed
  <2> QED BY <1>4, <1>5, <1>6, <2>1, HousedKept
<1>12. \A q \in Paths : Doubt(q) => Doubt(q)'
  BY <1>6, <1>8, DoubtStays
<1>13. ASSUME NEW a \in Atts, att[a] # None, att[a].path = p PROVE Doubt(p)'
  BY <1>3, <1>12, <1>13 DEF RowsFiled
<1>14. ASSUME NEW i \in Jobs, i # j, job[i].path = p PROVE Doubt(p)'
  BY <1>6, <1>14 DEF Doubt
<1>15. ASSUME NEW i \in Jobs, Drops(job[i], p) \/ Keeps(job[i], p) PROVE Doubt(p)'
  <2>1. CASE Drops(job[i], p)
    BY <1>3, <1>12, <2>1 DEF CallsFiled, Drops, At
  <2>2. CASE Keeps(job[i], p)
    BY <1>3, <2>2 DEF Keeps, Shapes, Shape
  <2> QED BY <1>15, <2>1, <2>2
<1>16. RowsFiled' /\ CallsFiled'
  BY <1>4, <1>6, <1>12, <1>13, <1>14, <1>15, ClaimKept
<1> QED BY <1>9, <1>10, <1>11, <1>16

LEMMA WriteFileFiled ==
    ASSUME Filed, NEW j \in Jobs, WriteFile(j)
    PROVE  Filed'
<1> USE DEF Filed
<1>1. PICK c \in Cards : c = job[j].card
  BY DEF WriteFile, At, Shapes, Shape
<1>2. PICK f \in Made \ spent : f = NextId(Made)
  BY DEF WriteFile, NextId
<1>3. PICK p \in Paths : p = <<c, f>>
  BY <1>1 DEF Paths, Files
<1>4. /\ job[j] \in Calls /\ At(j, "make") /\ home[c] # "none" /\ Shape(job[j])
      /\ job[j].kind = "journey" /\ p[1] = c /\ p[2] = f /\ f \notin Names /\ p # None
  BY <1>1, <1>2, <1>3, PathTypes, SetsAssumption
     DEF WriteFile, TypeOK, Calls, Shapes, Shape, Housed, Homed, At
<1>5. PICK k \in Calls :
        /\ job' = [job EXCEPT ![j] = k]
        /\ k.pc \in {"attach", "swap"} /\ (k.pc = "swap" <=> job[j].att # None)
        /\ k.path = p /\ k.card = c /\ k.kind = "journey"
        /\ k.old = job[j].old /\ k.att = job[j].att
  <2> DEFINE k == [job[j] EXCEPT !.path = p,
                       !.pc = IF job[j].att = None THEN "attach" ELSE "swap"]
  <2>1. /\ k \in Calls /\ k.path = p /\ k.card = c /\ k.kind = "journey"
        /\ k.pc \in {"attach", "swap"} /\ (k.pc = "swap" <=> job[j].att # None)
        /\ k.old = job[j].old /\ k.att = job[j].att
    BY <1>1, <1>4 DEF Calls, JobPcs
  <2>2. job' = [job EXCEPT ![j] = k]
    BY <1>1, <1>2, <1>3 DEF WriteFile, Become
  <2> QED BY <2>1, <2>2
<1>6. /\ UNCHANGED <<home, att, sweep, history>> /\ Call
      /\ spent' = spent \cup {f} /\ disk' = disk \cup {p}
      /\ dirs' = dirs \cup {c} /\ fresh' = fresh \cup {c}
  BY <1>1, <1>2, <1>3 DEF WriteFile, Touch
<1>7. TypeOK'
  <2>1. dirs' \subseteq Cards /\ fresh' \subseteq dirs' /\ disk' \subseteq Paths
        /\ (\A q \in disk' : q[1] \in dirs') /\ spent' \subseteq Atts \cup Made
    BY <1>2, <1>4, <1>6 DEF TypeOK
  <2> QED BY <1>5, <1>6, <2>1, JobTyped DEF TypeOK, Call, history, Calls
<1>8. Shapes'
  <2>1. k.path[1] = k.card /\ k.path[2] \in Made \cap spent' /\ k.path # None
    BY <1>2, <1>4, <1>5, <1>6
  <2>2. /\ k.old # None => k.old[1] = k.card /\ k.old[2] \in Names \cup spent'
        /\ k.pc = "swap" => k.old # None /\ k.old[2] \in Made /\ k.att # None
    BY <1>1, <1>4, <1>5, <1>6 DEF Shape, At
  <2>3. Shape(k)'
    BY <1>5, <2>1, <2>2 DEF Shape
  <2> QED BY <1>5, <1>6, <2>3, ShapesKept
<1>9. Housed'
  <2>1. Homed(k)'
    BY <1>4, <1>5, <1>6 DEF Homed
  <2>2. \A q \in disk' : q \in disk \/ home[q[1]] # "none"
    BY <1>4, <1>6
  <2> QED BY <1>5, <1>6, <2>1, <2>2, HousedKept DEF history
<1>10. RowsFiled' /\ CallsFiled'
  <2>1. \A q \in Paths : Doubt(q) => Doubt(q)'
    BY <1>6, DoubtStays DEF history
  <2>2. \A a \in Atts : att[a] # None => att[a].path # p
    BY <1>2, <1>4 DEF Shapes, RowShape
  <2>3. \A i \in Jobs : job[i].path # p /\ job[i].old # p
    BY <1>2, <1>4 DEF Shapes, Shape, TypeOK, Calls, Kinds
  <2>4. \A i \in Jobs : ~Drops(job[i], p) /\ ~Keeps(job[i], p)
    BY <2>3 DEF Drops, Keeps
  <2>5. job[j].pc \in {"make", "swap"} /\ k.pc \in {"open", "attach", "swap"}
    BY <1>4, <1>5 DEF At
  <2> QED BY <1>5, <1>6, <2>1, <2>2, <2>3, <2>4, <2>5, ClaimKept DEF history
<1> QED BY <1>7, <1>8, <1>9, <1>10

\* A call writes its path into a row: rows and calls with that path, or with the
\* path the row had, are in doubt already.
LEMMA RowFiled ==
    ASSUME Filed, NEW j \in Jobs, NEW k \in Calls, NEW p \in Paths, NEW a \in Atts,
           job' = [job EXCEPT ![j] = k], att' = [att EXCEPT ![a] = Row(job[j])],
           job[j].path = p, job[j].pc \in {"attach", "swap"}, p \in disk \/ Doubt(p),
           k.path \in {None, p}, k.pc \in {"idle", "emit", "unlink"},
           k.pc = "unlink" => /\ k.old = job[j].old /\ job[j].pc = "swap"
                              /\ job[j].att = a,
           Sees(p[1]), Shape(k)', spent \subseteq spent', spent' \subseteq Atts \cup Made,
           Call, UNCHANGED <<home, dirs, fresh, disk, sweep, history>>
    PROVE  Filed'
<1> USE DEF Filed
<1>1. /\ job'[j] = k /\ job' \in [Jobs -> Calls]
      /\ \A i \in Jobs : i # j => job'[i] = job[i]
  BY JobTyped
<1>2. /\ Row(job[j]) \in [kind : Kinds, path : Paths] /\ Row(job[j]).path = p
      /\ Row(job[j]).kind = job[j].kind
  BY DEF Row, TypeOK
<1>3. /\ att'[a].path = p /\ att'[a] = Row(job[j])
      /\ \A b \in Atts : b # a => att'[b] = att[b]
  BY <1>2 DEF TypeOK
<1>4. /\ Shape(job[j]) /\ p # None /\ p[1] = job[j].card /\ p[1] \in Cards /\ Live(p[1])
      /\ home[job[j].card] # "none"
  BY PathTypes DEF Shapes, Shape, Sees, Live, Serving
<1>5. TypeOK'
  <2>1. att' \in [Atts -> [kind : Kinds, path : Paths] \cup {None}]
    BY <1>2 DEF TypeOK
  <2> QED BY <1>1, <2>1 DEF TypeOK, Call, history, Calls
<1>6. Shapes'
  <2>1. job[j].kind \in Kinds /\ p[2] \in Names \cup spent
        /\ (job[j].kind = "journey" => p[2] \in Made)
    BY <1>4 DEF Shape, TypeOK, Kinds
  <2>2. \A b \in Atts : att'[b] # None => att'[b] = att[b] \/ RowShape(att[b])'
    BY <1>2, <1>3, <2>1 DEF RowShape
  <2> QED BY <2>2, ShapesKept
<1>7. Housed'
  <2>1. Homed(k)' /\ k.pc # "insert"
    <3>1. k.pc # "idle" => k.card \in Cards /\ k.card = p[1]
      BY <1>4 DEF Shape
    <3> QED BY <1>4, <3>1 DEF Homed
  <2> QED BY <1>3, <1>4, <2>1, HousedKept DEF history
<1>8. /\ \A q \in Paths : Doubt(q) => Doubt(q)'
      /\ \A b \in Atts : att[b] # None => att[b].path \in Paths
  BY DoubtStays, PathTypes DEF history
<1>9. /\ \A b \in Atts : att[b] # None /\ att[b].path = p => Doubt(p)
      /\ \A i \in Jobs : i # j /\ job[i].path = p => Doubt(p)
      /\ \A i \in Jobs : Drops(job[i], p) \/ Keeps(job[i], p) => Doubt(p)
  BY <1>4 DEF RowsFiled, CallsFiled, Holds
<1>10. /\ \A i \in Jobs, q \in Paths :
           /\ Holds(job'[i], q) => i # j /\ Holds(job[i], q)
           /\ Keeps(job'[i], q) => i # j /\ Keeps(job[i], q)
           /\ Drops(job'[i], q) => \/ i # j /\ Drops(job[i], q)
                                   \/ i = j /\ Keeps(job[j], q) /\ job[j].att = a
  BY <1>1, <1>4 DEF Holds, Keeps, Drops, Shape
<1>11. RowsFiled'
  <2>1. \A b \in Atts : att'[b] # None =>
            att'[b].path \in disk' \/ Doubt(att[b].path)'
    BY <1>3, <1>8 DEF RowsFiled
  <2>2. ASSUME NEW b \in Atts, NEW c \in Atts, b # c, att'[b] # None, att'[c] # None,
               att'[b].path = att'[c].path
        PROVE  Doubt(att[b].path)'
    <3>1. CASE b # a /\ c # a
      BY <1>3, <1>8, <2>2, <3>1 DEF RowsFiled
    <3>2. CASE b = a \/ c = a
      BY <1>3, <1>8, <1>9, <2>2, <3>2
    <3> QED BY <3>1, <3>2
  <2>3. ASSUME NEW b \in Atts, NEW i \in Jobs, att'[b] # None,
               Holds(job'[i], att'[b].path) \/ Drops(job'[i], att'[b].path)
        PROVE  Doubt(att[b].path)'
    <3>1. CASE b = a
      BY <1>3, <1>8, <1>9, <1>10, <2>3, <3>1 DEF Holds
    <3>2. CASE b # a
      BY <1>3, <1>8, <1>10, <2>3, <3>2 DEF RowsFiled
    <3> QED BY <3>1, <3>2
  <2>4. ASSUME NEW b \in Atts, NEW i \in Jobs, att'[b] # None,
               Keeps(job'[i], att'[b].path), job'[i].att # b
        PROVE  Doubt(att[b].path)'
    <3>1. CASE b = a
      BY <1>3, <1>8, <1>9, <1>10, <2>4, <3>1
    <3>2. CASE b # a
      BY <1>1, <1>3, <1>8, <1>10, <2>4, <3>2 DEF RowsFiled
    <3> QED BY <3>1, <3>2
  <2> QED BY <2>1, <2>2, <2>3, <2>4 DEF RowsFiled
<1>12. CallsFiled'
  <2>1. /\ \A i \in Jobs : job[i].path # None => job[i].path \in Paths
        /\ \A i \in Jobs : job[i].pc = "unlink" => job[i].old \in Paths
        /\ \A i \in Jobs : job[i].pc \in {"open", "attach", "swap"} => job[i].path # None
    BY PathTypes DEF Shapes, Shape
  <2>2. ASSUME NEW i \in Jobs, NEW l \in Jobs, i # l, job'[i].path # None,
               job'[i].path = job'[l].path
        PROVE  Doubt(job[i].path)'
    <3>1. job'[i].path = job[i].path /\ job'[l].path = job[l].path
      BY <1>1, <2>2
    <3>2. Doubt(job[i].path)
      BY <2>2, <3>1 DEF CallsFiled
    <3> QED BY <1>8, <2>1, <2>2, <3>1, <3>2
  <2>3. ASSUME NEW i \in Jobs, NEW l \in Jobs, Holds(job'[i], job'[i].path),
               Drops(job'[l], job'[i].path) \/ Keeps(job'[l], job'[i].path)
        PROVE  Doubt(job[i].path)'
    <3>1. i # j /\ job'[i] = job[i] /\ job[i].path \in Paths
      BY <1>1, <2>1, <2>3 DEF Holds
    <3>2. Drops(job[l], job[i].path) \/ Keeps(job[l], job[i].path)
      BY <1>10, <2>3, <3>1
    <3> QED BY <1>8, <2>3, <3>1, <3>2 DEF CallsFiled
  <2>4. \A i \in Jobs : job'[i].pc = "unlink" =>
            \/ job'[i].old[2] \in Made
            \/ i # j /\ job'[i] = job[i] /\ job[i].old \in Paths
    BY <1>1, <1>4, <2>1 DEF Shape
  <2>5. \A i, l \in Jobs :
          i # l /\ Drops(job'[i], job'[i].old) /\ Drops(job'[l], job'[i].old)
              => Doubt(job[i].old)' \/ job'[i].old[2] \in Made
    <3> SUFFICES ASSUME NEW i \in Jobs, NEW l \in Jobs, i # l,
                        Drops(job'[i], job'[i].old), Drops(job'[l], job'[i].old),
                        job'[i].old[2] \notin Made
                 PROVE  Doubt(job[i].old)'
      OBVIOUS
    <3>1. job'[i] = job[i] /\ job'[l] = job[l] /\ job[i].old \in Paths
      BY <2>4 DEF Drops
    <3> QED BY <1>8, <3>1 DEF CallsFiled
  <2>6. \A i \in Jobs :
          At(i, "unlink")' => \/ job'[i].old \in disk' \/ Doubt(job[i].old)'
                              \/ job'[i].old[2] \in Made
    BY <1>8, <2>4 DEF CallsFiled, At
  <2>7. ASSUME NEW i \in Jobs, At(i, "swap")'
        PROVE  job'[i].path \in disk' \/ Doubt(job[i].path)'
    <3>1. job'[i] = job[i] /\ job[i].path \in Paths /\ At(i, "swap")
      BY <1>1, <2>1, <2>7 DEF At
    <3> QED BY <1>8, <3>1 DEF CallsFiled
  <2> QED BY <2>2, <2>3, <2>5, <2>6, <2>7 DEF CallsFiled
<1> QED BY <1>5, <1>6, <1>7, <1>11, <1>12

LEMMA AttachFiled ==
    ASSUME Filed, NEW j \in Jobs, Attach(j)
    PROVE  Filed'
<1> USE DEF Filed
<1>1. PICK p \in Paths : p = job[j].path
  BY PathTypes DEF Attach, At, Shapes, Shape
<1>2. PICK a \in Atts \ spent : a = NextId(Atts)
  BY DEF Attach, NextId
<1>3. job[j] \in Calls /\ At(j, "attach") /\ Shape(job[j]) /\ p[1] = job[j].card /\ p # None
  BY <1>1, PathTypes DEF Attach, TypeOK, Calls, Shapes, Shape, At
<1>4. /\ att' = [att EXCEPT ![a] = Row(job[j])] /\ spent' = spent \cup {a}
      /\ p \in disk /\ Sees(p[1]) /\ Call
      /\ UNCHANGED <<home, dirs, fresh, disk, sweep, history>>
  BY <1>1, <1>2, <1>3 DEF Attach
<1>5. PICK k \in Calls :
        /\ job' = [job EXCEPT ![j] = k]
        /\ \/ k = Idle
           \/ /\ k.pc = "emit" /\ k.path = p /\ k.card = job[j].card /\ k.old = job[j].old
              /\ k.kind = "upload"
  <2>1. CASE job[j].kind = "upload"
    <3> DEFINE k == [job[j] EXCEPT !.pc = "emit"]
    <3>1. /\ k \in Calls /\ k.pc = "emit" /\ k.path = p /\ k.card = job[j].card
          /\ k.old = job[j].old /\ k.kind = "upload"
      BY <1>1, <1>3, <2>1 DEF Calls, JobPcs
    <3>2. job' = [job EXCEPT ![j] = k]
      BY <2>1 DEF Attach, Goto
    <3> QED BY <3>1, <3>2
  <2>2. CASE job[j].kind # "upload"
    BY <2>2, IdleIsACall DEF Attach, Return, Become
  <2> QED BY <2>1, <2>2
<1>6. Shape(k)'
  <2>1. CASE k = Idle
    BY <2>1 DEF Shape, Idle
  <2>2. CASE k # Idle
    <3>1. /\ k.pc = "emit" /\ k.path = p /\ k.card = job[j].card /\ k.old = job[j].old
          /\ k.kind = "upload"
      BY <1>5, <2>2
    <3>2. k.old # None => k.old[1] = k.card /\ k.old[2] \in Names \cup spent'
      BY <1>3, <1>4, <3>1 DEF Shape
    <3>3. job[j].kind = "upload" => p[2] \in Names
      BY <1>1, <1>3 DEF Shape
    <3>4. job[j].kind = "upload"
      BY <2>2, <1>5 DEF Attach, Return, Become, TypeOK, Idle
    <3>5. k.card \in Cards
      BY <1>3, <3>1 DEF Shape, At
    <3> QED BY <1>3, <3>1, <3>2, <3>3, <3>4, <3>5 DEF Shape
  <2> QED BY <2>1, <2>2
<1>7. k.path \in {None, p} /\ k.pc \in {"idle", "emit", "unlink"} /\ k.pc # "unlink"
  BY <1>5 DEF Idle
<1>8. spent \subseteq spent' /\ spent' \subseteq Atts \cup Made
  BY <1>4 DEF TypeOK
<1> QED BY <1>1, <1>3, <1>4, <1>5, <1>6, <1>7, <1>8, RowFiled DEF At

LEMMA SwapRowFiled ==
    ASSUME Filed, NEW j \in Jobs, SwapRow(j)
    PROVE  Filed'
<1> USE DEF Filed
<1>1. PICK p \in Paths : p = job[j].path
  BY PathTypes DEF SwapRow, At, Shapes, Shape
<1>2. PICK a \in Atts : a = job[j].att
  BY DEF SwapRow, At, Shapes, Shape, TypeOK
<1>3. /\ job[j] \in Calls /\ At(j, "swap") /\ Shape(job[j]) /\ p[1] = job[j].card /\ p # None
      /\ p \in disk \/ Doubt(p)
  BY <1>1, PathTypes DEF SwapRow, TypeOK, Calls, Shapes, Shape, At, CallsFiled
<1>4. Call /\ UNCHANGED <<home, spent, dirs, fresh, disk, sweep, history>>
  BY DEF SwapRow
<1>5. CASE Sees(job[j].card) /\ att[a] # None
  <2>1. PICK k \in Calls :
          /\ job' = [job EXCEPT ![j] = k]
          /\ k.pc = "unlink" /\ k.path = p /\ k.card = job[j].card /\ k.old = job[j].old
          /\ k.kind = job[j].kind
    <3> DEFINE k == [job[j] EXCEPT !.pc = "unlink"]
    <3>1. /\ k \in Calls /\ k.pc = "unlink" /\ k.path = p /\ k.card = job[j].card
          /\ k.old = job[j].old /\ k.kind = job[j].kind
      BY <1>1, <1>3 DEF Calls, JobPcs
    <3>2. job' = [job EXCEPT ![j] = k]
      BY <1>2, <1>5 DEF SwapRow, Goto
    <3> QED BY <3>1, <3>2
  <2>2. Shape(k)'
    BY <1>1, <1>3, <1>4, <2>1 DEF Shape, At
  <2>3. att' = [att EXCEPT ![a] = Row(job[j])] /\ Sees(p[1])
    BY <1>2, <1>3, <1>5 DEF SwapRow
  <2>4. spent \subseteq spent' /\ spent' \subseteq Atts \cup Made
    BY <1>4 DEF TypeOK
  <2> QED BY <1>1, <1>2, <1>3, <1>4, <2>1, <2>2, <2>3, <2>4, RowFiled DEF At
<1>6. CASE ~(Sees(job[j].card) /\ att[a] # None)
  <2>1. job' = [job EXCEPT ![j] = Idle] /\ att' = att
    BY <1>2, <1>6 DEF SwapRow, Return, Become
  <2>2. Lesser(Idle, job[j]) /\ Idle.pc # "insert"
    BY <1>3, IdleIsLess DEF Idle
  <2> QED BY <1>4, <2>1, <2>2, IdleIsACall, QuietFiled
<1> QED BY <1>5, <1>6

\* A call remembers the path of a row, to replace it or because it took the row away.
LEMMA OldFiled ==
    ASSUME Filed, NEW j \in Jobs, NEW k \in Calls, NEW p \in Paths, NEW a \in Atts,
           job' = [job EXCEPT ![j] = k],
           att[a] # None, att[a].path = p, Sees(p[1]), Call,
           k.path = None, k.old = p, k.card = p[1],
           \/ k.pc = "make" /\ k.kind = "journey" /\ p[2] \in Made /\ k.att = a /\ att' = att
           \/ k.pc = "unlink" /\ att' = [att EXCEPT ![a] = None],
           UNCHANGED <<home, spent, dirs, fresh, disk, sweep, history>>
    PROVE  Filed'
<1> USE DEF Filed
<1>1. /\ job'[j] = k /\ job' \in [Jobs -> Calls]
      /\ \A i \in Jobs : i # j => job'[i] = job[i]
  BY JobTyped
<1>2. /\ \A b \in Atts : att'[b] = None \/ att'[b] = att[b]
      /\ k.pc = "unlink" => att'[a] = None
      /\ att' \in [Atts -> [kind : Kinds, path : Paths] \cup {None}]
  BY DEF TypeOK
<1>3. p[1] \in Cards /\ p # None /\ p[2] \in Names \cup spent /\ home[p[1]] # "none"
  BY PathTypes DEF Shapes, RowShape, Sees, Serving
<1>4. TypeOK'
  BY <1>1, <1>2 DEF TypeOK, Call, history, Calls
<1>5. Shapes'
  <2>1. Shape(k)'
    BY <1>3 DEF Shape
  <2> QED BY <1>2, <2>1, ShapesKept
<1>6. Housed'
  <2>1. Homed(k)' /\ k.pc # "insert"
    BY <1>3 DEF Homed
  <2> QED BY <1>2, <2>1, HousedKept DEF history
<1>7. /\ \A q \in Paths : Doubt(q) => Doubt(q)'
      /\ \A b \in Atts : att[b] # None => att[b].path \in Paths
  BY DoubtStays, PathTypes DEF history
<1>8. /\ \A b \in Atts : b # a /\ att[b] # None /\ att[b].path = p => Doubt(p)
      /\ \A i \in Jobs : Holds(job[i], p) \/ Drops(job[i], p) => Doubt(p)
      /\ p \in disk \/ Doubt(p)
  BY DEF RowsFiled
<1>9. \A i \in Jobs, q \in Paths :
           /\ Holds(job'[i], q) => i # j /\ Holds(job[i], q)
           /\ Keeps(job'[i], q) => \/ i # j /\ Keeps(job[i], q)
                                   \/ i = j /\ q = p /\ k.pc = "make" /\ k.att = a
           /\ Drops(job'[i], q) => \/ i # j /\ Drops(job[i], q)
                                   \/ i = j /\ q = p /\ k.pc = "unlink"
  BY <1>1 DEF Holds, Keeps, Drops
<1>10. RowsFiled'
  <2>1. \A b \in Atts : att'[b] # None =>
            att'[b].path \in disk' \/ Doubt(att[b].path)'
    BY <1>2, <1>7 DEF RowsFiled
  <2>2. \A b, c \in Atts :
          b # c /\ att'[b] # None /\ att'[c] # None /\ att'[b].path = att'[c].path
              => Doubt(att[b].path)'
    BY <1>2, <1>7 DEF RowsFiled
  <2>3. ASSUME NEW b \in Atts, NEW i \in Jobs, att'[b] # None,
               Holds(job'[i], att'[b].path) \/ Drops(job'[i], att'[b].path)
        PROVE  Doubt(att[b].path)'
    <3>1. att'[b] = att[b] /\ att[b].path \in Paths
      BY <1>2, <1>7, <2>3
    <3>2. CASE Holds(job[i], att[b].path) \/ Drops(job[i], att[b].path)
      BY <1>7, <2>3, <3>1, <3>2 DEF RowsFiled
    <3>3. CASE att[b].path = p /\ k.pc = "unlink"
      BY <1>2, <1>7, <1>8, <2>3, <3>1, <3>3
    <3> QED BY <1>9, <2>3, <3>1, <3>2, <3>3
  <2>4. ASSUME NEW b \in Atts, NEW i \in Jobs, att'[b] # None,
               Keeps(job'[i], att'[b].path), job'[i].att # b
        PROVE  Doubt(att[b].path)'
    <3>1. att'[b] = att[b] /\ att[b].path \in Paths
      BY <1>2, <1>7, <2>4
    <3>2. CASE i # j /\ Keeps(job[i], att[b].path)
      BY <1>1, <1>7, <2>4, <3>1, <3>2 DEF RowsFiled
    <3>3. CASE i = j /\ att[b].path = p /\ k.att = a
      BY <1>1, <1>7, <1>8, <2>4, <3>1, <3>3
    <3> QED BY <1>9, <2>4, <3>1, <3>2, <3>3
  <2> QED BY <1>2, <2>1, <2>2, <2>3, <2>4 DEF RowsFiled
<1>11. CallsFiled'
  <2>1. /\ \A i \in Jobs : job[i].path # None => job[i].path \in Paths
        /\ \A i \in Jobs : job[i].pc = "unlink" => job[i].old \in Paths
        /\ \A i \in Jobs : job[i].pc \in {"open", "attach", "swap"} => job[i].path # None
    BY PathTypes DEF Shapes, Shape
  <2>2. \A i, l \in Jobs :
          i # l /\ job'[i].path # None /\ job'[i].path = job'[l].path => Doubt(job[i].path)'
    BY <1>1, <1>7, <2>1 DEF CallsFiled
  <2>3. ASSUME NEW i \in Jobs, NEW l \in Jobs, Holds(job'[i], job'[i].path),
               Drops(job'[l], job'[i].path) \/ Keeps(job'[l], job'[i].path)
        PROVE  Doubt(job[i].path)'
    <3>1. i # j /\ job'[i] = job[i] /\ job[i].path \in Paths
      BY <1>1, <2>1, <2>3 DEF Holds
    <3>2. CASE Drops(job[l], job[i].path) \/ Keeps(job[l], job[i].path)
      BY <1>7, <2>3, <3>1, <3>2 DEF CallsFiled
    <3>3. CASE job[i].path = p
      BY <1>7, <1>8, <2>3, <3>1, <3>3
    <3> QED BY <1>9, <2>3, <3>1, <3>2, <3>3
  <2>4. \A i, l \in Jobs :
          i # l /\ Drops(job'[i], job'[i].old) /\ Drops(job'[l], job'[i].old)
              => Doubt(job[i].old)' \/ job'[i].old[2] \in Made
    <3> SUFFICES ASSUME NEW i \in Jobs, NEW l \in Jobs, i # l,
                        Drops(job'[i], job'[i].old), Drops(job'[l], job'[i].old)
                 PROVE  Doubt(job[i].old)' \/ job'[i].old[2] \in Made
      OBVIOUS
    <3>1. CASE i # j /\ l # j
      BY <1>1, <1>7, <2>1, <3>1 DEF CallsFiled, Drops
    <3>2. CASE i = j \/ l = j
      <4>1. job'[i].old = p /\ \E m \in Jobs : Drops(job[m], p)
        BY <1>1, <3>2 DEF Drops
      <4>2. Doubt(p)'
        BY <1>7, <1>8, <4>1
      <4> QED BY <4>1, <4>2 DEF Doubt
    <3> QED BY <3>1, <3>2
  <2>5. ASSUME NEW i \in Jobs, At(i, "unlink")'
        PROVE  \/ job'[i].old \in disk' \/ Doubt(job[i].old)'
               \/ job'[i].old[2] \in Made
    <3>1. CASE i # j
      BY <1>1, <1>7, <2>1, <2>5, <3>1 DEF CallsFiled, At
    <3>2. CASE i = j
      <4>1. p \in disk' \/ Doubt(p)'
        BY <1>7, <1>8
      <4> QED BY <1>1, <3>2, <4>1 DEF Doubt
    <3> QED BY <3>1, <3>2
  <2>6. ASSUME NEW i \in Jobs, At(i, "swap")'
        PROVE  job'[i].path \in disk' \/ Doubt(job[i].path)'
    <3>1. job'[i] = job[i] /\ job[i].path \in Paths /\ At(i, "swap")
      BY <1>1, <2>1, <2>6 DEF At
    <3> QED BY <1>7, <3>1 DEF CallsFiled
  <2> QED BY <2>2, <2>3, <2>4, <2>5, <2>6 DEF CallsFiled
<1> QED BY <1>4, <1>5, <1>6, <1>10, <1>11

LEMMA GenerateFiled ==
    ASSUME Filed, NEW j \in Jobs, NEW c \in Cards, Generate(j, c)
    PROVE  Filed'
<1> USE DEF Filed
<1> DEFINE k == [Idle EXCEPT !.pc = "make", !.kind = "journey", !.card = c]
<1>1. /\ Sees(c) /\ Call /\ UNCHANGED <<home, att, spent, dirs, fresh, disk, sweep, history>>
      /\ \/ job' = [job EXCEPT ![j] = k]
         \/ \E a \in RowsOf(c) : /\ att[a].kind = "journey"
                                 /\ job' = [job EXCEPT ![j] =
                                       [k EXCEPT !.att = a, !.old = att[a].path]]
  BY DEF Generate, Become
<1>2. /\ k \in Calls /\ k.pc = "make" /\ k.kind = "journey" /\ k.card = c
      /\ k.path = None /\ k.att = None /\ k.old = None
  BY IdleIsACall DEF Idle, Calls, JobPcs, Kinds
<1> HIDE DEF k
<1>3. home[c] # "none"
  BY <1>1 DEF Sees, Serving
<1>4. CASE job' = [job EXCEPT ![j] = k]
  <2>1. Lesser(k, job[j]) /\ Shape(k) /\ Homed(k) /\ k.pc # "insert"
    BY <1>2, <1>3 DEF Lesser, Shape, Homed
  <2> QED BY <1>1, <1>2, <1>4, <2>1, QuietFiled
<1>5. ASSUME NEW a \in RowsOf(c), att[a].kind = "journey",
             job' = [job EXCEPT ![j] = [k EXCEPT !.att = a, !.old = att[a].path]]
      PROVE  Filed'
  <2>1. a \in Atts /\ att[a] # None /\ att[a].path[1] = c
    BY <1>5 DEF RowsOf
  <2>2. PICK p \in Paths : p = att[a].path
    BY <2>1, PathTypes
  <2>3. p[2] \in Made /\ p[1] = c
    BY <1>5, <2>1, <2>2 DEF Shapes, RowShape
  <2> DEFINE m == [k EXCEPT !.att = a, !.old = p]
  <2>4. /\ m \in Calls /\ m.pc = "make" /\ m.kind = "journey" /\ m.card = c
        /\ m.path = None /\ m.att = a /\ m.old = p
    BY <1>2, <2>1 DEF Calls
  <2>5. job' = [job EXCEPT ![j] = m]
    BY <1>5, <2>2
  <2> HIDE DEF m
  <2>6. UNCHANGED <<home, spent, dirs, fresh, disk, sweep, history>> /\ att' = att
    BY <1>1
  <2>7. Sees(p[1])
    BY <1>1, <2>3
  <2> QED BY <1>1, <2>1, <2>2, <2>3, <2>4, <2>5, <2>6, <2>7, OldFiled
<1> QED BY <1>1, <1>4, <1>5

LEMMA DeleteAttachmentFiled ==
    ASSUME Filed, NEW j \in Jobs, NEW a \in Atts, DeleteAttachment(j, a)
    PROVE  Filed'
<1> USE DEF Filed
<1>1. PICK p \in Paths : p = att[a].path
  BY PathTypes DEF DeleteAttachment
<1>2. PICK c \in Cards : c = p[1]
  BY PathTypes, <1>1 DEF DeleteAttachment
<1> DEFINE k == [Idle EXCEPT !.pc = "unlink", !.card = c, !.old = p]
<1>3. /\ k \in Calls /\ k.pc = "unlink" /\ k.card = c /\ k.path = None /\ k.old = p
  BY IdleIsACall DEF Idle, Calls, JobPcs
<1>4. /\ job' = [job EXCEPT ![j] = k] /\ att' = [att EXCEPT ![a] = None]
      /\ att[a] # None /\ Sees(c) /\ Call
      /\ UNCHANGED <<home, spent, dirs, fresh, disk, sweep, history>>
  BY <1>1, <1>2 DEF DeleteAttachment, Become
<1> HIDE DEF k
<1> QED BY <1>1, <1>2, <1>3, <1>4, OldFiled

-----------------------------------------------------------------------------
(* The sweep, Postgres and the process *)

\* Steps that touch neither the files nor what the calls claim.
LEMMA ElsewhereFiled ==
    ASSUME Filed, TypeOK', UNCHANGED <<att, spent, dirs, disk, lost, torn>>,
           \A j \in Jobs : job'[j] = job[j] \/ job'[j] = Idle,
           \A c \in Cards : home'[c] = home[c] \/ (home[c] = "buf" /\ home'[c] = "pg"),
           \A c \in fresh : c \in fresh' \/ ~Live(c) \/ sweep.pc = "idle",
           \A c \in fresh \ fresh' : \A j \in Jobs : ~On(j, c),
           \/ sweep' = sweep
           \/ sweep'.pc = "idle"
           \/ \A c \in Cards : Live(c) => c \in sweep'.live \cup sweep'.blind
    PROVE  Filed'
<1> USE DEF Filed
<1>1. \A c \in Cards : /\ Live(c)' <=> Live(c)
                       /\ home'[c] = "none" <=> home[c] = "none"
                       /\ home'[c] = "gone" <=> home[c] = "gone"
  BY DEF Live, TypeOK
<1>2. Shapes'
  BY IdleIsACall DEF Shapes, Shape, RowShape
<1>3. Housed'
  <2>1. ASSUME NEW i \in Jobs PROVE Homed(job[i])'
    <3>1. CASE job'[i] = Idle
      BY <3>1 DEF Homed, Idle
    <3>2. CASE job'[i] = job[i] /\ At(i, "idle")
      BY <3>2 DEF Homed, At
    <3>3. CASE job'[i] = job[i] /\ ~At(i, "idle")
      <4>1. Homed(job[i]) /\ job[i].card \in Cards
        BY <3>3 DEF Housed, Shapes, Shape, At
      <4>2. job[i].card \in fresh => job[i].card \in fresh'
        BY <3>3, <4>1 DEF On
      <4> QED BY <1>1, <3>3, <4>1, <4>2 DEF Homed
    <3> QED BY <3>1, <3>2, <3>3
  <2>2. \A i, l \in Jobs : i # l /\ At(i, "insert")' /\ At(l, "insert")'
                           => job'[i].card # job'[l].card
    BY DEF Housed, At, Idle
  <2>3. \A p \in disk' : home'[p[1]] # "none"
    <3>1. \A p \in disk : p[1] \in Cards
      BY DEF TypeOK, Paths
    <3> QED BY <1>1, <3>1 DEF Housed
  <2>4. WorkspaceKept'
    BY <1>1 DEF Housed, WorkspaceKept
  <2>5. NoOrphanRows'
    <3>1. \A a \in Atts : att[a] # None => att[a].path[1] \in Cards
      BY PathTypes
    <3> QED BY <1>1, <3>1 DEF Housed, NoOrphanRows, Live
  <2>6. sweep'.pc = "listed" =>
          \A d \in Cards : Live(d)' =>
              d \in sweep'.live \cup sweep'.blind \cup fresh' \cup lost'
    BY <1>1 DEF Housed
  <2> QED BY <2>1, <2>2, <2>3, <2>4, <2>5, <2>6 DEF Housed
<1>4. RowsFiled' /\ CallsFiled'
  <2>1. \A l \in Calls : Lesser(l, l)
    BY DEF Lesser
  <2>2. \A i \in Jobs : Lesser(job'[i], job[i])
    BY <2>1, IdleIsLess DEF TypeOK, Calls
  <2> QED BY <1>1, <2>2, FilesKept
<1> QED BY <1>2, <1>3, <1>4

LEMMA SweeperFiled ==
    ASSUME Filed, ListCards \/ SweepDone \/ \E c \in Cards : Age(c)
    PROVE  Filed'
<1>1. CASE ListCards
  <2>1. TypeOK'
    <3>1. sweep' \in [pc : {"idle", "listed"}, live : SUBSET Cards, blind : SUBSET Cards]
      BY <1>1 DEF ListCards
    <3> QED BY <1>1, <3>1 DEF Filed, TypeOK, ListCards, Call, history
  <2>2. \A c \in Cards : Live(c) => c \in sweep'.live \cup sweep'.blind
    BY <1>1 DEF ListCards
  <2> QED BY <1>1, <2>1, <2>2, ElsewhereFiled DEF ListCards, history
<1>2. CASE SweepDone
  <2>1. TypeOK'
    <3>1. sweep' \in [pc : {"idle", "listed"}, live : SUBSET Cards, blind : SUBSET Cards]
      BY <1>2 DEF SweepDone, NoSweep
    <3> QED BY <1>2, <3>1 DEF Filed, TypeOK, SweepDone, storage, history
  <2>2. sweep'.pc = "idle"
    BY <1>2 DEF SweepDone, NoSweep
  <2> QED BY <1>2, <2>1, <2>2, ElsewhereFiled DEF SweepDone, history
<1>3. ASSUME NEW c \in Cards, Age(c) PROVE Filed'
  <2>1. TypeOK'
    BY <1>3 DEF Filed, TypeOK, Age, storage, history
  <2> QED BY <1>3, <2>1, ElsewhereFiled DEF Age, history
<1> QED BY <1>1, <1>2, <1>3

LEMMA WorldFiled ==
    ASSUME Filed, Outage \/ Recover \/ Probe \/ Drain \/ Crash
    PROVE  Filed'
<1>1. /\ UNCHANGED <<att, spent, dirs, fresh, disk, lost, torn>>
      /\ up' \in BOOLEAN /\ degraded' \in BOOLEAN /\ draining' \in BOOLEAN
      /\ faults' \in 0..MaxFaults
  <2>1. /\ UNCHANGED <<att, spent, dirs, fresh, disk, lost, torn>>
        /\ up' \in BOOLEAN /\ degraded' \in BOOLEAN /\ draining' \in BOOLEAN
    BY DEF Outage, Recover, Probe, Drain, Crash, Rest, history, Filed, TypeOK
  <2>2. faults \in 0..MaxFaults /\ (faults < MaxFaults => faults + 1 \in 0..MaxFaults)
    BY BoundsAssumption DEF Filed, TypeOK
  <2>3. faults' = faults \/ (faults < MaxFaults /\ faults' = faults + 1)
    BY DEF Outage, Recover, Probe, Drain, Crash
  <2> QED BY <2>1, <2>2, <2>3
<1>2. /\ job' = job \/ job' = [j \in Jobs |-> Idle]
      /\ sweep' = sweep \/ sweep' = NoSweep
  BY DEF Outage, Recover, Probe, Drain, Crash
<1>3. \/ home' = home
      \/ home' = [c \in Cards |-> IF home[c] = "buf" THEN "pg" ELSE home[c]]
  BY DEF Outage, Recover, Probe, Drain, Crash
<1>4. NoSweep \in [pc : {"idle", "listed"}, live : SUBSET Cards, blind : SUBSET Cards]
      /\ NoSweep.pc = "idle"
  BY DEF NoSweep
<1>5. home' \in [Cards -> {"none", "pg", "buf", "gone"}]
  BY <1>3 DEF Filed, TypeOK
<1>6. job' \in [Jobs -> Calls] /\ \A j \in Jobs : job'[j] = job[j] \/ job'[j] = Idle
  BY <1>2, IdleIsACall DEF Filed, TypeOK, Calls
<1>7. TypeOK'
  <2>1. sweep' \in [pc : {"idle", "listed"}, live : SUBSET Cards, blind : SUBSET Cards]
    BY <1>2, <1>4 DEF Filed, TypeOK
  <2> QED BY <1>1, <1>5, <1>6, <2>1 DEF Filed, TypeOK, Calls
<1>8. \A c \in Cards : home'[c] = home[c] \/ (home[c] = "buf" /\ home'[c] = "pg")
  BY <1>3
<1>9. sweep' = sweep \/ sweep'.pc = "idle"
  BY <1>2, <1>4
<1> QED BY <1>1, <1>6, <1>7, <1>8, <1>9, ElsewhereFiled

-----------------------------------------------------------------------------
(* The theorems *)

LEMMA InitFiled == Init => Filed
<1> SUFFICES ASSUME Init PROVE Filed
  OBVIOUS
<1>1. TypeOK
  <2>1. 0 \in 0..MaxFaults
    BY BoundsAssumption
  <2>2. NoSweep \in [pc : {"idle", "listed"}, live : SUBSET Cards, blind : SUBSET Cards]
    BY DEF NoSweep
  <2>3. job \in [Jobs -> Calls]
    BY IdleIsACall DEF Init
  <2> QED BY <2>1, <2>2, <2>3 DEF Init, TypeOK, Calls
<1>2. Shapes
  BY IdleIsACall DEF Init, Shapes
<1>3. Housed
  <2>1. \A j \in Jobs : job[j] = Idle /\ Idle.pc = "idle"
    BY DEF Init, Idle
  <2>2. sweep.pc = "idle" /\ disk = {}
    BY DEF Init, NoSweep
  <2>3. WorkspaceKept /\ NoOrphanRows
    BY DEF Init, WorkspaceKept, NoOrphanRows, Live
  <2> QED BY <2>1, <2>2, <2>3, IdleIsACall DEF Housed, At
<1>4. RowsFiled /\ CallsFiled
  BY DEF Init, RowsFiled, CallsFiled, Idle, Holds, Drops, Keeps, At
<1> QED BY <1>1, <1>2, <1>3, <1>4 DEF Filed

LEMMA NextFiled == Filed /\ [Next]_vars => Filed'
<1> SUFFICES ASSUME Filed, [Next]_vars PROVE Filed'
  OBVIOUS
<1>1. ASSUME NEW j \in Jobs, Begin(j) PROVE Filed'
  BY <1>1, MakeWorkspaceFiled, BeginFiled, GenerateFiled, DeleteAttachmentFiled DEF Begin
<1>2. ASSUME NEW j \in Jobs, Continue(j) PROVE Filed'
  <2>1. CASE InsertCard(j) \/ DeleteRows(j) \/ RemoveWorkspace(j)
    BY <2>1, InsertFiled, DeleteRowsFiled, RemoveWorkspaceFiled
  <2>2. CASE OpenFile(j) \/ AttachFails(j) \/ Emit(j) \/ SwapRow(j) \/ Unlink(j)
    BY <2>2, OpenFileFiled, TakeBackFiled, EmitFiled, SwapRowFiled
  <2>3. CASE WriteFile(j) \/ Attach(j) \/ \E n \in Names : ChoosePath(j, n)
    BY <2>3, WriteFileFiled, AttachFiled, ChoosePathFiled
  <2> QED BY <1>2, <2>1, <2>2, <2>3 DEF Continue
<1>3. ASSUME NEW j \in Jobs, InsertFails(j) \/ UploadFails(j) PROVE Filed'
  BY <1>3, InsertFiled, TakeBackFiled
<1>4. CASE Sweeper \/ \E c \in Cards : Age(c)
  BY <1>4, SweeperFiled, SweepDirFiled DEF Sweeper
<1>5. CASE Outage \/ Recover \/ Probe \/ Drain \/ Crash
  BY <1>5, WorldFiled
<1>6. CASE UNCHANGED vars
  <2>1. TypeOK'
    BY <1>6 DEF vars, Filed, TypeOK
  <2> QED BY <1>6, <2>1, ElsewhereFiled DEF vars
<1> QED BY <1>1, <1>2, <1>3, <1>4, <1>5, <1>6 DEF Next

LEMMA AlwaysFiled == Spec => []Filed
BY InitFiled, NextFiled, PTL DEF Spec

\* Type correctness (exchange.py, sweeper.py).
THEOREM TypeCorrect == Spec => []TypeOK
<1>1. Filed => TypeOK
  BY DEF Filed
<1> QED BY <1>1, AlwaysFiled, PTL

\* A card keeps its workspace directory (exchange.py:124-147, sweeper.py:397-436).
THEOREM WorkspacesStay == Spec => []WorkspaceKept
<1>1. Filed => WorkspaceKept
  BY DEF Filed, Housed
<1> QED BY <1>1, AlwaysFiled, PTL

\* No attachment survives its card (store_unified.py:323-346, exchange.py:489-510).
THEOREM NoOrphans == Spec => []NoOrphanRows
<1>1. Filed => NoOrphanRows
  BY DEF Filed, Housed
<1> QED BY <1>1, AlwaysFiled, PTL

\* Every attachment has its file (exchange.py:573-621), whatever the calls, the
\* sweep and the crashes do in between.
THEOREM RowsHaveFiles == Spec => []NeverDangling
<1>1. Filed => NeverDangling
  BY DEF Filed, RowsFiled, Housed, NoOrphanRows, NeverDangling, Doubt, Live
<1> QED BY <1>1, AlwaysFiled, PTL

-----------------------------------------------------------------------------
(* TodoBoard implements Board *)

\* An id is given out once, and a call that means to replace a row remembers a
\* generated one of its card.
Replacing(k) == k.pc \in {"make", "swap"} /\ k.att # None
Target(k) == att[k.att] # None => att[k.att].kind = "journey" /\ att[k.att].path[1] = k.card

Given ==
    /\ \A a \in Atts : att[a] # None => a \in spent
    /\ \A j \in Jobs : Replacing(job[j]) => job[j].att \in Atts \cap spent /\ Target(job[j])

\* The invariant the mapping needs.
Kept == Filed /\ Given

\* A row stays, goes, is replaced in place, or is new under a new id; a call goes
\* on with the row it had, or remembers one that is there.
RowMoves(a) ==
    \/ att'[a] = att[a] \/ att'[a] = None
    \/ a \notin spent /\ a \in spent'
    \/ att[a] # None /\ att'[a].kind = att[a].kind /\ att'[a].path[1] = att[a].path[1]
CallMoves(k, l) ==
    Replacing(l) =>
        \/ Replacing(k) /\ l.att = k.att /\ l.card = k.card
        \/ /\ l.att \in Atts /\ att[l.att] # None
           /\ att[l.att].kind = "journey" /\ att[l.att].path[1] = l.card
           /\ att' = att

LEMMA GivenKept ==
    ASSUME Kept, spent \subseteq spent', \A a \in Atts : RowMoves(a),
           \A i \in Jobs : CallMoves(job[i], job'[i])
    PROVE  Given'
<1>1. \A a \in Atts : att'[a] # None => a \in spent'
  BY DEF Kept, Given, RowMoves
<1>2. ASSUME NEW i \in Jobs, Replacing(job'[i])
      PROVE  job'[i].att \in Atts \cap spent' /\ Target(job[i])'
  <2>1. CASE /\ Replacing(job[i]) /\ job'[i].att = job[i].att
             /\ job'[i].card = job[i].card
    <3>p. PICK a : a = job[i].att
      OBVIOUS
    <3>1. a \in Atts /\ a \in spent /\ job'[i].att = a /\ job'[i].card = job[i].card
      BY <2>1, <3>p DEF Kept, Given
    <3>2. att[a] # None => att[a].kind = "journey" /\ att[a].path[1] = job[i].card
      BY <2>1, <3>p DEF Kept, Given, Target
    <3>3. RowMoves(a)
      BY <3>1
    <3> QED BY <3>1, <3>2, <3>3 DEF RowMoves, Target
  <2>2. CASE /\ job'[i].att \in Atts /\ att[job'[i].att] # None
             /\ att[job'[i].att].kind = "journey"
             /\ att[job'[i].att].path[1] = job'[i].card
             /\ att' = att
    BY <2>2 DEF Kept, Given, Target
  <2> QED BY <1>2, <2>1, <2>2 DEF CallMoves
<1> QED BY <1>1, <1>2 DEF Given

Stage == [c \in Cards |-> IF Live(c) THEN "live" ELSE home[c]]
Used == spent \cap Atts
Excused == torn \cup {p \in Paths : p[1] \in lost}

\* Steps that leave the rows and the stages of the cards.
LEMMA Unseen ==
    ASSUME Kept, att' = att, spent \subseteq spent', spent' \cap Atts = spent \cap Atts,
           torn \subseteq torn', lost \subseteq lost',
           \A c \in Cards : home'[c] = home[c] \/ (home[c] = "buf" /\ home'[c] = "pg"),
           \A i \in Jobs : CallMoves(job[i], job'[i])
    PROVE  Given' /\ Shown!Excuse
<1>1. Given'
  BY GivenKept DEF RowMoves
<1>2. Stage' = Stage
  BY DEF Stage, Live
<1>3. Used' = Used /\ Excused \subseteq Excused'
  BY DEF Used, Excused
<1> QED BY <1>1, <1>2, <1>3 DEF Shown!Excuse, Stage, Used, Excused

\* A call goes to a state that is to replace nothing, or keeps what it was to replace.
LEMMA Moves ==
    ASSUME Kept, NEW j \in Jobs, NEW k, job' = [job EXCEPT ![j] = k], CallMoves(job[j], k)
    PROVE  \A i \in Jobs : CallMoves(job[i], job'[i])
<1>1. \A i \in Jobs : i # j => job'[i] = job[i]
  BY DEF Kept, Filed, TypeOK
<1>2. job'[j] = k
  BY DEF Kept, Filed, TypeOK
<1> QED BY <1>1, <1>2 DEF CallMoves

LEMMA IdleReplacesNothing == ~Replacing(Idle)
BY DEF Idle, Replacing

\* The alternatives of Board, without the mapping spelled out.
LEMMA Shows ==
    /\ \A c \in Cards :
          Shown!Create(c) <=> /\ Stage[c] = "none"
                              /\ Stage' = [Stage EXCEPT ![c] = "live"]
                              /\ UNCHANGED <<att, Used, Excused>>
    /\ \A c \in Cards :
          Shown!Delete(c) <=> /\ Stage[c] = "live"
                              /\ Stage' = [Stage EXCEPT ![c] = "gone"]
                              /\ att' = [a \in Atts |->
                                    IF att[a] # None /\ att[a].path[1] = c THEN None ELSE att[a]]
                              /\ UNCHANGED <<Used, Excused>>
    /\ \A a \in Atts, p \in Paths :
          Shown!Alone(a, p) <=> \A b \in Atts \ {a} :
                                    att[b] # None /\ att[b].path = p => p \in Excused
    /\ \A a \in Atts, kind \in Kinds, p \in Paths :
          Shown!Attach(a, kind, p) <=> /\ Stage[p[1]] = "live" /\ a \notin Used
                                       /\ Shown!Alone(a, p)
                                       /\ att' = [att EXCEPT ![a] = [kind |-> kind, path |-> p]]
                                       /\ Used' = Used \cup {a}
                                       /\ UNCHANGED <<Stage, Excused>>
    /\ \A a \in Atts, p \in Paths :
          Shown!Replace(a, p) <=> /\ att[a] # None /\ att[a].kind = "journey"
                                  /\ Shown!Alone(a, p)
                                  /\ p[1] = att[a].path[1] /\ Stage[p[1]] = "live"
                                  /\ att' = [att EXCEPT ![a] = [kind |-> "journey", path |-> p]]
                                  /\ UNCHANGED <<Stage, Used, Excused>>
    /\ \A a \in Atts :
          Shown!Detach(a) <=> /\ att[a] # None /\ Stage[att[a].path[1]] = "live"
                              /\ att' = [att EXCEPT ![a] = None]
                              /\ UNCHANGED <<Stage, Used, Excused>>
    /\ (\E c \in Cards : Shown!Create(c) \/ Shown!Delete(c)) => Shown!Next
    /\ \A a \in Atts, p \in Paths : Shown!Replace(a, p) => Shown!Next
    /\ \A a \in Atts, p \in Paths, kind \in Kinds : Shown!Attach(a, kind, p) => Shown!Next
    /\ (\E a \in Atts : Shown!Detach(a)) => Shown!Next
    /\ Shown!Excuse => Shown!Next
BY DEF Shown!Create, Shown!Delete, Shown!Alone, Shown!Attach, Shown!Replace, Shown!Detach,
       Shown!There, Shown!Next, Shown!Path, Stage, Used, Excused, Kinds, Paths

\* Calls that only end or go on to something else.
LEMMA QuietCalls ==
    ASSUME Kept, NEW j \in Jobs,
           \/ \E c \in Cards : MakeWorkspace(j, c) \/ DeleteCard(j, c) \/ Upload(j, c)
           \/ \E n \in Names : ChoosePath(j, n)
           \/ RemoveWorkspace(j) \/ OpenFile(j) \/ AttachFails(j) \/ Emit(j) \/ Unlink(j)
           \/ InsertFails(j) \/ UploadFails(j)
    PROVE  Given' /\ Shown!Excuse
<1>1. /\ att' = att /\ spent' = spent /\ home' = home
      /\ torn \subseteq torn' /\ lost \subseteq lost'
  BY DEF MakeWorkspace, DeleteCard, Upload, ChoosePath, RemoveWorkspace, OpenFile,
         AttachFails, Emit, Unlink, InsertFails, UploadFails, history
<1>2. PICK k : job' = [job EXCEPT ![j] = k] /\ ~Replacing(k)
  <2>1. CASE \E c \in Cards : MakeWorkspace(j, c) \/ DeleteCard(j, c) \/ Upload(j, c)
    <3>1. PICK c \in Cards, pc \in {"insert", "delete", "upload"} :
             job' = [job EXCEPT ![j] = [Idle EXCEPT !.pc = pc, !.card = c]]
      BY <2>1 DEF MakeWorkspace, DeleteCard, Upload, Become
    <3>2. ~Replacing([Idle EXCEPT !.pc = pc, !.card = c])
      BY DEF Idle, Replacing
    <3> QED BY <3>1, <3>2
  <2>2. CASE \E n \in Names : ChoosePath(j, n)
    <3>1. PICK n \in Names : ChoosePath(j, n)
      BY <2>2
    <3> DEFINE k == [job[j] EXCEPT !.pc = "open", !.path = <<job[j].card, n>>]
    <3>2. job' = [job EXCEPT ![j] = k]
      BY <3>1 DEF ChoosePath
    <3>3. k.pc = "open"
      BY DEF Kept, Filed, TypeOK
    <3> QED BY <3>2, <3>3 DEF Replacing
  <2>3. CASE OpenFile(j)
    <3>1. CASE job' = [job EXCEPT ![j].pc = "attach"]
      <4> DEFINE k == [job[j] EXCEPT !.pc = "attach"]
      <4>1. job' = [job EXCEPT ![j] = k] /\ k.pc = "attach"
        BY <3>1 DEF Kept, Filed, TypeOK
      <4> QED BY <4>1 DEF Replacing
    <3>2. CASE job' = [job EXCEPT ![j] = Idle]
      BY <3>2, IdleReplacesNothing
    <3> QED BY <2>3, <3>1, <3>2 DEF OpenFile, Goto, Return, Become
  <2>4. CASE \/ RemoveWorkspace(j) \/ AttachFails(j) \/ Emit(j) \/ Unlink(j)
             \/ InsertFails(j) \/ UploadFails(j)
    <3>1. job' = [job EXCEPT ![j] = Idle]
      BY <2>4 DEF RemoveWorkspace, AttachFails, Emit, Unlink, InsertFails, UploadFails,
                  Return, Become
    <3> QED BY <3>1, IdleReplacesNothing
  <2> QED BY <2>1, <2>2, <2>3, <2>4
<1>3. CallMoves(job[j], k)
  BY <1>2 DEF CallMoves
<1>4. \A i \in Jobs : CallMoves(job[i], job'[i])
  BY <1>2, <1>3, Moves
<1> QED BY <1>1, <1>4, Unseen

\* A generator remembers the row it will replace, and writes its file.
LEMMA GenerateShows ==
    ASSUME Kept, NEW j \in Jobs, NEW c \in Cards, Generate(j, c)
    PROVE  Given' /\ Shown!Excuse
<1> DEFINE k == [Idle EXCEPT !.pc = "make", !.kind = "journey", !.card = c]
<1>1. /\ UNCHANGED <<home, att, spent, history>>
      /\ \/ job' = [job EXCEPT ![j] = k]
         \/ \E a \in RowsOf(c) : /\ att[a].kind = "journey"
                                 /\ job' = [job EXCEPT ![j] =
                                       [k EXCEPT !.att = a, !.old = att[a].path]]
  BY DEF Generate, Become
<1>2. PICK l : job' = [job EXCEPT ![j] = l] /\ CallMoves(job[j], l)
  <2>1. CASE job' = [job EXCEPT ![j] = k]
    <3>1. ~Replacing(k)
      BY DEF Idle, Replacing
    <3> HIDE DEF k
    <3> QED BY <2>1, <3>1 DEF CallMoves
  <2>2. ASSUME NEW a \in RowsOf(c), att[a].kind = "journey",
               job' = [job EXCEPT ![j] = [k EXCEPT !.att = a, !.old = att[a].path]]
        PROVE  \E l : job' = [job EXCEPT ![j] = l] /\ CallMoves(job[j], l)
    <3> DEFINE l == [k EXCEPT !.att = a, !.old = att[a].path]
    <3>1. a \in Atts /\ att[a] # None /\ att[a].path[1] = c
      BY DEF RowsOf
    <3>2. l.att = a /\ l.card = c
      BY DEF Idle
    <3>3. job' = [job EXCEPT ![j] = l]
      BY <2>2
    <3> HIDE DEF l
    <3>4. CallMoves(job[j], l)
      BY <1>1, <2>2, <3>1, <3>2 DEF CallMoves
    <3> QED BY <3>3, <3>4
  <2> QED BY <1>1, <2>1, <2>2
<1>3. \A i \in Jobs : CallMoves(job[i], job'[i])
  BY <1>2, Moves
<1> HIDE DEF k
<1> QED BY <1>1, <1>3, Unseen DEF history

LEMMA WriteFileShows ==
    ASSUME Kept, NEW j \in Jobs, WriteFile(j)
    PROVE  Given' /\ Shown!Excuse
<1>1. PICK f, pc, p :
         /\ f \in Made /\ pc \in {"attach", "swap"}
         /\ spent' = spent \cup {f} /\ UNCHANGED <<home, att, history>>
         /\ At(j, "make")
         /\ job' = [job EXCEPT ![j] = [job[j] EXCEPT !.path = p, !.pc = pc]]
         /\ pc = "swap" => job[j].att # None
  <2> DEFINE f == NextId(Made)
             pc == IF job[j].att = None THEN "attach" ELSE "swap"
  <2>1. f \in Made
    BY DEF WriteFile, NextId
  <2>2. pc \in {"attach", "swap"} /\ (pc = "swap" => job[j].att # None)
    OBVIOUS
  <2>3. /\ spent' = spent \cup {f} /\ UNCHANGED <<home, att, history>> /\ At(j, "make")
        /\ job' = [job EXCEPT ![j] = [job[j] EXCEPT !.path = <<job[j].card, f>>, !.pc = pc]]
    BY DEF WriteFile, Become
  <2> HIDE DEF f, pc
  <2> QED BY <2>1, <2>2, <2>3
<1> DEFINE k == [job[j] EXCEPT !.path = p, !.pc = pc]
<1>2. /\ k.att = job[j].att /\ k.card = job[j].card /\ k.pc = pc
      /\ job' = [job EXCEPT ![j] = k]
  BY <1>1 DEF Kept, Filed, TypeOK
<1> HIDE DEF k
<1>3. CallMoves(job[j], k)
  BY <1>1, <1>2 DEF CallMoves, Replacing, At
<1>4. \A i \in Jobs : CallMoves(job[i], job'[i])
  BY <1>2, <1>3, Moves
<1>5. spent' \cap Atts = spent \cap Atts
  BY <1>1, SetsAssumption
<1> QED BY <1>1, <1>4, <1>5, Unseen DEF history

\* The sweep, time, Postgres and the process show nothing.
LEMMA WorldShows ==
    ASSUME Kept,
           \/ Sweeper \/ \E c \in Cards : Age(c)
           \/ Outage \/ Recover \/ Probe \/ Drain \/ Crash \/ UNCHANGED vars
    PROVE  Given' /\ Shown!Excuse
<1>1. /\ att' = att /\ spent' = spent /\ torn \subseteq torn' /\ lost \subseteq lost'
      /\ \A c \in Cards : home'[c] = home[c] \/ (home[c] = "buf" /\ home'[c] = "pg")
  <2>1. CASE Sweeper \/ \E c \in Cards : Age(c)
    BY <2>1 DEF Sweeper, ListCards, SweepDone, SweepDir, Age, history
  <2>2. CASE Outage \/ Recover \/ Probe \/ Drain \/ Crash
    BY <2>2 DEF Outage, Recover, Probe, Drain, Crash, Rest, history
  <2>3. CASE UNCHANGED vars
    BY <2>3 DEF vars
  <2> QED BY <2>1, <2>2, <2>3
<1>2. job' = job \/ job' = [j \in Jobs |-> Idle]
  BY DEF Sweeper, ListCards, SweepDone, SweepDir, Age, Outage, Recover, Probe, Drain, Crash, vars
<1>3. \A i \in Jobs : CallMoves(job[i], job'[i])
  BY <1>2, IdleReplacesNothing DEF CallMoves
<1> QED BY <1>1, <1>3, Unseen

\* The row of a card makes it live.
LEMMA InsertShows ==
    ASSUME Kept, NEW j \in Jobs, InsertCard(j)
    PROVE  Given' /\ Shown!Next
<1>1. PICK c \in Cards : c = job[j].card
  BY DEF InsertCard, At, Kept, Filed, Shapes, Shape
<1>2. /\ home[c] = "none" /\ home' = [home EXCEPT ![c] = Serving]
      /\ job' = [job EXCEPT ![j] = Idle]
      /\ UNCHANGED <<att, spent, torn, lost>>
  BY <1>1 DEF InsertCard, Kept, Filed, Housed, Homed, At, Return, Become, history
<1>3. Given'
  <2>1. \A i \in Jobs : CallMoves(job[i], job'[i])
    BY <1>2, IdleReplacesNothing, Moves DEF CallMoves
  <2> QED BY <1>2, <2>1, GivenKept DEF RowMoves
<1>4. Stage[c] = "none" /\ Stage' = [Stage EXCEPT ![c] = "live"]
  BY <1>2 DEF Stage, Live, Serving, Kept, Filed, TypeOK
<1>5. UNCHANGED <<att, Used, Excused>>
  BY <1>2 DEF Used, Excused
<1>6. Shown!Create(c)
  BY <1>4, <1>5, Shows
<1> QED BY <1>3, <1>6, Shows

\* The card goes with all its attachments, or nothing does.
LEMMA DeleteRowsShows ==
    ASSUME Kept, NEW j \in Jobs, DeleteRows(j)
    PROVE  Given' /\ Shown!Next
<1>1. PICK c \in Cards : c = job[j].card
  BY DEF DeleteRows, At, Kept, Filed, Shapes, Shape
<1>2. /\ UNCHANGED <<spent, torn, lost>>
      /\ \A i \in Jobs : CallMoves(job[i], job'[i])
  <2> DEFINE k == [job[j] EXCEPT !.pc = "rmtree", !.blind = Live(c) /\ ~Sees(c)]
  <2>t. job[j] \in Calls /\ job \in [Jobs -> Calls]
    BY DEF Kept, Filed, TypeOK, Calls
  <2>1. job' = [job EXCEPT ![j] = k] /\ k.pc = "rmtree"
    BY <1>1, <2>t DEF DeleteRows, Calls
  <2> HIDE DEF k
  <2>2. CallMoves(job[j], k)
    BY <2>1 DEF CallMoves, Replacing
  <2>3. UNCHANGED <<spent, torn, lost>>
    BY DEF DeleteRows, history
  <2> QED BY <2>1, <2>2, <2>3, Moves
<1>3. CASE Sees(c)
  <2>1. /\ home' = [home EXCEPT ![c] = "gone"]
        /\ att' = [a \in Atts |-> IF a \in RowsOf(c) THEN None ELSE att[a]]
    BY <1>1, <1>3 DEF DeleteRows
  <2>2. Given'
    BY <1>2, <2>1, GivenKept DEF RowMoves
  <2>3. Stage[c] = "live" /\ Stage' = [Stage EXCEPT ![c] = "gone"]
    BY <1>3, <2>1 DEF Stage, Live, Sees, Serving, Kept, Filed, TypeOK
  <2>4. att' = [a \in Atts |-> IF att[a] # None /\ att[a].path[1] = c THEN None ELSE att[a]]
    BY <2>1 DEF RowsOf
  <2>5. UNCHANGED <<Used, Excused>>
    BY <1>2 DEF Used, Excused
  <2>6. Shown!Delete(c)
    BY <2>3, <2>4, <2>5, Shows
  <2> QED BY <2>2, <2>6, Shows
<1>4. CASE ~Sees(c)
  <2>1. home' = home /\ att' = att
    BY <1>1, <1>4 DEF DeleteRows
  <2> QED BY <1>2, <2>1, Unseen, Shows
<1> QED BY <1>3, <1>4

\* A path that a call is to put into a row is no row's but for what is excused.
LEMMA AloneHolds ==
    ASSUME Kept, NEW j \in Jobs, NEW p \in Paths, NEW a \in Atts, Holds(job[j], p), Live(p[1])
    PROVE  Shown!Alone(a, p)
<1>1. ASSUME NEW b \in Atts, att[b] # None, att[b].path = p PROVE p \in Excused
  <2>1. Doubt(p)
    BY <1>1 DEF Kept, Filed, RowsFiled
  <2> QED BY <2>1 DEF Doubt, Live, Excused
<1> QED BY <1>1, Shows

LEMMA AttachShows ==
    ASSUME Kept, NEW j \in Jobs, Attach(j)
    PROVE  Given' /\ Shown!Next
<1>p. PICK p, a, kind : p = job[j].path /\ a = NextId(Atts) /\ kind = job[j].kind
  OBVIOUS
<1>1. /\ At(j, "attach") /\ Sees(job[j].card)
      /\ a \in Atts /\ a \notin spent /\ spent' = spent \cup {a}
      /\ att' = [att EXCEPT ![a] = [kind |-> kind, path |-> p]]
      /\ UNCHANGED <<home, torn, lost>>
  BY <1>p DEF Attach, NextId, Row, history
<1>2. p \in Paths /\ p[1] = job[j].card /\ kind \in Kinds
  BY <1>1, <1>p, PathTypes DEF Kept, Filed, Shapes, Shape, At, TypeOK
<1>3. Given'
  <2>1. PICK k : job' = [job EXCEPT ![j] = k] /\ k.pc \in {"emit", "idle"}
    <3>1. CASE job' = [job EXCEPT ![j].pc = "emit"]
      <4> DEFINE k == [job[j] EXCEPT !.pc = "emit"]
      <4>1. job' = [job EXCEPT ![j] = k] /\ k.pc = "emit"
        BY <3>1 DEF Kept, Filed, TypeOK
      <4> QED BY <4>1
    <3>2. CASE job' = [job EXCEPT ![j] = Idle]
      <4>1. Idle.pc = "idle"
        BY DEF Idle
      <4> QED BY <3>2, <4>1
    <3> QED BY <3>1, <3>2 DEF Attach, Goto, Return, Become
  <2>2. CallMoves(job[j], k)
    BY <2>1 DEF CallMoves, Replacing
  <2>3. \A i \in Jobs : CallMoves(job[i], job'[i])
    BY <2>1, <2>2, Moves
  <2>4. \A b \in Atts : RowMoves(b)
    BY <1>1 DEF RowMoves, Kept, Filed, TypeOK
  <2> QED BY <1>1, <2>3, <2>4, GivenKept
<1>4. Live(p[1]) /\ Stage[p[1]] = "live"
  <2>1. p[1] \in Cards
    BY <1>2 DEF Paths
  <2> QED BY <1>1, <1>2, <2>1 DEF Sees, Serving, Live, Stage
<1>5. Shown!Alone(a, p)
  <2>1. Holds(job[j], p)
    BY <1>1, <1>p DEF Holds, At
  <2> QED BY <1>1, <1>2, <1>4, <2>1, AloneHolds
<1>6. a \notin Used /\ Used' = Used \cup {a} /\ UNCHANGED <<Stage, Excused>>
  BY <1>1 DEF Used, Stage, Excused, Live
<1>7. Shown!Attach(a, kind, p)
  BY <1>1, <1>2, <1>4, <1>5, <1>6, Shows
<1> QED BY <1>1, <1>2, <1>3, <1>7, Shows

\* The row a generator remembered is pointed at the new file, if it is there still.
LEMMA SwapRowShows ==
    ASSUME Kept, NEW j \in Jobs, SwapRow(j)
    PROVE  Given' /\ Shown!Next
<1>p. PICK p, a : p = job[j].path /\ a = job[j].att
  OBVIOUS
<1>1. /\ At(j, "swap") /\ job[j].kind = "journey" /\ a \in Atts
      /\ p \in Paths /\ p[1] = job[j].card
      /\ att[a] # None => att[a].kind = "journey" /\ att[a].path[1] = job[j].card
      /\ UNCHANGED <<home, spent, torn, lost>>
  <2>1. At(j, "swap") /\ UNCHANGED <<home, spent, torn, lost>>
    BY DEF SwapRow, history
  <2>2. Shape(job[j])
    BY DEF Kept, Filed, Shapes
  <2>3. job[j].kind = "journey" /\ a # None /\ p # None /\ p[1] = job[j].card
    BY <1>p, <2>1, <2>2 DEF Shape, At
  <2>4. p \in Paths
    BY <1>p, <2>3, PathTypes DEF Kept, Filed
  <2>5. Replacing(job[j])
    BY <1>p, <2>1, <2>3 DEF Replacing, At
  <2>6. a \in Atts /\ Target(job[j])
    BY <1>p, <2>5 DEF Kept, Given
  <2> QED BY <1>p, <2>1, <2>3, <2>4, <2>6 DEF Target
<1>2. \A i \in Jobs : CallMoves(job[i], job'[i])
  <2>1. PICK k : job' = [job EXCEPT ![j] = k] /\ k.pc \in {"unlink", "idle"}
    <3>1. CASE job' = [job EXCEPT ![j].pc = "unlink"]
      <4> DEFINE k == [job[j] EXCEPT !.pc = "unlink"]
      <4>1. job' = [job EXCEPT ![j] = k] /\ k.pc = "unlink"
        BY <3>1 DEF Kept, Filed, TypeOK
      <4> QED BY <4>1
    <3>2. CASE job' = [job EXCEPT ![j] = Idle]
      <4>1. Idle.pc = "idle"
        BY DEF Idle
      <4> QED BY <3>2, <4>1
    <3> QED BY <3>1, <3>2 DEF SwapRow, Goto, Return, Become
  <2>2. CallMoves(job[j], k)
    BY <2>1 DEF CallMoves, Replacing
  <2> QED BY <2>1, <2>2, Moves
<1>3. CASE att[a] # None /\ Sees(job[j].card)
  <2>1. att' = [att EXCEPT ![a] = [kind |-> "journey", path |-> p]]
    BY <1>1, <1>3, <1>p DEF SwapRow, Row
  <2>2. Given'
    <3>1. \A b \in Atts : RowMoves(b)
      BY <1>1, <1>3, <2>1 DEF RowMoves, Kept, Filed, TypeOK
    <3> QED BY <1>1, <1>2, <3>1, GivenKept
  <2>3. Live(p[1]) /\ Stage[p[1]] = "live"
    <3>1. p[1] \in Cards
      BY <1>1 DEF Paths
    <3> QED BY <1>1, <1>3, <3>1 DEF Sees, Serving, Live, Stage
  <2>4. Shown!Alone(a, p)
    <3>1. Holds(job[j], p)
      BY <1>1, <1>p DEF Holds, At
    <3> QED BY <1>1, <2>3, <3>1, AloneHolds
  <2>5. UNCHANGED <<Stage, Used, Excused>>
    BY <1>1 DEF Stage, Used, Excused, Live
  <2>6. Shown!Replace(a, p)
    BY <1>1, <1>3, <2>1, <2>3, <2>4, <2>5, Shows
  <2> QED BY <1>1, <2>2, <2>6, Shows
<1>4. CASE ~(att[a] # None /\ Sees(job[j].card))
  <2>1. att' = att
    BY <1>4, <1>p DEF SwapRow
  <2> QED BY <1>1, <1>2, <2>1, Unseen, Shows
<1> QED BY <1>3, <1>4

LEMMA DeleteAttachmentShows ==
    ASSUME Kept, NEW j \in Jobs, NEW a \in Atts, DeleteAttachment(j, a)
    PROVE  Given' /\ Shown!Next
<1>1. /\ att[a] # None /\ Sees(att[a].path[1]) /\ att' = [att EXCEPT ![a] = None]
      /\ UNCHANGED <<home, spent, torn, lost>>
  BY DEF DeleteAttachment, history
<1> DEFINE k == [Idle EXCEPT !.pc = "unlink", !.card = att[a].path[1], !.old = att[a].path]
<1>2. job' = [job EXCEPT ![j] = k] /\ k.pc = "unlink"
  BY DEF DeleteAttachment, Become, Idle
<1> HIDE DEF k
<1>3. Given'
  <2>1. CallMoves(job[j], k)
    BY <1>2 DEF CallMoves, Replacing
  <2>2. \A i \in Jobs : CallMoves(job[i], job'[i])
    BY <1>2, <2>1, Moves
  <2>3. \A b \in Atts : RowMoves(b)
    BY <1>1 DEF RowMoves, Kept, Filed, TypeOK
  <2> QED BY <1>1, <2>2, <2>3, GivenKept
<1>4. Stage[att[a].path[1]] = "live" /\ UNCHANGED <<Stage, Used, Excused>>
  <2>1. att[a].path[1] \in Cards
    BY <1>1, PathTypes DEF Kept, Filed
  <2> QED BY <1>1, <2>1 DEF Sees, Serving, Stage, Live, Used, Excused
<1>5. Shown!Detach(a)
  BY <1>1, <1>4, Shows
<1> QED BY <1>3, <1>5, Shows

LEMMA InitShows == Init => Given /\ Shown!Init
<1> SUFFICES ASSUME Init PROVE Given /\ Shown!Init
  OBVIOUS
<1>1. Given
  BY IdleReplacesNothing DEF Init, Given
<1>2. Stage = [c \in Cards |-> "none"]
  BY DEF Init, Stage, Live
<1>3. att = [a \in Atts |-> None] /\ Used = {} /\ Excused = {}
  BY DEF Init, Used, Excused
<1> QED BY <1>1, <1>2, <1>3 DEF Shown!Init, Stage, Used, Excused

LEMMA NextShows ==
    ASSUME Kept, [Next]_vars
    PROVE  Given' /\ Shown!Next
<1>1. ASSUME NEW j \in Jobs, Begin(j) PROVE Given' /\ Shown!Next
  BY <1>1, QuietCalls, GenerateShows, DeleteAttachmentShows, Shows DEF Begin
<1>2. ASSUME NEW j \in Jobs, Continue(j) PROVE Given' /\ Shown!Next
  <2>1. CASE InsertCard(j) \/ DeleteRows(j)
    BY <2>1, InsertShows, DeleteRowsShows
  <2>2. CASE SwapRow(j) \/ Attach(j)
    BY <2>2, SwapRowShows, AttachShows
  <2>3. CASE WriteFile(j)
    BY <2>3, WriteFileShows, Shows
  <2>4. CASE \/ RemoveWorkspace(j) \/ OpenFile(j) \/ AttachFails(j) \/ Emit(j) \/ Unlink(j)
             \/ \E n \in Names : ChoosePath(j, n)
    BY <2>4, QuietCalls, Shows
  <2> QED BY <1>2, <2>1, <2>2, <2>3, <2>4 DEF Continue
<1>3. ASSUME NEW j \in Jobs, InsertFails(j) \/ UploadFails(j) PROVE Given' /\ Shown!Next
  BY <1>3, QuietCalls, Shows
<1>4. CASE \/ Sweeper \/ \E c \in Cards : Age(c)
           \/ Outage \/ Recover \/ Probe \/ Drain \/ Crash \/ UNCHANGED vars
  BY <1>4, WorldShows, Shows
<1> QED BY <1>1, <1>2, <1>3, <1>4 DEF Next

\* TodoBoard implements Board: whatever the two databases, the calls under way,
\* the sweep, the outages and the crashes do, a card is created once and deleted
\* once with all it has (store_unified.py:323-346), an attachment goes under a new
\* id to a card that is there (store_unified.py:391-399), and only a generated one
\* is replaced, in place and by a file of its own (exchange.py:573-600).
THEOREM Implements == Spec => Refines
<1>1. Init => Kept /\ Shown!Init
  BY InitFiled, InitShows DEF Kept
<1>2. Kept /\ [Next]_vars => Kept' /\ [Shown!Next]_(Shown!vars)
  BY NextFiled, NextShows DEF Kept
<1> QED BY <1>1, <1>2, PTL DEF Spec, Refines, Shown!Spec
=============================================================================
