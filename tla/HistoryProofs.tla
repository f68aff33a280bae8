------------------------------ MODULE HistoryProofs ------------------------------
(***************************************************************************)
(* Theorems about History, for any settings, any number of turns and any   *)
(* faults: what the model is sent is well formed, a user message follows   *)
(* what it should, compaction takes nothing unrecorded, a turn runs out.   *)
(***************************************************************************)
EXTENDS History, WellFoundedInduction, TLAPS

Empty(m) == m.kind = "ai" /\ m.calls = {} /\ m.body = "empty"

\* A user message may follow it.
Fit(m) == m.kind # "tool" /\ m.calls = {} /\ ~Empty(m)

Below(h, m) == {x \in h : x.at < m.at}
Top(x, h) == x \in h /\ \A y \in h : y.at <= x.at
Ready(h) == \A x \in h : Top(x, h) => Fit(x)

Following(h) ==
    \A m, x \in h : m.kind = "human" /\ m.clean /\ Top(x, Below(h, m)) => Fit(x)

\* A history the model could be sent, but for calls of its last answer.
Tidy(h, n) ==
    /\ h \subseteq Message
    /\ \A m \in h : /\ m.at < n
                    /\ m.calls # {} => m.kind = "ai"
                    /\ m.kind = "tool" => m.of \in CallIds /\ m.of[1] < m.at
    /\ \A x, y \in h : x.at = y.at => x = y \/ (x.kind = "tool" /\ y.kind = "tool")
    /\ \A x, y \in h : x.kind = "tool" /\ y.kind = "tool" /\ x.of = y.of => x = y
    /\ Answered(h) \subseteq Asked(h)
    /\ \A m \in h : \A s \in m.calls : <<m.at, s>> \notin Answered(h) => Top(m, h)
    /\ Following(h)

-----------------------------------------------------------------------------
(* Histories *)

LEMMA CallsAndResults ==
    ASSUME NEW h
    PROVE  /\ \A c : c \in Asked(h) <=> \E m \in h : \E s \in m.calls : c = <<m.at, s>>
           /\ \A c : c \in Answered(h) <=> \E x \in h : x.kind = "tool" /\ x.of = c
BY DEF Asked, Answered, CallsOf

LEMMA DanglingIds ==
    ASSUME NEW h, NEW n, Tidy(h, n)
    PROVE  /\ Dangling(h) \subseteq CallIds
           /\ Asked(h) \subseteq CallIds
           /\ Dangling(h) = {} <=> Asked(h) = Answered(h)
<1>1. Asked(h) \subseteq CallIds
  <2>1. ASSUME NEW m \in h, NEW s \in m.calls PROVE <<m.at, s>> \in CallIds
    BY DEF Tidy, Message, CallIds
  <2> QED BY <2>1, CallsAndResults
<1>2. Answered(h) \subseteq Asked(h)
  BY DEF Tidy
<1> QED BY <1>1, <1>2 DEF Dangling

LEMMA MessageTypes ==
    ASSUME NEW at \in Nat \ {0}, NEW c \in CallIds
    PROVE  /\ \A kind \in Spoken \cup {"summary", "system"}, body \in {"text", "empty"} :
                 Says(at, kind, body) \in Message
           /\ \A body \in {"ok", "error", "fabricated"} : Result(at, c, body) \in Message
<1>1. \A kind \in Spoken \cup {"summary", "system"},
        body \in {"text", "empty", "ok", "error", "fabricated"} : Says(at, kind, body) \in Message
  BY DEF Says, Message
<1>2. \A body \in {"ok", "error", "fabricated"} :
        Says(at, "tool", body) \in Message
  BY <1>1 DEF Spoken
<1>3. \A m \in Message : [m EXCEPT !.of = c] \in Message
  BY DEF Message
<1> QED BY <1>1, <1>2, <1>3 DEF Result

LEMMA SaysFields ==
    ASSUME NEW at \in Nat \ {0}, NEW kind \in {"human", "ai", "summary", "system"},
           NEW body \in {"text", "empty"}
    PROVE  /\ LET m == Says(at, kind, body) IN
                 /\ m \in Message /\ m.at = at /\ m.kind = kind /\ m.calls = {}
                 /\ m.body = body /\ m.row = "none"
           /\ \A fit \in BOOLEAN :
                 LET m == [Says(at, kind, body) EXCEPT !.clean = fit] IN
                 /\ m \in Message /\ m.at = at /\ m.kind = kind /\ m.calls = {}
                 /\ m.clean = fit /\ m.row = "none"
<1>1. kind \in Spoken \cup {"summary", "system"}
  BY DEF Spoken
<1> QED BY <1>1 DEF Says, Message

LEMMA ResultFields ==
    ASSUME NEW at, NEW c, NEW body
    PROVE  LET x == Result(at, c, body) IN
             x.at = at /\ x.kind = "tool" /\ x.calls = {} /\ x.of = c /\ x.row = "none"
BY DEF Result, Says

\* Every set of natural numbers has a least one.
LEMMA Smallest ==
    ASSUME NEW T \in SUBSET Nat, T # {}
    PROVE  \E x \in T : \A y \in T : x <= y
<1> DEFINE R == {p \in Nat \X Nat : p[1] < p[2]}
<1>1. IsWellFoundedOn(R, Nat)
  BY NatLessThanWellFounded DEF OpToRel
<1>2. \A x, y \in Nat : y < x => <<y, x>> \in R
  OBVIOUS
<1> HIDE DEF R
<1>3. PICK x \in T : \A y \in T : <<y, x>> \notin R
  BY <1>1, WFMin
<1>4. ASSUME NEW y \in T PROVE x <= y
  <2>1. x \in Nat /\ y \in Nat /\ <<y, x>> \notin R
    BY <1>3
  <2>2. ~(y < x)
    BY <1>2, <2>1
  <2> QED BY <2>1, <2>2
<1> QED BY <1>4

\* A history has a last message.
LEMMA LastIsTop ==
    ASSUME NEW h \in SUBSET Message, h # {}, NEW n \in Nat, \A m \in h : m.at < n
    PROVE  Top(Last(h), h)
<1> DEFINE T == {n - m.at : m \in h}
<1>1. \A m \in h : m.at \in Nat
  BY DEF Message
<1>2. T \in SUBSET Nat /\ T # {}
  BY <1>1
<1> HIDE DEF T
<1>3. PICK t \in T : \A u \in T : t <= u
  BY <1>2, Smallest
<1>4. PICK m \in h : t = n - m.at
  BY DEF T
<1>5. ASSUME NEW x \in h PROVE x.at <= m.at
  <2>1. n - x.at \in T
    BY DEF T
  <2>2. n - m.at <= n - x.at
    BY <1>3, <1>4, <2>1
  <2> QED BY <1>1, <2>2
<1>6. \E y \in h : \A x \in h : x.at <= y.at
  BY <1>5
<1> QED BY <1>6 DEF Last, Top

LEMMA LaterIsTidy ==
    ASSUME NEW h, NEW n \in Nat, NEW k \in Nat, n <= k, Tidy(h, n)
    PROVE  Tidy(h, k)
<1>1. \A m \in h : m.at \in Nat
  BY DEF Tidy, Message
<1> QED BY <1>1 DEF Tidy

\* Changes that no property of a history looks at.
Same(m, y) ==
    /\ y \in Message
    /\ y.at = m.at /\ y.kind = m.kind /\ y.of = m.of /\ y.calls = m.calls
    /\ y.clean = m.clean /\ (Empty(y) <=> Empty(m))

LEMMA RelabelledIsTidy ==
    ASSUME NEW h, NEW n, Tidy(h, n), NEW f, NEW k, k = {f[m] : m \in h},
           \A m \in h : Same(m, f[m])
    PROVE  /\ Tidy(k, n) /\ Asked(k) = Asked(h) /\ Answered(k) = Answered(h)
           /\ Dangling(k) = Dangling(h)
           /\ Ready(h) => Ready(k)
<1>1. \A y \in k : \E m \in h : y = f[m] /\ Same(m, y)
  OBVIOUS
<1>2. \A m \in h : f[m] \in k /\ Same(m, f[m])
  OBVIOUS
<1>3. Asked(k) = Asked(h)
  <2>1. ASSUME NEW c \in Asked(k) PROVE c \in Asked(h)
    <3>1. PICK y \in k : \E s \in y.calls : c = <<y.at, s>>
      BY CallsAndResults
    <3> QED BY <1>1, <3>1, CallsAndResults DEF Same
  <2>2. ASSUME NEW c \in Asked(h) PROVE c \in Asked(k)
    <3>1. PICK m \in h : \E s \in m.calls : c = <<m.at, s>>
      BY CallsAndResults
    <3>2. \E y \in k : \E s \in y.calls : c = <<y.at, s>>
      BY <1>2, <3>1 DEF Same
    <3> QED BY <3>2, CallsAndResults
  <2> QED BY <2>1, <2>2
<1>4. Answered(k) = Answered(h)
  <2>1. ASSUME NEW c \in Answered(k) PROVE c \in Answered(h)
    <3>1. PICK y \in k : y.kind = "tool" /\ y.of = c
      BY CallsAndResults
    <3> QED BY <1>1, <3>1, CallsAndResults DEF Same
  <2>2. ASSUME NEW c \in Answered(h) PROVE c \in Answered(k)
    <3>1. PICK m \in h : m.kind = "tool" /\ m.of = c
      BY CallsAndResults
    <3>2. \E y \in k : y.kind = "tool" /\ y.of = c
      BY <1>2, <3>1 DEF Same
    <3> QED BY <3>2, CallsAndResults
  <2> QED BY <2>1, <2>2
<1>5. \A m \in h : Top(f[m], k) <=> Top(m, h)
  BY <1>1, <1>2 DEF Same, Top
<1>6. k \subseteq Message
  BY <1>1 DEF Same
<1>7. \A y \in k : /\ y.at < n
                   /\ y.calls # {} => y.kind = "ai"
                   /\ y.kind = "tool" => y.of \in CallIds /\ y.of[1] < y.at
  BY <1>1 DEF Same, Tidy
<1>8. \A x, y \in k : x.at = y.at => x = y \/ (x.kind = "tool" /\ y.kind = "tool")
  BY <1>1 DEF Same, Tidy
<1>9. \A x, y \in k : x.kind = "tool" /\ y.kind = "tool" /\ x.of = y.of => x = y
  BY <1>1 DEF Same, Tidy
<1>10. ASSUME NEW y \in k, NEW s \in y.calls, <<y.at, s>> \notin Answered(k) PROVE Top(y, k)
  <2>1. PICK m \in h : y = f[m] /\ Same(m, y)
    BY <1>1
  <2>2. Top(m, h)
    BY <1>4, <1>10, <2>1 DEF Same, Tidy
  <2> QED BY <1>5, <2>1, <2>2
<1>11. Following(k)
  <2> SUFFICES ASSUME NEW m \in h, NEW x \in h, f[m].kind = "human", f[m].clean,
                      Top(f[x], Below(k, f[m]))
               PROVE  Fit(f[x])
    <3>1. ASSUME NEW u \in k, NEW z \in k, u.kind = "human", u.clean, Top(z, Below(k, u))
          PROVE  Fit(z)
      <4>1. PICK m \in h : u = f[m]
        BY <1>1
      <4>2. PICK x \in h : z = f[x]
        BY <1>1
      <4> QED BY <3>1, <4>1, <4>2
    <3> QED BY <3>1 DEF Following
  <2>1. Same(m, f[m]) /\ Same(x, f[x])
    BY <1>2
  <2>2. Top(x, Below(h, m))
    BY <1>2, <2>1 DEF Top, Below, Same
  <2>3. Fit(x)
    BY <2>1, <2>2 DEF Same, Tidy, Following
  <2> QED BY <2>1, <2>3 DEF Same, Fit
<1>12. Ready(h) => Ready(k)
  <2>1. ASSUME Ready(h), NEW y \in k, Top(y, k) PROVE Fit(y)
    <3>1. PICK m \in h : y = f[m] /\ Same(m, y)
      BY <1>1
    <3>2. Fit(m)
      BY <1>5, <2>1, <3>1 DEF Ready
    <3> QED BY <3>1, <3>2 DEF Fit, Same
  <2> QED BY <2>1 DEF Ready
<1> QED BY <1>3, <1>4, <1>6, <1>7, <1>8, <1>9, <1>10, <1>11, <1>12 DEF Tidy, Dangling

\* A message of the user, the model or the middleware comes after a settled history.
LEMMA AppendedIsTidy ==
    ASSUME NEW h, NEW n \in Nat, NEW k \in Nat, Tidy(h, n), Dangling(h) = {},
           NEW m \in Message, n <= m.at, m.at < k,
           m.kind # "tool", m.calls # {} => m.kind = "ai",
           m.kind = "human" /\ m.clean => Ready(h)
    PROVE  /\ Tidy(h \cup {m}, k) /\ Dangling(h \cup {m}) = CallsOf(m)
           /\ Fit(m) => Ready(h \cup {m})
<1> DEFINE g == h \cup {m}
<1>1. /\ \A x \in h : x.at \in Nat /\ x.at < n
      /\ m.at \in Nat /\ m \notin h /\ h \subseteq Message
  BY DEF Tidy, Message
<1>2. \A x \in h : x.at < m.at
  BY <1>1
<1>3. Asked(g) = Asked(h) \cup CallsOf(m) /\ Answered(g) = Answered(h)
  <2>1. Asked(g) = Asked(h) \cup CallsOf(m)
    BY DEF Asked
  <2>2. Answered(g) = Answered(h)
    BY DEF Answered
  <2> QED BY <2>1, <2>2
<1>4. Asked(h) = Answered(h)
  BY DanglingIds
<1>5. CallsOf(m) \cap Answered(h) = {}
  <2>1. ASSUME NEW c \in CallsOf(m), c \in Asked(h) PROVE FALSE
    BY <1>2, <1>1, <2>1, CallsAndResults DEF CallsOf
  <2> QED BY <1>4, <2>1
<1>6. Dangling(g) = CallsOf(m)
  BY <1>3, <1>4, <1>5 DEF Dangling
<1>7. Top(m, g)
  BY <1>1, <1>2 DEF Top
<1>8. \A x \in g : \A s \in x.calls : <<x.at, s>> \notin Answered(g) => Top(x, g)
  <2>1. ASSUME NEW x \in h, NEW s \in x.calls PROVE <<x.at, s>> \in Answered(g)
    BY <1>3, <1>4, CallsAndResults
  <2> QED BY <1>7, <2>1
<1>9. Following(g)
  <2> SUFFICES ASSUME NEW u \in g, NEW x \in g, u.kind = "human", u.clean,
                      Top(x, Below(g, u))
               PROVE  Fit(x)
    BY DEF Following
  <2>1. CASE u = m
    <3>1. Below(g, u) = h
      BY <1>1, <1>2, <2>1 DEF Below
    <3> QED BY <2>1, <3>1 DEF Ready, Top
  <2>2. CASE u \in h
    <3>1. Below(g, u) = Below(h, u)
      BY <1>1, <1>2, <2>2 DEF Below
    <3>2. x \in h
      BY <3>1 DEF Top, Below
    <3> QED BY <2>2, <3>1, <3>2 DEF Tidy, Following
  <2> QED BY <2>1, <2>2
<1>10. Fit(m) => Ready(g)
  <2>1. \A x \in h : ~Top(x, g)
    BY <1>1, <1>2 DEF Top
  <2> QED BY <2>1 DEF Ready
<1>11. Tidy(g, k)
  <2>1. \A x \in g : x.at < k
    BY <1>1
  <2>2. \A x, y \in g : x.at = y.at => x = y \/ (x.kind = "tool" /\ y.kind = "tool")
    BY <1>1, <1>2 DEF Tidy
  <2>3. \A x, y \in g : x.kind = "tool" /\ y.kind = "tool" /\ x.of = y.of => x = y
    BY DEF Tidy
  <2>4. \A x \in g : /\ x.calls # {} => x.kind = "ai"
                     /\ x.kind = "tool" => x.of \in CallIds /\ x.of[1] < x.at
    BY DEF Tidy
  <2>5. Answered(g) \subseteq Asked(g) /\ g \subseteq Message
    BY <1>1, <1>3, <1>4
  <2> QED BY <1>8, <1>9, <2>1, <2>2, <2>3, <2>4, <2>5 DEF Tidy
<1> QED BY <1>6, <1>10, <1>11

\* Every open call gets a result in one step.
LEMMA AnsweredIsTidy ==
    ASSUME NEW h, NEW n \in Nat \ {0}, Tidy(h, n), NEW body \in {"ok", "error", "fabricated"},
           NEW k, k = h \cup {Result(n, c, body) : c \in Dangling(h)}
    PROVE  /\ Tidy(k, n + 1) /\ Dangling(k) = {}
           /\ Dangling(h) = {} => k = h
<1> DEFINE new == {Result(n, c, body) : c \in Dangling(h)}
<1>1. /\ \A x \in h : x.at \in Nat /\ x.at < n
      /\ h \subseteq Message /\ Dangling(h) \subseteq CallIds
  BY DanglingIds DEF Tidy, Message
<1>2. \A x \in new : /\ x \in Message /\ x.at = n /\ x.kind = "tool" /\ x.calls = {}
                     /\ x.of \in Dangling(h) /\ x = Result(n, x.of, body)
  <2>1. ASSUME NEW c \in Dangling(h)
        PROVE  LET x == Result(n, c, body) IN
                 x \in Message /\ x.at = n /\ x.kind = "tool" /\ x.calls = {} /\ x.of = c
    BY <1>1, MessageTypes DEF Result, Says
  <2> QED BY <2>1
<1>3. \A c \in Dangling(h) : \E x \in new : x.of = c
  BY ResultFields
<1> HIDE DEF new
<1>4. k = h \cup new
  BY DEF new
<1>5. Asked(k) = Asked(h)
  <2>1. \A x \in new : CallsOf(x) = {}
    BY <1>2 DEF CallsOf
  <2> QED BY <1>4, <2>1 DEF Asked
<1>6. Answered(k) = Answered(h) \cup Dangling(h)
  BY <1>2, <1>3, <1>4, CallsAndResults
<1>7. Answered(k) = Asked(k)
  BY <1>5, <1>6 DEF Dangling, Tidy
<1>8. \A x \in new : x.of[1] < x.at
  <2>1. ASSUME NEW x \in new PROVE x.of[1] < x.at
    <3>1. PICK m \in h : \E s \in m.calls : x.of = <<m.at, s>>
      BY <1>2, CallsAndResults DEF Dangling
    <3> QED BY <1>1, <1>2, <3>1
  <2> QED BY <2>1
<1>9. Tidy(k, n + 1)
  <2>1. k \subseteq Message /\ \A x \in k : x.at < n + 1
    BY <1>1, <1>2, <1>4
  <2>2. \A x \in k : /\ x.calls # {} => x.kind = "ai"
                     /\ x.kind = "tool" => x.of \in CallIds /\ x.of[1] < x.at
    BY <1>1, <1>2, <1>4, <1>8 DEF Tidy
  <2>3. \A x, y \in k : x.at = y.at => x = y \/ (x.kind = "tool" /\ y.kind = "tool")
    BY <1>1, <1>2, <1>4 DEF Tidy
  <2>4. \A x, y \in k : x.kind = "tool" /\ y.kind = "tool" /\ x.of = y.of => x = y
    <3>1. ASSUME NEW x \in h, NEW y \in new, x.kind = "tool", x.of = y.of PROVE FALSE
      BY <1>2, <3>1, CallsAndResults DEF Dangling
    <3>2. \A x, y \in new : x.of = y.of => x = y
      BY <1>2
    <3> QED BY <1>4, <3>1, <3>2 DEF Tidy
  <2>5. \A x \in k : \A s \in x.calls : <<x.at, s>> \in Answered(k)
    BY <1>7, CallsAndResults
  <2>6. Following(k)
    <3> SUFFICES ASSUME NEW u \in k, NEW x \in k, u.kind = "human", u.clean,
                        Top(x, Below(k, u))
                 PROVE  Fit(x)
      BY DEF Following
    <3>1. u \in h
      BY <1>2, <1>4
    <3>2. Below(k, u) = Below(h, u)
      BY <1>1, <1>2, <1>4, <3>1 DEF Below
    <3>3. x \in h
      BY <3>2 DEF Top, Below
    <3> QED BY <3>1, <3>2, <3>3 DEF Tidy, Following
  <2> QED BY <1>7, <2>1, <2>2, <2>3, <2>4, <2>5, <2>6 DEF Tidy
<1>10. Dangling(h) = {} => new = {}
  BY <1>2
<1> QED BY <1>4, <1>7, <1>9, <1>10 DEF Dangling

-----------------------------------------------------------------------------
(* Repair *)

LEMMA WithoutEmptiesIsTidy ==
    ASSUME NEW h, NEW n \in Nat, Tidy(h, n), NEW k, k = h \ EmptyAssistant(h)
    PROVE  /\ Tidy(k, n) /\ Asked(k) = Asked(h) /\ Answered(k) = Answered(h)
           /\ Dangling(k) = Dangling(h)
<1>1. \A m : m \in k <=> m \in h /\ ~Empty(m)
  BY DEF EmptyAssistant, Empty
<1>2. Asked(k) = Asked(h)
  <2>1. \A m \in h \ k : CallsOf(m) = {}
    BY <1>1 DEF Empty, CallsOf
  <2> QED BY <1>1, <2>1 DEF Asked
<1>3. Answered(k) = Answered(h)
  BY <1>1 DEF Answered, Empty
<1>4. \A m \in k : \A s \in m.calls : <<m.at, s>> \notin Answered(k) => Top(m, k)
  BY <1>1, <1>3 DEF Tidy, Top
<1>5. Following(k)
  <2> SUFFICES ASSUME NEW m \in k, NEW x \in k, m.kind = "human", m.clean,
                      Top(x, Below(k, m))
               PROVE  Fit(x)
    BY DEF Following
  <2> DEFINE below == Below(h, m)
             z == Last(below)
  <2>1. /\ m \in h /\ x \in below /\ below \in SUBSET Message
        /\ \A y \in below : y.at < n
    BY <1>1 DEF Below, Top, Tidy
  <2>2. Top(z, below)
    BY <2>1, LastIsTop
  <2>3. Fit(z) /\ z \in h
    BY <2>1, <2>2 DEF Top, Below, Tidy, Following
  <2>4. z \in Below(k, m)
    BY <1>1, <2>2, <2>3 DEF Below, Top, Fit
  <2>5. \A y \in below : y.at \in Nat
    BY <2>1 DEF Message
  <2>6. Top(x, below)
    BY <2>1, <2>2, <2>4, <2>5 DEF Top
  <2> QED BY <1>1, <2>1, <2>6 DEF Tidy, Following
<1> QED BY <1>1, <1>2, <1>3, <1>4, <1>5 DEF Tidy, Dangling

\* An open history has a dangling call last; a closed one is ready.
LEMMA ClosedIsReady ==
    ASSUME NEW h, NEW n \in Nat, Tidy(h, n)
    PROVE  /\ Dangling(h) # {} => Unclosed(h)
           /\ ~Unclosed(h) => Ready(h \ EmptyAssistant(h))
<1> DEFINE tail == h \ EmptyAssistant(h)
<1>1. /\ tail \in SUBSET Message /\ \A m \in tail : m.at < n /\ m.at \in Nat
      /\ \A m : m \in tail <=> m \in h /\ ~Empty(m)
  BY DEF Tidy, EmptyAssistant, Empty, Message
<1>2. tail # {} => Top(Last(tail), tail)
  BY <1>1, LastIsTop
<1>0. Unclosed(h) <=> tail # {} /\ (Last(tail).kind = "tool" \/ Last(tail).calls # {})
  BY DEF Unclosed
<1> HIDE DEF tail
<1>3. ASSUME Dangling(h) # {} PROVE Unclosed(h)
  <2>1. PICK m \in h : \E s \in m.calls : <<m.at, s>> \notin Answered(h)
    BY <1>3, CallsAndResults DEF Dangling
  <2>2. Top(m, h) /\ m.calls # {} /\ m.kind = "ai"
    BY <2>1 DEF Tidy
  <2>3. m \in tail
    BY <1>1, <2>2 DEF Empty
  <2>4. Last(tail).at = m.at /\ Last(tail) \in h
    <3>1. Last(tail) \in tail /\ m.at <= Last(tail).at /\ Last(tail) \in h
      BY <1>1, <1>2, <2>3 DEF Top
    <3>2. Last(tail).at <= m.at
      BY <2>2, <3>1 DEF Top
    <3>3. m.at \in Nat /\ Last(tail).at \in Nat
      BY <1>1, <2>3, <3>1
    <3> QED BY <3>1, <3>2, <3>3
  <2>5. Last(tail) = m
    BY <2>2, <2>4 DEF Tidy
  <2> QED BY <1>0, <2>2, <2>3, <2>5
<1>4. ASSUME ~Unclosed(h), NEW x \in tail, Top(x, tail) PROVE Fit(x)
  <2>1. Last(tail).kind # "tool" /\ Last(tail).calls = {}
    BY <1>0, <1>4
  <2>2. Last(tail) \in h /\ x \in h /\ Last(tail).at = x.at /\ ~Empty(x)
    <3>1. Last(tail) \in tail /\ x.at <= Last(tail).at /\ Last(tail).at <= x.at
      BY <1>2, <1>4 DEF Top
    <3>2. x.at \in Nat /\ Last(tail).at \in Nat
      BY <1>1, <3>1
    <3> QED BY <1>1, <3>1, <3>2
  <2>3. x = Last(tail)
    BY <2>1, <2>2 DEF Tidy
  <2> QED BY <2>1, <2>2, <2>3 DEF Fit
<1> QED BY <1>3, <1>4 DEF Ready, tail

LEMMA RewrittenIsTidy ==
    ASSUME NEW h, NEW n \in Nat \ {0}, Tidy(h, n), NEW close \in BOOLEAN
    PROVE  /\ Tidy(Rewrite(h, close, n), n + 2) /\ Dangling(Rewrite(h, close, n)) = {}
           /\ close => Ready(Rewrite(h, close, n))
<1> DEFINE h0 == h \ EmptyAssistant(h)
           f == [m \in h0 |-> IF m \in Cancelled(h) THEN [m EXCEPT !.body = "error"] ELSE m]
           h1 == {f[m] : m \in h0}
           h2 == h1 \cup {Result(n, c, "error") : c \in Dangling(h1)}
           closer == Says(n + 1, "ai", "text")
<1>1. Tidy(h0, n) /\ Dangling(h0) = Dangling(h)
  BY WithoutEmptiesIsTidy
<1>2. \A m \in h0 : Same(m, f[m])
  <2>1. ASSUME NEW m \in h0 PROVE Same(m, f[m])
    <3>1. m \in Message
      BY <1>1 DEF Tidy
    <3>2. CASE m \in Cancelled(h)
      <4>1. m.kind = "tool" /\ f[m] = [m EXCEPT !.body = "error"]
        BY <3>2 DEF Cancelled
      <4> QED BY <3>1, <4>1 DEF Same, Message, Empty
    <3>3. CASE m \notin Cancelled(h)
      BY <3>1, <3>3 DEF Same
    <3> QED BY <3>2, <3>3
  <2> QED BY <2>1
<1>3. /\ Tidy(h1, n) /\ Dangling(h1) = Dangling(h)
      /\ Ready(h0) => Ready(h1)
  <2> HIDE DEF h0, f
  <2> QED BY <1>1, <1>2, RelabelledIsTidy
<1>4. Rewrite(h, close, n) = h2 \cup (IF close /\ Unclosed(h) THEN {closer} ELSE {})
  <2>1. h1 = {IF m \in Cancelled(h) THEN [m EXCEPT !.body = "error"] ELSE m : m \in h0}
    OBVIOUS
  <2> HIDE DEF h1
  <2> QED BY <1>3, <2>1 DEF Rewrite
<1>5. closer \in Message /\ closer.at = n + 1 /\ closer.kind = "ai" /\ closer.calls = {}
      /\ Fit(closer)
  <2>1. n + 1 \in Nat \ {0}
    OBVIOUS
  <2>2. /\ closer \in Message /\ closer.at = n + 1 /\ closer.kind = "ai" /\ closer.calls = {}
        /\ closer.body = "text"
    BY <2>1, SaysFields
  <2> QED BY <2>2 DEF Fit, Empty
<1> HIDE DEF h0, h1, f, closer
<1>6. /\ Tidy(h2, n + 1) /\ Dangling(h2) = {}
      /\ Dangling(h1) = {} => h2 = h1
  <2>1. ASSUME NEW k, k = h1 \cup {Result(n, c, "error") : c \in Dangling(h1)}
        PROVE  /\ Tidy(k, n + 1) /\ Dangling(k) = {}
               /\ Dangling(h1) = {} => k = h1
    <3>1. Tidy(h1, n) /\ "error" \in {"ok", "error", "fabricated"}
      BY <1>3
    <3> QED BY <2>1, <3>1, AnsweredIsTidy
  <2> QED BY <2>1
<1> HIDE DEF h2
<1>7. CASE close /\ Unclosed(h)
  <2>1. n + 1 \in Nat /\ n + 2 \in Nat /\ n + 1 <= closer.at /\ closer.at < n + 2
    BY <1>5
  <2>2. CallsOf(closer) = {}
    BY <1>5 DEF CallsOf
  <2>3. /\ Tidy(h2 \cup {closer}, n + 2) /\ Dangling(h2 \cup {closer}) = CallsOf(closer)
        /\ Fit(closer) => Ready(h2 \cup {closer})
    BY <1>5, <1>6, <2>1, AppendedIsTidy
  <2> QED BY <1>4, <1>5, <1>7, <2>2, <2>3
<1>8. CASE ~(close /\ Unclosed(h))
  <2>1. Rewrite(h, close, n) = h2
    BY <1>4, <1>8
  <2>2. Tidy(h2, n + 2)
    BY <1>6, LaterIsTidy
  <2>3. close => h2 = h1 /\ Ready(h0)
    BY <1>3, <1>6, <1>8, ClosedIsReady DEF h0
  <2> QED BY <1>3, <1>6, <2>1, <2>2, <2>3
<1> QED BY <1>7, <1>8

LEMMA SoundIsReady ==
    ASSUME NEW h, NEW n \in Nat, Tidy(h, n), ~NeedsRepair(h, TRUE)
    PROVE  Ready(h) /\ Dangling(h) = {}
<1>1. EmptyAssistant(h) = {} /\ Dangling(h) = {} /\ ~Unclosed(h)
  BY DEF NeedsRepair
<1>2. h \ EmptyAssistant(h) = h
  BY <1>1
<1> QED BY <1>1, <1>2, ClosedIsReady

\* A message enters the graph.
LEMMA PostedIsTidy ==
    ASSUME Tidy(hist, next), next \in Nat \ {0}, NEW body \in {"text", "empty"},
           NEW isClean \in BOOLEAN, isClean => Ready(hist) /\ Dangling(hist) = {},
           Posted(body, isClean)
    PROVE  Tidy(hist', next + 3) /\ Dangling(hist') = {}
<1> DEFINE h1 == hist \cup Fabricated(hist, next)
           m == [Says(next + 1, "human", body) EXCEPT !.clean = isClean]
           h2 == h1 \cup {m}
           s == Says(next + 2, "system", "text")
<1>1. /\ m \in Message /\ m.at = next + 1 /\ m.kind = "human" /\ m.calls = {}
      /\ m.clean = isClean
  BY SaysFields
<1>2. s \in Message /\ s.at = next + 2 /\ s.kind = "system" /\ s.calls = {}
  <2>1. next + 2 \in Nat \ {0}
    OBVIOUS
  <2> QED BY <2>1, SaysFields
<1>3. hist' = h2 \/ hist' = h2 \cup {s}
  BY DEF Posted, Injected
<1> HIDE DEF m, s
<1>4. /\ Tidy(h1, next + 1) /\ Dangling(h1) = {}
      /\ Dangling(hist) = {} => h1 = hist
  BY AnsweredIsTidy DEF Fabricated
<1> HIDE DEF h1
<1>5. next + 1 \in Nat /\ next + 2 \in Nat /\ next + 3 \in Nat
  OBVIOUS
<1>6. CallsOf(m) = {} /\ CallsOf(s) = {}
  BY <1>1, <1>2 DEF CallsOf
<1>7. Tidy(h2, next + 2) /\ Dangling(h2) = {}
  <2>1. m.kind = "human" /\ m.clean => Ready(h1)
    BY <1>1, <1>4
  <2>2. next + 1 <= m.at /\ m.at < next + 2
    BY <1>1
  <2> QED BY <1>1, <1>4, <1>5, <1>6, <2>1, <2>2, AppendedIsTidy
<1> HIDE DEF h2
<1>8. CASE hist' = h2
  BY <1>5, <1>7, <1>8, LaterIsTidy
<1>9. CASE hist' = h2 \cup {s}
  <2>1. next + 2 <= s.at /\ s.at < next + 3
    BY <1>2
  <2> QED BY <1>2, <1>5, <1>6, <1>7, <1>9, <2>1, AppendedIsTidy
<1> QED BY <1>3, <1>8, <1>9

-----------------------------------------------------------------------------
(* Compaction and the record *)

LEMMA RecordedIsTidy ==
    ASSUME NEW h, NEW n, Tidy(h, n), NEW k, k = Recorded(h)
    PROVE  /\ Tidy(k, n) /\ Dangling(k) = Dangling(h)
           /\ Ready(h) => Ready(k)
           /\ \A y \in k : y.kind \in Spoken => y.row # "none"
           /\ \A y \in k : \E m \in h : y.at = m.at
<1> DEFINE f == [m \in h |-> IF m \in Unrecorded(h)
                             THEN [m EXCEPT !.row = IF m.stub THEN "stub" ELSE "full"] ELSE m]
<1>1. k = {f[m] : m \in h}
  BY DEF Recorded
<1>2. \A m \in h : Same(m, f[m]) /\ (f[m].kind \in Spoken => f[m].row # "none")
  <2>1. ASSUME NEW m \in h
        PROVE  Same(m, f[m]) /\ (f[m].kind \in Spoken => f[m].row # "none")
    <3>1. m \in Message
      BY DEF Tidy
    <3>2. CASE m \in Unrecorded(h)
      BY <3>1, <3>2 DEF Same, Message, Empty
    <3>3. CASE m \notin Unrecorded(h)
      BY <3>1, <3>3 DEF Same, Unrecorded
    <3> QED BY <3>2, <3>3
  <2> QED BY <2>1
<1> HIDE DEF f
<1>3. Tidy(k, n) /\ Dangling(k) = Dangling(h) /\ (Ready(h) => Ready(k))
  BY <1>1, <1>2, RelabelledIsTidy
<1>4. \A y \in k : \E m \in h : y = f[m]
  BY <1>1
<1> QED BY <1>2, <1>3, <1>4 DEF Same

\* What compaction keeps stands after what it takes, with the call of every result.
LEMMA EvictionIsSafe ==
    ASSUME NEW h, NEW n, Tidy(h, n)
    PROVE  /\ Evicted(h) \subseteq Rest(h)
           /\ \A x \in Evicted(h), y \in Rest(h) \ Evicted(h) : x.at < y.at
           /\ \A y \in Rest(h) \ Evicted(h) :
                 y.kind = "tool" /\ y.of \in Asked(h) =>
                     \E x \in Rest(h) \ Evicted(h) : y.of \in CallsOf(x)
<1> DEFINE rest == Rest(h)
           cuts == {p \in {m.at : m \in rest} : Safe(rest, p)}
<1>1. Evicted(h) = {m \in rest : \E p \in cuts : m.at < p}
  BY DEF Evicted
<1>2. /\ rest \subseteq h /\ \A m \in h : m.at \in Nat
      /\ \A p \in cuts : p \in Nat /\ Safe(rest, p)
  BY DEF Rest, Tidy, Message
<1> HIDE DEF cuts, rest
<1>3. \A y \in rest \ Evicted(h) : \A p \in cuts : p <= y.at
  BY <1>1, <1>2
<1>4. \A x \in Evicted(h), y \in rest \ Evicted(h) : x.at < y.at
  BY <1>1, <1>2, <1>3
<1>5. ASSUME NEW y \in rest \ Evicted(h), y.kind = "tool", y.of \in Asked(h)
      PROVE  \E x \in rest \ Evicted(h) : y.of \in CallsOf(x)
  <2>1. CASE cuts = {}
    <3>1. Evicted(h) = {}
      BY <1>1, <2>1
    <3>2. PICK x \in h : \E s \in x.calls : y.of = <<x.at, s>>
      BY <1>5, CallsAndResults
    <3>3. x \in rest
      <4>1. x.kind = "ai"
        BY <3>2 DEF Tidy
      <4>2. x.at <= x.at
        BY <1>2
      <4>3. x \notin Pinned(h)
        BY <4>1, <4>2 DEF Pinned
      <4> QED BY <4>3 DEF rest, Rest
    <3> QED BY <3>1, <3>2, <3>3 DEF CallsOf
  <2>2. CASE cuts # {}
    <3>1. \A p \in cuts : \E x \in rest : p <= x.at /\ y.of \in CallsOf(x)
      BY <1>2, <1>3, <1>5 DEF Safe
    <3>2. PICK x \in rest : y.of \in CallsOf(x)
      BY <2>2, <3>1
    <3>3. \A p \in cuts : p <= x.at
      <4>1. ASSUME NEW p \in cuts PROVE p <= x.at
        <5>1. PICK z \in rest : p <= z.at /\ y.of \in CallsOf(z)
          BY <3>1
        <5>2. z.at = x.at
          BY <3>2, <5>1 DEF CallsOf
        <5> QED BY <5>1, <5>2
      <4> QED BY <4>1
    <3>4. x \notin Evicted(h)
      BY <1>1, <1>2, <3>3
    <3> QED BY <3>2, <3>4
  <2> QED BY <2>1, <2>2
<1> QED BY <1>1, <1>4, <1>5 DEF rest

LEMMA StubbedIsTidy ==
    ASSUME NEW h, NEW n, Tidy(h, n), NEW k \in SUBSET h
    PROVE  LET f == [m \in k |-> IF m \in Old(k) THEN [m EXCEPT !.stub = TRUE] ELSE m]
           IN  /\ Stubbed(k) = {f[m] : m \in k}
               /\ \A m \in k : Same(m, f[m]) /\ f[m].row = m.row
<1> DEFINE f == [m \in k |-> IF m \in Old(k) THEN [m EXCEPT !.stub = TRUE] ELSE m]
<1>1. ASSUME NEW m \in k PROVE Same(m, f[m]) /\ f[m].row = m.row
  <2>1. m \in Message
    BY DEF Tidy
  <2>2. CASE m \in Old(k)
    BY <2>1, <2>2 DEF Same, Message, Empty
  <2>3. CASE m \notin Old(k)
    BY <2>1, <2>3 DEF Same
  <2> QED BY <2>2, <2>3
<1>2. Stubbed(k) = {f[m] : m \in k}
  BY DEF Stubbed
<1> QED BY <1>1, <1>2

\* What compaction leaves of a settled history: the pinned head, the summary and
\* the messages kept.
LEMMA CompactedIsTidy ==
    ASSUME NEW h, NEW n \in Nat, Tidy(h, n), Dangling(h) = {}, Evicted(h) # {}
    PROVE  /\ Tidy(Compacted(h, Evicted(h)), n) /\ Dangling(Compacted(h, Evicted(h))) = {}
           /\ \A y \in Compacted(h, Evicted(h)) :
                 y.kind \in Spoken => \E m \in h : y.kind = m.kind /\ y.at = m.at /\ y.row = m.row
<1> DEFINE gone == Evicted(h)
           kept == Rest(h) \ gone
           last == Last(gone)
           sum == Says(last.at, "summary", "text")
           base == Pinned(h) \cup {sum} \cup kept
           f == [m \in kept |-> IF m \in Old(kept) THEN [m EXCEPT !.stub = TRUE] ELSE m]
           F == [m \in base |-> IF m \in kept THEN f[m] ELSE m]
<1>1. /\ gone \subseteq h /\ kept \subseteq h /\ Pinned(h) \subseteq h
      /\ Pinned(h) \cap kept = {} /\ Pinned(h) \cap gone = {} /\ kept \cap gone = {}
      /\ h = Pinned(h) \cup gone \cup kept
  BY EvictionIsSafe DEF Rest, Pinned
<1>2. /\ \A m \in h : m \in Message /\ m.at \in Nat \ {0} /\ m.at < n
      /\ \A x \in gone, y \in kept : x.at < y.at
  BY EvictionIsSafe DEF Tidy, Message
<1>3. Top(last, gone)
  <2>1. gone \in SUBSET Message /\ gone # {} /\ \A m \in gone : m.at < n
    BY <1>1, <1>2
  <2> HIDE DEF gone
  <2> QED BY <2>1, LastIsTop
<1>4. /\ sum \in Message /\ sum.at = last.at /\ sum.kind = "summary" /\ sum.calls = {}
      /\ last \in gone /\ last.at \in Nat \ {0} /\ last.at < n
  <2>1. last \in gone /\ last.at \in Nat \ {0} /\ last.at < n
    BY <1>1, <1>2, <1>3 DEF Top
  <2> HIDE DEF last
  <2> QED BY <2>1, SaysFields
<1>5. \A m \in Pinned(h) : m.kind \in {"human", "summary", "system"} /\ m.calls = {}
  <2>1. ASSUME NEW m \in Pinned(h) PROVE m.kind \in {"human", "summary", "system"}
    <3>1. m.at <= m.at
      BY <1>1, <1>2
    <3> QED BY <1>1, <3>1 DEF Pinned
  <2> QED BY <1>1, <2>1 DEF Tidy
<1>6. \A m \in base : \/ m = sum \/ m \in Pinned(h) \/ m \in kept
  OBVIOUS
<1>7. /\ Tidy(base, n)
      /\ \A m \in base : \A s \in m.calls : <<m.at, s>> \in Answered(base)
  <2> HIDE DEF gone, kept, last, sum
  <2>1. Asked(base) = Asked(kept)
    <3>1. \A m \in Pinned(h) \cup {sum} : CallsOf(m) = {}
      BY <1>4, <1>5 DEF CallsOf
    <3> QED BY <3>1 DEF Asked
  <2>2. Answered(base) = Answered(kept)
    <3>1. \A m \in Pinned(h) \cup {sum} : m.kind # "tool"
      BY <1>4, <1>5
    <3> QED BY <3>1 DEF Answered
  <2>3. Answered(kept) \subseteq Asked(kept)
    <3>1. \A y \in kept : y.kind = "tool" => y.of \in Asked(h)
      BY <1>1, CallsAndResults DEF Tidy
    <3> QED BY <3>1, EvictionIsSafe DEF kept, gone, Asked, Answered
  <2>4. \A m \in base : \A s \in m.calls : <<m.at, s>> \in Answered(base)
    <3>1. ASSUME NEW m \in kept, NEW s \in m.calls PROVE <<m.at, s>> \in Answered(kept)
      <4>1. <<m.at, s>> \in Answered(h)
        BY <1>1, DanglingIds, CallsAndResults
      <4>2. PICK x \in h : x.kind = "tool" /\ x.of = <<m.at, s>>
        BY <4>1, CallsAndResults
      <4>3. m.at < x.at
        BY <4>2 DEF Tidy
      <4>4. x \notin gone
        BY <1>1, <1>2, <4>3
      <4>5. x \in kept
        BY <1>1, <1>5, <4>2, <4>4
      <4> QED BY <4>2, <4>5, CallsAndResults
    <3> QED BY <1>4, <1>5, <1>6, <2>2, <3>1
  <2>5. \A x, y \in base : x.at = y.at => x = y \/ (x.kind = "tool" /\ y.kind = "tool")
    <3>1. \A x \in kept : x.at # sum.at
      BY <1>1, <1>2, <1>4
    <3>2. \A x \in Pinned(h) : x.at # sum.at
      BY <1>1, <1>4, <1>5 DEF Tidy
    <3>3. \A x, y \in h : x.at = y.at => x = y \/ (x.kind = "tool" /\ y.kind = "tool")
      BY DEF Tidy
    <3> QED BY <1>1, <1>6, <3>1, <3>2, <3>3
  <2>6. Following(base)
    <3> SUFFICES ASSUME NEW m \in base, NEW x \in base, m.kind = "human", m.clean,
                        Top(x, Below(base, m))
                 PROVE  Fit(x)
      BY DEF Following
    <3>1. m \in h
      BY <1>1, <1>4, <1>6
    <3>2. CASE x \in kept
      <4>1. x \in h /\ x \in Below(h, m)
        BY <1>1, <3>2 DEF Top, Below
      <4>2. ASSUME NEW z \in Below(h, m) PROVE z.at <= x.at
        <5>1. CASE z \in gone
          BY <1>1, <1>2, <3>2, <5>1
        <5>2. CASE z \notin gone
          BY <1>1, <4>2, <5>2 DEF Top, Below
        <5> QED BY <5>1, <5>2
      <4>3. Top(x, Below(h, m))
        BY <4>1, <4>2 DEF Top
      <4> QED BY <3>1, <4>1, <4>3 DEF Tidy, Following
    <3>3. CASE x = sum \/ x \in Pinned(h)
      BY <1>4, <1>5, <3>3 DEF Fit, Empty
    <3> QED BY <1>6, <3>2, <3>3
  <2>7. base \subseteq Message /\ \A m \in base : m.at < n
    BY <1>1, <1>2, <1>4, <1>6
  <2>8. \A m \in base : /\ m.calls # {} => m.kind = "ai"
                        /\ m.kind = "tool" => m.of \in CallIds /\ m.of[1] < m.at
    BY <1>1, <1>4, <1>6 DEF Tidy
  <2>9. \A x, y \in base : x.kind = "tool" /\ y.kind = "tool" /\ x.of = y.of => x = y
    BY <1>1, <1>4, <1>6 DEF Tidy
  <2> QED BY <2>1, <2>2, <2>3, <2>4, <2>5, <2>6, <2>7, <2>8, <2>9 DEF Tidy
<1>8. Dangling(base) = {}
  <2> HIDE DEF base
  <2> QED BY <1>7, CallsAndResults DEF Dangling
<1>9. /\ Stubbed(kept) = {f[m] : m \in kept}
      /\ \A m \in kept : Same(m, f[m]) /\ f[m].row = m.row
  <2> HIDE DEF gone
  <2>1. kept \in SUBSET h
    BY <1>1
  <2> HIDE DEF kept
  <2> QED BY <2>1, StubbedIsTidy
<1> HIDE DEF f, sum, kept, last
<1>10. Compacted(h, gone) = {F[m] : m \in base}
  <2>1. Compacted(h, gone) = Pinned(h) \cup {sum} \cup Stubbed(kept)
    BY DEF Compacted, sum, last, kept
  <2>2. \A m \in Pinned(h) \cup {sum} : m \in base /\ m \notin kept /\ F[m] = m
    BY <1>1, <1>2, <1>4, <1>5 DEF kept, Rest, Tidy
  <2>3. \A m \in kept : F[m] = f[m]
    OBVIOUS
  <2> HIDE DEF F
  <2> QED BY <1>6, <1>9, <2>1, <2>2, <2>3
<1>11. \A m \in base : Same(m, F[m]) /\ F[m].row = m.row
  <2>1. \A m \in base : Same(m, m)
    BY <1>7 DEF Tidy, Same
  <2> QED BY <1>9, <2>1
<1> HIDE DEF F
<1>12. /\ Tidy(Compacted(h, gone), n)
       /\ Dangling(Compacted(h, gone)) = Dangling(base)
  <2> HIDE DEF base
  <2>1. ASSUME NEW k, k = {F[m] : m \in base}
        PROVE  Tidy(k, n) /\ Dangling(k) = Dangling(base)
    <3>1. Tidy(base, n) /\ \A m \in base : Same(m, F[m])
      BY <1>7, <1>11
    <3> QED BY <2>1, <3>1, RelabelledIsTidy
  <2> QED BY <1>10, <2>1
<1>13. \A y \in Compacted(h, gone) :
         y.kind \in Spoken => \E m \in h : y.kind = m.kind /\ y.at = m.at /\ y.row = m.row
  <2> SUFFICES ASSUME NEW m \in base, F[m].kind \in Spoken
               PROVE  \E x \in h : F[m].kind = x.kind /\ F[m].at = x.at /\ F[m].row = x.row
    BY <1>10
  <2>1. Same(m, F[m]) /\ F[m].row = m.row
    BY <1>11
  <2>2. m \in h
    BY <1>1, <1>4, <1>6, <2>1 DEF Same, Spoken
  <2> QED BY <2>1, <2>2 DEF Same
<1> QED BY <1>8, <1>12, <1>13

-----------------------------------------------------------------------------
(* The inductive invariant *)

\* What has been before the model is on record, but for a refused write.
OnRecord ==
    ~refusing => \A m \in hist : m.kind \in Spoken /\ m.at < shown => m.row # "none"

Underway ==
    /\ pc \in {"before", "rewrite", "record", "model"} => Dangling(hist) = {}
    /\ pc = "rewrite" => Evicted(hist) # {}
    /\ pc \in {"rewrite", "record", "model"} => steps < RecursionLimit
    /\ pc = "retry" => ~retried
    /\ pc = "retry" \/ (pc = "enter" /\ ~answer) =>
           (clean => Ready(hist) /\ Dangling(hist) = {})

Wellformed == TypeOK /\ Tidy(hist, next) /\ Underway /\ OnRecord /\ Recoverable

LEMMA InitWellformed == Init => Wellformed
<1> SUFFICES ASSUME Init PROVE Wellformed
  OBVIOUS
<1>1. TypeOK
  <2>1. /\ 0 \in 0..RecursionLimit /\ 0 \in 0..MaxTurns /\ 0 \in 0..MaxFaults
        /\ 1 \in Nat \ {0} /\ 1 \in 1..1
    BY SettingsAssumption
  <2> QED BY <2>1 DEF Init, TypeOK
<1>2. Tidy(hist, next)
  BY DEF Init, Tidy, Answered, Asked, Following
<1> QED BY <1>1, <1>2 DEF Init, Wellformed, Underway, OnRecord, Recoverable

\* Steps that leave the history alone.
LEMMA HistoryKept ==
    ASSUME Wellformed, TypeOK', UNCHANGED <<hist, next, refusing, shown, lost>>, Underway'
    PROVE  Wellformed'
BY DEF Wellformed, OnRecord, Recoverable

\* New messages come after what has been before the model.
LEMMA LaterOnRecord ==
    ASSUME Wellformed, refusing' = refusing, shown' = shown,
           hist' \subseteq Message,
           \A y \in hist' : y.kind \in Spoken /\ y.at < next =>
               \E m \in hist : y.kind = m.kind /\ y.at = m.at /\ y.row = m.row
    PROVE  OnRecord'
<1>1. shown <= next /\ shown \in Int /\ next \in Int
  BY DEF Wellformed, TypeOK
<1>2. \A y \in hist' : y.at < shown => y.at < next
  <2>1. \A y \in hist' : y.at \in Int
    BY DEF Message
  <2> QED BY <1>1, <2>1
<1>3. ASSUME ~refusing, NEW y \in hist', y.kind \in Spoken, y.at < shown PROVE y.row # "none"
  <2>1. PICK m \in hist : y.kind = m.kind /\ y.at = m.at /\ y.row = m.row
    BY <1>2, <1>3
  <2> QED BY <1>3, <2>1 DEF Wellformed, OnRecord
<1> QED BY <1>3 DEF OnRecord

LEMMA Counters ==
    ASSUME Wellformed
    PROVE  /\ faults < MaxFaults => faults + 1 \in 0..MaxFaults
           /\ turns < MaxTurns => turns + 1 \in 0..MaxTurns
           /\ steps < RecursionLimit => steps + 1 \in 0..RecursionLimit
           /\ 0 \in 0..RecursionLimit
           /\ \A k \in 1..3 : /\ next + k \in Nat \ {0} /\ shown \in 1..(next + k)
                               /\ next + k \in 1..(next + k)
           /\ next \in Nat /\ 1 \in 1..1
BY SettingsAssumption DEF Wellformed, TypeOK

\* The repair before a turn, and the one before a retry.
LEMMA RepairsKept ==
    ASSUME Wellformed, NEW close \in BOOLEAN,
           Repaired(close) \/ Unrepaired \/ Sound(close),
           UNCHANGED <<answer, drive, ask, summaries, refusing, turns, history>>,
           (pc' = "enter" /\ close = ~answer) \/ (pc' = "retry" /\ close /\ ~retried)
    PROVE  Wellformed'
<1>1. /\ Tidy(hist, next) /\ next \in Nat \ {0} /\ next \in Nat
  BY DEF Wellformed, TypeOK
<1>2. /\ Tidy(hist', next') /\ next' \in Nat \ {0} /\ shown \in 1..next'
      /\ (close /\ clean' => Ready(hist') /\ Dangling(hist') = {})
      /\ \A y \in hist' : y.kind \in Spoken /\ y.at < next =>
            \E m \in hist : y.kind = m.kind /\ y.at = m.at /\ y.row = m.row
  <2>1. CASE Repaired(close)
    <3>1. hist' = Rewrite(hist, close, next) /\ next' = next + 2
      BY <2>1 DEF Repaired
    <3>2. ASSUME NEW y \in hist', y.at < next
          PROVE  \E m \in hist : y.kind = m.kind /\ y.at = m.at /\ y.row = m.row
      <4>1. CASE \E m \in hist : y = m \/ y = [m EXCEPT !.body = "error"]
        <5>1. \A m \in hist : m \in Message
          BY <1>1 DEF Tidy
        <5> QED BY <4>1, <5>1 DEF Message
      <4>2. CASE \E c : y = Result(next, c, "error")
        BY <1>1, <3>2, <4>2, ResultFields
      <4>3. CASE y = Says(next + 1, "ai", "text")
        <5>1. next + 1 \in Nat \ {0}
          BY <1>1
        <5>2. y.at = next + 1
          BY <4>3, <5>1, SaysFields
        <5> QED BY <1>1, <3>2, <5>2
      <4> QED BY <3>1, <3>2, <4>1, <4>2, <4>3 DEF Rewrite
    <3>3. next + 2 \in Nat \ {0} /\ shown \in 1..(next + 2)
      BY Counters
    <3>4. Tidy(hist', next') /\ Dangling(hist') = {} /\ (close => Ready(hist'))
      BY <1>1, <3>1, RewrittenIsTidy
    <3> QED BY <3>1, <3>2, <3>3, <3>4
  <2>2. CASE Unrepaired
    BY <1>1, <2>2 DEF Unrepaired, Wellformed, TypeOK
  <2>3. CASE Sound(close)
    <3>1. UNCHANGED <<hist, next>> /\ ~NeedsRepair(hist, close)
      BY <2>3 DEF Sound
    <3>2. close => Ready(hist) /\ Dangling(hist) = {}
      <4> CASE close
        <5>1. close = TRUE
          OBVIOUS
        <5> QED BY <1>1, <3>1, <5>1, SoundIsReady
      <4> QED OBVIOUS
    <3> QED BY <1>1, <3>1, <3>2 DEF Wellformed, TypeOK
  <2> QED BY <2>1, <2>2, <2>3
<1>3. TypeOK'
  <2>1. hist' \subseteq Message
    BY <1>2 DEF Tidy
  <2>2. parked' \subseteq CallIds /\ clean' \in BOOLEAN /\ faults' \in 0..MaxFaults
    BY Counters DEF Repaired, Unrepaired, Sound, Wellformed, TypeOK
  <2> QED BY <1>2, <2>1, <2>2 DEF Wellformed, TypeOK, drive, history
<1>4. OnRecord'
  <2>1. hist' \subseteq Message
    BY <1>2 DEF Tidy
  <2> QED BY <1>2, <2>1, LaterOnRecord DEF history
<1>5. Underway'
  BY <1>2 DEF Underway, drive
<1> QED BY <1>2, <1>3, <1>4, <1>5 DEF Wellformed, Recoverable, history

\* The message of a turn, and the one of a retry.
LEMMA PostsKept ==
    ASSUME Wellformed, NEW body \in {"text", "empty"}, Posted(body, clean), next' = next + 3,
           parked' = {}, pc' = "before", pc = "retry" \/ (pc = "enter" /\ ~answer),
           retried' \in BOOLEAN, steps' = steps \/ steps' = 0,
           UNCHANGED <<answer, clean, said, ask, summaries, refusing, counters, history>>
    PROVE  Wellformed'
<1>1. /\ Tidy(hist, next) /\ next \in Nat \ {0} /\ next \in Nat /\ clean \in BOOLEAN
      /\ clean => Ready(hist) /\ Dangling(hist) = {}
  BY DEF Wellformed, TypeOK, Underway
<1>2. Tidy(hist', next') /\ Dangling(hist') = {}
  BY <1>1, PostedIsTidy
<1>3. ASSUME NEW y \in hist', y.at < next PROVE y \in hist
  <2>1. CASE \E c : y = Result(next, c, "fabricated")
    BY <1>1, <1>3, <2>1, ResultFields
  <2>2. CASE y = [Says(next + 1, "human", body) EXCEPT !.clean = clean]
    <3>1. next + 1 \in Nat \ {0}
      BY <1>1
    <3>2. y.at = next + 1
      BY <1>1, <2>2, <3>1, SaysFields
    <3> QED BY <1>1, <1>3, <3>2
  <2>3. CASE y = Says(next + 2, "system", "text")
    <3>1. next + 2 \in Nat \ {0}
      BY <1>1
    <3>2. y.at = next + 2
      BY <1>1, <2>3, <3>1, SaysFields
    <3> QED BY <1>1, <1>3, <3>2
  <2> QED BY <1>3, <2>1, <2>2, <2>3 DEF Posted, Injected, Fabricated
<1>4. TypeOK'
  <2>1. /\ hist' \subseteq Message /\ next' \in Nat \ {0} /\ shown' \in 1..next'
        /\ steps' \in 0..RecursionLimit
    BY <1>2, Counters DEF Tidy, history, Wellformed, TypeOK
  <2> QED BY <2>1 DEF Wellformed, TypeOK, counters, history
<1>5. OnRecord'
  <2>1. hist' \subseteq Message
    BY <1>2 DEF Tidy
  <2> QED BY <1>3, <2>1, LaterOnRecord DEF history
<1> QED BY <1>2, <1>4, <1>5 DEF Wellformed, Underway, Recoverable, history

LEMMA CompactKept ==
    ASSUME Wellformed, Compact
    PROVE  Wellformed'
<1> DEFINE gone == Evicted(hist)
           stubbed == Old(Rest(hist) \ gone)
<1>1. /\ Tidy(hist, next) /\ next \in Nat /\ Dangling(hist) = {} /\ gone # {}
      /\ hist' = Compacted(hist, gone) /\ next' = next /\ pc' = "record"
      /\ UNCHANGED <<parked, answer, clean, ask, turns, drive, summaries, refusing, faults, shown>>
      /\ lost' = IF refusing THEN lost
                 ELSE lost \cup {m \in gone \cup stubbed :
                                     m.kind \in Spoken /\ m.row = "none" /\ m.at < shown}
      /\ steps < RecursionLimit
  BY DEF Compact, Goto, Wellformed, Underway, TypeOK
<1>2. /\ Tidy(hist', next') /\ Dangling(hist') = {} /\ hist' \subseteq Message
      /\ \A y \in hist' :
            y.kind \in Spoken => \E m \in hist : y.kind = m.kind /\ y.at = m.at /\ y.row = m.row
  <2>1. /\ Tidy(hist', next) /\ Dangling(hist') = {}
        /\ \A y \in hist' :
            y.kind \in Spoken => \E m \in hist : y.kind = m.kind /\ y.at = m.at /\ y.row = m.row
    BY <1>1, CompactedIsTidy
  <2> QED BY <1>1, <2>1 DEF Tidy
<1>3. lost' = {}
  <2>1. gone \cup stubbed \subseteq hist
    BY <1>1, EvictionIsSafe DEF Rest, Old
  <2> QED BY <1>1, <2>1 DEF Wellformed, OnRecord, Recoverable
<1>4. TypeOK'
  BY <1>1, <1>2, <1>3 DEF Wellformed, TypeOK, drive
<1>5. OnRecord'
  BY <1>1, <1>2, LaterOnRecord
<1> QED BY <1>1, <1>2, <1>3, <1>4, <1>5 DEF Wellformed, Underway, Recoverable, drive

\* The two writes of the record: before the model is called, and after.
LEMMA WritesKept ==
    ASSUME Wellformed, NEW h, NEW n \in Nat \ {0}, Tidy(h, n), Record(h), next' = n,
           shown' \in 1..n, shown' = n \/ (shown' = shown /\ h = hist),
           steps' \in 0..RecursionLimit, said' \in BOOLEAN,
           pc' \in {"model", "tools", "after"},
           pc' = "model" => steps' < RecursionLimit /\ Dangling(h) = {},
           UNCHANGED <<parked, answer, clean, ask, turns, retried, summaries, lost>>
    PROVE  Wellformed'
<1>1. \/ /\ hist' = Recorded(h) /\ refusing' = FALSE /\ UNCHANGED faults
      \/ /\ faults < MaxFaults /\ faults' = faults + 1 /\ hist' = h /\ refusing' = TRUE
  BY DEF Record
<1>2. /\ Tidy(hist', n) /\ Dangling(hist') = Dangling(h) /\ refusing' \in BOOLEAN
      /\ ~refusing' => \A y \in hist' : y.kind \in Spoken => y.row # "none"
  <2>1. CASE hist' = Recorded(h) /\ refusing' = FALSE
    BY <2>1, RecordedIsTidy
  <2>2. CASE hist' = h /\ refusing' = TRUE
    BY <2>2
  <2> QED BY <1>1, <2>1, <2>2
<1>3. TypeOK'
  <2>1. hist' \subseteq Message /\ faults' \in 0..MaxFaults
    BY <1>1, <1>2, Counters DEF Tidy, Wellformed, TypeOK
  <2> QED BY <1>2, <2>1 DEF Wellformed, TypeOK
<1>4. OnRecord'
  BY <1>2 DEF OnRecord
<1> QED BY <1>2, <1>3, <1>4 DEF Wellformed, Underway, Recoverable

LEMMA BeforeModelKept ==
    ASSUME Wellformed, BeforeModel
    PROVE  Wellformed'
<1>1. /\ Record(hist) /\ pc' = "model" /\ next' = next /\ shown' = shown
      /\ UNCHANGED <<parked, answer, clean, ask, turns, said, retried, steps, summaries, lost>>
      /\ Tidy(hist, next) /\ next \in Nat \ {0} /\ shown \in 1..next
      /\ steps < RecursionLimit /\ Dangling(hist) = {}
      /\ steps \in 0..RecursionLimit /\ said \in BOOLEAN
  BY DEF BeforeModel, Goto, drive, history, Wellformed, Underway, TypeOK
<1> QED BY <1>1, WritesKept

LEMMA AfterModelKept ==
    ASSUME Wellformed, NEW m \in Message, m.at = next, m.kind = "ai",
           NEW speaks \in BOOLEAN, NEW l \in {"tools", "after"}, AfterModel(m, speaks, l)
    PROVE  Wellformed'
<1>1. /\ Tidy(hist, next) /\ next \in Nat \ {0} /\ next + 1 \in Nat \ {0}
      /\ Dangling(hist) = {} /\ steps < RecursionLimit
      /\ next \in Nat /\ next + 1 \in Nat
  BY Counters DEF AfterModel, Wellformed, Underway, TypeOK
<1>3. Tidy(hist \cup {m}, next + 1)
  <2>1. next <= m.at /\ m.at < next + 1
    BY <1>1
  <2> QED BY <1>1, <2>1, AppendedIsTidy
<1>4. /\ Record(hist \cup {m}) /\ next' = next + 1 /\ shown' = next + 1
      /\ steps' = steps + 1 /\ said' = (said \/ speaks) /\ pc' = l
      /\ UNCHANGED <<parked, answer, clean, ask, turns, retried, summaries, lost>>
  BY DEF AfterModel, Goto
<1>5. shown' \in 1..(next + 1) /\ steps' \in 0..RecursionLimit
  BY <1>1, <1>4, Counters DEF Wellformed, TypeOK
<1>6. said' \in BOOLEAN
  BY <1>4 DEF Wellformed, TypeOK
<1> QED BY <1>1, <1>3, <1>4, <1>5, <1>6, WritesKept

LEMMA ToolsEndKept ==
    ASSUME Wellformed, ToolsEnd
    PROVE  Wellformed'
<1>1. /\ hist' = hist \cup {Result(next, c, "ok") : c \in Dangling(hist)}
      /\ next' = next + 1 /\ pc' = "before" /\ Tidy(hist, next) /\ next \in Nat \ {0}
      /\ UNCHANGED <<parked, answer, clean, ask, turns, said, retried, steps,
                     summaries, refusing, faults, shown, lost>>
  BY DEF ToolsEnd, Goto, drive, history, Wellformed, TypeOK
<1>2. Tidy(hist', next') /\ Dangling(hist') = {} /\ hist' \subseteq Message
  <2>1. ASSUME NEW k, k = hist \cup {Result(next, c, "ok") : c \in Dangling(hist)}
        PROVE  Tidy(k, next + 1) /\ Dangling(k) = {}
    <3>1. next \in Nat \ {0} /\ Tidy(hist, next) /\ "ok" \in {"ok", "error", "fabricated"}
      BY <1>1
    <3> QED BY <2>1, <3>1, AnsweredIsTidy
  <2>2. Tidy(hist', next') /\ Dangling(hist') = {}
    BY <1>1, <2>1
  <2> QED BY <2>2 DEF Tidy
<1>3. TypeOK'
  <2>1. next' \in Nat \ {0} /\ shown' \in 1..next'
    BY <1>1, Counters
  <2> QED BY <1>1, <1>2, <2>1 DEF Wellformed, TypeOK
<1>4. OnRecord'
  <2>1. ASSUME NEW c PROVE Result(next, c, "ok").at = next
    BY ResultFields
  <2>2. ~(next < next)
    BY <1>1
  <2>3. \A y \in hist' : y.at < next => y \in hist
    BY <1>1, <2>1, <2>2
  <2> QED BY <1>1, <1>2, <2>3, LaterOnRecord
<1> QED BY <1>1, <1>2, <1>3, <1>4 DEF Wellformed, Underway, Recoverable

\* The turn ends, or the graph goes on, with the history as it is.
LEMMA EndedKept ==
    ASSUME Wellformed, Ended, ask' \in {"none", "live", "orphan"},
           faults' = faults \/ (faults < MaxFaults /\ faults' = faults + 1)
    PROVE  Wellformed'
<1>1. faults' \in 0..MaxFaults /\ 0 \in 0..RecursionLimit
  BY Counters DEF Wellformed, TypeOK
<1>2. TypeOK'
  BY <1>1 DEF Ended, history, Wellformed, TypeOK
<1>3. Underway'
  BY DEF Ended, Underway
<1>4. UNCHANGED <<hist, next, refusing, shown, lost>>
  BY DEF Ended, history
<1> QED BY <1>2, <1>3, <1>4, HistoryKept

LEMMA GraphKept ==
    ASSUME Wellformed, EnterAnswer \/ Interrupt \/ Decide
    PROVE  Wellformed'
<1>1. /\ UNCHANGED <<hist, next, answer, clean, drive, summaries, refusing, counters, history>>
      /\ ask' \in {"none", "live", "orphan"} /\ parked' \subseteq CallIds
      /\ pc' \in {"tools", "before", "after", "asking"}
      /\ pc' = "before" => Dangling(hist) = {}
  <2>1. Tidy(hist, next)
    BY DEF Wellformed
  <2>2. Dangling(hist) \subseteq CallIds
    BY <2>1, DanglingIds
  <2> QED BY <2>2 DEF EnterAnswer, Interrupt, Decide, Wellformed, TypeOK
<1>2. TypeOK'
  BY <1>1 DEF Wellformed, TypeOK, drive, counters, history
<1>3. Underway'
  BY <1>1 DEF Underway
<1> QED BY <1>1, <1>2, <1>3, HistoryKept DEF history

LEMMA BeginsKept ==
    ASSUME Wellformed, Send \/ Resume
    PROVE  Wellformed'
<1>1. turns' \in 0..MaxTurns
  BY Counters DEF Send, Resume
<1>2. TypeOK'
  BY <1>1 DEF Send, Resume, locals, drive, history, Wellformed, TypeOK
<1>3. Underway' /\ UNCHANGED <<hist, next, refusing, shown, lost>>
  BY DEF Send, Resume, Underway, history
<1> QED BY <1>2, <1>3, HistoryKept

LEMMA PersistSummaryKept ==
    ASSUME Wellformed, PersistSummary \/ NoCompaction
    PROVE  Wellformed'
<1>1. /\ UNCHANGED <<hist, next, parked, answer, clean, ask, turns, drive, refusing, history>>
      /\ summaries' \in BOOLEAN /\ pc = "before" /\ steps < RecursionLimit
      /\ faults' = faults \/ (faults < MaxFaults /\ faults' = faults + 1)
      /\ (pc' = "rewrite" /\ Evicted(hist) # {}) \/ pc' = "record"
  BY DEF PersistSummary, NoCompaction, Goto, Wellformed, TypeOK
<1>2. faults' \in 0..MaxFaults
  BY <1>1, Counters DEF Wellformed, TypeOK
<1>3. TypeOK'
  BY <1>1, <1>2 DEF Wellformed, TypeOK, drive, history
<1>4. Underway'
  BY <1>1 DEF Wellformed, Underway, drive
<1> QED BY <1>1, <1>3, <1>4, HistoryKept DEF history

LEMMA SweepKept ==
    ASSUME Wellformed, Sweep
    PROVE  Wellformed'
<1>1. TypeOK'
  BY Counters DEF Sweep, locals, drive, counters, Wellformed, TypeOK
<1>2. Tidy(hist', next')
  BY DEF Sweep, Tidy, Answered, Following
<1>3. Underway' /\ OnRecord' /\ Recoverable'
  BY DEF Sweep, locals, drive, Wellformed, Underway, OnRecord, Recoverable
<1> QED BY <1>1, <1>2, <1>3 DEF Wellformed

LEMMA NextWellformed == Wellformed /\ [Next]_vars => Wellformed'
<1> SUFFICES ASSUME Wellformed, [Next]_vars PROVE Wellformed'
  OBVIOUS
<1>1. CASE Send \/ Resume \/ EnterAnswer \/ Interrupt \/ Decide \/ PersistSummary \/ NoCompaction
  BY <1>1, BeginsKept, GraphKept, PersistSummaryKept
<1>2. CASE Compact \/ BeforeModel \/ ToolsEnd \/ Sweep
  BY <1>2, CompactKept, BeforeModelKept, ToolsEndKept, SweepKept
<1>3. CASE RepairBeforeTurn
  <2>1. answer \in BOOLEAN
    BY DEF Wellformed, TypeOK
  <2> QED BY <1>3, <2>1, RepairsKept DEF RepairBeforeTurn
<1>4. CASE Recover
  BY <1>4, RepairsKept DEF Recover
<1>5. CASE EnterMessage
  BY <1>5, PostsKept DEF EnterMessage, drive, Wellformed, TypeOK
<1>6. CASE RetryPosts
  BY <1>6, PostsKept DEF RetryPosts
<1>7. CASE ModelAnswers
  <2>1. PICK b \in {"text", "empty"} : AfterModel(Says(next, "ai", b), b = "text", "after")
    BY <1>7 DEF ModelAnswers
  <2>2. next \in Nat \ {0}
    BY DEF Wellformed, TypeOK
  <2>3. LET m == Says(next, "ai", b) IN m \in Message /\ m.at = next /\ m.kind = "ai"
    BY <2>2, SaysFields
  <2>4. (b = "text") \in BOOLEAN
    OBVIOUS
  <2> QED BY <2>1, <2>3, <2>4, AfterModelKept
<1>8. CASE ModelCalls
  <2>1. PICK s \in Batches, speaks \in BOOLEAN :
          AfterModel([Says(next, "ai", "text") EXCEPT !.calls = s], speaks, "tools")
    BY <1>8 DEF ModelCalls
  <2>2. next \in Nat \ {0} /\ s \in SUBSET Slots
    BY DEF Wellformed, TypeOK, Batches
  <2>3. LET m == [Says(next, "ai", "text") EXCEPT !.calls = s]
        IN  m \in Message /\ m.at = next /\ m.kind = "ai"
    BY <2>2 DEF Says, Message, Spoken
  <2> QED BY <2>1, <2>3, AfterModelKept
<1>9. CASE Finish \/ RetryRefused \/ GiveUp \/ RunFails \/ Stop \/ Crash
  BY <1>9, EndedKept DEF Finish, RetryRefused, GiveUp, RunFails, Stop, Crash, Wellformed, TypeOK
<1>10. CASE UNCHANGED vars
  <2>1. TypeOK' /\ Underway'
    BY <1>10 DEF vars, Wellformed, TypeOK, Underway
  <2> QED BY <1>10, <2>1, HistoryKept DEF vars
<1> QED BY <1>1, <1>2, <1>3, <1>4, <1>5, <1>6, <1>7, <1>8, <1>9, <1>10 DEF Next, TurnStep

LEMMA AlwaysWellformed == Spec => []Wellformed
BY InitWellformed, NextWellformed, PTL DEF Spec

-----------------------------------------------------------------------------
(* The theorems *)

\* Type correctness (conversation/repair.py, context/compaction.py).
THEOREM TypeCorrect == Spec => []TypeOK
<1>1. Wellformed => TypeOK
  BY DEF Wellformed
<1> QED BY <1>1, AlwaysWellformed, PTL

\* The model is sent one result for every call (repair.py:162-288, compaction.py:203-242):
\* whatever was stopped, refused, rewritten, compacted or swept before.
THEOREM CallsAreAnswered == Spec => []EveryCallAnswered
<1>1. Wellformed => EveryCallAnswered
  BY DanglingIds DEF Wellformed, Underway, EveryCallAnswered, Tidy
<1> QED BY <1>1, AlwaysWellformed, PTL

\* A user message follows an answer of the model, another user message or the summary
\* (repair.py:224-288), unless its history could not be repaired.
THEOREM UsersFollowTheModel == Spec => []UserFollowsModel
<1>1. ASSUME Wellformed PROVE UserFollowsModel
  <2> SUFFICES ASSUME NEW m \in hist, m.kind = "human", m.clean, Below(hist, m) # {}
               PROVE  LET x == Last(Below(hist, m)) IN
                        x.kind # "tool" /\ x.calls = {} /\ x \notin EmptyAssistant(hist)
    BY DEF UserFollowsModel, Below
  <2> DEFINE below == Below(hist, m)
  <2>1. Tidy(hist, next) /\ next \in Nat
    BY <1>1 DEF Wellformed, TypeOK
  <2>2. below \in SUBSET Message /\ below # {} /\ \A x \in below : x.at < next
    BY <2>1 DEF Below, Tidy
  <2>3. Top(Last(below), below)
    <3> HIDE DEF below
    <3> QED BY <2>1, <2>2, LastIsTop
  <2>4. Last(below) \in hist
    BY <2>3 DEF Top, Below
  <2>5. Fit(Last(below))
    BY <2>1, <2>3, <2>4 DEF Tidy, Following
  <2> QED BY <2>5 DEF Fit, Empty, EmptyAssistant
<1> QED BY <1>1, AlwaysWellformed, PTL

\* Compaction loses nothing the model has seen (compaction.py:203-242,
\* transcript_policy.py:45-75).
THEOREM NothingShownIsLost == Spec => []Recoverable
<1>1. Wellformed => Recoverable
  BY DEF Wellformed
<1> QED BY <1>1, AlwaysWellformed, PTL

\* A turn runs out (service.py:255-306, 414-472): every step of it leaves less to do.
THEOREM TurnsRunOut == Spec => RunsOut
<1>1. Wellformed /\ [Next]_vars => (TurnStep => Rank' < Rank)
  <2> SUFFICES ASSUME Wellformed, TurnStep PROVE Rank' < Rank
    OBVIOUS
  <2>1. /\ RecursionLimit \in Nat /\ steps \in 0..RecursionLimit
        /\ pc = "retry" => ~retried
        /\ pc \in {"rewrite", "record", "model"} => steps < RecursionLimit
        /\ retried \in BOOLEAN
    BY SettingsAssumption DEF Wellformed, TypeOK, Underway
  <2>2. CASE RepairBeforeTurn
    BY <2>1, <2>2 DEF RepairBeforeTurn, drive, Rank
  <2>3. CASE EnterMessage \/ EnterAnswer
    BY <2>1, <2>3 DEF EnterMessage, EnterAnswer, drive, Rank
  <2>4. CASE PersistSummary \/ Compact \/ NoCompaction \/ BeforeModel \/ ToolsEnd
    BY <2>1, <2>4
       DEF PersistSummary, Compact, NoCompaction, BeforeModel, ToolsEnd, Goto, drive, Rank
  <2>5. CASE ModelAnswers \/ ModelCalls
    <3>1. pc = "model" /\ steps' = steps + 1 /\ retried' = retried /\ pc' \in {"tools", "after"}
      BY <2>5 DEF ModelAnswers, ModelCalls, AfterModel, Goto
    <3> QED BY <2>1, <3>1 DEF Rank
  <2>6. CASE Interrupt
    BY <2>1, <2>6 DEF Interrupt, drive, Rank
  <2>7. CASE Recover \/ RetryPosts
    <3>1. CASE Recover
      BY <2>1, <3>1 DEF Recover, drive, Rank
    <3>2. CASE RetryPosts
      <4>1. pc = "retry" /\ pc' = "before" /\ retried' = TRUE /\ steps' = 0 /\ ~retried
        BY <2>1, <3>2 DEF RetryPosts
      <4>2. Rank = (10 * RecursionLimit + 20) + 1
        BY <4>1 DEF Rank
      <4>3. Rank' = 0 + 10 * (RecursionLimit - 0) + 5
        BY <4>1 DEF Rank
      <4> QED BY <2>1, <4>2, <4>3
    <3> QED BY <2>7, <3>1, <3>2
  <2>8. CASE Finish \/ RetryRefused \/ GiveUp \/ RunFails
    <3>1. pc \in {"after", "retry", "model", "before"} /\ pc' = "idle"
      BY <2>8 DEF Finish, RetryRefused, GiveUp, RunFails, Ended
    <3> QED BY <2>1, <3>1 DEF Rank
  <2> QED BY <2>2, <2>3, <2>4, <2>5, <2>6, <2>7, <2>8 DEF TurnStep
<1>2. [][TurnStep => Rank' < Rank]_vars <=> RunsOut
  BY DEF RunsOut
<1> QED BY <1>1, <1>2, AlwaysWellformed, PTL DEF Spec

=============================================================================
