------------------------------ MODULE ConsentProofs ------------------------------
(***************************************************************************)
(* Theorems about Consent, for any threads, directories, requests, answers *)
(* and number of faults: nothing runs that the user or the rules did not   *)
(* allow, and what was allowed for good is not asked about again.          *)
(***************************************************************************)
EXTENDS Consent, FiniteSetTheorems, TLAPS

\* The grant that stands for what the user allowed.
Backs(g, gr) ==
    /\ gr.op = g.op /\ gr.zone = g.zone /\ gr.scope = g.scope
    /\ gr.dir = IF g.zone = "workspace" THEN Root[g.thread] ELSE g.path
    /\ gr.ref = IF g.scope = "session" THEN g.thread ELSE Root[g.thread]

\* Every grant, in force or stored, is something the user allowed.
Backed ==
    /\ \A gr \in grants : \E g \in given : Backs(g, gr)
    /\ \A gr \in stored : \E g \in given : g.kept /\ Backs(g, gr)

\* What the user allowed is in force, and stored if that is said of it.
Held ==
    /\ \A g \in given : g.live => \E gr \in grants : Backs(g, gr)
    /\ \A g \in given : g.kept => \E gr \in stored : Backs(g, gr)

\* A grant about to be stored is one of them.
Kept(c) == [Allowed(c, "project") EXCEPT !.kept = TRUE]
Pending(c) == Allowed(c, "project") \in given \/ Kept(c) \in given

\* Permitted says this of every call that runs.
Justified(c) ==
    IF Tool(c) = "execute"
    THEN /\ "critical" \notin request[c].risks /\ Len(said[c]) >= Questions(c)
         /\ \A i \in 1..Questions(c) : said[c][i] = "approve"
    ELSE Needs(c) = "allow" \/ Standing(c) \/ Approved(c)

\* What is known of a call in each of its phases.
Sound(c) ==
    /\ phase[c] = "asked" => Len(said[c]) <= 1
    /\ phase[c] = "granting" => Pending(c) /\ Tool(c) # "execute"
    /\ phase[c] \in {"granting", "running"} => Justified(c)

\* The inductive invariant.
Consented ==
    /\ TypeOK /\ Backed /\ Held
    /\ \A c \in Calls : Sound(c)

-----------------------------------------------------------------------------
(* Calls and grants *)

LEMMA CallsAreOfThreads ==
    ASSUME NEW c \in Calls
    PROVE  Thread(c) \in Threads /\ Root[Thread(c)] \in Dirs /\ Sandbox[Thread(c)] \in Dirs
<1>1. Thread(c) \in Threads
  BY DEF Calls, Thread
<1> QED BY <1>1, DirsAssumption

LEMMA CallTypes ==
    ASSUME TypeOK, NEW c \in Calls, phase[c] # "none", Tool(c) # "execute"
    PROVE  Op(c) \in Operations /\ Path(c) \in Dirs /\ Zone(c) \in Zones
<1>1. request[c] \in Request
  BY DEF TypeOK
<1>2. Tool(c) \in DOMAIN Operation /\ request[c].dir \in Dirs
  BY <1>1 DEF Request, Tool
<1>3. Op(c) \in Operations
  BY <1>2 DEF Op, Operation, Operations
<1>4. Path(c) \in Dirs
  BY <1>2, CallsAreOfThreads, DirsAssumption DEF Path
<1>5. Zone(c) \in Zones
  BY DEF Zone, Zones
<1> QED BY <1>3, <1>4, <1>5

LEMMA GrantTypes ==
    ASSUME TypeOK, NEW c \in Calls, phase[c] # "none", Tool(c) # "execute",
           NEW s \in Scopes
    PROVE  /\ GrantOf(c, s) \in Grant
           /\ Allowed(c, s) \in Given /\ Allowed(c, s).live
           /\ Backs(Allowed(c, s), GrantOf(c, s))
           /\ [Allowed(c, s) EXCEPT !.kept = TRUE] \in Given
           /\ [Allowed(c, s) EXCEPT !.kept = TRUE].kept
           /\ Backs([Allowed(c, s) EXCEPT !.kept = TRUE], GrantOf(c, s))
<1>1. /\ Op(c) \in Operations /\ Path(c) \in Dirs /\ Zone(c) \in Zones
      /\ Thread(c) \in Threads /\ Root[Thread(c)] \in Dirs
  BY CallTypes, CallsAreOfThreads
<1>2. GrantOf(c, s) \in Grant
  BY <1>1 DEF GrantOf, Grant, ScopeRef
<1>3. Allowed(c, s) \in Given /\ [Allowed(c, s) EXCEPT !.kept = TRUE] \in Given
  BY <1>1 DEF Allowed, Given
<1>4. /\ Backs(Allowed(c, s), GrantOf(c, s))
      /\ Backs([Allowed(c, s) EXCEPT !.kept = TRUE], GrantOf(c, s))
  BY DEF Backs, Allowed, GrantOf, ScopeRef
<1> QED BY <1>2, <1>3, <1>4 DEF Allowed

LEMMA AtMostTwoQuestions ==
    ASSUME NEW c \in Calls
    PROVE  Questions(c) \in 0..2
<1> DEFINE S == request[c].risks \cap {"scope", "pattern"}
<1>1. S \in {{}, {"scope"}, {"pattern"}, {"scope", "pattern"}}
  OBVIOUS
<1>2. /\ Cardinality({}) = 0 /\ Cardinality({"scope"}) = 1 /\ Cardinality({"pattern"}) = 1
      /\ Cardinality({"scope", "pattern"}) = 2
  <2>1. /\ IsFiniteSet({"scope"}) /\ Cardinality({"scope"}) = 1
        /\ Cardinality({"pattern"}) = 1 /\ Cardinality({}) = 0
    BY FS_Singleton, FS_EmptySet
  <2>2. Cardinality({"scope"} \cup {"pattern"}) = Cardinality({"scope"}) + 1
    BY <2>1, FS_AddElement
  <2>3. {"scope"} \cup {"pattern"} = {"scope", "pattern"}
    OBVIOUS
  <2> QED BY <2>1, <2>2, <2>3
<1> HIDE DEF S
<1>3. Cardinality(S) \in 0..2
  BY <1>1, <1>2
<1> QED BY <1>3 DEF Questions, S

\* A grant the gateway finds was meant for the call.
LEMMA GrantedIsMeant ==
    ASSUME NEW c \in Calls, NEW g \in Given, NEW gr \in Grant, Backs(g, gr),
           Relevant(gr, c), Matches(gr, c)
    PROVE  Covers(g, c)
<1>1. g.thread \in Threads /\ Root[g.thread] \in Dirs /\ g.scope \in {"session", "project"}
  BY DirsAssumption DEF Given, Scopes
<1>2. Thread(c) \in Threads /\ Root[Thread(c)] \in Dirs /\ Threads \cap Dirs = {}
  BY CallsAreOfThreads, DirsAssumption
<1>3. \/ g.scope = "session" /\ g.thread = Thread(c)
      \/ g.scope = "project" /\ Root[g.thread] = Root[Thread(c)]
  <2>1. gr.ref = Thread(c) \/ gr.ref = Root[Thread(c)]
    BY DEF Relevant
  <2>2. CASE g.scope = "session"
    BY <1>1, <1>2, <2>1, <2>2 DEF Backs
  <2>3. CASE g.scope = "project"
    BY <1>1, <1>2, <2>1, <2>3 DEF Backs
  <2> QED BY <1>1, <2>2, <2>3
<1>4. g.path \in Inside[Path(c)] \/ (g.zone = "workspace" /\ Root[g.thread] = Root[Thread(c)])
  BY <1>3 DEF Backs, Matches
<1> QED BY <1>3, <1>4 DEF Covers, Backs, Matches

\* A grant that was meant for a call is found by the gateway.
LEMMA MeantIsGranted ==
    ASSUME NEW c \in Calls, NEW g \in given, NEW gr \in grants, Backs(g, gr), Covers(g, c)
    PROVE  Granted(c)
<1>1. Root[g.thread] = Root[Thread(c)]
  BY DEF Covers
<1>2. Zone(c) = "workspace" => Root[Thread(c)] \in Inside[Path(c)]
  BY DEF Zone
<1>3. gr.dir \in Inside[Path(c)]
  BY <1>1, <1>2 DEF Backs, Covers
<1>4. gr.ref \in {Thread(c), Root[Thread(c)]}
  BY <1>1 DEF Backs, Covers
<1> QED BY <1>3, <1>4 DEF Granted, Relevant, Matches, Backs, Covers

-----------------------------------------------------------------------------
(* What a step leaves alone *)

LEMMA SameRequest ==
    ASSUME NEW c \in Calls, request'[c] = request[c]
    PROVE  /\ Tool(c)' = Tool(c) /\ Op(c)' = Op(c) /\ Path(c)' = Path(c)
           /\ Zone(c)' = Zone(c) /\ Needs(c)' = Needs(c)
           /\ Elevated(c)' = Elevated(c) /\ Questions(c)' = Questions(c)
<1>1. Tool(c)' = Tool(c) /\ Elevated(c)' = Elevated(c) /\ Questions(c)' = Questions(c)
  BY DEF Tool, Elevated, Questions
<1>2. Op(c)' = Op(c)
  BY <1>1 DEF Op
<1>3. Path(c)' = Path(c)
  BY <1>1 DEF Path
<1>4. Zone(c)' = Zone(c)
  BY <1>3 DEF Zone
<1>5. Needs(c)' = Needs(c)
  BY <1>2, <1>4 DEF Needs
<1> QED BY <1>1, <1>2, <1>3, <1>4, <1>5

\* The same thing was allowed.
Like(g, h) ==
    /\ h.op = g.op /\ h.zone = g.zone /\ h.path = g.path
    /\ h.thread = g.thread /\ h.scope = g.scope

LEMMA LikeCoversAndBacks ==
    ASSUME NEW g, NEW h, Like(g, h)
    PROVE  /\ \A gr : Backs(g, gr) <=> Backs(h, gr)
           /\ \A c \in Calls : Covers(g, c) => Covers(h, c)
BY DEF Like, Backs, Covers

\* A call that keeps its request and answers stays justified.
LEMMA StaysJustified ==
    ASSUME NEW c \in Calls, request'[c] = request[c], said'[c] = said[c],
           \A g \in given : \E h \in given' : Like(g, h),
           Justified(c)
    PROVE  Justified(c)'
<1>1. /\ Tool(c)' = Tool(c) /\ Op(c)' = Op(c) /\ Path(c)' = Path(c)
      /\ Zone(c)' = Zone(c) /\ Needs(c)' = Needs(c)
      /\ Elevated(c)' = Elevated(c) /\ Questions(c)' = Questions(c)
  BY SameRequest
<1>2. \A g : Covers(g, c)' <=> Covers(g, c)
  BY <1>1 DEF Covers
<1>3. Standing(c) => Standing(c)'
  BY <1>1, <1>2, LikeCoversAndBacks DEF Standing
<1>4. Approved(c) => Approved(c)'
  BY <1>1 DEF Approved
<1> QED BY <1>1, <1>3, <1>4 DEF Justified

LEMMA LikeItself == \A g \in given : \E h \in given : Like(g, h)
BY DEF Like

\* A call the step does not touch.
LEMMA StaysSound ==
    ASSUME NEW c \in Calls, phase'[c] = phase[c], request'[c] = request[c],
           said'[c] = said[c], Sound(c),
           \A g \in given : \E h \in given' : Like(g, h),
           phase[c] = "granting" => Pending(c)'
    PROVE  Sound(c)'
<1>1. Tool(c)' = Tool(c)
  BY SameRequest
<1>2. phase[c] \in {"granting", "running"} => Justified(c)'
  BY StaysJustified DEF Sound
<1> QED BY <1>1, <1>2 DEF Sound

\* A step that leaves the registry alone, and of which each call either keeps
\* everything or does not get to the point where it may run.
LEMMA RegistryKept ==
    ASSUME Consented, TypeOK', UNCHANGED registry,
           \A c \in Calls :
               \/ phase'[c] = phase[c] /\ request'[c] = request[c] /\ said'[c] = said[c]
               \/ /\ phase'[c] \notin {"granting", "running"}
                  /\ phase'[c] = "asked" => Len(said'[c]) <= 1
               \/ phase'[c] = "running" /\ Justified(c)'
    PROVE  Consented'
<1>1. Backed' /\ Held'
  BY DEF Consented, Backed, Held, registry
<1>2. ASSUME NEW c \in Calls PROVE Sound(c)'
  <2>1. CASE phase'[c] = phase[c] /\ request'[c] = request[c] /\ said'[c] = said[c]
    <3>1. phase[c] = "granting" => Pending(c)'
      <4>1. Op(c)' = Op(c) /\ Path(c)' = Path(c) /\ Zone(c)' = Zone(c)
        BY <2>1, SameRequest
      <4> QED BY <4>1 DEF Consented, Sound, Pending, Kept, Allowed, registry
    <3>2. \A g \in given : \E h \in given' : Like(g, h)
      BY LikeItself DEF registry
    <3> QED BY <2>1, <3>1, <3>2, StaysSound DEF Consented
  <2>2. CASE /\ phase'[c] \notin {"granting", "running"}
             /\ phase'[c] = "asked" => Len(said'[c]) <= 1
    BY <2>2 DEF Sound
  <2>3. CASE phase'[c] = "running" /\ Justified(c)'
    BY <2>3 DEF Sound
  <2> QED BY <2>1, <2>2, <2>3
<1> QED BY <1>1, <1>2 DEF Consented

\* Of a step that only moves one call, that call is all there is to check.
LEMMA GotoKept ==
    ASSUME Consented, NEW c \in Calls, NEW p, Goto(c, p), Stays, UNCHANGED registry,
           p \in {"new", "asked", "answered", "running"}, phase[c] # "none",
           p = "asked" => Len(said[c]) <= 1,
           p = "running" => Justified(c)
    PROVE  Consented'
<1>1. /\ phase' \in [Calls -> {"none", "new", "asked", "answered", "granting", "running"}]
      /\ phase'[c] = p /\ \A d \in Calls : d # c => phase'[d] = phase[d]
  BY DEF Consented, TypeOK, Goto
<1>2. TypeOK'
  BY <1>1 DEF Consented, TypeOK, Stays, counters, registry
<1>3. p = "running" => Justified(c)'
  BY LikeItself, StaysJustified DEF Stays, registry
<1> QED BY <1>1, <1>2, <1>3, RegistryKept DEF Stays

-----------------------------------------------------------------------------
(* Calls begin, ask and end *)

LEMMA OverKept ==
    ASSUME Consented, NEW calls \in SUBSET Calls, Over(calls), UNCHANGED <<registry, counters>>
    PROVE  Consented'
<1>1. \A c \in Calls :
          IF c \in calls THEN phase'[c] = "none" /\ request'[c] = NoRequest /\ said'[c] = <<>>
          ELSE phase'[c] = phase[c] /\ request'[c] = request[c] /\ said'[c] = said[c]
  BY DEF Over
<1>2. TypeOK'
  <2>1. phase' \in [Calls -> {"none", "new", "asked", "answered", "granting", "running"}]
    BY DEF Consented, TypeOK, Over
  <2>2. request' \in [Calls -> Request \cup {NoRequest}]
    BY DEF Consented, TypeOK, Over
  <2>3. \A c \in Calls : phase'[c] # "none" => request'[c] \in Request
    BY <1>1 DEF Consented, TypeOK
  <2>4. said' \in [Calls -> Seq(Answers)]
    BY DEF Consented, TypeOK, Over
  <2>5. \A c \in Calls : Len(said'[c]) <= 2
    BY <1>1 DEF Consented, TypeOK
  <2> QED BY <2>1, <2>2, <2>3, <2>4, <2>5 DEF Consented, TypeOK, registry, counters
<1> QED BY <1>1, <1>2, RegistryKept

LEMMA ModelCallsKept ==
    ASSUME Consented, NEW t \in Threads, ModelCalls(t)
    PROVE  Consented'
<1>0. PICK n \in 1..Width[t] : \E r \in [1..n -> Requests[t]] :
        /\ phase' = [c \in Calls |-> IF c[1] = t /\ c[2] <= n THEN "new" ELSE phase[c]]
        /\ request' = [c \in Calls |-> IF c[1] = t /\ c[2] <= n THEN r[c[2]] ELSE request[c]]
  BY DEF ModelCalls
<1>1. PICK r \in [1..n -> Requests[t]] :
        /\ phase' = [c \in Calls |-> IF c[1] = t /\ c[2] <= n THEN "new" ELSE phase[c]]
        /\ request' = [c \in Calls |-> IF c[1] = t /\ c[2] <= n THEN r[c[2]] ELSE request[c]]
  BY <1>0
<1>2. \A c \in Calls : c[1] = t /\ c[2] <= n => r[c[2]] \in Request
  <2>1. ASSUME NEW c \in Calls, c[1] = t, c[2] <= n PROVE c[2] \in 1..n
    <3>1. PICK u \in Threads : c \in {u} \X (1..Width[u])
      BY DEF Calls
    <3>2. Width[u] \in Nat /\ n \in Int
      BY BoundsAssumption
    <3> QED BY <2>1, <3>1, <3>2
  <2> QED BY <2>1, RequestsAssumption
<1>3. \A c \in Calls : \/ phase'[c] = phase[c] /\ request'[c] = request[c]
                       \/ phase'[c] = "new" /\ request'[c] \in Request
  BY <1>1, <1>2
<1>4. TypeOK'
  <2>1. batches + 1 \in 0..MaxBatches
    BY BoundsAssumption DEF ModelCalls, Consented, TypeOK
  <2>2. phase' \in [Calls -> {"none", "new", "asked", "answered", "granting", "running"}]
    BY <1>1 DEF Consented, TypeOK
  <2>3. request' \in [Calls -> Request \cup {NoRequest}]
    BY <1>1, <1>2 DEF Consented, TypeOK
  <2>4. \A c \in Calls : phase'[c] # "none" => request'[c] \in Request
    BY <1>3 DEF Consented, TypeOK
  <2> QED BY <2>1, <2>2, <2>3, <2>4 DEF ModelCalls, Consented, TypeOK, registry
<1> QED BY <1>3, <1>4, RegistryKept DEF ModelCalls

LEMMA AnswerKept ==
    ASSUME Consented, NEW c \in Calls, Answer(c)
    PROVE  Consented'
<1>1. PICK a \in Answers : said' = [said EXCEPT ![c] = Append(@, a)]
  BY DEF Answer
<1>2. /\ said[c] \in Seq(Answers) /\ Len(said[c]) <= 1
      /\ phase[c] = "asked"
  BY DEF Answer, Consented, Sound, TypeOK
<1>3. Append(said[c], a) \in Seq(Answers) /\ Len(Append(said[c], a)) <= 2
  BY <1>2
<1>4. /\ said' \in [Calls -> Seq(Answers)]
      /\ \A d \in Calls : Len(said'[d]) <= 2 /\ (d # c => said'[d] = said[d])
  BY <1>1, <1>3 DEF Consented, TypeOK
<1>5. /\ phase' \in [Calls -> {"none", "new", "asked", "answered", "granting", "running"}]
      /\ phase'[c] = "answered" /\ \A d \in Calls : d # c => phase'[d] = phase[d]
  BY DEF Consented, TypeOK, Answer, Goto
<1>6. TypeOK'
  BY <1>2, <1>4, <1>5 DEF Consented, TypeOK, Answer, registry, counters
<1> QED BY <1>4, <1>5, <1>6, RegistryKept DEF Answer

LEMMA ReenterKept ==
    ASSUME Consented, NEW t \in Threads, Reenter(t)
    PROVE  Consented'
<1>1. \A c \in Calls : phase'[c] = phase[c] \/ (phase'[c] = "new" /\ phase[c] = "answered")
  BY DEF Reenter
<1>2. phase' \in [Calls -> {"none", "new", "asked", "answered", "granting", "running"}]
  BY DEF Reenter, Consented, TypeOK
<1>3. TypeOK'
  BY <1>1, <1>2 DEF Reenter, Stays, registry, counters, Consented, TypeOK
<1> QED BY <1>1, <1>3, RegistryKept DEF Reenter, Stays

-----------------------------------------------------------------------------
(* The gateway *)

LEMMA HandleAllowedKept ==
    ASSUME Consented, NEW c \in Calls, HandleAllowed(c)
    PROVE  Consented'
<1>1. phase[c] = "new" /\ Tool(c) # "execute"
  BY DEF HandleAllowed, Handles
<1>2. Needs(c) = "allow" \/ Standing(c)
  <2>1. CASE Needs(c) = "prompt" /\ ~Elevated(c) /\ Granted(c)
    <3>1. PICK gr \in grants : Relevant(gr, c) /\ Matches(gr, c)
      BY <2>1 DEF Granted
    <3>2. PICK g \in given : Backs(g, gr)
      BY DEF Consented, Backed
    <3>3. Covers(g, c)
      BY <3>1, <3>2, GrantedIsMeant DEF Consented, TypeOK
    <3> QED BY <2>1, <3>3 DEF Standing
  <2> QED BY <2>1 DEF HandleAllowed, Waved, Standing
<1>3. Justified(c)
  BY <1>1, <1>2 DEF Justified
<1> QED BY <1>1, <1>3, GotoKept DEF HandleAllowed

LEMMA HandleAsksKept ==
    ASSUME Consented, NEW c \in Calls, HandleAsks(c)
    PROVE  Consented'
<1>1. Len(said[c]) <= 1 /\ phase[c] # "none"
  BY DEF HandleAsks, Handles
<1> QED BY <1>1, GotoKept DEF HandleAsks

LEMMA HandleApprovedKept ==
    ASSUME Consented, NEW c \in Calls, HandleApproved(c)
    PROVE  Consented'
<1>1. Justified(c) /\ phase[c] # "none"
  BY DEF HandleApproved, Answered, Handles, Justified, Approved, Scopes
<1> QED BY <1>1, GotoKept DEF HandleApproved

LEMMA RawKept ==
    ASSUME Consented, NEW c \in Calls, RawAsks(c) \/ RawRuns(c)
    PROVE  Consented'
<1>1. /\ phase[c] = "new" /\ Tool(c) = "execute" /\ "critical" \notin request[c].risks
      /\ ~Refusing(c) /\ Questions(c) \in 0..2
      /\ said[c] \in Seq(Answers) /\ Len(said[c]) \in Nat
  BY AtMostTwoQuestions DEF RawAsks, RawRuns, Raw, Consented, TypeOK
<1>2. CASE RawAsks(c)
  <2>1. Len(said[c]) <= 1
    BY <1>1, <1>2 DEF RawAsks
  <2> QED BY <1>1, <1>2, <2>1, GotoKept DEF RawAsks
<1>3. CASE RawRuns(c)
  <2>1. \A i \in 1..Questions(c) : said[c][i] = "approve"
    BY <1>1, <1>3 DEF RawRuns, Refusing
  <2>2. Justified(c)
    BY <1>1, <1>3, <2>1 DEF RawRuns, Justified
  <2> QED BY <1>1, <1>3, <2>2, GotoKept DEF RawRuns
<1> QED BY <1>2, <1>3

\* The user's answer becomes a grant.
LEMMA HandleRememberedKept ==
    ASSUME Consented, NEW c \in Calls, HandleRemembered(c)
    PROVE  Consented'
<1> DEFINE s == said[c][1]
           a == Allowed(c, s)
           p == IF s = "project" THEN "granting" ELSE "running"
<1>1. /\ phase[c] = "new" /\ Tool(c) # "execute" /\ s \in Scopes
      /\ grants' = grants \cup {GrantOf(c, s)} /\ given' = given \cup {a}
      /\ UNCHANGED <<request, said, stored, batches, faults>>
      /\ Approved(c)
  BY DEF HandleRemembered, Answered, Handles, Stays, counters, Approved, Scopes
<1>2. /\ GrantOf(c, s) \in Grant /\ a \in Given /\ a.live /\ Backs(a, GrantOf(c, s))
      /\ ~a.kept
  <2>1. ~a.kept
    BY DEF Allowed
  <2> QED BY <1>1, <2>1, GrantTypes DEF Consented
<1>3. /\ phase' \in [Calls -> {"none", "new", "asked", "answered", "granting", "running"}]
      /\ phase'[c] = p /\ \A d \in Calls : d # c => phase'[d] = phase[d]
  BY DEF Consented, TypeOK, HandleRemembered, Goto
<1>4. TypeOK'
  BY <1>1, <1>2, <1>3 DEF Consented, TypeOK
<1>5. Backed' /\ Held'
  BY <1>1, <1>2 DEF Consented, Backed, Held
<1>6. \A g \in given : \E h \in given' : Like(g, h)
  BY <1>1 DEF Like
<1>7. ASSUME NEW d \in Calls, d # c PROVE Sound(d)'
  <2>1. request'[d] = request[d] /\ said'[d] = said[d] /\ phase'[d] = phase[d]
    BY <1>1, <1>3, <1>7
  <2>2. Op(d)' = Op(d) /\ Path(d)' = Path(d) /\ Zone(d)' = Zone(d)
    BY <2>1, SameRequest
  <2>3. phase[d] = "granting" => Pending(d)'
    BY <1>1, <2>2 DEF Consented, Sound, Pending, Kept, Allowed
  <2> QED BY <1>6, <2>1, <2>3, StaysSound DEF Consented
<1>8. Sound(c)'
  <2>1. /\ Op(c)' = Op(c) /\ Path(c)' = Path(c) /\ Zone(c)' = Zone(c) /\ Tool(c)' = Tool(c)
    BY <1>1, SameRequest
  <2>2. Justified(c)'
    BY <1>1, <1>6, StaysJustified DEF Justified
  <2>3. p = "granting" => Pending(c)'
    BY <1>1, <2>1 DEF Pending, Allowed
  <2>4. p \in {"granting", "running"}
    OBVIOUS
  <2> QED BY <1>1, <1>3, <2>1, <2>2, <2>3, <2>4 DEF Sound
<1> QED BY <1>4, <1>5, <1>7, <1>8 DEF Consented

\* The grant is stored, or the store refuses it.
LEMMA StoreGrantKept ==
    ASSUME Consented, NEW c \in Calls, StoreGrant(c)
    PROVE  Consented'
<1> DEFINE a == Allowed(c, "project")
           Mark(g) == IF g = a THEN [g EXCEPT !.kept = TRUE] ELSE g
<1>1. /\ phase[c] = "granting" /\ Tool(c) # "execute" /\ Pending(c) /\ Justified(c)
      /\ UNCHANGED <<request, said, grants, batches>>
  BY DEF StoreGrant, Consented, Sound
<1>2. /\ GrantOf(c, "project") \in Grant /\ a \in Given /\ Kept(c) \in Given
      /\ Kept(c).kept /\ Backs(Kept(c), GrantOf(c, "project"))
  BY <1>1, GrantTypes DEF Consented, Kept, Scopes
<1>3. /\ phase' \in [Calls -> {"none", "new", "asked", "answered", "granting", "running"}]
      /\ phase'[c] = "running" /\ \A d \in Calls : d # c => phase'[d] = phase[d]
  BY DEF Consented, TypeOK, StoreGrant, Goto
<1>4. \A g \in Given : /\ Like(g, Mark(g)) /\ Mark(g) \in Given
                       /\ Mark(g).live = g.live /\ (g.kept => Mark(g).kept)
                       /\ Mark(g).kept => g.kept \/ g = a
  BY DEF Like, Given
<1>5. Mark(a) = Kept(c) /\ Mark(Kept(c)) = Kept(c)
  BY DEF Kept
<1> HIDE DEF Mark
<1>6. \/ /\ stored' = stored \cup {GrantOf(c, "project")} /\ faults' = faults
         /\ given' = {Mark(g) : g \in given}
      \/ faults < MaxFaults /\ faults' = faults + 1 /\ UNCHANGED <<stored, given>>
  BY DEF StoreGrant, Mark
<1>7. TypeOK'
  <2>1. faults' \in 0..MaxFaults
    BY <1>6, BoundsAssumption DEF Consented, TypeOK
  <2>2. given' \subseteq Given /\ stored' \subseteq Grant
    BY <1>2, <1>4, <1>6 DEF Consented, TypeOK
  <2> QED BY <1>1, <1>3, <2>1, <2>2 DEF Consented, TypeOK
<1>8. \A g \in given : \E h \in given' : Like(g, h)
  <2>1. CASE given' = given
    BY <2>1, LikeItself
  <2>2. CASE given' = {Mark(g) : g \in given}
    BY <1>4, <2>2 DEF Consented, TypeOK
  <2> QED BY <1>6, <2>1, <2>2
<1>9. Backed' /\ Held'
  <2>1. CASE UNCHANGED <<stored, given>>
    BY <1>1, <2>1 DEF Consented, Backed, Held
  <2>2. CASE /\ stored' = stored \cup {GrantOf(c, "project")}
             /\ given' = {Mark(g) : g \in given}
    <3>1. \A g \in given : g \in Given
      BY DEF Consented, TypeOK
    <3>2. \A g \in given : \A gr : Backs(g, gr) <=> Backs(Mark(g), gr)
      BY <1>4, <3>1, LikeCoversAndBacks
    <3>3. Kept(c) \in given'
      BY <1>1, <1>5, <2>2 DEF Pending
    <3>4. Backed'
      BY <1>1, <1>2, <1>4, <2>2, <3>1, <3>2, <3>3 DEF Consented, Backed
    <3>5. Backs(a, GrantOf(c, "project"))
      BY <1>1, GrantTypes DEF Consented, Scopes
    <3>6. Held'
      BY <1>1, <1>4, <2>2, <3>1, <3>2, <3>5 DEF Consented, Held
    <3> QED BY <3>4, <3>6
  <2> QED BY <1>6, <2>1, <2>2
<1>10. ASSUME NEW d \in Calls PROVE Sound(d)'
  <2>1. request'[d] = request[d] /\ said'[d] = said[d]
    BY <1>1
  <2>2. CASE d = c
    BY <1>1, <1>3, <1>8, <2>1, <2>2, StaysJustified DEF Sound
  <2>3. CASE d # c
    <3>1. Op(d)' = Op(d) /\ Path(d)' = Path(d) /\ Zone(d)' = Zone(d)
      BY <2>1, SameRequest
    <3>2. Allowed(d, "project")' = Allowed(d, "project") /\ Kept(d)' = Kept(d)
      BY <3>1 DEF Kept, Allowed
    <3>3. Mark(Allowed(d, "project")) \in {Allowed(d, "project"), Kept(d)}
          /\ Mark(Kept(d)) = Kept(d)
      BY DEF Mark, Kept, Allowed
    <3>4. phase[d] = "granting" => Pending(d)'
      BY <1>6, <3>2, <3>3 DEF Consented, Sound, Pending
    <3> QED BY <1>3, <1>8, <2>1, <2>3, <3>4, StaysSound DEF Consented
  <2> QED BY <2>2, <2>3
<1> QED BY <1>7, <1>9, <1>10 DEF Consented

\* The next process starts from what is stored.
LEMMA RestartKept ==
    ASSUME Consented, Restart
    PROVE  Consented'
<1>1. PICK loaded \in BOOLEAN :
        /\ grants' = IF loaded THEN stored ELSE {}
        /\ given' = {[g EXCEPT !.live = loaded] : g \in {h \in given : h.kept}}
  BY DEF Restart
<1>2. \A g \in Given : /\ Like(g, [g EXCEPT !.live = loaded])
                       /\ [g EXCEPT !.live = loaded] \in Given
                       /\ [g EXCEPT !.live = loaded].live = loaded
                       /\ [g EXCEPT !.live = loaded].kept = g.kept
  BY DEF Like, Given
<1>3. \A c \in Calls : phase'[c] = "none" /\ said'[c] = <<>>
  BY DEF Restart, Over
<1>4. TypeOK'
  <2>1. /\ phase' \in [Calls -> {"none", "new", "asked", "answered", "granting", "running"}]
        /\ request' \in [Calls -> Request \cup {NoRequest}]
        /\ said' \in [Calls -> Seq(Answers)]
    BY DEF Restart, Over
  <2>2. faults' \in 0..MaxFaults
    BY BoundsAssumption DEF Restart, Consented, TypeOK
  <2>3. given' \subseteq Given /\ grants' \subseteq Grant
    BY <1>1, <1>2 DEF Consented, TypeOK
  <2>4. \A c \in Calls : Len(said'[c]) <= 2
    BY <1>3
  <2> QED BY <1>3, <2>1, <2>2, <2>3, <2>4 DEF Restart, Consented, TypeOK
<1>5. \A g \in given : \A gr : Backs(g, gr) <=> Backs([g EXCEPT !.live = loaded], gr)
  BY <1>2, LikeCoversAndBacks DEF Consented, TypeOK
<1>6. given \subseteq Given /\ stored' = stored
  BY DEF Restart, Consented, TypeOK
<1>7. Backed'
  <2>1. ASSUME NEW gr \in stored PROVE \E h \in given' : h.kept /\ Backs(h, gr)
    <3>1. PICK g \in given : g.kept /\ Backs(g, gr)
      BY DEF Consented, Backed
    <3>2. [g EXCEPT !.live = loaded] \in given'
      BY <1>1, <3>1
    <3> QED BY <1>2, <1>5, <1>6, <3>1, <3>2
  <2> QED BY <1>1, <1>6, <2>1 DEF Backed
<1>8. Held'
  <2>1. ASSUME NEW h \in given' PROVE /\ h.live => \E gr \in grants' : Backs(h, gr)
                                      /\ \E gr \in stored' : Backs(h, gr)
    <3>1. PICK g \in given : g.kept /\ h = [g EXCEPT !.live = loaded]
      BY <1>1
    <3>2. PICK gr \in stored : Backs(g, gr)
      BY <3>1 DEF Consented, Held
    <3>3. Backs(h, gr) /\ h.live = loaded
      BY <1>2, <1>5, <1>6, <3>1, <3>2
    <3> QED BY <1>1, <1>6, <3>3
  <2> QED BY <2>1 DEF Held
<1>9. \A c \in Calls : Sound(c)'
  BY <1>3 DEF Sound
<1> QED BY <1>4, <1>7, <1>8, <1>9 DEF Consented

-----------------------------------------------------------------------------
(* The theorems *)

LEMMA InitConsented == Init => Consented
<1> SUFFICES ASSUME Init PROVE Consented
  OBVIOUS
<1>1. TypeOK
  <2>1. 0 \in 0..MaxBatches /\ 0 \in 0..MaxFaults
    BY BoundsAssumption
  <2>2. \A c \in Calls : Len(said[c]) <= 2
    BY DEF Init
  <2> QED BY <2>1, <2>2 DEF Init, TypeOK
<1>2. Backed /\ Held
  BY DEF Init, Backed, Held
<1>3. \A c \in Calls : Sound(c)
  BY DEF Init, Sound
<1> QED BY <1>1, <1>2, <1>3 DEF Consented

LEMMA NextConsented == Consented /\ [Next]_vars => Consented'
<1> SUFFICES ASSUME Consented, [Next]_vars PROVE Consented'
  OBVIOUS
<1>1. ASSUME NEW t \in Threads, ModelCalls(t) \/ Reenter(t) \/ Stop(t) PROVE Consented'
  <2>1. CASE Stop(t)
    BY <2>1, OverKept DEF Stop
  <2> QED BY <1>1, <2>1, ModelCallsKept, ReenterKept
<1>2. ASSUME NEW c \in Calls, Answer(c) PROVE Consented'
  BY <1>2, AnswerKept
<1>3. ASSUME NEW c \in Calls, Handle(c) PROVE Consented'
  <2>1. CASE HandleDenied(c) \/ HandleRejected(c) \/ Execute(c) \/ RawRefused(c)
    BY <2>1, OverKept DEF HandleDenied, HandleRejected, Execute, RawRefused, Ends
  <2>2. CASE HandleAllowed(c) \/ HandleAsks(c) \/ HandleApproved(c)
    BY <2>2, HandleAllowedKept, HandleAsksKept, HandleApprovedKept
  <2>3. CASE HandleRemembered(c) \/ StoreGrant(c) \/ RawAsks(c) \/ RawRuns(c)
    BY <2>3, HandleRememberedKept, StoreGrantKept, RawKept
  <2> QED BY <1>3, <2>1, <2>2, <2>3 DEF Handle
<1>4. CASE Restart
  BY <1>4, RestartKept
<1>5. CASE UNCHANGED vars
  <2>1. TypeOK' /\ UNCHANGED registry
    BY <1>5 DEF vars, Consented, TypeOK, registry
  <2> QED BY <1>5, <2>1, RegistryKept DEF vars
<1> QED BY <1>1, <1>2, <1>3, <1>4, <1>5 DEF Next

LEMMA AlwaysConsented == Spec => []Consented
BY InitConsented, NextConsented, PTL DEF Spec

\* Type correctness (agents/task_runner/agent.py, consent/registry.py).
THEOREM TypeCorrect == Spec => []TypeOK
<1>1. Consented => TypeOK
  BY DEF Consented
<1> QED BY <1>1, AlwaysConsented, PTL

\* What runs was allowed (agent.py:218-287, permission_policy.py:50-92): an answer kept
\* in the registry is found only by the calls it was meant for, whatever sessions,
\* workspaces and zones share the registry.
THEOREM RunsArePermitted == Spec => []Permitted
<1>1. Consented => Permitted
  BY DEF Consented, Sound, Justified, Permitted
<1> QED BY <1>1, AlwaysConsented, PTL

\* What was allowed for good is not asked about again (consent/registry.py:33-120),
\* in this process or, once stored, in the next.
THEOREM NoPromptStorm == Spec => NoStorm
<1> DEFINE A == \A c \in Calls :
        phase[c] # "asked" /\ phase'[c] = "asked" /\ Tool(c) # "execute" /\ ~Elevated(c) =>
            ~\E g \in given : g.live /\ Covers(g, c)
<1>1. Consented /\ [Next]_vars => A
  <2> SUFFICES ASSUME Consented, [Next]_vars, NEW c \in Calls,
                      phase[c] # "asked", phase'[c] = "asked",
                      Tool(c) # "execute", ~Elevated(c),
                      NEW g \in given, g.live, Covers(g, c)
               PROVE  FALSE
    OBVIOUS
  <2>1. HandleAsks(c)
    <3>1. ASSUME NEW t \in Threads, ModelCalls(t) \/ Reenter(t) \/ Stop(t) PROVE FALSE
      BY <3>1 DEF ModelCalls, Reenter, Stop, Over
    <3>2. ~Restart /\ ~UNCHANGED vars
      BY DEF Restart, Over, vars
    <3>3. PICK d \in Calls : Answer(d) \/ Handle(d)
      BY <3>1, <3>2 DEF Next
    <3>4. phase \in [Calls -> {"none", "new", "asked", "answered", "granting", "running"}]
      BY DEF Consented, TypeOK
    <3>5. CASE \E calls \in SUBSET Calls : Over(calls)
      BY <3>5 DEF Over
    <3>6. CASE \E p : p # "asked" /\ Goto(d, p)
      BY <3>4, <3>6 DEF Goto
    <3>7. CASE HandleAsks(d) \/ RawAsks(d)
      <4>1. d = c
        BY <3>4, <3>7 DEF HandleAsks, RawAsks, Goto
      <4> QED BY <3>7, <4>1 DEF RawAsks, Raw
    <3> QED BY <3>3, <3>5, <3>6, <3>7
         DEF Handle, Answer, HandleDenied, HandleAllowed, HandleRejected, HandleApproved,
             HandleRemembered, StoreGrant, Execute, RawRefused, RawRuns, Ends
  <2>2. PICK gr \in grants : Backs(g, gr)
    BY DEF Consented, Held
  <2>3. Granted(c)
    BY <2>2, MeantIsGranted
  <2> QED BY <2>1, <2>3 DEF HandleAsks, Waved
<1>2. [][A]_vars <=> NoStorm
  BY DEF NoStorm
<1> QED BY <1>1, <1>2, AlwaysConsented, PTL DEF Spec

-----------------------------------------------------------------------------
(* What the registry finds *)

\* A grant in force is one that the running process knows the user for.
Alive == \A gr \in grants : \E g \in given : g.live /\ Backs(g, gr)
Faithful == Consented /\ Alive

\* The gateway finds a grant for a call exactly if an answer that is still remembered
\* was meant for it.
FindsWhatWasMeant ==
    \A c \in Calls : phase[c] # "none" /\ Tool(c) # "execute" =>
        (Granted(c) <=> \E g \in given : g.live /\ Covers(g, c))

LEMMA RememberedAlive ==
    ASSUME Faithful, NEW c \in Calls, HandleRemembered(c)
    PROVE  Alive'
<1> DEFINE s == said[c][1]
<1>1. /\ phase[c] = "new" /\ Tool(c) # "execute" /\ s \in Scopes
      /\ grants' = grants \cup {GrantOf(c, s)} /\ given' = given \cup {Allowed(c, s)}
  BY DEF HandleRemembered, Answered, Handles
<1>2. Allowed(c, s).live /\ Backs(Allowed(c, s), GrantOf(c, s))
  BY <1>1, GrantTypes DEF Faithful, Consented
<1> QED BY <1>1, <1>2 DEF Faithful, Alive

LEMMA StoreGrantAlive ==
    ASSUME Faithful, NEW c \in Calls, StoreGrant(c)
    PROVE  Alive'
<1> DEFINE a == Allowed(c, "project")
           Mark(g) == IF g = a THEN [g EXCEPT !.kept = TRUE] ELSE g
<1>1. grants' = grants /\ (given' = given \/ given' = {Mark(g) : g \in given})
  BY DEF StoreGrant
<1>2. ASSUME NEW g \in given, g.live PROVE Mark(g).live /\ Like(g, Mark(g))
  <2>1. g \in Given
    BY DEF Faithful, Consented, TypeOK
  <2> QED BY <1>2, <2>1 DEF Like, Given
<1> HIDE DEF Mark
<1>3. CASE given' = given
  BY <1>1, <1>3 DEF Faithful, Alive
<1>4. CASE given' = {Mark(g) : g \in given}
  <2>1. ASSUME NEW gr \in grants PROVE \E h \in given' : h.live /\ Backs(h, gr)
    <3>1. PICK g \in given : g.live /\ Backs(g, gr)
      BY DEF Faithful, Alive
    <3>2. Mark(g).live /\ Backs(Mark(g), gr)
      BY <1>2, <3>1, LikeCoversAndBacks
    <3> QED BY <1>4, <3>2
  <2> QED BY <1>1, <2>1 DEF Alive
<1> QED BY <1>1, <1>3, <1>4

LEMMA RestartAlive ==
    ASSUME Faithful, Restart
    PROVE  Alive'
<1>1. PICK loaded \in BOOLEAN :
        /\ grants' = IF loaded THEN stored ELSE {}
        /\ given' = {[g EXCEPT !.live = loaded] : g \in {h \in given : h.kept}}
  BY DEF Restart
<1>2. ASSUME NEW gr \in grants' PROVE \E h \in given' : h.live /\ Backs(h, gr)
  <2>1. loaded = TRUE /\ gr \in stored
    BY <1>1, <1>2
  <2>2. PICK g \in given : g.kept /\ Backs(g, gr)
    BY <2>1 DEF Faithful, Consented, Backed
  <2> DEFINE h == [g EXCEPT !.live = loaded]
  <2>3. h \in given' /\ h.live /\ Like(g, h)
    BY <1>1, <2>1, <2>2 DEF Like, Faithful, Consented, TypeOK, Given
  <2> QED BY <2>2, <2>3, LikeCoversAndBacks
<1> QED BY <1>2 DEF Alive

LEMMA NextFaithful == Faithful /\ [Next]_vars => Faithful'
<1> SUFFICES ASSUME Faithful, [Next]_vars PROVE Faithful'
  OBVIOUS
<1>1. Consented'
  BY NextConsented DEF Faithful
<1>2. CASE UNCHANGED registry
  BY <1>1, <1>2 DEF Faithful, Alive, registry
<1>3. ASSUME NEW t \in Threads, ModelCalls(t) \/ Reenter(t) \/ Stop(t) PROVE Alive'
  BY <1>2, <1>3, <1>1 DEF ModelCalls, Reenter, Stop, Faithful
<1>4. ASSUME NEW c \in Calls, Answer(c) \/ Handle(c) PROVE Alive'
  <2>1. CASE HandleRemembered(c) \/ StoreGrant(c)
    BY <2>1, RememberedAlive, StoreGrantAlive
  <2>2. CASE ~HandleRemembered(c) /\ ~StoreGrant(c)
    <3>1. UNCHANGED registry
      BY <1>4, <2>2 DEF Handle, Answer, HandleDenied, HandleAllowed, HandleAsks,
         HandleRejected, HandleApproved, Execute, RawRefused, RawAsks, RawRuns
    <3> QED BY <1>2, <3>1 DEF Faithful
  <2> QED BY <2>1, <2>2
<1>5. CASE Restart
  BY <1>1, <1>5, RestartAlive DEF Faithful
<1>6. CASE UNCHANGED vars
  BY <1>2, <1>6 DEF vars, registry, Faithful
<1> QED BY <1>1, <1>3, <1>4, <1>5, <1>6 DEF Next, Faithful

\* The allowlist does what the user meant by it (consent/registry.py:75-120,
\* agent.py:118-154), no more and no less: a call that has to ask is waved through by the
\* registry exactly if an answer remembered in this process covers it - not one of
\* another workspace, nor one a restart failed to load.
THEOREM AllowlistIsExact == Spec => []FindsWhatWasMeant
<1>1. Init => Faithful
  BY InitConsented DEF Init, Faithful, Alive
<1>2. Faithful => FindsWhatWasMeant
  <2> SUFFICES ASSUME Faithful, NEW c \in Calls
               PROVE  Granted(c) <=> \E g \in given : g.live /\ Covers(g, c)
    BY DEF FindsWhatWasMeant
  <2>1. ASSUME Granted(c) PROVE \E g \in given : g.live /\ Covers(g, c)
    <3>1. PICK gr \in grants : Relevant(gr, c) /\ Matches(gr, c)
      BY <2>1 DEF Granted
    <3>2. PICK g \in given : g.live /\ Backs(g, gr)
      BY DEF Faithful, Alive
    <3>3. Covers(g, c)
      BY <3>1, <3>2, GrantedIsMeant DEF Faithful, Consented, TypeOK
    <3> QED BY <3>2, <3>3
  <2>2. ASSUME NEW g \in given, g.live, Covers(g, c) PROVE Granted(c)
    <3>1. PICK gr \in grants : Backs(g, gr)
      BY <2>2 DEF Faithful, Consented, Held
    <3> QED BY <2>2, <3>1, MeantIsGranted
  <2> QED BY <2>1, <2>2
<1> QED BY <1>1, <1>2, NextFaithful, PTL DEF Spec
=============================================================================
