-------------------------------- MODULE Consent --------------------------------
(***************************************************************************)
(* The permission gateway of the tools (agents/task_runner), the allowlist *)
(* behind it (consent/registry) and the gate of raw commands               *)
(* (core/permission_policy).                                               *)
(*                                                                         *)
(* A call that needs the user interrupts the graph.  Once every pending    *)
(* interrupt has its answer the graph is entered again, and each call that *)
(* was asked about runs its handler again from the start, which now finds  *)
(* the answer where it asked.  Calls of one answer of the model run in any *)
(* order, and threads share one registry of grants.                        *)
(*                                                                         *)
(* A path is known by the directory a grant for it would cover.  No caller *)
(* records a standing denial or an expiry, so grants here only allow.      *)
(***************************************************************************)
EXTENDS Integers, Sequences, FiniteSets

CONSTANTS
    Threads,        \* conversations and tasks: a session is a thread
    Dirs,           \* directories
    Inside,         \* Inside[d]: the directories that d is or lies in
    Root,           \* the workspace of each thread
    Sandbox,        \* the sandbox of each thread
    Critical,       \* system-critical directories
    Host,           \* "/host", the path of commands that run on the host
    Requests,       \* what the model may ask of the tools, in each thread
    AutoApproved,   \* operations permissions.json approves
    Width,          \* bound: the calls of one answer of the model, in each thread
    MaxBatches,     \* bound: the answers of the model that call tools
    MaxFaults       \* bound: restarts and writes the store refuses

Operations == {"read", "write", "create", "delete", "execute", "chmod", "list", "glob"}
Zones == {"system_critical", "sandbox", "workspace", "external"}
Scopes == {"session", "project"}
Answers == Scopes \cup {"approve", "reject"}

\* bind_tools: the operation each tool stands for.
Operation == [tr_read_file |-> "read", tr_write_file |-> "write", tr_delete_file |-> "delete",
              tr_ls |-> "list", tr_glob |-> "glob", tr_execute_in_sandbox |-> "execute",
              tr_run_python |-> "execute", tr_grep |-> "execute",
              tr_execute |-> "execute", tr_fetch_url |-> "execute"]
InSandbox == {"tr_execute_in_sandbox", "tr_run_python", "tr_grep"}
OnHost == {"tr_execute", "tr_fetch_url"}

\* "execute" is the command of the framework; risks are what its two checks find.
Request == [tool : DOMAIN Operation \cup {"execute"}, dir : Dirs, elevated : BOOLEAN,
            risks : SUBSET {"critical", "scope", "pattern"}]
NoRequest == [tool |-> "none", dir |-> Host, elevated |-> FALSE, risks |-> {}]

ASSUME DirsAssumption ==
    /\ Host \in Dirs /\ Critical \subseteq Dirs
    /\ Root \in [Threads -> Dirs] /\ Sandbox \in [Threads -> Dirs]
    /\ Threads \cap Dirs = {} /\ Inside \in [Dirs -> SUBSET Dirs]
    /\ \A d \in Dirs : d \in Inside[d] /\ \A e \in Inside[d] : Inside[e] \subseteq Inside[d]
ASSUME RequestsAssumption == Requests \in [Threads -> SUBSET Request]
ASSUME BoundsAssumption ==
    Width \in [Threads -> Nat] /\ MaxBatches \in Nat /\ MaxFaults \in Nat

Calls == UNION {{t} \X (1..Width[t]) : t \in Threads}

VARIABLES
    phase,      \* where each call is
    request,    \* what it asks for
    said,       \* the user's answers to it
    grants,     \* ConsentRegistry._grants
    stored,     \* the rows of consent_grants
    given,      \* history: what the user allowed for more than once
    batches, faults

registry == <<grants, stored, given>>
counters == <<batches, faults>>
vars == <<phase, request, said, grants, stored, given, batches, faults>>

Init ==
    /\ phase = [c \in Calls |-> "none"]
    /\ request = [c \in Calls |-> NoRequest]
    /\ said = [c \in Calls |-> <<>>]
    /\ grants = {} /\ stored = {} /\ given = {}
    /\ batches = 0 /\ faults = 0

-----------------------------------------------------------------------------
(* Zones and rules *)

Thread(c) == c[1]
Tool(c) == request[c].tool
Op(c) == Operation[Tool(c)]
Path(c) ==
    CASE Tool(c) \in InSandbox -> Sandbox[Thread(c)]
      [] Tool(c) \in OnHost -> Host
      [] OTHER -> request[c].dir

\* classify_zone
Zone(c) ==
    LET around == Inside[Path(c)]
    IN  CASE around \cap Critical # {} -> "system_critical"
          [] around \cap Critical = {} /\ Sandbox[Thread(c)] \in around -> "sandbox"
          [] around \cap Critical = {} /\ Sandbox[Thread(c)] \notin around
             /\ Root[Thread(c)] \in around -> "workspace"
          [] OTHER -> "external"

\* decide
Rule(zone, op) ==
    CASE zone = "sandbox" -> "allow"
      [] zone = "workspace" /\ op \in {"read", "write", "create", "list", "glob"} -> "allow"
      [] zone = "workspace" /\ op = "delete" -> "prompt"
      [] zone = "external" -> "prompt"
      [] OTHER -> "deny"

Needs(c) == Rule(Zone(c), Op(c))
Elevated(c) == request[c].elevated

-----------------------------------------------------------------------------
(* The allowlist *)

ScopeRef(c, scope) == IF scope = "session" THEN Thread(c) ELSE Root[Thread(c)]

\* _record_consent_grant: in the workspace a grant covers all of it.
GrantOf_AsAsked(c, scope) ==
    [op |-> Op(c), zone |-> Zone(c), dir |-> Path(c), scope |-> scope, ref |-> ScopeRef(c, scope)]
GrantOf(c, scope) ==
    [op |-> Op(c), zone |-> Zone(c),
     dir |-> IF Zone(c) = "workspace" THEN Root[Thread(c)] ELSE Path(c),
     scope |-> scope, ref |-> ScopeRef(c, scope)]

\* check
Matches(g, c) == g.op = Op(c) /\ g.zone = Zone(c) /\ g.dir \in Inside[Path(c)]
Relevant_Any(g, c) == TRUE
Relevant(g, c) == g.ref \in {Thread(c), Root[Thread(c)]}
Granted(c) == \E g \in grants : Relevant(g, c) /\ Matches(g, c)

\* What lets a call run that would prompt.
Waved(c) == ~Elevated(c) /\ (Op(c) \in AutoApproved \/ Granted(c))

-----------------------------------------------------------------------------
(* The graph *)

Busy(t) == \E s \in 1..Width[t] : phase[<<t, s>>] \in {"new", "granting", "running"}
Asking(t) == \E s \in 1..Width[t] : phase[<<t, s>>] \in {"asked", "answered"}

Goto(c, p) == phase' = [phase EXCEPT ![c] = p]
Stays == UNCHANGED <<request, said, counters>>

\* Calls have their result, or will never have one.
Over(calls) ==
    /\ phase' = [c \in Calls |-> IF c \in calls THEN "none" ELSE phase[c]]
    /\ request' = [c \in Calls |-> IF c \in calls THEN NoRequest ELSE request[c]]
    /\ said' = [c \in Calls |-> IF c \in calls THEN <<>> ELSE said[c]]
Ends(c) == Over({c})

\* An answer of the model with tool calls.
ModelCalls(t) ==
    /\ ~Busy(t) /\ ~Asking(t) /\ batches < MaxBatches
    /\ batches' = batches + 1
    /\ \E n \in 1..Width[t] : \E r \in [1..n -> Requests[t]] :
        /\ phase' = [c \in Calls |-> IF c[1] = t /\ c[2] <= n THEN "new" ELSE phase[c]]
        /\ request' = [c \in Calls |-> IF c[1] = t /\ c[2] <= n THEN r[c[2]] ELSE request[c]]
    /\ UNCHANGED <<said, registry, faults>>

\* The pass ended on interrupts: they are put to the user one after the other, and one
\* that cannot be put is rejected.
Answer(c) ==
    /\ phase[c] = "asked" /\ ~Busy(Thread(c))
    /\ \A s \in 1..c[2] - 1 : phase[<<Thread(c), s>>] # "asked"
    /\ \E a \in Answers : said' = [said EXCEPT ![c] = Append(@, a)]
    /\ Goto(c, "answered")
    /\ UNCHANGED <<request, registry, counters>>

\* Command(resume): every call that was asked about starts again.
Reenter(t) ==
    /\ ~Busy(t) /\ Asking(t) /\ \A s \in 1..Width[t] : phase[<<t, s>>] # "asked"
    /\ phase' = [c \in Calls |-> IF c[1] = t /\ phase[c] = "answered" THEN "new" ELSE phase[c]]
    /\ Stays /\ UNCHANGED registry

-----------------------------------------------------------------------------
(* TaskRunnerAgent.handle *)

Handles(c) == phase[c] = "new" /\ Tool(c) # "execute"

HandleDenied(c) ==
    /\ Handles(c) /\ Needs(c) = "deny"
    /\ Ends(c) /\ UNCHANGED <<registry, counters>>

HandleAllowed(c) ==
    /\ Handles(c) /\ \/ Needs(c) = "allow"
                     \/ Needs(c) = "prompt" /\ Waved(c)
    /\ Goto(c, "running") /\ Stays /\ UNCHANGED registry

HandleAsks(c) ==
    /\ Handles(c) /\ Needs(c) = "prompt" /\ ~Waved(c) /\ said[c] = <<>>
    /\ Goto(c, "asked") /\ Stays /\ UNCHANGED registry

Answered(c) == Handles(c) /\ Needs(c) = "prompt" /\ ~Waved(c) /\ said[c] # <<>>

HandleRejected(c) ==
    /\ Answered(c) /\ said[c][1] = "reject"
    /\ Ends(c) /\ UNCHANGED <<registry, counters>>

HandleApproved(c) ==
    /\ Answered(c) /\ \/ said[c][1] = "approve"
                      \/ said[c][1] \in Scopes /\ Elevated(c)
    /\ Goto(c, "running") /\ Stays /\ UNCHANGED registry

\* The grant is in force at once; a project grant is stored before the call runs.
Allowed(c, scope) ==
    [op |-> Op(c), zone |-> Zone(c), path |-> Path(c), thread |-> Thread(c),
     scope |-> scope, kept |-> FALSE, live |-> TRUE]
HandleRemembered(c) ==
    /\ Answered(c) /\ said[c][1] \in Scopes /\ ~Elevated(c)
    /\ grants' = grants \cup {GrantOf(c, said[c][1])}
    /\ given' = given \cup {Allowed(c, said[c][1])}
    /\ Goto(c, IF said[c][1] = "project" THEN "granting" ELSE "running")
    /\ Stays /\ UNCHANGED stored

StoreGrant(c) ==
    /\ phase[c] = "granting" /\ Goto(c, "running")
    /\ \/ /\ stored' = stored \cup {GrantOf(c, "project")}
          /\ given' = {IF g = Allowed(c, "project") THEN [g EXCEPT !.kept = TRUE] ELSE g : g \in given}
          /\ UNCHANGED faults
       \/ faults < MaxFaults /\ faults' = faults + 1 /\ UNCHANGED <<stored, given>>
    /\ UNCHANGED <<request, said, grants, batches>>

\* The executor reads, writes, deletes or runs, or fails in its own way.
Execute(c) ==
    /\ phase[c] = "running"
    /\ Ends(c) /\ UNCHANGED <<registry, counters>>

-----------------------------------------------------------------------------
(* PermissionPolicy.before_tool: up to two questions, each asked again from the start *)

Raw(c) == phase[c] = "new" /\ Tool(c) = "execute"
Questions(c) == Cardinality(request[c].risks \cap {"scope", "pattern"})
Refusing(c) == \E i \in DOMAIN said[c] : i <= Questions(c) /\ said[c][i] # "approve"

RawRefused(c) ==
    /\ Raw(c) /\ ("critical" \in request[c].risks \/ Refusing(c))
    /\ Ends(c) /\ UNCHANGED <<registry, counters>>

RawAsks_Always(c) ==
    /\ Raw(c) /\ "critical" \notin request[c].risks /\ ~Refusing(c)
    /\ Goto(c, "asked") /\ Stays /\ UNCHANGED registry
RawAsks(c) ==
    /\ Raw(c) /\ "critical" \notin request[c].risks /\ ~Refusing(c)
    /\ Len(said[c]) < Questions(c)
    /\ Goto(c, "asked") /\ Stays /\ UNCHANGED registry

RawRuns(c) ==
    /\ Raw(c) /\ "critical" \notin request[c].risks /\ ~Refusing(c)
    /\ Len(said[c]) >= Questions(c)
    /\ Goto(c, "running") /\ Stays /\ UNCHANGED registry

-----------------------------------------------------------------------------
(* Interruptions *)

\* The turn is cancelled with the calls it has under way.
Stop(t) ==
    /\ Busy(t) \/ Asking(t)
    /\ Over({c \in Calls : Thread(c) = t})
    /\ UNCHANGED <<registry, counters>>

\* The daemon dies.  The next one loads the stored grants, or none if it cannot.
Restart ==
    /\ faults < MaxFaults /\ faults' = faults + 1
    /\ Over(Calls)
    /\ \E loaded \in BOOLEAN :
        /\ grants' = IF loaded THEN stored ELSE {}
        /\ given' = {[g EXCEPT !.live = loaded] : g \in {h \in given : h.kept}}
    /\ UNCHANGED <<stored, batches>>

Handle(c) ==
    \/ HandleDenied(c) \/ HandleAllowed(c) \/ HandleAsks(c)
    \/ HandleRejected(c) \/ HandleApproved(c) \/ HandleRemembered(c)
    \/ StoreGrant(c) \/ Execute(c)
    \/ RawRefused(c) \/ RawAsks(c) \/ RawRuns(c)

Next ==
    \/ \E t \in Threads : ModelCalls(t) \/ Reenter(t) \/ Stop(t)
    \/ \E c \in Calls : Answer(c) \/ Handle(c)
    \/ Restart

Spec == Init /\ [][Next]_vars

-----------------------------------------------------------------------------
(* Properties *)

Grant == [op : Operations, zone : Zones, dir : Dirs, scope : Scopes, ref : Threads \cup Dirs]
Given == [op : Operations, zone : Zones, path : Dirs, thread : Threads, scope : Scopes,
          kept : BOOLEAN, live : BOOLEAN]

\* The state has its type.
TypeOK ==
    /\ phase \in [Calls -> {"none", "new", "asked", "answered", "granting", "running"}]
    /\ request \in [Calls -> Request \cup {NoRequest}]
    /\ \A c \in Calls : phase[c] # "none" => request[c] \in Request
    /\ said \in [Calls -> Seq(Answers)] /\ \A c \in Calls : Len(said[c]) <= 2
    /\ grants \subseteq Grant /\ stored \subseteq Grant /\ given \subseteq Given
    /\ batches \in 0..MaxBatches /\ faults \in 0..MaxFaults

\* What the user meant by an answer for the session or the project: this operation, in
\* this zone, for the whole workspace if that is the zone and else for what lies under
\* the path, asked for by this session or by a session of this workspace.
Covers(g, c) ==
    /\ g.op = Op(c) /\ g.zone = Zone(c)
    /\ g.path \in Inside[Path(c)] \/ (g.zone = "workspace" /\ Root[g.thread] = Root[Thread(c)])
    /\ \/ g.scope = "session" /\ g.thread = Thread(c)
       \/ g.scope = "project" /\ Root[g.thread] = Root[Thread(c)]

Standing(c) ==
    /\ Needs(c) = "prompt" /\ ~Elevated(c)
    /\ Op(c) \in AutoApproved \/ \E g \in given : Covers(g, c)
Approved(c) == Needs(c) = "prompt" /\ said[c] # <<>> /\ said[c][1] # "reject"

\* "No filesystem write, delete, or shell command executes without either a standing rule
\* or an explicit user approval": what runs is allowed by the rules, by permissions.json,
\* by an earlier answer of the user that was meant for it, or by the answer to itself;
\* with elevation only by the last.
Permitted ==
    \A c \in Calls : phase[c] \in {"granting", "running"} =>
        IF Tool(c) = "execute"
        THEN /\ "critical" \notin request[c].risks /\ Len(said[c]) >= Questions(c)
             /\ \A i \in 1..Questions(c) : said[c][i] = "approve"
        ELSE Needs(c) = "allow" \/ Standing(c) \/ Approved(c)

\* "The next matching operation skips the prompt": nobody is asked about a call that an
\* answer still remembered was meant for, in this process or, stored, in the next.
NoStorm ==
    [][\A c \in Calls :
        phase[c] # "asked" /\ phase'[c] = "asked" /\ Tool(c) # "execute" /\ ~Elevated(c) =>
            ~\E g \in given : g.live /\ Covers(g, c)]_vars

\* What handle says of its last step, "ALLOW / user-approved -> execute": a call does not
\* run once the user has rejected it.
RejectionHolds ==
    \A c \in Calls : phase[c] = "running" =>
        \A i \in DOMAIN said[c] : said[c][i] # "reject"
====
