------------------------ MODULE ComponentLifecycle ------------------------
(***************************************************************************)
(* Lifecycle requests for components, from the proposal to the outbox      *)
(* (deployments.go, component_approvals.go, gitops_previews.go,            *)
(* integrations.go and the packages lifecycle and integrations).           *)
(*                                                                         *)
(* A proposal is resolved into a snapshot of its targets; a snapshot       *)
(* without findings is approved by a second person; the approved request   *)
(* becomes a plan, the plan a preview of one file in a repository, the     *)
(* preview is approved by a second person again and queued.  Every record  *)
(* is written by one INSERT that a UNIQUE column guards and never changes  *)
(* afterwards, except for the decision of the two kinds of approval.       *)
(*                                                                         *)
(* Handlers run at once: each reads what it needs and decides (one step),  *)
(* then writes (another).  Meanwhile collectors report, roles change,      *)
(* groups are disabled, the provider takes access away and evidence of it  *)
(* expires.  A record is named by its place in its table; the identifiers  *)
(* and hashes that the code compares are those places.                     *)
(***************************************************************************)
EXTENDS Naturals, Sequences, FiniteSets, Authorization

CONSTANTS
    Agents,       \* the managed agents of the inventory
    Reports,      \* what an agent can be, as it reports and is administered
    Groups,       \* the groups of the fleet
    Ruled,        \* those with a rule of dynamic membership
    Specs,        \* what a form may propose
    Connections,  \* the repositories an administrator may register
    Decisions,    \* what a reviewer may answer
    Users,
    InitRank,     \* the roles of each user at the start
    NewRanks,     \* roles given later
    Handlers,     \* HTTP requests that run at once
    MaxRequests, MaxValidations,   \* bounds on the rows of two tables
    MaxTests,                      \* bound on tests of connections
    MaxChanges,                    \* bound on changes of the world
    MaxCrashes                     \* bound on restarts

\* An account: the role of its sessions and the roles it has in the groups.
Rank == [session : SessionRoles, member : SUBSET STRING, enabled : BOOLEAN]
Operations == {"install", "upgrade", "restart", "remove"}
ComponentTypes == {"otel-collector", "otel-collector-kubernetes", "otel-operator"}
Executors == {"gitops", "kubernetes-api", "systemd", "container-runtime", "manual-package"}
Empty == "empty"        \* a field of a form left empty

Report == [identity : Groups \cup {Empty}, pinned : BOOLEAN, named : SUBSET Groups,
           excluded : SUBSET Groups, labels : SUBSET STRING, type : STRING,
           runtime : STRING, authority : STRING, version : STRING,
           connected : BOOLEAN, healthy : BOOLEAN, reportsHealth : BOOLEAN]
Spec_  == [operation : STRING, type : STRING, group : Groups, labels : SUBSET STRING,
           method : STRING, current : STRING, desired : STRING]
Connection == [groups : SUBSET Groups, enabled : BOOLEAN, name : STRING]

ASSUME LifecycleAssumption ==
    /\ Reports \subseteq Report /\ Specs \subseteq Spec_
    /\ Connections \subseteq Connection
    /\ Ruled \subseteq Groups
    /\ Decisions \subseteq {"approved", "rejected", "sent_back"}
    /\ InitRank \in [Users -> Rank] /\ NewRanks \subseteq Rank
    /\ MaxRequests \in Nat /\ MaxValidations \in Nat /\ MaxTests \in Nat
    /\ MaxChanges \in Nat /\ MaxCrashes \in Nat

VARIABLES
    rank,       \* the account of each user
    reported,   \* what the inventory says of each agent
    enabled,    \* the groups that are enabled
    granted,    \* the connections whose credential the provider accepts
    db,         \* the tables
    expired,    \* how many of the oldest tests have expired
    task,       \* what each handler is about to write
    changes, crashes

vars  == <<rank, reported, enabled, granted, db, expired, task, changes, crashes>>
world == <<rank, reported, enabled, granted, expired, changes, crashes>>

Idle == [does |-> "idle"]

---------------------------------------------------------------------------
(* Who may do what (security.go, groups.go).  The pages of lifecycle        *)
(* requests are not among those a group owner may open: an approver who can *)
(* answer is an administrator or an operator with a role in the group.      *)

Admin(u)  == rank[u].enabled /\ rank[u].session = "admin"
MayOpen(u, area) == rank[u].enabled /\ Authorized(rank[u].session, area, "post")
MayAct(u) == MayOpen(u, "deployments") /\ (Admin(u) \/ rank[u].member # {})

Eligible(v, u) ==
    /\ v # u /\ rank[v].enabled
    /\ CASE rank[u].session = "admin" -> rank[v].session = "admin"
                                         \/ rank[v].member \cap ReviewingRoles # {}
         [] rank[u].session = "group_owner" -> rank[v].session = "admin"
         [] OTHER -> FALSE

---------------------------------------------------------------------------
(* The algorithms of the package lifecycle.                                 *)

ValidSpec(s) ==
    /\ s.operation \in Operations /\ s.type \in ComponentTypes /\ s.method # Empty
    /\ CASE s.operation = "install" -> s.desired # Empty /\ s.current = Empty
         [] s.operation = "upgrade" -> Empty \notin {s.current, s.desired} /\ s.current # s.desired
         [] OTHER -> s.current # Empty /\ s.desired = Empty

DynamicMatches(g, r) == g \in Ruled /\ ~r.pinned /\ g \notin r.excluded /\ g \in r.named
MatchesIdentity(g, r) == r.identity = g \/ DynamicMatches(g, r)
Targeted(s, r) == MatchesIdentity(s.group, r) /\ s.labels \subseteq r.labels

Runtimes(method) ==
    CASE method \in {"gitops", "kubernetes-api"} -> {"kubernetes"}
      [] method = "systemd" -> {"vm", "bare_metal"}
      [] method = "container-runtime" -> {"container"}
      [] OTHER -> {"kubernetes", "vm", "bare_metal", "container", "unknown"}

Blocking(s, r) ==
    \/ r.type # "otel_collector"
    \/ s.type # "otel-collector" /\ r.runtime # "kubernetes"
    \/ s.type = "otel-collector" /\ r.runtime = "kubernetes"
    \/ s.type = "otel-operator"
    \/ s.method # "manual-package" /\ r.authority # "lifecycle_managed"
    \/ r.runtime \notin Runtimes(s.method)
    \/ s.operation # "install" /\ r.version # s.current

Advisory(s, r) ==
    \/ s.method = "manual-package" /\ r.authority = "observe_only"
    \/ ~r.connected \/ ~r.healthy \/ ~r.reportsHealth

(* The snapshot of ValidateRequest: the group as the handler read it, the   *)
(* inventory as it is listed now.                                           *)
Targets(s, inventory) ==
    {[agent |-> a, report |-> inventory[a]] : a \in {b \in Agents : Targeted(s, inventory[b])}}

AssessBlocking(s, groupEnabled, T) ==                              \* mutant
    IF ~groupEnabled \/ T = {} \/ \E t \in T : Blocking(s, t.report) THEN "blocked"
    ELSE "compatible"
Assess(s, groupEnabled, T) ==
    IF ~groupEnabled \/ T = {} \/ \E t \in T : Blocking(s, t.report) THEN "blocked"
    ELSE IF \E t \in T : Advisory(s, t.report) THEN "attention" ELSE "compatible"

---------------------------------------------------------------------------
(* The tables.  An INSERT fails if its UNIQUE column already has the value: *)
(* the handler answers with a conflict.  Rows never go and decisions never  *)
(* return to pending, so a request that would find the conflict already     *)
(* there when it reads changes nothing, and is not begun.                   *)

Tables == {"requests", "validations", "approvals", "plans", "connections", "tests",
           "previews", "previewApprovals", "executions"}

Unique == [approvals |-> "validation", plans |-> "approval", previews |-> "plan",
           previewApprovals |-> "preview", executions |-> "approval",
           connections |-> "name"]

ConflictsButQueued(t, row) ==                                      \* mutant
    /\ t \in DOMAIN Unique \ {"executions"}
    /\ \E i \in DOMAIN db[t] : db[t][i][Unique[t]] = row[Unique[t]]
Conflicts(t, row) ==
    /\ t \in DOMAIN Unique
    /\ \E i \in DOMAIN db[t] : db[t][i][Unique[t]] = row[Unique[t]]

Room(t, kind, max) == Len(db[t]) + Cardinality({h \in Handlers : task[h].does = kind}) < max
Add(t, row)  == db' = [db EXCEPT ![t] = Append(@, row)]
Becomes(h, v) == task[h] = Idle /\ task' = [task EXCEPT ![h] = v] /\ UNCHANGED <<world, db>>
Ends(h)      == task' = [task EXCEPT ![h] = Idle] /\ UNCHANGED world

Writes(h, t, row) ==
    /\ ~Conflicts(t, row)
    /\ Becomes(h, [does |-> "insert", table |-> t, row |-> row])

Insert(h) ==
    /\ task[h].does = "insert" /\ Ends(h)
    /\ IF Conflicts(task[h].table, task[h].row)
       THEN UNCHANGED db
       ELSE Add(task[h].table, task[h].row)

(* What a record rests on, along its chain.                                 *)
RequestOf(v)    == db.requests[db.validations[v].request]
SnapshotOf(p)   == db.approvals[db.plans[p].approval].validation

---------------------------------------------------------------------------
(* Proposals and their snapshots (deployments.go).                          *)

Propose(u, s) ==
    /\ MayOpen(u, "deployments") /\ ValidSpec(s) /\ Len(db.requests) < MaxRequests
    /\ Add("requests", [spec |-> s]) /\ UNCHANGED <<world, task>>

ReadGroup(h, u, r) ==
    /\ MayAct(u)
    /\ r \in DOMAIN db.requests /\ Room("validations", "resolve", MaxValidations)
    /\ Becomes(h, [does |-> "resolve", request |-> r,
                    enabled |-> db.requests[r].spec.group \in enabled])

ResolveTargets(h) ==
    /\ task[h].does = "resolve" /\ Ends(h)
    /\ LET s == db.requests[task[h].request].spec
           T == Targets(s, reported)
       IN Add("validations", [request |-> task[h].request, targets |-> T,
                              status |-> Assess(s, task[h].enabled, T)])

Compatible(v) == db.validations[v].status = "compatible"

SubmitApproval(h, u, r, v, reviewer) ==
    /\ MayAct(u)
    /\ r \in DOMAIN db.requests /\ v \in DOMAIN db.validations
    /\ Eligible(reviewer, u)
    /\ db.validations[v].request = r /\ Compatible(v)
    /\ Writes(h, "approvals", [validation |-> v, by |-> u, reviewer |-> reviewer,
                                status |-> "pending_approval"])

---------------------------------------------------------------------------
(* Decisions, in both tables of approvals: the assigned reviewer and never  *)
(* the submitter.  The UPDATE asks again for a row that is still pending.   *)

WhateverStatus(row) == row.status \in STRING                       \* mutant
StillPending(row) == row.status = "pending_approval"

Review(h, u, t, i, d) ==
    /\ MayAct(u) /\ i \in DOMAIN db[t]
    /\ u = db[t][i].reviewer /\ u # db[t][i].by /\ StillPending(db[t][i])
    /\ Becomes(h, [does |-> "decide", table |-> t, id |-> i, decision |-> d])

Decide(h) ==
    /\ task[h].does = "decide" /\ Ends(h)
    /\ LET t == task[h].table  i == task[h].id IN
       IF StillPending(db[t][i])
       THEN db' = [db EXCEPT ![t][i].status = task[h].decision]
       ELSE UNCHANGED db

---------------------------------------------------------------------------
(* The plan (component_approvals.go, execution.go).                         *)

PreparePlan(h, u, a) ==
    /\ Admin(u) /\ a \in DOMAIN db.approvals
    /\ db.approvals[a].status = "approved" /\ Compatible(db.approvals[a].validation)
    /\ RequestOf(db.approvals[a].validation).spec.method \in Executors
    /\ Writes(h, "plans", [approval |-> a])

---------------------------------------------------------------------------
(* Repository connections and the evidence that they can be reached         *)
(* (integrations.go).  The provider is asked before the record is written;  *)
(* the newest record of a connection counts, until it expires.              *)

Register(u, c) ==
    /\ MayOpen(u, "settings") /\ c \in Connections /\ c.groups # {} /\ ~Conflicts("connections", c)
    /\ Add("connections", c) /\ UNCHANGED <<world, task>>

TestConnection(h, u, i) ==
    /\ MayOpen(u, "settings") /\ i \in DOMAIN db.connections /\ Room("tests", "test", MaxTests)
    /\ Becomes(h, [does |-> "test", connection |-> i,
                    passed |-> db.connections[i].enabled /\ db.connections[i].name \in granted])

RecordTest(h) ==
    /\ task[h].does = "test" /\ Ends(h)
    /\ Add("tests", [connection |-> task[h].connection, passed |-> task[h].passed])

LatestTest(i, k) ==
    /\ k \in DOMAIN db.tests /\ db.tests[k].connection = i
    /\ \A j \in DOMAIN db.tests : db.tests[j].connection = i => j <= k

Usable(i) == \E k \in DOMAIN db.tests : LatestTest(i, k) /\ db.tests[k].passed /\ k > expired

---------------------------------------------------------------------------
(* The preview, its approval and the outbox (gitops_previews.go,            *)
(* gitops_preview.go, gitops_preview_approval.go, gitops_execution.go).     *)

Allows(c, g) == c.enabled /\ g \in c.groups

PreparePreview(h, u, p, i) ==
    /\ Admin(u) /\ p \in DOMAIN db.plans /\ i \in DOMAIN db.connections
    /\ LET request == RequestOf(SnapshotOf(p)) IN
       /\ request.spec.method = "gitops"
       /\ Allows(db.connections[i], request.spec.group)
    /\ Writes(h, "previews",
              [plan |-> p, connection |-> i,
               file |-> db.validations[SnapshotOf(p)].targets])

SubmitPreview(h, u, w, reviewer) ==
    /\ MayAct(u) /\ w \in DOMAIN db.previews /\ Eligible(reviewer, u)
    /\ Writes(h, "previewApprovals", [preview |-> w, by |-> u, reviewer |-> reviewer,
                                       status |-> "pending_approval"])

QueueExecution(h, u, x) ==
    /\ MayAct(u) /\ x \in DOMAIN db.previewApprovals
    /\ LET w == db.previewApprovals[x].preview IN
       /\ Usable(db.previews[w].connection)
       /\ db.previewApprovals[x].status = "approved"
       /\ Writes(h, "executions", [approval |-> x, preview |-> w])

---------------------------------------------------------------------------
(* The rest of the world, each step counted against MaxChanges: a collector *)
(* reports or is edited, a role changes, a group is switched on or off, the *)
(* provider grants or takes access.  Evidence expires oldest first.  A      *)
(* restart forgets the requests under way.                                  *)

Change == changes < MaxChanges /\ changes' = changes + 1
others == <<db, expired, task, crashes>>

AgentReports(a, r) ==
    /\ Change /\ reported[a] # r /\ reported' = [reported EXCEPT ![a] = r]
    /\ UNCHANGED <<rank, enabled, granted, others>>

ChangeRank(u, k) ==
    /\ Change /\ rank[u] # k /\ rank' = [rank EXCEPT ![u] = k]
    /\ UNCHANGED <<reported, enabled, granted, others>>

ToggleGroup(g) ==
    /\ Change /\ enabled' = IF g \in enabled THEN enabled \ {g} ELSE enabled \cup {g}
    /\ UNCHANGED <<rank, reported, granted, others>>

ToggleAccess(n) ==
    /\ Change /\ granted' = IF n \in granted THEN granted \ {n} ELSE granted \cup {n}
    /\ UNCHANGED <<rank, reported, enabled, others>>

Expire ==
    /\ expired < Len(db.tests) /\ expired' = expired + 1
    /\ UNCHANGED <<rank, reported, enabled, granted, db, task, changes, crashes>>

Restart ==
    /\ crashes < MaxCrashes /\ crashes' = crashes + 1
    /\ \E h \in Handlers : task[h] # Idle
    /\ task' = [h \in Handlers |-> Idle]
    /\ UNCHANGED <<rank, reported, enabled, granted, db, expired, changes>>

Init ==
    /\ rank = InitRank
    /\ reported \in [Agents -> Reports]
    /\ enabled = Groups
    /\ granted = {c.name : c \in Connections}
    /\ db = [requests |-> <<>>, validations |-> <<>>, approvals |-> <<>>, plans |-> <<>>,
             connections |-> <<>>, tests |-> <<>>, previews |-> <<>>,
             previewApprovals |-> <<>>, executions |-> <<>>]
    /\ expired = 0
    /\ task = [h \in Handlers |-> Idle]
    /\ changes = 0 /\ crashes = 0

Submits(h, u) ==
    \/ \E r \in DOMAIN db.requests : ReadGroup(h, u, r)
    \/ \E r \in DOMAIN db.requests, v \in DOMAIN db.validations, w \in Users :
          SubmitApproval(h, u, r, v, w)
    \/ \E w \in DOMAIN db.previews, v \in Users : SubmitPreview(h, u, w, v)

Reviews(h, u) ==
    \E t \in {"approvals", "previewApprovals"}, d \in Decisions :
        \E i \in DOMAIN db[t] : Review(h, u, t, i, d)

Administers(h, u) ==
    \/ \E a \in DOMAIN db.approvals : PreparePlan(h, u, a)
    \/ \E i \in DOMAIN db.connections : TestConnection(h, u, i)
    \/ \E p \in DOMAIN db.plans, i \in DOMAIN db.connections : PreparePreview(h, u, p, i)
    \/ \E x \in DOMAIN db.previewApprovals : QueueExecution(h, u, x)

Next ==
    \/ \E u \in Users : \/ \E s \in Specs : Propose(u, s)
                       \/ \E c \in Connections : Register(u, c)
    \/ \E h \in Handlers, u \in Users : Submits(h, u) \/ Reviews(h, u) \/ Administers(h, u)
    \/ \E h \in Handlers : ResolveTargets(h) \/ RecordTest(h) \/ Insert(h) \/ Decide(h)
    \/ \E a \in Agents, r \in Reports : AgentReports(a, r)
    \/ \E u \in Users, k \in NewRanks : ChangeRank(u, k)
    \/ \E g \in Groups : ToggleGroup(g)
    \/ \E c \in Connections : ToggleAccess(c.name)
    \/ Expire \/ Restart

Spec == Init /\ [][Next]_vars

---------------------------------------------------------------------------
(* Properties.                                                              *)

(* Whatever is queued for the outbox was approved twice, each time by       *)
(* somebody else than who submitted it and for good; it rests on a snapshot *)
(* without findings, goes to a repository that its group may use, whose     *)
(* access was proved, and writes exactly the targets of that snapshot.      *)
FourEyes(row) == row.status = "approved" /\ row.by # row.reviewer

QueuedIsApproved ==
    \A i \in DOMAIN db.executions :
        LET x == db.previewApprovals[db.executions[i].approval]
            w == db.previews[db.executions[i].preview]
            a == db.approvals[db.plans[w.plan].approval]
            v == db.validations[a.validation]
        IN /\ FourEyes(x) /\ x.preview = db.executions[i].preview
           /\ FourEyes(a) /\ v.status = "compatible" /\ w.file = v.targets
           /\ Allows(db.connections[w.connection], db.requests[v.request].spec.group)
           /\ \E k \in DOMAIN db.tests :
                 db.tests[k].connection = w.connection /\ db.tests[k].passed

(* A snapshot leads to one queued execution at most, however many handlers  *)
(* submit, prepare and queue it at once.                                    *)
SnapshotOfExecution(i) == SnapshotOf(db.previews[db.executions[i].preview].plan)

QueuedOnce ==
    \A i, j \in DOMAIN db.executions : SnapshotOfExecution(i) = SnapshotOfExecution(j) => i = j

(* What reaches a repository is a change of Kubernetes collectors only: the *)
(* type, the method and the targets of a request pass the blocking findings *)
(* in no other combination.  Every target had given FleetAMP authority over *)
(* its lifecycle, was up and healthy, and ran the version that is replaced. *)
QueuedTargetsFit ==
    \A i \in DOMAIN db.executions :
        LET w == db.previews[db.executions[i].preview]
            s == RequestOf(SnapshotOf(w.plan)).spec
        IN /\ s.type = "otel-collector-kubernetes" /\ w.file # {}
           /\ \A t \in w.file :
                 /\ t.report.runtime = "kubernetes"
                 /\ t.report.authority = "lifecycle_managed"
                 /\ t.report.connected /\ t.report.healthy
                 /\ s.operation # "install" => t.report.version = s.current
===========================================================================
