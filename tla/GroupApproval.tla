--------------------------- MODULE GroupApproval ---------------------------
(***************************************************************************)
(* Deployment requests of one group: submitted by an editor, decided by an *)
(* assigned reviewer, expired by a deadline, and carried out on a snapshot *)
(* of the group's agents.                                                  *)
(*                                                                         *)
(* Each handler reads the group, the request, the accounts, the inventory  *)
(* and the assignments one call after another, and nothing holds them      *)
(* still until it writes its decision.  A delivery to one agent is one     *)
(* step here; ConfigDelivery takes it apart.                               *)
(***************************************************************************)
EXTENDS Naturals, Sequences, FiniteSets

CONSTANTS
    Users, Agents,
    Configs,       \* the immutable configurations of the group
    Secret,        \* those with ${secret:key} references
    NumRequests,   \* requests are 1 .. NumRequests, oldest first
    Handlers,      \* goroutines of HTTP requests
    Selectors,     \* values of the group's selector
    InitRank,      \* the roles of the users at first
    NewRanks,      \* roles that users may be given later
    MaxChanges,    \* bound on changes to accounts, the group and its members, and
                   \* on deployments without a request
    MaxCrashes,    \* bound on restarts
    Nobody, None

Requests == 1 .. NumRequests

Ranks == {"admin", "group_owner", "deployment_approver", "configuration_editor",
          "deployment_operator", "viewer", "disabled"}

ASSUME GroupApprovalAssumption ==
    /\ Secret \subseteq Configs /\ None \notin Configs /\ Nobody \notin Users
    /\ NumRequests \in Nat /\ MaxChanges \in Nat /\ MaxCrashes \in Nat
    /\ InitRank \in [Users -> Ranks] /\ NewRanks \subseteq Ranks

Statuses == {"absent", "pending_approval", "deploying", "completed", "rejected",
             "failed", "expired", "cancelled", "sent_back"}

(* since: how long the history of each agent was when the request was made.  *)
Request == [status : Statuses, config : Configs \cup {None}, targets : SUBSET Agents,
            selector : Selectors, by : Users \cup {Nobody},
            reviewer : Users \cup {Nobody}, reviewedBy : Users \cup {Nobody},
            since : [Agents -> Nat]]

(* request: the approval that the attempt carries, 0 if none.                *)
Attempt == [config : Configs, request : Nat, action : {"deploy", "rollback"},
            prev : Configs \cup {None}, claimed : BOOLEAN,
            status : {"sent", "applied", "failed"}]

Decision == [approve |-> "deploying", reject |-> "rejected",
             send_back |-> "sent_back", cancel |-> "cancelled"]

Task == [op : DOMAIN Decision \cup {"none"},
         at : {"idle", "check", "review", "deliver"},
         request : Nat, by : Users \cup {Nobody}, todo : SUBSET Agents,
         refused : BOOLEAN]

VARIABLES
    rank,      \* the role of each user in the group, or on the platform
    group,     \* the row of the group
    members,   \* the agents whose labels and identity place them in it
    request,   \* the rows of group_deployment_requests
    late,      \* the requests whose expires_at has passed
    attempts,  \* the deployments of each agent, by created_at
    task,      \* what each handler is doing
    page,      \* what a view of the group's page has read
    trouble,   \* agents whose delivery for a request was refused (history)
    changes, crashes

vars == <<rank, group, members, request, late, attempts, task, page, trouble,
          changes, crashes>>
world  == <<rank, group, members, changes>>
others == <<page, trouble, crashes>>

NoTask == [op |-> "none", at |-> "idle", request |-> 0, by |-> Nobody,
           todo |-> {}, refused |-> FALSE]
NoPage == [request |-> 0, verdict |-> ""]

Idle(p)  == task[p].at = "idle"
Done(p)  == task' = [task EXCEPT ![p] = NoTask]
Goto(p, l) == task' = [task EXCEPT ![p].at = l]

---------------------------------------------------------------------------
(* Accounts: who may ask, who may decide.                                    *)

(* compatibleLegacyRole.                                                     *)
Platform(u) ==
    CASE rank[u] = "admin" -> "admin"
      [] rank[u] \in {"group_owner", "deployment_approver"} -> "group_owner"
      [] OTHER -> "operator"

May == [request   |-> {"admin", "group_owner", "configuration_editor"},
        approve   |-> {"admin", "group_owner", "deployment_approver"},
        reject    |-> {"admin", "group_owner", "deployment_approver"},
        send_back |-> {"admin", "group_owner", "deployment_approver"},
        cancel    |-> {"admin", "group_owner", "configuration_editor",
                       "deployment_operator"}]

(* An administrator's request goes to a peer or to a reviewer of the group,  *)
(* that of a group's owner or approver to an administrator.                  *)
EligibleReviewer(v, u) ==
    /\ v # u /\ rank[v] # "disabled"
    /\ \/ Platform(u) = "admin" /\ rank[v] \in May.approve
       \/ Platform(u) = "group_owner" /\ rank[v] = "admin"

(* The requester cancels, or an administrator; the assigned reviewer, still  *)
(* eligible and never the requester, does the rest.                          *)
MayAct(u, verb, q) ==
    /\ rank[u] \in May[verb]
    /\ IF verb = "cancel"
       THEN rank[u] = "admin" \/ u = q.by
       ELSE u # q.by /\ u = q.reviewer /\ EligibleReviewer(u, q.by)

---------------------------------------------------------------------------
(* Attempts of one agent, as a sequence s.                                   *)

Last(s) == s[Len(s)]

IsCurrent(s, c) == s # << >> /\ Last(s).config = c /\ Last(s).status = "applied"
InFlight(s)     == s # << >> /\ Last(s).status = "sent"
Refuses(s, c)   == IsCurrent(s, c) \/ InFlight(s)

(* previewGroupConfiguration: any other state of the agent is Ready.         *)
Ready(a, c) ==
    /\ ~IsCurrent(attempts[a], c)
    /\ ~(InFlight(attempts[a]) /\ Last(attempts[a]).config = c)

Newest(I) == IF I = {} THEN 0 ELSE CHOOSE i \in I : \A j \in I : j <= i

LastSuccessful(s) ==
    LET i == Newest({j \in DOMAIN s : s[j].status = "applied"}) IN
    IF i = 0 THEN None ELSE s[i].config

Sent(s, c, act, prev, r, ok) ==
    Append(s, [config |-> c, request |-> r, action |-> act, prev |-> prev,
               claimed |-> FALSE, status |-> IF ok THEN "sent" ELSE "failed"])

(* attemptAutomaticRollback, of the newest attempt i with the failed hash.   *)
\* Mutant: whether there was a previous configuration is not asked.
RollBackAnyway(s, i, ok) ==
    IF i = 0 \/ s[i].action # "deploy" \/ s[i].claimed THEN s
    ELSE Sent([s EXCEPT ![i].claimed = TRUE], s[i].prev, "rollback", None, 0, ok)

RollBack(s, i, ok) ==
    IF i = 0 \/ s[i].action # "deploy" \/ s[i].prev = None \/ s[i].claimed THEN s
    ELSE LET t == [s EXCEPT ![i].claimed = TRUE] IN
         IF Refuses(t, s[i].prev) THEN t
         ELSE Sent(t, s[i].prev, "rollback", None, 0, ok)

(* Resolving the references gives the delivered content another hash than    *)
(* that of the configuration, under which handlers look attempts up.         *)
HasHashOf(d, c) == d.config = c /\ c \notin Secret

---------------------------------------------------------------------------
(* request_deployment.                                                       *)

Submit(r, u, v, c) ==
    /\ request[r].status = "absent" /\ (r > 1 => request[r - 1].status # "absent")
    /\ group.enabled /\ rank[u] \in May.request
    /\ EligibleReviewer(v, u)
    /\ LET T == {a \in members : Ready(a, c)} IN
       /\ T # {}
       /\ request' = [request EXCEPT ![r] =
             [status |-> "pending_approval", config |-> c, targets |-> T,
              selector |-> group.selector, by |-> u, reviewer |-> v,
              reviewedBy |-> Nobody, since |-> [a \in Agents |-> Len(attempts[a])]]]
    /\ UNCHANGED <<world, late, attempts, task, others>>

---------------------------------------------------------------------------
(* The store.                                                                *)

(* ExpirePending.                                                            *)
Swept(r) == request[r].status = "pending_approval" /\ r \in late

Sweep == [r \in Requests |->
             IF Swept(r) THEN [request[r] EXCEPT !.status = "expired"] ELSE request[r]]

(* Review writes if the request is still pending; it asks no clock.          *)
\* Mutant: the update only spares what has expired.
NotExpired(r) == request[r].status # "expired"

Pending(r) == request[r].status = "pending_approval"

Reviewed(r, s, u) ==
    request' = [request EXCEPT ![r] = [@ EXCEPT !.status = s, !.reviewedBy = u]]

(* UpdateStatus.                                                             *)
Conclude(r, s) ==
    request' = IF request[r].status = "deploying"
               THEN [request EXCEPT ![r] = [@ EXCEPT !.status = s]]
               ELSE request

---------------------------------------------------------------------------
(* approve_deployment, reject_deployment, send_back_deployment,              *)
(* cancel_deployment.                                                        *)

(* The gates, the sweep and the checks of the request and of the reviewer,   *)
(* with the copy of the group that the handler has read before.              *)
Open(p, u, verb, r) ==
    /\ Idle(p) /\ request[r].status # "absent"
    /\ MayAct(u, verb, request[r])
    /\ verb = "approve" =>
          /\ Pending(r) /\ ~Swept(r)
          /\ group.enabled /\ group.selector = request[r].selector
    /\ request' = Sweep
    /\ task' = [task EXCEPT ![p] = [NoTask EXCEPT !.op = verb, !.request = r, !.by = u,
                   !.at = IF verb = "approve" THEN "check" ELSE "review"]]
    /\ UNCHANGED <<world, late, attempts, others>>

(* The targets are still members and ready; the validator may refuse too.    *)
CheckTargets(p) ==
    /\ task[p].at = "check"
    /\ LET q == request[task[p].request] IN
       \/ /\ \A a \in q.targets : a \in members /\ Ready(a, q.config)
          /\ Goto(p, "review")
       \/ Done(p)
    /\ UNCHANGED <<world, request, late, attempts, others>>

\* Mutant: the conflict is not an error for an approval.
ReviewIgnored(p) ==
    /\ task[p].at = "review"
    /\ LET r == task[p].request
           verb == task[p].op IN
       /\ IF Pending(r) THEN Reviewed(r, Decision[verb], task[p].by) ELSE UNCHANGED request
       /\ IF verb = "approve"
          THEN task' = [task EXCEPT ![p] = [@ EXCEPT !.at = "deliver",
                                                     !.todo = request[r].targets]]
          ELSE Done(p)
    /\ UNCHANGED <<world, late, attempts, others>>

Review(p) ==
    /\ task[p].at = "review"
    /\ LET r == task[p].request
           verb == task[p].op IN
       IF Pending(r)
       THEN /\ Reviewed(r, Decision[verb], task[p].by)
            /\ IF verb = "approve"
               THEN task' = [task EXCEPT ![p] = [@ EXCEPT !.at = "deliver",
                                                          !.todo = request[r].targets]]
               ELSE Done(p)
       ELSE Done(p) /\ UNCHANGED request
    /\ UNCHANGED <<world, late, attempts, others>>

(* One target: the delivery is refused, or sent, or fails to be sent.  An    *)
(* error is answered with an automatic rollback, which may fail as well.     *)
Deliver(p, a) ==
    /\ task[p].at = "deliver" /\ a \in task[p].todo
    /\ LET r == task[p].request
           c == request[r].config
           s == attempts[a]
           Failed(t) == \E ok \in BOOLEAN :
               attempts' = [attempts EXCEPT ![a] =
                   RollBack(t, Newest({i \in DOMAIN t : HasHashOf(t[i], c)}), ok)]
           Refused == /\ Failed(s)
                      /\ trouble' = [trouble EXCEPT ![r] = @ \cup {a}]
       IN
       \E ok \in BOOLEAN :
          /\ task' = [task EXCEPT ![p] = [task[p] EXCEPT !.todo = @ \ {a},
                         !.refused = task[p].refused \/ Refuses(s, c) \/ ~ok]]
          /\ IF Refuses(s, c) THEN Refused
             ELSE LET t == Sent(s, c, "deploy", LastSuccessful(s), r, ok) IN
                  /\ UNCHANGED trouble
                  /\ IF ok THEN attempts' = [attempts EXCEPT ![a] = t] ELSE Failed(t)
    /\ UNCHANGED <<world, request, late, page, crashes>>

(* With an error the request ends as failed, if the page has not ended it.   *)
Finish(p) ==
    /\ task[p].at = "deliver" /\ task[p].todo = {}
    /\ IF task[p].refused THEN Conclude(task[p].request, "failed") ELSE UNCHANGED request
    /\ Done(p)
    /\ UNCHANGED <<world, late, attempts, others>>

---------------------------------------------------------------------------
(* GET /groups/{id} ends what is deploying, by the newest attempt of each    *)
(* target that has the hash and was made since the request.                  *)

\* Mutant: attempts made before the request count as well.
CountedEver(r, a) ==
    Newest({i \in DOMAIN attempts[a] : HasHashOf(attempts[a][i], request[r].config)})

Counted(r, a) ==
    Newest({i \in DOMAIN attempts[a] :
                i > request[r].since[a] /\ HasHashOf(attempts[a][i], request[r].config)})

Says(r, a, s) == Counted(r, a) # 0 /\ attempts[a][Counted(r, a)].status = s

\* Mutant: the page looks for success only.
VerdictOfSuccess(r) ==
    IF \A a \in request[r].targets : Says(r, a, "applied") THEN "completed" ELSE ""

Verdict(r) ==
    IF \E a \in request[r].targets : Says(r, a, "failed") THEN "failed"
    ELSE IF \A a \in request[r].targets : Says(r, a, "applied") THEN "completed"
    ELSE ""

ReadPage(r) ==
    /\ page = NoPage /\ request[r].status = "deploying" /\ Verdict(r) # ""
    /\ page' = [request |-> r, verdict |-> Verdict(r)]
    /\ UNCHANGED <<world, request, late, attempts, task, trouble, crashes>>

ConcludePage ==
    /\ page # NoPage
    /\ Conclude(page.request, page.verdict)
    /\ page' = NoPage
    /\ UNCHANGED <<world, late, attempts, task, trouble, crashes>>

---------------------------------------------------------------------------
(* The rest of the server and the fleet.                                     *)

DeadlinePasses(r) ==
    /\ Pending(r) /\ r \notin late
    /\ late' = late \cup {r}
    /\ UNCHANGED <<world, request, attempts, task, others>>

(* runApprovalExpiryLoop, and the page of all approvals.                     *)
Expire ==
    /\ \E r \in Requests : Swept(r)
    /\ request' = Sweep
    /\ UNCHANGED <<world, late, attempts, task, others>>

Answer(a, s) == attempts' = [attempts EXCEPT ![a] = s]

(* The agent's answer, with the rollback by which the status loop meets a    *)
(* failure.                                                                  *)
AgentApplies(a) ==
    /\ InFlight(attempts[a])
    /\ Answer(a, [attempts[a] EXCEPT ![Len(attempts[a])].status = "applied"])
    /\ UNCHANGED <<world, request, late, task, others>>

AgentFails(a) ==
    /\ InFlight(attempts[a])
    /\ \E ok \in BOOLEAN :
          LET n == Len(attempts[a]) IN
          Answer(a, RollBack([attempts[a] EXCEPT ![n].status = "failed"], n, ok))
    /\ UNCHANGED <<world, request, late, task, others>>

Change == changes < MaxChanges /\ changes' = changes + 1

(* A deployment without a request.                                           *)
Direct(a, c) ==
    /\ Change /\ ~Refuses(attempts[a], c)
    /\ \E ok \in BOOLEAN : Answer(a, Sent(attempts[a], c, "deploy", None, 0, ok))
    /\ UNCHANGED <<rank, group, members, request, late, task, others>>

(* updateGroupMembership and SetEnabled, of the roles in this group.         *)
ChangeRank(u, k) ==
    /\ Change /\ rank[u] # k
    /\ rank' = [rank EXCEPT ![u] = k]
    /\ UNCHANGED <<group, members, request, late, attempts, task, others>>

(* enable, disable, update.                                                  *)
EditGroup(row) ==
    /\ Change /\ group # row
    /\ group' = row
    /\ UNCHANGED <<rank, members, request, late, attempts, task, others>>

(* The labels or the identity of an agent change.                            *)
MoveAgent(a) ==
    /\ Change
    /\ members' = IF a \in members THEN members \ {a} ELSE members \cup {a}
    /\ UNCHANGED <<rank, group, request, late, attempts, task, others>>

Crash ==
    /\ crashes < MaxCrashes /\ crashes' = crashes + 1
    /\ task' = [p \in Handlers |-> NoTask] /\ page' = NoPage
    /\ UNCHANGED <<world, request, late, attempts, trouble>>

---------------------------------------------------------------------------

NoRequest == [status |-> "absent", config |-> None, targets |-> {},
              selector |-> CHOOSE s \in Selectors : TRUE, by |-> Nobody,
              reviewer |-> Nobody, reviewedBy |-> Nobody, since |-> [a \in Agents |-> 0]]

(* An agent comes with no history, or with a configuration that works.       *)
Before == {<< >>} \cup
    {<<[config |-> c, request |-> 0, action |-> "deploy", prev |-> None,
        claimed |-> FALSE, status |-> "applied"]>> : c \in Configs}

Init ==
    /\ rank = InitRank
    /\ group \in [enabled : {TRUE}, selector : Selectors]
    /\ members = Agents
    /\ request = [r \in Requests |-> NoRequest]
    /\ late = {} /\ attempts \in [Agents -> Before]
    /\ task = [p \in Handlers |-> NoTask] /\ page = NoPage
    /\ trouble = [r \in Requests |-> {}]
    /\ changes = 0 /\ crashes = 0

Step(p) ==
    \/ CheckTargets(p) \/ Review(p) \/ (\E a \in Agents : Deliver(p, a))
    \/ Finish(p)

View == \E r \in Requests : ReadPage(r)

Environment ==
    \/ \E a \in Agents : AgentApplies(a) \/ AgentFails(a) \/ MoveAgent(a)
    \/ \E a \in Agents, c \in Configs : Direct(a, c)
    \/ \E u \in Users, k \in NewRanks : ChangeRank(u, k)
    \/ \E row \in [enabled : BOOLEAN, selector : Selectors] : EditGroup(row)

Next ==
    \/ \E r \in Requests, u, v \in Users, c \in Configs : Submit(r, u, v, c)
    \/ \E p \in Handlers, u \in Users, verb \in DOMAIN Decision, r \in Requests :
           Open(p, u, verb, r)
    \/ \E p \in Handlers : Step(p)
    \/ View \/ ConcludePage
    \/ \E r \in Requests : DeadlinePasses(r)
    \/ Expire \/ Environment \/ Crash

Spec == Init /\ [][Next]_vars

(* Handlers run to their end, agents answer and somebody looks at the page   *)
(* of a group that is deploying.                                             *)
Fairness ==
    /\ \A p \in Handlers : WF_vars(Step(p))
    /\ WF_vars(View) /\ WF_vars(ConcludePage)
    /\ \A a \in Agents : WF_vars(AgentApplies(a) \/ AgentFails(a))

FairSpec == Spec /\ Fairness

---------------------------------------------------------------------------
(* Properties.                                                               *)

(* Every variable has its type.                                              *)
TypeOK ==
    /\ rank \in [Users -> Ranks]
    /\ group \in [enabled : BOOLEAN, selector : Selectors]
    /\ members \subseteq Agents
    /\ request \in [Requests -> Request]
    /\ late \subseteq Requests
    /\ attempts \in [Agents -> Seq(Attempt)]
    /\ task \in [Handlers -> Task]
    /\ page \in [request : Nat, verdict : {"", "completed", "failed"}]
    /\ trouble \in [Requests -> SUBSET Agents]
    /\ changes \in Nat /\ crashes \in Nat

(* Whatever reaches an agent in the name of a request was approved, by       *)
(* somebody else than the requester, and is the configuration that was       *)
(* asked for on a target that was asked for: also when the request was       *)
(* cancelled, expired or approved by another handler between the checks and  *)
(* the decision.                                                             *)
Carries(a, i, r) == i \in DOMAIN attempts[a] /\ attempts[a][i].request = r

AttemptsAreApproved ==
    \A a \in Agents, r \in Requests : \A i \in DOMAIN attempts[a] :
        Carries(a, i, r) =>
            /\ request[r].status \in {"deploying", "completed", "failed"}
            /\ request[r].reviewedBy \notin {Nobody, request[r].by}
            /\ a \in request[r].targets
            /\ attempts[a][i].config = request[r].config

(* Two handlers that approve one request deliver it once to each target.     *)
DeliveredOnce ==
    \A a \in Agents, r \in Requests : \A i, j \in DOMAIN attempts[a] :
        Carries(a, i, r) /\ Carries(a, j, r) => i = j

(* A completed request is one whose configuration every target has applied   *)
(* since it was made, although the page counts any attempt of that content.  *)
CompletedIsApplied ==
    \A r \in Requests : request[r].status = "completed" =>
        \A a \in request[r].targets : \E i \in DOMAIN attempts[a] :
            /\ i > request[r].since[a]
            /\ attempts[a][i].config = request[r].config
            /\ attempts[a][i].status = "applied"

(* A request is decided once, and the two kinds of end do not mix.           *)
Decided == INSTANCE GroupDecision WITH status <- [r \in Requests |-> request[r].status]
RefinesDecision == Decided!Spec

(* An approved request ends as completed or failed, unless a restart cuts    *)
(* its handler short; one whose configuration has references to secrets may  *)
(* not, since no attempt has its hash.                                       *)
DeployingEnds ==
    \A r \in Requests :
        request[r].status = "deploying" /\ request[r].config \notin Secret
            ~> request[r].status # "deploying" \/ crashes > 0
=============================================================================
