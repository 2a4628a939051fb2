--------------------------- MODULE ConfigDelivery ---------------------------
(***************************************************************************)
(* Delivery of configurations to one managed agent: the HTTP handlers, the *)
(* configuration-status loop and the drift reconciler all call             *)
(* deliverConfigurationWithRollback, which reads and writes the assignment *)
(* and deployment stores one statement at a time and sends the             *)
(* configuration over OpAMP, while the agent answers asynchronously.       *)
(*                                                                         *)
(* The stores are keyed by the agent and the calls for two agents share no *)
(* row, so one agent is the whole of it.                                   *)
(***************************************************************************)
EXTENDS Naturals, Sequences

CONSTANTS
    NumConfigs,       \* configurations are 1 .. NumConfigs, oldest first
    Hash,             \* content hash of each; two versions may share one
    Callers,          \* HTTP handlers running concurrently
    ConfigLoop,       \* the goroutine that consumes adapter.ConfigEvents
    DriftLoop,        \* the goroutine that consumes EffectiveConfigEvents
    Operations,       \* which of "direct", "rollback", "approve" are called
    DriftPolicy,      \* "report_only" or "enforce"
    Faults,           \* which of "crash", "disconnect", "send", "store" occur
    MaxFaults,        \* bound on how many faults occur
    MaxLocalChanges,  \* bound on edits made on the agent itself
    MaxDeployments,   \* no handler is called once the history is this long
    ChannelCap        \* capacity of the adapter's channels (128 in the code)

Configs == 1 .. NumConfigs
None    == 0                        \* "" where a configuration id may be absent
Hashes  == {Hash[c] : c \in Configs}
Local   == 0                        \* the content of an agent edited locally
Procs   == Callers \cup {ConfigLoop, DriftLoop}

ASSUME ConfigDeliveryAssumption ==
    /\ NumConfigs \in Nat \ {0}
    /\ Hash \in [Configs -> Nat \ {0}]
    /\ ConfigLoop \notin Callers
    /\ DriftLoop \notin Callers
    /\ ConfigLoop # DriftLoop
    /\ DriftPolicy \in {"report_only", "enforce"}
    /\ MaxFaults \in Nat /\ MaxLocalChanges \in Nat
    /\ MaxDeployments \in Nat /\ ChannelCap \in Nat \ {0}

Statuses == {"pending", "sent", "applying", "applied", "failed", "unsupported"}
InFlight == {"pending", "sent", "applying"}
Broken   == {"failed", "unsupported"}
Actions  == {"deploy", "rollback", "reconcile"}

(* claimed, failedAt and appliedAt say that the column is not null.  source   *)
(* is history: the deployment an automatic rollback answers, 0 if none.      *)
Deployment == [config : Configs, action : Actions, prev : Configs \cup {None},
               source : Nat, claimed : BOOLEAN, failedAt : BOOLEAN,
               appliedAt : BOOLEAN, status : Statuses]
Report == [hash : Hashes, status : Statuses]

(* Where a process is in deliverConfigurationWithRollback ...                *)
Delivering == {"current", "progress", "create", "assign", "unassigned",
               "send", "persist", "record"}
(* ... or in the code around it.                                             *)
Around == {"idle", "previous", "report", "find", "claim"}

(* The local state of a process.  approve: an error makes the caller attempt *)
(* an automatic rollback; hash: the hash delivered, reported or failed;      *)
(* outcome: the status to write next; candidate: the deployment found by     *)
(* attemptAutomaticRollback, 0 if none.                                      *)
ProcState == [at : Delivering \cup Around, config : Configs, action : Actions,
              prev : Configs \cup {None}, source : Nat, approve : BOOLEAN,
              hash : Hashes, outcome : Statuses, candidate : Nat]
Idle == [at |-> "idle", config |-> 1, action |-> "deploy", prev |-> None,
         source |-> 0, approve |-> FALSE, hash |-> Hash[1],
         outcome |-> "pending", candidate |-> 0]

NoRow == "none"

VARIABLES
    assigned,     \* status of the row (agent, configuration), or NoRow
    updatedAt,    \* rank of that row by updated_at; the newest has NumConfigs
    deployments,  \* the rows of the deployments table, by created_at
    proc,         \* local state of every process
    connected,    \* the agent has a current connection in the adapter
    inbox,        \* hashes of the configurations offered and not yet handled
    running,      \* hash the agent runs, or Local
    lastReport,   \* the last remote-config status of the agent: << >> or <<r>>
    reports,      \* adapter.configEvents
    effective,    \* adapter.effectiveEvents
    known,        \* adapter.effective: << >>, or the last content it saw
    faults, localChanges,
    forgotten     \* history: how long deployments was at the last restart

assignments == <<assigned, updatedAt>>
agent       == <<connected, inbox, running, lastReport>>
channels    == <<reports, effective, known>>
counters    == <<faults, localChanges, forgotten>>
others      == <<localChanges, forgotten>>
vars == <<assignments, deployments, proc, agent, channels, counters>>

---------------------------------------------------------------------------
(* Rows and queries.                                                         *)

IsLatest(c) ==
    /\ assigned[c] # NoRow
    /\ \A d \in Configs : assigned[d] # NoRow => updatedAt[d] <= updatedAt[c]

IsLatestOfHash(c, h) ==
    /\ assigned[c] # NoRow /\ Hash[c] = h
    /\ \A d \in Configs :
          assigned[d] # NoRow /\ Hash[d] = h => updatedAt[d] <= updatedAt[c]

IsNewestOfHash(i, h) ==
    /\ i \in DOMAIN deployments /\ Hash[deployments[i].config] = h
    /\ \A j \in DOMAIN deployments : Hash[deployments[j].config] = h => j <= i

Touch(c) == [d \in Configs |->
    IF d = c THEN NumConfigs
    ELSE IF updatedAt[d] > updatedAt[c] THEN updatedAt[d] - 1
    ELSE updatedAt[d]]

Upsert(c, s) ==
    /\ assigned' = [assigned EXCEPT ![c] = s]
    /\ updatedAt' = Touch(c)

UpdateByAgentHash(h, s) ==
    \/ \E c \in Configs : IsLatestOfHash(c, h) /\ Upsert(c, s)
    \/ /\ \A c \in Configs : ~IsLatestOfHash(c, h)
       /\ UNCHANGED assignments

\* Mutant: a status update writes every column of the row, the claim too.
UpdateWholeRow(h, s) ==
    deployments' = [i \in DOMAIN deployments |->
        IF IsNewestOfHash(i, h)
        THEN [deployments[i] EXCEPT !.status = s, !.claimed = FALSE]
        ELSE deployments[i]]

UpdateLatestByAgentHash(h, s) ==
    deployments' = [i \in DOMAIN deployments |->
        IF IsNewestOfHash(i, h)
        THEN [deployments[i] EXCEPT !.status = s,
                                    !.failedAt = @ \/ s \in Broken,
                                    !.appliedAt = @ \/ s = "applied"]
        ELSE deployments[i]]

---------------------------------------------------------------------------
(* The calls.                                                                *)

Become(p, s) == proc' = [proc EXCEPT ![p] = s]
Goto(p, l)   == Become(p, [proc[p] EXCEPT !.at = l])
Return(p)    == Become(p, Idle)

Begin(p, c, act, prev, source, approve, l) ==
    Become(p, [Idle EXCEPT !.at = l, !.config = c, !.action = act, !.prev = prev,
                           !.source = source, !.approve = approve, !.hash = Hash[c]])

Fault(f) == f \in Faults /\ faults < MaxFaults /\ faults' = faults + 1

(* The callers of UpdateLatestByAgentHash drop or log its error and go on.   *)
UpdateHistory(h, s) ==
    \/ UpdateLatestByAgentHash(h, s) /\ UNCHANGED faults
    \/ Fault("store") /\ UNCHANGED deployments

(* deliverConfigurationWithRollback returns an error: the approval handler   *)
(* then attempts an automatic rollback of the hash.                          *)
ReturnError(p) == IF proc[p].approve THEN Goto(p, "find") ELSE Return(p)

MayCall(p) == proc[p].at = "idle" /\ Len(deployments) < MaxDeployments

(* POST /api/v1/agents/{uid}/configurations/{id}.                            *)
DirectDeploy(p, c) ==
    /\ "direct" \in Operations /\ MayCall(p)
    /\ Begin(p, c, "deploy", None, 0, FALSE, "current")
    /\ UNCHANGED <<assignments, deployments, agent, channels, counters>>

(* POST /api/v1/agents/{uid}/rollback/{id}: only to an older version.        *)
DirectRollback(p, c) ==
    /\ "rollback" \in Operations /\ MayCall(p)
    /\ \E d \in Configs : IsLatest(d) /\ c < d
    /\ Begin(p, c, "rollback", None, 0, FALSE, "current")
    /\ UNCHANGED <<assignments, deployments, agent, channels, counters>>

(* approve_deployment: the readiness of the target is checked first.  The    *)
(* record of the agent follows its connection late, so it may be connected   *)
(* or not when the record says that it is.                                   *)
Approve(p, c) ==
    /\ "approve" \in Operations /\ MayCall(p)
    /\ \A d \in Configs : IsLatest(d) /\ Hash[d] = Hash[c] =>
                             assigned[d] \in Broken
    /\ Begin(p, c, "deploy", None, 0, TRUE, "previous")
    /\ UNCHANGED <<assignments, deployments, agent, channels, counters>>

(* lastSuccessfulConfigurationID: the newest applied deployment.             *)
AnyAttempt(d) == TRUE   \* mutant: whatever its status
Successful(d) == d.status = "applied"

ReadPrevious(p) ==
    /\ proc[p].at = "previous"
    /\ \/ \E i \in DOMAIN deployments :
             /\ Successful(deployments[i])
             /\ \A j \in DOMAIN deployments : Successful(deployments[j]) => j <= i
             /\ Become(p, [proc[p] EXCEPT !.at = "current", !.prev = deployments[i].config])
       \/ /\ \A i \in DOMAIN deployments : ~Successful(deployments[i])
          /\ Goto(p, "current")
    /\ UNCHANGED <<assignments, deployments, agent, channels, counters>>

(* Is the configuration already applied?  A reconciliation does not ask.     *)
AlreadyCurrent(p) ==
    /\ proc[p].action # "reconcile"
    /\ \E c \in Configs : IsLatest(c) /\ assigned[c] = "applied" /\ Hash[c] = proc[p].hash

CheckCurrent(p) ==
    /\ proc[p].at = "current"
    /\ IF AlreadyCurrent(p) THEN ReturnError(p) ELSE Goto(p, "progress")
    /\ UNCHANGED <<assignments, deployments, agent, channels, counters>>

(* Is the newest deployment still in flight?                                 *)
NewestInFlight ==
    deployments # << >> /\ deployments[Len(deployments)].status \in InFlight

CheckInProgress(p) ==
    /\ proc[p].at = "progress"
    /\ IF NewestInFlight
       THEN ReturnError(p)
       ELSE Goto(p, "create")
    /\ UNCHANGED <<assignments, deployments, agent, channels, counters>>

(* A secret that does not resolve, a query or the insert that fails.         *)
Refused(p) ==
    /\ proc[p].at \in {"previous", "current", "progress", "create"}
    /\ Fault("store")
    /\ IF proc[p].at = "previous" THEN Return(p) ELSE ReturnError(p)
    /\ UNCHANGED <<assignments, deployments, agent, channels, others>>

Create(p) ==
    /\ proc[p].at = "create"
    /\ deployments' = Append(deployments,
          [config |-> proc[p].config, action |-> proc[p].action,
           prev |-> proc[p].prev, source |-> proc[p].source,
           claimed |-> FALSE, failedAt |-> FALSE, appliedAt |-> FALSE,
           status |-> "pending"])
    /\ Goto(p, "assign")
    /\ UNCHANGED <<assignments, agent, channels, counters>>

Assign(p) ==
    /\ proc[p].at = "assign"
    /\ Upsert(proc[p].config, "pending")
    /\ Goto(p, "send")
    /\ UNCHANGED <<deployments, agent, channels, counters>>

\* Mutant: the error of the upsert is ignored.
AssignErrorIgnored(p) ==
    /\ proc[p].at = "assign"
    /\ Fault("store")
    /\ Goto(p, "send")
    /\ UNCHANGED <<assignments, deployments, agent, channels, others>>

(* The upsert fails: the attempt is marked failed and the call returns.      *)
AssignFails(p) ==
    /\ proc[p].at = "assign"
    /\ Fault("store")
    /\ Goto(p, "unassigned")
    /\ UNCHANGED <<assignments, deployments, agent, channels, others>>

MarkUnassigned(p) ==
    /\ proc[p].at = "unassigned"
    /\ UpdateHistory(proc[p].hash, "failed")
    /\ ReturnError(p)
    /\ UNCHANGED <<assignments, agent, channels, others>>

(* SendRemoteConfig: refused when the agent is not connected.                *)
Outcome(p, s) == Become(p, [proc[p] EXCEPT !.at = "persist", !.outcome = s])

Send(p) ==
    /\ proc[p].at = "send"
    /\ \/ /\ connected
          /\ inbox' = Append(inbox, proc[p].hash)
          /\ Outcome(p, "sent")
       \/ /\ ~connected
          /\ Outcome(p, "failed")
          /\ UNCHANGED inbox
    /\ UNCHANGED <<assignments, deployments, connected, running, lastReport,
                   channels, counters>>

(* The connection refuses the message, or the agent lost the capability.     *)
SendFails(p) ==
    /\ proc[p].at = "send" /\ connected
    /\ Fault("send")
    /\ \E s \in Broken : Outcome(p, s)
    /\ UNCHANGED <<assignments, deployments, agent, channels, others>>

Persist(p) ==
    /\ proc[p].at = "persist"
    /\ Upsert(proc[p].config, proc[p].outcome)
    /\ Goto(p, "record")
    /\ UNCHANGED <<deployments, agent, channels, counters>>

(* The second upsert fails: the deployment is left as it is.                 *)
PersistFails(p) ==
    /\ proc[p].at = "persist"
    /\ Fault("store")
    /\ ReturnError(p)
    /\ UNCHANGED <<assignments, deployments, agent, channels, others>>

Record(p) ==
    /\ proc[p].at = "record"
    /\ UpdateHistory(proc[p].hash, proc[p].outcome)
    /\ IF proc[p].outcome = "sent" THEN Return(p) ELSE ReturnError(p)
    /\ UNCHANGED <<assignments, agent, channels, others>>

---------------------------------------------------------------------------
(* attemptAutomaticRollback.                                                 *)

CanRollBack(d) == d.action = "deploy" /\ d.prev # None

FindFailed(p) ==
    /\ proc[p].at = "find"
    /\ \/ \E i \in DOMAIN deployments :
             /\ IsNewestOfHash(i, proc[p].hash) /\ CanRollBack(deployments[i])
             /\ Become(p, [proc[p] EXCEPT !.at = "claim", !.candidate = i])
       \/ /\ \A i \in DOMAIN deployments :
                IsNewestOfHash(i, proc[p].hash) => ~CanRollBack(deployments[i])
          /\ Return(p)
    /\ UNCHANGED <<assignments, deployments, agent, channels, counters>>

(* The update finds rollback_started_at set.                                 *)
NeverClaimed(i)   == FALSE   \* mutant: the update is unconditional
AlreadyClaimed(i) == deployments[i].claimed

RollbackTarget(d) == d.prev

ClaimRollback(p) ==
    /\ proc[p].at = "claim"
    /\ LET i == proc[p].candidate IN
       IF AlreadyClaimed(i)
       THEN Return(p) /\ UNCHANGED deployments
       ELSE /\ deployments' = [deployments EXCEPT ![i].claimed = TRUE]
            /\ Begin(p, RollbackTarget(deployments[i]), "rollback", None, i, FALSE, "current")
    /\ UNCHANGED <<assignments, agent, channels, counters>>

---------------------------------------------------------------------------
(* The event loops.                                                          *)

TakeReport ==
    /\ proc[ConfigLoop].at = "idle" /\ reports # << >>
    /\ reports' = Tail(reports)
    /\ \/ UpdateByAgentHash(Head(reports).hash, Head(reports).status) /\ UNCHANGED faults
       \/ Fault("store") /\ UNCHANGED assignments
    /\ Become(ConfigLoop, [Idle EXCEPT !.at = "report", !.hash = Head(reports).hash,
                                       !.outcome = Head(reports).status])
    /\ UNCHANGED <<deployments, agent, effective, known, others>>

NeedsRollback(s)   == s \in Broken

RecordReport ==
    /\ proc[ConfigLoop].at = "report"
    /\ UpdateHistory(proc[ConfigLoop].hash, proc[ConfigLoop].outcome)
    /\ IF NeedsRollback(proc[ConfigLoop].outcome)
       THEN Goto(ConfigLoop, "find")
       ELSE Return(ConfigLoop)
    /\ UNCHANGED <<assignments, agent, channels, others>>

(* runDriftReconciler: the desired configuration is the latest assignment,   *)
(* whatever its status; in sync is abstracted to equality of the contents.   *)
\* Mutant: the newest version of the catalogue is desired, assigned or not.
DriftedNewest(c) == DriftPolicy = "enforce" /\ c = NumConfigs /\ Hash[c] # Head(effective)
Drifted(c) == DriftPolicy = "enforce" /\ IsLatest(c) /\ Hash[c] # Head(effective)

TakeEffective ==
    /\ proc[DriftLoop].at = "idle" /\ effective # << >>
    /\ effective' = Tail(effective)
    /\ \/ \E c \in Configs :
             Drifted(c) /\ Begin(DriftLoop, c, "reconcile", None, 0, FALSE, "current")
       \/ (\A c \in Configs : ~Drifted(c)) /\ UNCHANGED proc
    /\ UNCHANGED <<assignments, deployments, agent, reports, known, counters>>

---------------------------------------------------------------------------
(* The agent and its connection.                                             *)

(* What onMessage forwards: a changed effective content, and the status.     *)
(* A full channel blocks the callback.                                       *)
Forward(status, content) ==
    /\ Len(reports) < ChannelCap /\ Len(effective) < ChannelCap
    /\ reports' = reports \o status
    /\ known' = <<content>>
    /\ effective' = IF known = <<content>> THEN effective ELSE Append(effective, content)

Tell(status, content) ==
    IF connected THEN Forward(status, content) ELSE UNCHANGED channels

AgentAnswers(status, content) ==
    /\ inbox # << >>
    /\ lastReport' = <<[hash |-> Head(inbox), status |-> status]>>
    /\ running' = content
    /\ Tell(lastReport', content)
    /\ UNCHANGED <<assignments, deployments, proc, connected, counters>>

AgentApplies == AgentAnswers("applied", Head(inbox)) /\ inbox' = Tail(inbox)

AgentRejects == AgentAnswers("failed", running) /\ inbox' = Tail(inbox)

(* The agent announces that it is applying the offer at the head.            *)
AgentApplying ==
    /\ inbox # << >> /\ lastReport # <<[hash |-> Head(inbox), status |-> "applying"]>>
    /\ AgentAnswers("applying", running)
    /\ UNCHANGED inbox

LocalChange ==
    /\ localChanges < MaxLocalChanges /\ running # Local
    /\ running' = Local
    /\ localChanges' = localChanges + 1
    /\ Tell(<< >>, Local)
    /\ UNCHANGED <<assignments, deployments, proc, connected, inbox, lastReport,
                   faults, forgotten>>

(* The connection breaks; the offers under way arrive or are lost.           *)
Disconnect ==
    /\ connected /\ Fault("disconnect")
    /\ connected' = FALSE
    /\ inbox' \in {inbox, << >>}
    /\ UNCHANGED <<assignments, deployments, proc, running, lastReport, channels,
                   others>>

\* Mutant: the agent is not asked for its full state.
ReconnectUnasked ==
    /\ ~connected
    /\ connected' = TRUE
    /\ Forward(<< >>, running)
    /\ UNCHANGED <<assignments, deployments, proc, inbox, running, lastReport, counters>>

(* The first message of a connection is answered with ReportFullState: the   *)
(* agent repeats its last status and its effective configuration.            *)
Reconnect ==
    /\ ~connected
    /\ connected' = TRUE
    /\ Forward(lastReport, running)
    /\ UNCHANGED <<assignments, deployments, proc, inbox, running, lastReport, counters>>

(* The server stops and starts: only the database and the agent survive.     *)
Crash ==
    /\ Fault("crash")
    /\ proc' = [p \in Procs |-> Idle]
    /\ connected' = FALSE
    /\ inbox' \in {inbox, << >>}
    /\ reports' = << >> /\ effective' = << >> /\ known' = << >>
    /\ forgotten' = Len(deployments)
    /\ UNCHANGED <<assignments, deployments, running, lastReport, localChanges>>

---------------------------------------------------------------------------

Init ==
    /\ assigned = [c \in Configs |-> NoRow]
    /\ updatedAt = [c \in Configs |-> c]
    /\ deployments = << >>
    /\ proc = [p \in Procs |-> Idle]
    /\ connected = TRUE /\ inbox = << >> /\ running = Local /\ lastReport = << >>
    /\ reports = << >> /\ effective = << >> /\ known = <<Local>>
    /\ faults = 0 /\ localChanges = 0 /\ forgotten = 0

(* A handler is called.                                                      *)
Call(p) == \E c \in Configs : DirectDeploy(p, c) \/ DirectRollback(p, c) \/ Approve(p, c)

(* The next step of a call under way.                                        *)
Step(p) ==
    \/ ReadPrevious(p) \/ CheckCurrent(p) \/ CheckInProgress(p) \/ Refused(p) \/ Create(p)
    \/ Assign(p) \/ AssignFails(p) \/ MarkUnassigned(p) \/ Send(p) \/ SendFails(p)
    \/ Persist(p) \/ PersistFails(p) \/ Record(p) \/ FindFailed(p) \/ ClaimRollback(p)

Next ==
    \/ \E p \in Callers : Call(p)
    \/ \E p \in Procs : Step(p)
    \/ TakeReport \/ RecordReport \/ TakeEffective
    \/ AgentApplies \/ AgentRejects \/ AgentApplying \/ LocalChange
    \/ Disconnect \/ Reconnect \/ Crash

Spec == Init /\ [][Next]_vars

(* Every goroutine is scheduled: a call under way and the loops go on, an    *)
(* agent answers its offers and connects again when its connection breaks.   *)
(* Nobody has to call a handler.                                             *)
Fairness ==
    /\ \A p \in Procs : WF_vars(Step(p))
    /\ WF_vars(TakeReport) /\ WF_vars(RecordReport) /\ WF_vars(TakeEffective)
    /\ WF_vars(AgentApplies \/ AgentRejects) /\ WF_vars(Reconnect)

FairSpec == Spec /\ Fairness

---------------------------------------------------------------------------
(* Properties.                                                               *)

(* Every variable has its type; the rows of the history name configurations  *)
(* and statuses, the ranks of the assignments stay in 1 .. NumConfigs.       *)
TypeOK ==
    /\ assigned \in [Configs -> Statuses \cup {NoRow}]
    /\ updatedAt \in [Configs -> Configs]
    /\ deployments \in Seq(Deployment)
    /\ proc \in [Procs -> ProcState]
    /\ connected \in BOOLEAN
    /\ inbox \in Seq(Hashes)
    /\ running \in Hashes \cup {Local}
    /\ lastReport \in Seq(Report) /\ Len(lastReport) <= 1
    /\ reports \in Seq(Report)
    /\ effective \in Seq(Hashes \cup {Local})
    /\ known \in Seq(Hashes \cup {Local})
    /\ faults \in Nat /\ localChanges \in Nat /\ forgotten \in Nat

(* A deployment gets a single automatic rollback attempt, although the       *)
(* approval handler, the status loop and repeated failure reports may all    *)
(* ask for one, in any order and across restarts.                            *)
RollbackOnce ==
    \A i, j \in DOMAIN deployments :
        deployments[i].source # 0 /\ deployments[i].source = deployments[j].source => i = j

(* An automatic rollback restores a configuration that this agent applied    *)
(* before the attempt it answers was recorded.                               *)
RollbackRestoresWorking ==
    \A i \in DOMAIN deployments :
        deployments[i].source # 0 =>
            \E j \in DOMAIN deployments :
                /\ j < deployments[i].source
                /\ deployments[j].appliedAt
                /\ deployments[j].config = deployments[i].config

(* Nothing is on its way to the agent, or runs on it, that the history and   *)
(* the assignments do not record: both rows are written before the send.     *)
OfferedIsRecorded ==
    \A h \in Hashes :
        running = h \/ (\E k \in DOMAIN inbox : inbox[k] = h) =>
            /\ \E i \in DOMAIN deployments : Hash[deployments[i].config] = h
            /\ \E c \in Configs : assigned[c] # NoRow /\ Hash[c] = h

(* A reconciliation only repeats a configuration that somebody deployed or   *)
(* rolled this agent back to before.                                         *)
ReconcileNeverIntroduces ==
    \A i \in DOMAIN deployments :
        deployments[i].action = "reconcile" =>
            \E j \in DOMAIN deployments :
                /\ j < i /\ deployments[j].action # "reconcile"
                /\ deployments[j].config = deployments[i].config

(* The history is append-only: a row keeps its identity, and no timestamp    *)
(* that was set (claim, failure, success) is ever taken back.                *)
HistoryKept ==
    \A i \in DOMAIN deployments :
        /\ i \in DOMAIN deployments'
        /\ deployments'[i].config = deployments[i].config
        /\ deployments'[i].action = deployments[i].action
        /\ deployments'[i].prev   = deployments[i].prev
        /\ deployments'[i].source = deployments[i].source
        /\ deployments[i].claimed   => deployments'[i].claimed
        /\ deployments[i].failedAt  => deployments'[i].failedAt
        /\ deployments[i].appliedAt => deployments'[i].appliedAt
HistoryAppendOnly == [][HistoryKept]_vars

(* A deployment over a working configuration that failed gets its rollback   *)
(* claimed, unless a newer attempt of the same hash took its place first or  *)
(* overlapped an older one, which then stays in flight: a status is written  *)
(* on the newest attempt of its hash, whichever of the two it answers.  A    *)
(* disconnection changes nothing of it.  A restart forgets the failures that *)
(* a handler or the status loop had in hand, and of the deployments that     *)
(* were there before it only the one whose failure the agent repeats when it *)
(* connects again is sure to be answered.  What is owed stays owed until it  *)
(* is answered and the attempts are finitely many, so that each of them is   *)
(* answered if infinitely often none is owed.                                *)
Owed(i) ==
    /\ CanRollBack(deployments[i])
    /\ deployments[i].failedAt /\ ~deployments[i].claimed
    /\ \A j \in DOMAIN deployments \ {i} :
          Hash[deployments[j].config] = Hash[deployments[i].config] =>
              j < i /\ deployments[j].status \notin InFlight

Repeated(i) ==
    /\ lastReport # << >>
    /\ lastReport[1].hash = Hash[deployments[i].config] /\ lastReport[1].status \in Broken

FailureIsClaimed ==
    []<>(\A i \in DOMAIN deployments : Owed(i) => i <= forgotten /\ ~Repeated(i))

---------------------------------------------------------------------------
(* The inductive invariant behind the two properties of automatic rollbacks, *)
(* stated of a history D so that it can be compared before and after a step. *)

Worked(c, n, D) == \E j \in DOMAIN D : j < n /\ D[j].appliedAt /\ D[j].config = c

Restores(c, i, D) == i \in DOMAIN D /\ D[i].claimed /\ D[i].prev # None /\ D[i].prev = c

RowGood(i, D) ==
    /\ D[i].status = "applied" => D[i].appliedAt
    /\ D[i].prev # None => Worked(D[i].prev, i, D)
    /\ D[i].source # 0 => Restores(D[i].config, D[i].source, D)

ProcGood(s, D) ==
    /\ s.at = "previous" => s.source = 0
    /\ s.at = "claim" => s.candidate \in DOMAIN D /\ CanRollBack(D[s.candidate])
    /\ s.prev # None => Worked(s.prev, Len(D) + 1, D)
    /\ s.source # 0 => Restores(s.config, s.source, D)

(* An automatic rollback that was claimed and has no row yet.                *)
Asks(s) == s.at \in {"current", "progress", "create"} /\ s.source # 0

Fresh(s, D) == Asks(s) => \A i \in DOMAIN D : D[i].source # s.source

AsksOnce ==
    \A p, q \in Procs :
        Asks(proc[p]) /\ Asks(proc[q]) /\ proc[p].source = proc[q].source => p = q

(* Every claim stands for at most one row or one call that has yet to write  *)
(* its row, and what a call or a row would restore was applied before.       *)
RollbackInv ==
    /\ \A i \in DOMAIN deployments : RowGood(i, deployments)
    /\ \A p \in Procs : ProcGood(proc[p], deployments) /\ Fresh(proc[p], deployments)
    /\ AsksOnce
    /\ RollbackOnce
=============================================================================
