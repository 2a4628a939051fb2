------------------------ MODULE ConfigDeliveryProofs ------------------------
(***************************************************************************)
(* What holds of ConfigDelivery for every number of versions, handlers,    *)
(* faults and every channel capacity, and of the connection index that the *)
(* configurations are delivered through for every set of connections.      *)
(***************************************************************************)
EXTENDS ConfigDelivery, OpAMPConnections, TLAPS

(* The types of the constants that every step needs.                         *)
LEMMA ConstantTypes ==
    /\ 1 \in Configs /\ NumConfigs \in Configs /\ Configs \subseteq Nat
    /\ \A c \in Configs : Hash[c] \in Hashes
    /\ Hashes \subseteq Nat \ {0}
    /\ ConfigLoop \in Procs /\ DriftLoop \in Procs /\ Callers \subseteq Procs
  BY ConfigDeliveryAssumption DEF Configs, Hashes, Procs

LEMMA IdleType == Idle \in ProcState
  BY ConstantTypes DEF Idle, ProcState, Delivering, Around, Actions, Statuses, None

LEMMA RowType ==
    ASSUME TypeOK
    PROVE  /\ Len(deployments) \in Nat /\ DOMAIN deployments = 1 .. Len(deployments)
           /\ \A i \in DOMAIN deployments : deployments[i] \in Deployment
  BY DEF TypeOK

(* A process that moves keeps the type of the table of processes.            *)
LEMMA BecomeType ==
    ASSUME TypeOK, NEW p \in Procs, NEW s \in ProcState, Become(p, s)
    PROVE  proc' \in [Procs -> ProcState]
  BY DEF TypeOK, Become

LEMMA GotoType ==
    ASSUME TypeOK, NEW p \in Procs, NEW l \in Delivering \cup Around, Goto(p, l)
    PROVE  proc' \in [Procs -> ProcState]
  <1>1. [proc[p] EXCEPT !.at = l] \in ProcState
    BY DEF TypeOK, ProcState
  <1> QED BY <1>1, BecomeType DEF Goto

LEMMA ReturnType ==
    ASSUME TypeOK, NEW p \in Procs, Return(p)
    PROVE  proc' \in [Procs -> ProcState]
  BY IdleType, BecomeType DEF Return

LEMMA ReturnErrorType ==
    ASSUME TypeOK, NEW p \in Procs, ReturnError(p)
    PROVE  proc' \in [Procs -> ProcState]
  BY GotoType, ReturnType DEF ReturnError, Delivering, Around

LEMMA BeginType ==
    ASSUME TypeOK, NEW p \in Procs, NEW c \in Configs, NEW act \in Actions,
           NEW prev \in Configs \cup {None}, NEW source \in Nat,
           NEW approve \in BOOLEAN, NEW l \in Delivering \cup Around,
           Begin(p, c, act, prev, source, approve, l)
    PROVE  proc' \in [Procs -> ProcState]
  <1> DEFINE s == [Idle EXCEPT !.at = l, !.config = c, !.action = act, !.prev = prev,
                               !.source = source, !.approve = approve, !.hash = Hash[c]]
  <1>1. Hash[c] \in Hashes
    BY ConstantTypes
  <1>2. s \in ProcState
    BY <1>1, IdleType DEF ProcState
  <1> HIDE DEF s
  <1>3. Become(p, s)
    BY DEF Begin, s
  <1> QED BY <1>2, <1>3, BecomeType

LEMMA UpsertType ==
    ASSUME TypeOK, NEW c \in Configs, NEW s \in Statuses, Upsert(c, s)
    PROVE  /\ assigned' \in [Configs -> Statuses \cup {NoRow}]
           /\ updatedAt' \in [Configs -> Configs]
  <1>1. assigned' \in [Configs -> Statuses \cup {NoRow}]
    BY DEF TypeOK, Upsert
  <1>2. \A d \in Configs : updatedAt[d] \in Nat /\ 1 <= updatedAt[d] /\ updatedAt[d] <= NumConfigs
    <2>1. updatedAt \in [Configs -> Configs]
      BY DEF TypeOK
    <2>2. NumConfigs \in Nat
      BY ConfigDeliveryAssumption
    <2> QED BY <2>1, <2>2 DEF Configs
  <1>3. \A d \in Configs : Touch(c)[d] \in Configs
    BY <1>2, ConfigDeliveryAssumption, SMTT(30) DEF Touch, Configs
  <1>4. updatedAt' \in [Configs -> Configs]
    BY <1>3 DEF Upsert, Touch
  <1> QED BY <1>1, <1>4

LEMMA UpdateByAgentHashType ==
    ASSUME TypeOK, NEW h, NEW s \in Statuses, UpdateByAgentHash(h, s)
    PROVE  /\ assigned' \in [Configs -> Statuses \cup {NoRow}]
           /\ updatedAt' \in [Configs -> Configs]
  BY UpsertType DEF UpdateByAgentHash, assignments, TypeOK

(* A status update rewrites rows in place.                                   *)
LEMMA UpdateLatestType ==
    ASSUME TypeOK, NEW h, NEW s \in Statuses, UpdateLatestByAgentHash(h, s)
    PROVE  deployments' \in Seq(Deployment)
  <1> DEFINE n == Len(deployments)
  <1>1. n \in Nat /\ DOMAIN deployments = 1 .. n
    BY DEF TypeOK
  <1>2. \A i \in 1 .. n : deployments[i] \in Deployment
    BY DEF TypeOK
  <1>3. \A i \in 1 .. n : deployments'[i] \in Deployment
    BY <1>1, <1>2, ZenonT(30) DEF UpdateLatestByAgentHash, Deployment
  <1>4. deployments' \in [1 .. n -> Deployment]
    BY <1>1, <1>3 DEF UpdateLatestByAgentHash
  <1> QED BY <1>1, <1>4

LEMMA UpdateHistoryType ==
    ASSUME TypeOK, NEW h, NEW s \in Statuses, UpdateHistory(h, s)
    PROVE  deployments' \in Seq(Deployment) /\ faults' \in Nat
  BY UpdateLatestType DEF UpdateHistory, Fault, TypeOK

(* Appending to channels and inbox.                                          *)
LEMMA ForwardType ==
    ASSUME TypeOK, NEW content \in Hashes \cup {Local}, NEW status \in Seq(Report),
           Forward(status, content)
    PROVE  /\ reports' \in Seq(Report)
           /\ effective' \in Seq(Hashes \cup {Local})
           /\ known' \in Seq(Hashes \cup {Local})
  BY DEF TypeOK, Forward

LEMMA AgentAnswersType ==
    ASSUME TypeOK, NEW content \in Hashes \cup {Local},
           NEW status \in {"applying", "applied", "failed"},
           AgentAnswers(status, content),
           inbox' \in Seq(Hashes)
    PROVE  TypeOK'
  <1>1. Head(inbox) \in Hashes
    BY DEF TypeOK, AgentAnswers
  <1>2. lastReport' \in Seq(Report) /\ Len(lastReport') <= 1
    BY <1>1 DEF AgentAnswers, Report, Statuses
  <1>3. /\ reports' \in Seq(Report)
        /\ effective' \in Seq(Hashes \cup {Local})
        /\ known' \in Seq(Hashes \cup {Local})
    BY <1>2, ForwardType DEF TypeOK, AgentAnswers, Tell, channels
  <1> QED BY <1>2, <1>3 DEF TypeOK, AgentAnswers, assignments, counters, others

LEMMA InitType == Init => TypeOK
  <1> SUFFICES ASSUME Init PROVE TypeOK
    OBVIOUS
  <1>1. [p \in Procs |-> Idle] \in [Procs -> ProcState]
    BY IdleType
  <1> QED BY <1>1, ConstantTypes DEF Init, TypeOK, NoRow, Local

(* The entries of the handlers.                                              *)
LEMMA CallType ==
    ASSUME TypeOK, NEW p \in Callers, Call(p)
    PROVE  TypeOK'
  <1>0. p \in Procs
    BY DEF Procs
  <1>1. proc' \in [Procs -> ProcState]
    <2>1. PICK c \in Configs : DirectDeploy(p, c) \/ DirectRollback(p, c) \/ Approve(p, c)
      BY DEF Call
    <2> QED BY <1>0, <2>1, BeginType DEF DirectDeploy, DirectRollback, Approve, None,
              Actions, Delivering, Around
  <1>2. UNCHANGED <<assignments, deployments, agent, channels, counters>>
    BY DEF Call, DirectDeploy, DirectRollback, Approve
  <1> QED BY <1>1, <1>2 DEF TypeOK, assignments, agent, channels, counters, others

(* The deployment that attemptAutomaticRollback is about to claim exists and *)
(* has a previous configuration.                                             *)
CandidateOK ==
    \A p \in Procs : proc[p].at = "claim" =>
        /\ proc[p].candidate \in DOMAIN deployments
        /\ CanRollBack(deployments[proc[p].candidate])

(* The steps of a call, of its automatic rollback too.                       *)
LEMMA StepType ==
    ASSUME TypeOK, CandidateOK, NEW p \in Procs, Step(p)
    PROVE  TypeOK'
  <1> USE DEF assignments, agent, channels, counters, others
  <1>0. proc[p] \in ProcState
    BY DEF TypeOK
  <1>a. proc[p].config \in Configs /\ proc[p].hash \in Hashes /\ proc[p].outcome \in Statuses
    BY <1>0 DEF ProcState
  <1>1. CASE ReadPrevious(p)
    <2>1. proc' \in [Procs -> ProcState]
      <3>1. CASE Goto(p, "current")
        BY <3>1, GotoType DEF Delivering
      <3>2. ASSUME NEW i \in DOMAIN deployments,
                   Become(p, [proc[p] EXCEPT !.at = "current", !.prev = deployments[i].config])
            PROVE  proc' \in [Procs -> ProcState]
        <4>1. deployments[i].config \in Configs
          BY RowType DEF Deployment
        <4>2. [proc[p] EXCEPT !.at = "current", !.prev = deployments[i].config] \in ProcState
          BY <1>0, <4>1 DEF ProcState, Delivering
        <4> QED BY <3>2, <4>2, BecomeType
      <3> QED BY <1>1, <3>1, <3>2 DEF ReadPrevious
    <2> QED BY <1>1, <2>1 DEF TypeOK, ReadPrevious
  <1>2. CASE CheckCurrent(p)
    <2>1. proc' \in [Procs -> ProcState]
      BY <1>2, GotoType, ReturnErrorType DEF CheckCurrent, Delivering
    <2> QED BY <1>2, <2>1 DEF TypeOK, CheckCurrent
  <1>3. CASE CheckInProgress(p)
    <2>1. proc' \in [Procs -> ProcState]
      BY <1>3, GotoType, ReturnErrorType DEF CheckInProgress, Delivering
    <2> QED BY <1>3, <2>1 DEF TypeOK, CheckInProgress
  <1>4. CASE Create(p)
    <2>1. proc' \in [Procs -> ProcState]
      BY <1>4, GotoType DEF Create, Delivering
    <2>2. [config |-> proc[p].config, action |-> proc[p].action,
           prev |-> proc[p].prev, source |-> proc[p].source,
           claimed |-> FALSE, failedAt |-> FALSE, appliedAt |-> FALSE,
           status |-> "pending"] \in Deployment
      BY <1>0 DEF ProcState, Deployment, Statuses
    <2>3. deployments' \in Seq(Deployment)
      BY <1>4, <2>2 DEF TypeOK, Create
    <2> QED BY <1>4, <2>1, <2>3 DEF TypeOK, Create
  <1>5. CASE Assign(p)
    <2>1. proc' \in [Procs -> ProcState]
      BY <1>5, GotoType DEF Assign, Delivering
    <2> QED BY <1>5, <1>a, <2>1, UpsertType DEF TypeOK, Assign, Statuses
  <1>6. CASE AssignFails(p)
    <2>1. proc' \in [Procs -> ProcState]
      BY <1>6, GotoType DEF AssignFails, Delivering
    <2> QED BY <1>6, <2>1 DEF TypeOK, AssignFails, Fault
  <1>7. CASE MarkUnassigned(p)
    <2>1. proc' \in [Procs -> ProcState]
      BY <1>7, ReturnErrorType DEF MarkUnassigned
    <2>2. deployments' \in Seq(Deployment) /\ faults' \in Nat
      BY <1>7, UpdateHistoryType DEF MarkUnassigned, Statuses
    <2> QED BY <1>7, <2>1, <2>2 DEF TypeOK, MarkUnassigned
  <1>8. CASE Send(p)
    <2>1. \A s \in Statuses : [proc[p] EXCEPT !.at = "persist", !.outcome = s] \in ProcState
      BY <1>0 DEF ProcState, Delivering
    <2>2. proc' \in [Procs -> ProcState]
      BY <1>8, <2>1, BecomeType DEF Send, Outcome, Statuses
    <2>3. inbox' \in Seq(Hashes)
      <3>1. inbox \in Seq(Hashes)
        BY DEF TypeOK
      <3> QED BY <1>8, <1>a, <3>1 DEF Send
    <2> QED BY <1>8, <2>2, <2>3 DEF TypeOK, Send
  <1>9. CASE SendFails(p)
    <2>1. \A s \in Statuses : [proc[p] EXCEPT !.at = "persist", !.outcome = s] \in ProcState
      BY <1>0 DEF ProcState, Delivering
    <2>2. proc' \in [Procs -> ProcState]
      BY <1>9, <2>1, BecomeType DEF SendFails, Outcome, Statuses, Broken
    <2> QED BY <1>9, <2>2 DEF TypeOK, SendFails, Fault
  <1>10. CASE Persist(p)
    <2>1. proc' \in [Procs -> ProcState]
      BY <1>10, GotoType DEF Persist, Delivering
    <2> QED BY <1>10, <1>a, <2>1, UpsertType DEF TypeOK, Persist
  <1>11. CASE PersistFails(p)
    <2>1. proc' \in [Procs -> ProcState]
      BY <1>11, ReturnErrorType DEF PersistFails
    <2> QED BY <1>11, <2>1 DEF TypeOK, PersistFails, Fault
  <1>12. CASE Record(p)
    <2>1. proc' \in [Procs -> ProcState]
      BY <1>12, ReturnType, ReturnErrorType DEF Record
    <2>2. deployments' \in Seq(Deployment) /\ faults' \in Nat
      BY <1>12, <1>a, UpdateHistoryType DEF Record
    <2> QED BY <1>12, <2>1, <2>2 DEF TypeOK, Record
  <1>13. CASE FindFailed(p)
    <2>1. \A i \in Nat : [proc[p] EXCEPT !.at = "claim", !.candidate = i] \in ProcState
      BY <1>0 DEF ProcState, Around
    <2>2. DOMAIN deployments \subseteq Nat
      BY DEF TypeOK
    <2>3. proc' \in [Procs -> ProcState]
      BY <1>13, <2>1, <2>2, BecomeType, ReturnType DEF FindFailed
    <2> QED BY <1>13, <2>3 DEF TypeOK, FindFailed
  <1>14. CASE ClaimRollback(p)
    <2> DEFINE i == proc[p].candidate
    <2>1. i \in DOMAIN deployments /\ CanRollBack(deployments[i])
      BY <1>14 DEF CandidateOK, ClaimRollback
    <2>2. deployments[i] \in Deployment /\ i \in Nat
      BY <2>1, RowType
    <2>3. CASE AlreadyClaimed(i)
      BY <1>14, <2>3, ReturnType DEF TypeOK, ClaimRollback
    <2>4. CASE ~AlreadyClaimed(i)
      <3>1. deployments' = [deployments EXCEPT ![i].claimed = TRUE]
        BY <1>14, <2>4 DEF ClaimRollback
      <3>2. Begin(p, deployments[i].prev, "rollback", None, i, FALSE, "current")
        BY <1>14, <2>4 DEF ClaimRollback, RollbackTarget
      <3>3. deployments[i].prev \in Configs
        BY <2>1, <2>2 DEF CanRollBack, Deployment
      <3>4. proc' \in [Procs -> ProcState]
        BY <2>2, <3>2, <3>3, BeginType DEF Actions, None, Delivering
      <3>5. [deployments[i] EXCEPT !.claimed = TRUE] \in Deployment
        BY <2>2 DEF Deployment
      <3>6. deployments' \in Seq(Deployment)
        BY <2>1, <3>1, <3>5 DEF TypeOK
      <3> QED BY <1>14, <3>4, <3>6 DEF TypeOK, ClaimRollback
    <2> QED BY <2>3, <2>4
  <1>15. CASE Refused(p)
    <2>1. proc' \in [Procs -> ProcState]
      BY <1>15, ReturnErrorType, ReturnType DEF Refused
    <2> QED BY <1>15, <2>1 DEF TypeOK, Refused, Fault
  <1> QED BY <1>1, <1>2, <1>3, <1>4, <1>5, <1>6, <1>7, <1>8, <1>9, <1>10, <1>11, <1>12, <1>13,
             <1>14, <1>15 DEF Step

(* The loops, the agent, its connection and restarts.                        *)
LEMMA EnvironmentType ==
    ASSUME TypeOK,
           \/ TakeReport \/ RecordReport \/ TakeEffective
           \/ AgentApplies \/ AgentRejects \/ AgentApplying \/ LocalChange
           \/ Disconnect \/ Reconnect \/ Crash
    PROVE  TypeOK'
  <1> USE DEF assignments, agent, channels, counters, others
  <1>1. CASE TakeReport
    <2>0. reports \in Seq(Report) /\ reports # << >> /\ reports' = Tail(reports)
      BY <1>1 DEF TypeOK, TakeReport
    <2>a. Head(reports) \in Report /\ reports' \in Seq(Report)
      BY <2>0
    <2>1. /\ reports' \in Seq(Report)
          /\ Head(reports).hash \in Hashes /\ Head(reports).status \in Statuses
      BY <2>a DEF Report
    <2>2. [Idle EXCEPT !.at = "report", !.hash = Head(reports).hash,
                       !.outcome = Head(reports).status] \in ProcState
      BY <2>1, IdleType DEF ProcState, Around
    <2>3. proc' \in [Procs -> ProcState]
      BY <1>1, <2>2, BecomeType, ConstantTypes DEF TakeReport
    <2>4. /\ assigned' \in [Configs -> Statuses \cup {NoRow}]
          /\ updatedAt' \in [Configs -> Configs]
          /\ faults' \in Nat
      BY <1>1, <2>1, UpdateByAgentHashType DEF TypeOK, TakeReport, Fault
    <2> QED BY <1>1, <2>1, <2>3, <2>4 DEF TypeOK, TakeReport
  <1>2. CASE RecordReport
    <2>1. proc[ConfigLoop].outcome \in Statuses
      BY ConstantTypes DEF TypeOK, ProcState
    <2>2. proc' \in [Procs -> ProcState]
      BY <1>2, GotoType, ReturnType, ConstantTypes DEF RecordReport, Around
    <2>3. deployments' \in Seq(Deployment) /\ faults' \in Nat
      BY <1>2, <2>1, UpdateHistoryType DEF RecordReport
    <2> QED BY <1>2, <2>2, <2>3 DEF TypeOK, RecordReport
  <1>3. CASE TakeEffective
    <2>1. effective' \in Seq(Hashes \cup {Local})
      BY <1>3 DEF TypeOK, TakeEffective
    <2>2. proc' \in [Procs -> ProcState]
      BY <1>3, BeginType, ConstantTypes DEF TypeOK, TakeEffective, Actions, None, Delivering
    <2> QED BY <1>3, <2>1, <2>2 DEF TypeOK, TakeEffective
  <1>4. CASE AgentApplies
    <2>1. Head(inbox) \in Hashes /\ inbox' \in Seq(Hashes)
      BY <1>4 DEF TypeOK, AgentApplies, AgentAnswers
    <2> QED BY <1>4, <2>1, AgentAnswersType DEF AgentApplies
  <1>5. CASE AgentRejects
    <2>1. running \in Hashes \cup {Local} /\ inbox' \in Seq(Hashes)
      BY <1>5 DEF TypeOK, AgentRejects, AgentAnswers
    <2> QED BY <1>5, <2>1, AgentAnswersType DEF AgentRejects
  <1>6. CASE AgentApplying
    <2>1. running \in Hashes \cup {Local} /\ inbox' \in Seq(Hashes)
      BY <1>6 DEF TypeOK, AgentApplying
    <2> QED BY <1>6, <2>1, AgentAnswersType DEF AgentApplying
  <1>7. CASE LocalChange
    <2>1. << >> \in Seq(Report) /\ Local \in Hashes \cup {Local}
      OBVIOUS
    <2>2. CASE connected
      <3>1. Forward(<< >>, Local)
        BY <1>7, <2>2 DEF LocalChange, Tell
      <3>2. /\ reports' \in Seq(Report)
            /\ effective' \in Seq(Hashes \cup {Local})
            /\ known' \in Seq(Hashes \cup {Local})
        BY <2>1, <3>1, ForwardType
      <3> QED BY <1>7, <3>2 DEF TypeOK, LocalChange
    <2>3. CASE ~connected
      BY <1>7, <2>3 DEF TypeOK, LocalChange, Tell
    <2> QED BY <2>2, <2>3
  <1>8. CASE Disconnect
    <2>1. inbox' \in Seq(Hashes)
      <3>1. inbox \in Seq(Hashes) /\ << >> \in Seq(Hashes)
        BY DEF TypeOK
      <3>2. inbox' = inbox \/ inbox' = << >>
        BY <1>8 DEF Disconnect
      <3> QED BY <3>1, <3>2
    <2>2. faults' \in Nat
      BY <1>8 DEF TypeOK, Disconnect, Fault
    <2> QED BY <1>8, <2>1, <2>2 DEF TypeOK, Disconnect
  <1>9. CASE Reconnect
    <2>1. /\ reports' \in Seq(Report)
          /\ effective' \in Seq(Hashes \cup {Local})
          /\ known' \in Seq(Hashes \cup {Local})
      BY <1>9, ForwardType DEF TypeOK, Reconnect
    <2> QED BY <1>9, <2>1 DEF TypeOK, Reconnect
  <1>10. CASE Crash
    <2>1. inbox' \in Seq(Hashes)
      <3>1. inbox \in Seq(Hashes) /\ << >> \in Seq(Hashes)
        BY DEF TypeOK
      <3>2. inbox' = inbox \/ inbox' = << >>
        BY <1>10 DEF Crash
      <3> QED BY <3>1, <3>2
    <2>2. faults' \in Nat
      BY <1>10 DEF TypeOK, Crash, Fault
    <2>3. proc' \in [Procs -> ProcState]
      <3>1. proc' = [q \in Procs |-> Idle]
        BY <1>10 DEF Crash
      <3> QED BY <3>1, IdleType
    <2>4. /\ reports' \in Seq(Report)
          /\ effective' \in Seq(Hashes \cup {Local})
          /\ known' \in Seq(Hashes \cup {Local})
      BY <1>10 DEF Crash
    <2>5. UNCHANGED <<assigned, updatedAt, deployments, running, lastReport, localChanges>>
          /\ connected' \in BOOLEAN
      BY <1>10 DEF Crash
    <2>6. forgotten' \in Nat
      BY <1>10, RowType DEF Crash
    <2> QED BY <2>1, <2>2, <2>3, <2>4, <2>5, <2>6 DEF TypeOK
  <1> QED BY <1>1, <1>2, <1>3, <1>4, <1>5, <1>6, <1>7, <1>8, <1>9, <1>10
---------------------------------------------------------------------------
(* What a step does to the history.                                          *)

(* D grows into E: what HistoryKept says, of two histories.                  *)
Grows(D, E) ==
    /\ Len(D) \in Nat /\ Len(E) \in Nat /\ Len(D) <= Len(E)
    /\ DOMAIN D = 1 .. Len(D) /\ DOMAIN E = 1 .. Len(E)
    /\ \A i \in DOMAIN D :
          /\ E[i].config = D[i].config /\ E[i].action = D[i].action
          /\ E[i].prev = D[i].prev /\ E[i].source = D[i].source
          /\ D[i].claimed => E[i].claimed
          /\ D[i].failedAt => E[i].failedAt
          /\ D[i].appliedAt => E[i].appliedAt

(* The rows of E are those of D, and an applied one says when.               *)
Rewrites(D, E) ==
    /\ Grows(D, E) /\ Len(D) = Len(E)
    /\ \A i \in DOMAIN E : E[i].status = "applied" => E[i].appliedAt

LEMMA WorkedKept ==
    ASSUME NEW D, NEW E, Grows(D, E), NEW c, NEW n \in Nat, NEW m \in Nat, n <= m,
           Worked(c, n, D)
    PROVE  Worked(c, m, E)
  BY DEF Grows, Worked

LEMMA RestoresKept ==
    ASSUME NEW D, NEW E, Grows(D, E), NEW c, NEW i, Restores(c, i, D)
    PROVE  Restores(c, i, E)
  BY DEF Grows, Restores

LEMMA RowKept ==
    ASSUME NEW D, NEW E, Rewrites(D, E), NEW i \in DOMAIN D, RowGood(i, D)
    PROVE  RowGood(i, E)
  <1>1. /\ E[i].config = D[i].config /\ E[i].prev = D[i].prev /\ E[i].source = D[i].source
        /\ Grows(D, E) /\ i \in Nat /\ i \in DOMAIN E
    BY DEF Rewrites, Grows
  <1>2. E[i].prev # None => Worked(E[i].prev, i, E)
    BY <1>1, WorkedKept DEF RowGood
  <1>3. E[i].source # 0 => Restores(E[i].config, E[i].source, E)
    BY <1>1, RestoresKept DEF RowGood
  <1> QED BY <1>1, <1>2, <1>3 DEF RowGood, Rewrites

LEMMA ProcKept ==
    ASSUME NEW D, NEW E, Grows(D, E), NEW s, ProcGood(s, D)
    PROVE  ProcGood(s, E)
  <1>1. Len(D) + 1 \in Nat /\ Len(E) + 1 \in Nat /\ Len(D) + 1 <= Len(E) + 1
    BY DEF Grows
  <1>2. s.prev # None => Worked(s.prev, Len(E) + 1, E)
    BY <1>1, WorkedKept DEF ProcGood
  <1>3. s.source # 0 => Restores(s.config, s.source, E)
    BY RestoresKept DEF ProcGood
  <1>4. s.at = "claim" => s.candidate \in DOMAIN E /\ CanRollBack(E[s.candidate])
    BY DEF ProcGood, Grows, CanRollBack
  <1> QED BY <1>2, <1>3, <1>4 DEF ProcGood

LEMMA FreshKept ==
    ASSUME NEW D, NEW E, Rewrites(D, E), NEW s, Fresh(s, D)
    PROVE  Fresh(s, E)
  BY DEF Rewrites, Grows, Fresh

LEMMA SameRewrites ==
    ASSUME TypeOK, RollbackInv, UNCHANGED deployments
    PROVE  Rewrites(deployments, deployments')
  BY RowType DEF Rewrites, Grows, RollbackInv, RowGood

LEMMA UpdateRewrites ==
    ASSUME TypeOK, RollbackInv, NEW h, NEW s \in Statuses, UpdateLatestByAgentHash(h, s)
    PROVE  Rewrites(deployments, deployments')
  <1>1. /\ Len(deployments) \in Nat /\ DOMAIN deployments = 1 .. Len(deployments)
        /\ \A i \in DOMAIN deployments : deployments[i] \in Deployment
    BY RowType
  <1>2. DOMAIN deployments' = 1 .. Len(deployments) /\ Len(deployments') = Len(deployments)
    <2>1. DOMAIN deployments' = 1 .. Len(deployments)
      BY <1>1 DEF UpdateLatestByAgentHash
    <2>2. deployments' \in Seq(Deployment)
      BY UpdateLatestType
    <2> QED BY <1>1, <2>1, <2>2
  <1>3. ASSUME NEW i \in DOMAIN deployments
        PROVE  /\ deployments'[i].config = deployments[i].config
               /\ deployments'[i].action = deployments[i].action
               /\ deployments'[i].prev = deployments[i].prev
               /\ deployments'[i].source = deployments[i].source
               /\ deployments[i].claimed => deployments'[i].claimed
               /\ deployments[i].failedAt => deployments'[i].failedAt
               /\ deployments[i].appliedAt => deployments'[i].appliedAt
               /\ deployments'[i].status = "applied" => deployments'[i].appliedAt
    <2>1. deployments[i] \in Deployment
      BY <1>1
    <2>2. deployments[i].status = "applied" => deployments[i].appliedAt
      BY DEF RollbackInv, RowGood
    <2>3. CASE ~IsNewestOfHash(i, h)
      <3>1. deployments'[i] = deployments[i]
        BY <2>3 DEF UpdateLatestByAgentHash
      <3> QED BY <2>2, <3>1
    <2>4. CASE IsNewestOfHash(i, h)
      <3>1. deployments'[i] = [deployments[i] EXCEPT !.status = s,
                                    !.failedAt = @ \/ s \in Broken,
                                    !.appliedAt = @ \/ s = "applied"]
        BY <2>4 DEF UpdateLatestByAgentHash
      <3> QED BY <2>1, <3>1, ZenonT(30) DEF Deployment
    <2> QED BY <2>3, <2>4
  <1> QED BY <1>1, <1>2, <1>3 DEF Rewrites, Grows

LEMMA HistoryRewrites ==
    ASSUME TypeOK, RollbackInv, NEW h, NEW s \in Statuses, UpdateHistory(h, s)
    PROVE  Rewrites(deployments, deployments')
  BY UpdateRewrites, SameRewrites DEF UpdateHistory

LEMMA ClaimRewrites ==
    ASSUME TypeOK, RollbackInv, NEW i \in DOMAIN deployments,
           deployments' = [deployments EXCEPT ![i].claimed = TRUE]
    PROVE  /\ Rewrites(deployments, deployments')
           /\ deployments'[i].claimed
  <1>1. /\ Len(deployments) \in Nat /\ DOMAIN deployments = 1 .. Len(deployments)
        /\ \A k \in DOMAIN deployments : deployments[k] \in Deployment
    BY RowType
  <1>2. DOMAIN deployments' = DOMAIN deployments /\ Len(deployments') = Len(deployments)
    BY <1>1 DEF TypeOK
  <1>3. \A k \in DOMAIN deployments : k # i => deployments'[k] = deployments[k]
    OBVIOUS
  <1>4. deployments'[i] = [deployments[i] EXCEPT !.claimed = TRUE]
    OBVIOUS
  <1>5. \A k \in DOMAIN deployments : deployments[k].status = "applied" => deployments[k].appliedAt
    BY DEF RollbackInv, RowGood
  <1>6. /\ deployments'[i].config = deployments[i].config
        /\ deployments'[i].action = deployments[i].action
        /\ deployments'[i].prev = deployments[i].prev
        /\ deployments'[i].source = deployments[i].source
        /\ deployments'[i].claimed
        /\ deployments'[i].failedAt = deployments[i].failedAt
        /\ deployments'[i].appliedAt = deployments[i].appliedAt
        /\ deployments'[i].status = deployments[i].status
    BY <1>1, <1>4 DEF Deployment
  <1> QED BY <1>1, <1>2, <1>3, <1>5, <1>6 DEF Rewrites, Grows

---------------------------------------------------------------------------
(* The inductive step.                                                       *)

(* One process moves to a good state and the rows are only rewritten.        *)
LEMMA Frame ==
    ASSUME TypeOK, RollbackInv, Rewrites(deployments, deployments'),
           NEW p \in Procs, NEW s, Become(p, s),
           ProcGood(s, deployments'), Fresh(s, deployments'),
           Asks(s) => \A q \in Procs \ {p} : Asks(proc[q]) => proc[q].source # s.source
    PROVE  RollbackInv'
  <1>0. proc'[p] = s /\ \A q \in Procs \ {p} : proc'[q] = proc[q]
    BY DEF Become, TypeOK
  <1>1. DOMAIN deployments' = DOMAIN deployments /\ Grows(deployments, deployments')
    BY DEF Rewrites, Grows
  <1>2. \A i \in DOMAIN deployments' : RowGood(i, deployments')
    BY <1>1, RowKept DEF RollbackInv
  <1>3. ASSUME NEW q \in Procs
        PROVE  ProcGood(proc'[q], deployments') /\ Fresh(proc'[q], deployments')
    <2>1. CASE q = p
      BY <1>0, <2>1
    <2>2. CASE q # p
      <3>1. ProcGood(proc[q], deployments) /\ Fresh(proc[q], deployments)
        BY DEF RollbackInv
      <3>2. ProcGood(proc[q], deployments') /\ Fresh(proc[q], deployments')
        BY <1>1, <3>1, ProcKept, FreshKept
      <3> QED BY <1>0, <2>2, <3>2
    <2> QED BY <2>1, <2>2
  <1>4. AsksOnce'
    <2>1. SUFFICES ASSUME NEW q \in Procs, NEW r \in Procs, Asks(proc'[q]), Asks(proc'[r]),
                          proc'[q].source = proc'[r].source
                   PROVE  q = r
      BY DEF AsksOnce, Asks
    <2>2. CASE q # p /\ r # p
      BY <1>0, <2>1, <2>2 DEF RollbackInv, AsksOnce
    <2>3. CASE q = p \/ r = p
      BY <1>0, <2>1, <2>3
    <2> QED BY <2>2, <2>3
  <1>5. RollbackOnce'
    BY <1>1 DEF RollbackInv, RollbackOnce, Grows
  <1> QED BY <1>2, <1>3, <1>4, <1>5 DEF RollbackInv

(* A process that goes on keeps its request; one that stops has none.        *)
LEMMA FrameGoto ==
    ASSUME TypeOK, RollbackInv, Rewrites(deployments, deployments'),
           NEW p \in Procs, NEW l, Goto(p, l), l \notin {"claim", "previous"},
           l \in {"current", "progress", "create"} =>
               proc[p].at \in {"current", "progress", "create"} \/ proc[p].source = 0
    PROVE  RollbackInv'
  <1> DEFINE s == [proc[p] EXCEPT !.at = l]
  <1>0. proc[p] \in ProcState
    BY DEF TypeOK
  <1>1. s.at = l /\ s.prev = proc[p].prev /\ s.source = proc[p].source /\ s.config = proc[p].config
    BY <1>0 DEF ProcState
  <1>2. Become(p, s)
    BY DEF Goto
  <1> HIDE DEF s
  <1>3. ProcGood(proc[p], deployments') /\ Fresh(proc[p], deployments')
    BY ProcKept, FreshKept DEF RollbackInv, Rewrites
  <1>4. ProcGood(s, deployments')
    BY <1>1, <1>3 DEF ProcGood
  <1>5. Asks(s) => Asks(proc[p])
    BY <1>1 DEF Asks
  <1>6. Fresh(s, deployments')
    BY <1>1, <1>3, <1>5 DEF Fresh
  <1>7. Asks(s) => \A q \in Procs \ {p} : Asks(proc[q]) => proc[q].source # s.source
    BY <1>1, <1>5 DEF RollbackInv, AsksOnce
  <1> QED BY <1>2, <1>4, <1>6, <1>7, Frame

(* A state with no previous configuration and no source asks for nothing.    *)
LEMMA FrameBlank ==
    ASSUME TypeOK, RollbackInv, Rewrites(deployments, deployments'),
           NEW p \in Procs, NEW s, Become(p, s),
           s.at # "claim", s.prev = None, s.source = 0
    PROVE  RollbackInv'
  <1>1. ProcGood(s, deployments') /\ Fresh(s, deployments') /\ ~Asks(s)
    BY DEF ProcGood, Fresh, Asks
  <1> QED BY <1>1, Frame

LEMMA FrameReturn ==
    ASSUME TypeOK, RollbackInv, Rewrites(deployments, deployments'),
           NEW p \in Procs, Return(p)
    PROVE  RollbackInv'
  BY FrameBlank DEF Return, Idle

LEMMA FrameReturnError ==
    ASSUME TypeOK, RollbackInv, Rewrites(deployments, deployments'),
           NEW p \in Procs, ReturnError(p)
    PROVE  RollbackInv'
  BY FrameGoto, FrameReturn DEF ReturnError

LEMMA FrameBegin ==
    ASSUME TypeOK, RollbackInv, Rewrites(deployments, deployments'),
           NEW p \in Procs, NEW c, NEW act, NEW approve, NEW l, l # "claim",
           Begin(p, c, act, None, 0, approve, l)
    PROVE  RollbackInv'
  <1> DEFINE s == [Idle EXCEPT !.at = l, !.config = c, !.action = act, !.prev = None,
                               !.source = 0, !.approve = approve, !.hash = Hash[c]]
  <1>1. s.at = l /\ s.prev = None /\ s.source = 0
    BY DEF Idle
  <1>2. Become(p, s)
    BY DEF Begin
  <1> HIDE DEF s
  <1> QED BY <1>1, <1>2, FrameBlank

(* No process moves.                                                         *)
LEMMA FrameStill ==
    ASSUME RollbackInv, UNCHANGED <<deployments, proc>>
    PROVE  RollbackInv'
  BY DEF RollbackInv, RowGood, ProcGood, Fresh, Asks, AsksOnce, RollbackOnce, Worked,
         Restores, CanRollBack

LEMMA InitInv == Init => RollbackInv
  <1> SUFFICES ASSUME Init PROVE RollbackInv
    OBVIOUS
  <1>1. DOMAIN deployments = {}
    BY DEF Init
  <1>2. \A p \in Procs : proc[p] = Idle
    BY DEF Init
  <1>3. Idle.at = "idle" /\ Idle.prev = None /\ Idle.source = 0
    BY DEF Idle
  <1> QED BY <1>1, <1>2, <1>3 DEF RollbackInv, ProcGood, Fresh, Asks, AsksOnce, RollbackOnce

LEMMA CallInv ==
    ASSUME TypeOK, RollbackInv, NEW p \in Callers, Call(p)
    PROVE  RollbackInv'
  <1>1. PICK c \in Configs : DirectDeploy(p, c) \/ DirectRollback(p, c) \/ Approve(p, c)
    BY DEF Call
  <1>2. p \in Procs /\ UNCHANGED deployments
    BY <1>1 DEF Procs, DirectDeploy, DirectRollback, Approve
  <1>3. Rewrites(deployments, deployments')
    BY <1>2, SameRewrites
  <1> QED BY <1>1, <1>2, <1>3, FrameBegin DEF DirectDeploy, DirectRollback, Approve

(* The newest applied deployment becomes the previous configuration.         *)
LEMMA ReadPreviousInv ==
    ASSUME TypeOK, RollbackInv, NEW p \in Procs, ReadPrevious(p)
    PROVE  RollbackInv'
  <1>0. Rewrites(deployments, deployments') /\ deployments' = deployments
    BY SameRewrites DEF ReadPrevious
  <1>1. proc[p].source = 0 /\ proc[p] \in ProcState
    BY DEF RollbackInv, ProcGood, ReadPrevious, TypeOK
  <1>2. CASE Goto(p, "current")
    BY <1>0, <1>1, <1>2, FrameGoto
  <1>3. ASSUME NEW i \in DOMAIN deployments, Successful(deployments[i]),
               Become(p, [proc[p] EXCEPT !.at = "current", !.prev = deployments[i].config])
        PROVE  RollbackInv'
    <2> DEFINE s == [proc[p] EXCEPT !.at = "current", !.prev = deployments[i].config]
    <2>1. s.at = "current" /\ s.prev = deployments[i].config /\ s.source = 0
      BY <1>1 DEF ProcState
    <2>2. deployments[i].appliedAt /\ i < Len(deployments) + 1
      BY <1>3, RowType DEF RollbackInv, RowGood, Successful
    <2>3. Become(p, s)
      BY <1>3
    <2> HIDE DEF s
    <2>4. Worked(s.prev, Len(deployments) + 1, deployments)
      BY <2>1, <2>2 DEF Worked
    <2>5. ProcGood(s, deployments') /\ Fresh(s, deployments') /\ ~Asks(s)
      BY <1>0, <2>1, <2>4 DEF ProcGood, Fresh, Asks
    <2> QED BY <1>0, <2>3, <2>5, Frame
  <1> QED BY <1>2, <1>3 DEF ReadPrevious

(* A call that asks for a rollback turns into the row it asks for.           *)
LEMMA CreateInv ==
    ASSUME TypeOK, RollbackInv, NEW p \in Procs, Create(p)
    PROVE  RollbackInv' /\ Grows(deployments, deployments')
  <1> DEFINE D == deployments
             E == deployments'
             n == Len(deployments)
             d == [config |-> proc[p].config, action |-> proc[p].action,
                   prev |-> proc[p].prev, source |-> proc[p].source,
                   claimed |-> FALSE, failedAt |-> FALSE, appliedAt |-> FALSE,
                   status |-> "pending"]
             s == [proc[p] EXCEPT !.at = "assign"]
  <1>0. proc[p] \in ProcState /\ proc[p].at = "create"
    BY DEF TypeOK, Create
  <1>1. /\ d.config = proc[p].config /\ d.prev = proc[p].prev
        /\ d.source = proc[p].source /\ d.status = "pending"
    OBVIOUS
  <1>2. E = Append(deployments, d) /\ proc' = [proc EXCEPT ![p] = s]
    BY DEF Create, Goto, Become
  <1>3. s.at = "assign" /\ s.prev = proc[p].prev /\ s.source = proc[p].source
        /\ s.config = proc[p].config
    BY <1>0 DEF ProcState
  <1>4. proc'[p] = s /\ \A q \in Procs \ {p} : proc'[q] = proc[q]
    BY <1>2 DEF TypeOK
  <1> HIDE DEF d, s
  <1>5. /\ n \in Nat /\ DOMAIN D = 1 .. n
        /\ DOMAIN E = 1 .. (n + 1) /\ Len(E) = n + 1 /\ E[n + 1] = d
        /\ \A i \in 1 .. n : E[i] = D[i]
    BY <1>2 DEF TypeOK
  <1> HIDE DEF E
  <1>6. Grows(D, E)
    BY <1>5 DEF Grows
  <1>7. ProcGood(proc[p], E)
    BY <1>6, ProcKept DEF RollbackInv
  <1>8. \A i \in DOMAIN E : RowGood(i, E)
    <2>1. ASSUME NEW i \in 1 .. n
          PROVE  RowGood(i, E)
      <3>1. RowGood(i, D) /\ i \in Nat /\ E[i] = D[i]
        BY <1>5 DEF RollbackInv
      <3>2. E[i].prev # None => Worked(E[i].prev, i, E)
        BY <1>6, <3>1, WorkedKept DEF RowGood
      <3>3. E[i].source # 0 => Restores(E[i].config, E[i].source, E)
        BY <1>6, <3>1, RestoresKept DEF RowGood
      <3> QED BY <3>1, <3>2, <3>3 DEF RowGood
    <2>2. RowGood(n + 1, E)
      <3>1. E[n + 1].prev # None => Worked(E[n + 1].prev, n + 1, E)
        <4>1. ProcGood(proc[p], D)
          BY DEF RollbackInv
        <4>2. d.prev # None => Worked(d.prev, n + 1, D)
          BY <1>1, <4>1 DEF ProcGood
        <4> QED BY <1>5, <1>6, <4>2, WorkedKept
      <3>2. E[n + 1].source # 0 => Restores(E[n + 1].config, E[n + 1].source, E)
        BY <1>1, <1>5, <1>7 DEF ProcGood
      <3> QED BY <1>1, <1>5, <3>1, <3>2 DEF RowGood
    <2> QED BY <1>5, <2>1, <2>2
  <1>9. Asks(proc[p]) <=> d.source # 0
    BY <1>0, <1>1 DEF Asks
  <1>10. ASSUME NEW q \in Procs
         PROVE  ProcGood(proc'[q], E) /\ Fresh(proc'[q], E)
    <2>1. CASE q = p
      <3>1. ProcGood(s, E)
        BY <1>3, <1>7 DEF ProcGood
      <3>2. Fresh(s, E)
        BY <1>3 DEF Fresh, Asks
      <3> QED BY <1>4, <2>1, <3>1, <3>2
    <2>2. CASE q # p
      <3>1. ProcGood(proc[q], D) /\ Fresh(proc[q], D) /\ AsksOnce
        BY DEF RollbackInv
      <3>2. ProcGood(proc[q], E)
        BY <1>6, <3>1, ProcKept
      <3>3. Asks(proc[q]) => d.source # proc[q].source
        BY <1>1, <1>9, <2>2, <3>1 DEF AsksOnce, Asks
      <3>4. Fresh(proc[q], E)
        BY <1>5, <3>1, <3>3 DEF Fresh
      <3> QED BY <1>4, <2>2, <3>2, <3>4
    <2> QED BY <2>1, <2>2
  <1>11. AsksOnce'
    <2>1. ~Asks(s)
      BY <1>3 DEF Asks
    <2> QED BY <1>4, <2>1 DEF RollbackInv, AsksOnce, Asks
  <1>12. RollbackOnce'
    <2>1. d.source # 0 => \A i \in 1 .. n : D[i].source # d.source
      <3>1. Fresh(proc[p], D)
        BY DEF RollbackInv
      <3> QED BY <1>1, <1>5, <1>9, <3>1 DEF Fresh
    <2>2. \A i, j \in 1 .. n : D[i].source # 0 /\ D[i].source = D[j].source => i = j
      BY <1>5 DEF RollbackInv, RollbackOnce
    <2>3. \A i, j \in DOMAIN E : E[i].source # 0 /\ E[i].source = E[j].source => i = j
      BY <1>5, <2>1, <2>2
    <2> QED BY <2>3 DEF RollbackOnce, E
  <1>13. RollbackInv'
    BY <1>8, <1>10, <1>11, <1>12 DEF RollbackInv, E
  <1> QED BY <1>6, <1>13 DEF E

(* The attempt to roll back exists and has a previous configuration.         *)
LEMMA FindFailedInv ==
    ASSUME TypeOK, RollbackInv, NEW p \in Procs, FindFailed(p)
    PROVE  RollbackInv'
  <1>0. Rewrites(deployments, deployments') /\ deployments' = deployments
    BY SameRewrites DEF FindFailed
  <1>1. CASE Return(p)
    BY <1>0, <1>1, FrameReturn
  <1>2. ASSUME NEW i \in DOMAIN deployments, CanRollBack(deployments[i]),
               Become(p, [proc[p] EXCEPT !.at = "claim", !.candidate = i])
        PROVE  RollbackInv'
    <2> DEFINE s == [proc[p] EXCEPT !.at = "claim", !.candidate = i]
    <2>1. /\ s.at = "claim" /\ s.candidate = i /\ s.prev = proc[p].prev
          /\ s.source = proc[p].source /\ s.config = proc[p].config
      BY DEF TypeOK, ProcState
    <2>2. Become(p, s)
      BY <1>2
    <2> HIDE DEF s
    <2>3. ProcGood(proc[p], deployments)
      BY DEF RollbackInv
    <2>4. ProcGood(s, deployments') /\ Fresh(s, deployments') /\ ~Asks(s)
      BY <1>0, <1>2, <2>1, <2>3 DEF ProcGood, Fresh, Asks
    <2> QED BY <1>0, <2>2, <2>4, Frame
  <1> QED BY <1>1, <1>2 DEF FindFailed

(* A claim that finds the column null is the first one of its deployment.    *)
LEMMA ClaimRollbackInv ==
    ASSUME TypeOK, RollbackInv, NEW p \in Procs, ClaimRollback(p)
    PROVE  RollbackInv' /\ Rewrites(deployments, deployments')
  <1> DEFINE i == proc[p].candidate
  <1>1. i \in DOMAIN deployments /\ CanRollBack(deployments[i])
    BY DEF RollbackInv, ProcGood, ClaimRollback
  <1>2. CASE AlreadyClaimed(i)
    BY <1>2, SameRewrites, FrameReturn DEF ClaimRollback
  <1>3. CASE ~AlreadyClaimed(i)
    <2> DEFINE c == deployments[i].prev
               s == [Idle EXCEPT !.at = "current", !.config = c, !.action = "rollback",
                                 !.prev = None, !.source = i, !.approve = FALSE,
                                 !.hash = Hash[c]]
    <2>1. deployments' = [deployments EXCEPT ![i].claimed = TRUE]
      BY <1>3 DEF ClaimRollback
    <2>2. Rewrites(deployments, deployments') /\ deployments'[i].claimed
      BY <1>1, <2>1, ClaimRewrites
    <2>3. Become(p, s)
      BY <1>3 DEF ClaimRollback, Begin, RollbackTarget
    <2>4. s.at = "current" /\ s.prev = None /\ s.source = i /\ s.config = c
      BY DEF Idle
    <2> HIDE DEF s
    <2>5. Restores(c, i, deployments')
      BY <1>1, <2>2 DEF Restores, CanRollBack, Rewrites, Grows
    <2>6. ProcGood(s, deployments')
      BY <2>4, <2>5 DEF ProcGood
    <2>7. ~deployments[i].claimed
      BY <1>3 DEF AlreadyClaimed
    <2>8. \A k \in DOMAIN deployments' : deployments'[k].source # i
      <3>1. \A k \in DOMAIN deployments : deployments[k].source # i
        BY <1>1, <2>7, RowType DEF RollbackInv, RowGood, Restores
      <3> QED BY <2>2, <3>1 DEF Rewrites, Grows
    <2>9. Fresh(s, deployments')
      BY <2>4, <2>8 DEF Fresh
    <2>10. \A q \in Procs : Asks(proc[q]) => proc[q].source # i
      BY <2>7 DEF RollbackInv, ProcGood, Restores, Asks
    <2> QED BY <2>2, <2>3, <2>4, <2>6, <2>9, <2>10, Frame
  <1> QED BY <1>2, <1>3

(* The steps of a call.                                                      *)
LEMMA StepInv ==
    ASSUME TypeOK, RollbackInv, NEW p \in Procs, Step(p)
    PROVE  RollbackInv' /\ Grows(deployments, deployments')
  <1> USE DEF Rewrites
  <1>0. proc[p].hash \in Hashes /\ proc[p].outcome \in Statuses
    BY DEF TypeOK, ProcState
  <1>1. CASE ReadPrevious(p)
    BY <1>1, ReadPreviousInv, SameRewrites DEF ReadPrevious
  <1>2. CASE CheckCurrent(p)
    BY <1>2, SameRewrites, FrameReturnError, FrameGoto DEF CheckCurrent
  <1>3. CASE CheckInProgress(p)
    BY <1>3, SameRewrites, FrameReturnError, FrameGoto DEF CheckInProgress
  <1>4. CASE Create(p)
    BY <1>4, CreateInv
  <1>5. CASE Assign(p)
    BY <1>5, SameRewrites, FrameGoto DEF Assign
  <1>6. CASE AssignFails(p)
    BY <1>6, SameRewrites, FrameGoto DEF AssignFails
  <1>7. CASE MarkUnassigned(p)
    <2>1. Rewrites(deployments, deployments')
      BY <1>7, HistoryRewrites DEF MarkUnassigned, Statuses
    <2> QED BY <1>7, <2>1, FrameReturnError DEF MarkUnassigned
  <1>8. CASE Send(p) \/ SendFails(p)
    <2>1. PICK s \in Statuses : Outcome(p, s)
      BY <1>8 DEF Send, SendFails, Statuses, Broken
    <2>2. Rewrites(deployments, deployments')
      BY <1>8, SameRewrites DEF Send, SendFails
    <2> DEFINE t == [proc[p] EXCEPT !.at = "persist", !.outcome = s]
    <2>3. /\ t.at = "persist" /\ t.prev = proc[p].prev
          /\ t.source = proc[p].source /\ t.config = proc[p].config
      BY DEF TypeOK, ProcState
    <2>4. Become(p, t)
      BY <2>1 DEF Outcome
    <2> HIDE DEF t
    <2>5. ProcGood(proc[p], deployments')
      BY <2>2, ProcKept DEF RollbackInv
    <2>6. ProcGood(t, deployments') /\ Fresh(t, deployments') /\ ~Asks(t)
      BY <2>3, <2>5 DEF ProcGood, Fresh, Asks
    <2> QED BY <2>2, <2>4, <2>6, Frame
  <1>9. CASE Persist(p)
    BY <1>9, SameRewrites, FrameGoto DEF Persist
  <1>10. CASE PersistFails(p)
    BY <1>10, SameRewrites, FrameReturnError DEF PersistFails
  <1>11. CASE Record(p)
    <2>1. Rewrites(deployments, deployments')
      BY <1>0, <1>11, HistoryRewrites DEF Record
    <2> QED BY <1>11, <2>1, FrameReturn, FrameReturnError DEF Record
  <1>12. CASE FindFailed(p)
    BY <1>12, FindFailedInv, SameRewrites DEF FindFailed
  <1>13. CASE ClaimRollback(p)
    BY <1>13, ClaimRollbackInv
  <1>14. CASE Refused(p)
    BY <1>14, SameRewrites, FrameReturn, FrameReturnError DEF Refused
  <1> QED BY <1>1, <1>2, <1>3, <1>4, <1>5, <1>6, <1>7, <1>8, <1>9, <1>10, <1>11, <1>12, <1>13,
             <1>14 DEF Step

(* The loops, the agent, its connection and restarts.                        *)
LEMMA EnvironmentInv ==
    ASSUME TypeOK, RollbackInv,
           \/ TakeReport \/ RecordReport \/ TakeEffective
           \/ AgentApplies \/ AgentRejects \/ AgentApplying \/ LocalChange
           \/ Disconnect \/ Reconnect \/ Crash
    PROVE  RollbackInv' /\ Grows(deployments, deployments')
  <1> USE DEF Rewrites
  <1>1. CASE TakeReport
    <2> DEFINE s == [Idle EXCEPT !.at = "report", !.hash = Head(reports).hash,
                                 !.outcome = Head(reports).status]
    <2>1. s.at = "report" /\ s.prev = None /\ s.source = 0
      BY DEF Idle
    <2>2. Become(ConfigLoop, s) /\ UNCHANGED deployments
      BY <1>1 DEF TakeReport
    <2> HIDE DEF s
    <2> QED BY <2>1, <2>2, SameRewrites, FrameBlank, ConstantTypes
  <1>2. CASE RecordReport
    <2>1. proc[ConfigLoop].outcome \in Statuses
      BY ConstantTypes DEF TypeOK, ProcState
    <2>2. Rewrites(deployments, deployments')
      BY <1>2, <2>1, HistoryRewrites DEF RecordReport
    <2> QED BY <1>2, <2>2, FrameReturn, FrameGoto, ConstantTypes DEF RecordReport
  <1>3. CASE TakeEffective
    <2>1. Rewrites(deployments, deployments')
      BY <1>3, SameRewrites DEF TakeEffective
    <2> QED BY <1>3, <2>1, FrameBegin, FrameStill, ConstantTypes DEF TakeEffective
  <1>4. CASE AgentApplies \/ AgentRejects \/ AgentApplying \/ LocalChange \/ Disconnect \/ Reconnect
    <2>1. UNCHANGED <<deployments, proc>>
      BY <1>4 DEF AgentApplies, AgentRejects, AgentApplying, AgentAnswers, LocalChange,
                  Disconnect, Reconnect
    <2> QED BY <2>1, SameRewrites, FrameStill
  <1>5. CASE Crash
    <2>1. /\ deployments' = deployments
          /\ \A p \in Procs : proc'[p] = Idle
      BY <1>5 DEF Crash
    <2>2. Idle.at = "idle" /\ Idle.prev = None /\ Idle.source = 0
      BY DEF Idle
    <2>3. \A i \in DOMAIN deployments' : RowGood(i, deployments')
      BY <2>1 DEF RollbackInv
    <2>4. RollbackOnce'
      BY <2>1 DEF RollbackInv, RollbackOnce
    <2>5. RollbackInv'
      BY <2>1, <2>2, <2>3, <2>4 DEF RollbackInv, ProcGood, Fresh, Asks, AsksOnce
    <2>6. Grows(deployments, deployments')
      BY <2>1, SameRewrites
    <2> QED BY <2>5, <2>6
  <1> QED BY <1>1, <1>2, <1>3, <1>4, <1>5

---------------------------------------------------------------------------
(* The theorems.                                                             *)

LEMMA NextInv ==
    ASSUME TypeOK, RollbackInv, Next
    PROVE  TypeOK' /\ RollbackInv' /\ Grows(deployments, deployments')
  <1>0. CandidateOK
    BY DEF RollbackInv, ProcGood, CandidateOK
  <1>1. ASSUME NEW p \in Callers, Call(p)
        PROVE  TypeOK' /\ RollbackInv' /\ Grows(deployments, deployments')
    <2>1. UNCHANGED deployments
      BY <1>1 DEF Call, DirectDeploy, DirectRollback, Approve
    <2> QED BY <1>1, <2>1, CallType, CallInv, SameRewrites DEF Rewrites
  <1>2. ASSUME NEW p \in Procs, Step(p)
        PROVE  TypeOK' /\ RollbackInv' /\ Grows(deployments, deployments')
    BY <1>0, <1>2, StepType, StepInv
  <1>3. CASE \/ TakeReport \/ RecordReport \/ TakeEffective
             \/ AgentApplies \/ AgentRejects \/ AgentApplying \/ LocalChange
             \/ Disconnect \/ Reconnect \/ Crash
    BY <1>3, EnvironmentType, EnvironmentInv
  <1> QED BY <1>1, <1>2, <1>3 DEF Next

(* Nothing changes in a stuttering step.                                     *)
LEMMA StutterInv ==
    ASSUME TypeOK, RollbackInv, UNCHANGED vars
    PROVE  TypeOK' /\ RollbackInv' /\ Grows(deployments, deployments')
  <1>1. UNCHANGED <<deployments, proc>>
    BY DEF vars
  <1>2. TypeOK'
    BY DEF TypeOK, vars, assignments, agent, channels, counters, others
  <1> QED BY <1>1, <1>2, SameRewrites, FrameStill DEF Rewrites

(* In every reachable state of deliveries to an agent, for any number of     *)
(* handlers, versions, faults and rows, the rows, the calls and the channels *)
(* have their types and the rollback invariant holds.                        *)
THEOREM DeliveryInvariant == Spec => [](TypeOK /\ RollbackInv)
  <1>1. Init => TypeOK /\ RollbackInv
    BY InitType, InitInv
  <1>2. TypeOK /\ RollbackInv /\ [Next]_vars => (TypeOK /\ RollbackInv)'
    BY NextInv, StutterInv
  <1> QED BY <1>1, <1>2, PTL DEF Spec

(* A failed deployment is answered by at most one automatic rollback, however *)
(* many handlers and loops attempt it and wherever the server restarts.      *)
THEOREM OneRollbackEach == Spec => []RollbackOnce
  <1>1. TypeOK /\ RollbackInv => RollbackOnce
    BY DEF RollbackInv
  <1> QED BY <1>1, DeliveryInvariant, PTL

(* Every automatic rollback restores a configuration that the agent had      *)
(* applied before the deployment that is rolled back was recorded.           *)
THEOREM RollbackTargetsWork == Spec => []RollbackRestoresWorking
  <1>1. TypeOK /\ RollbackInv => RollbackRestoresWorking
    <2> SUFFICES ASSUME TypeOK, RollbackInv, NEW i \in DOMAIN deployments,
                        deployments[i].source # 0
                 PROVE  \E j \in DOMAIN deployments :
                            /\ j < deployments[i].source
                            /\ deployments[j].appliedAt
                            /\ deployments[j].config = deployments[i].config
      BY DEF RollbackRestoresWorking
    <2>1. Restores(deployments[i].config, deployments[i].source, deployments)
      BY DEF RollbackInv, RowGood
    <2>2. Worked(deployments[i].config, deployments[i].source, deployments)
      BY <2>1 DEF RollbackInv, RowGood, Restores
    <2> QED BY <2>2 DEF Worked
  <1> QED BY <1>1, DeliveryInvariant, PTL

(* The history of deployments only grows: rows keep what identifies them and *)
(* the claim, failure and success times are never taken back.                *)
THEOREM HistoryGrows == Spec => HistoryAppendOnly
  <1>1. TypeOK /\ RollbackInv /\ [Next]_vars => [HistoryKept]_vars
    <2> SUFFICES ASSUME TypeOK, RollbackInv, [Next]_vars
                 PROVE  HistoryKept
      OBVIOUS
    <2>1. Grows(deployments, deployments')
      BY NextInv, StutterInv
    <2> QED BY <2>1 DEF Grows, HistoryKept
  <1> QED BY <1>1, DeliveryInvariant, PTL DEF Spec, HistoryAppendOnly


---------------------------------------------------------------------------
(* What is offered is on record, and a reconciliation repeats.  Behind both *)
(* is that a configuration has an assignment only after somebody deployed   *)
(* it or rolled back to it.                                                 *)

Introduced(c, D) == \E i \in DOMAIN D : D[i].action # "reconcile" /\ D[i].config = c
Held(h, A) == \E c \in Configs : A[c] # NoRow /\ Hash[c] = h

CallGood(s, D, A) ==
    /\ s.at \in Delivering \cup {"previous"} =>
          /\ s.hash = Hash[s.config]
          /\ s.action = "reconcile" => Introduced(s.config, D)
    /\ s.at = "assign" => Introduced(s.config, D)
    /\ s.at \in {"send", "persist"} => A[s.config] # NoRow

AssignedIntroduced == \A c \in Configs : assigned[c] # NoRow => Introduced(c, deployments)
OfferedHeld == /\ running \in Hashes => Held(running, assigned)
               /\ \A k \in DOMAIN inbox : Held(inbox[k], assigned)

OfferInv ==
    /\ AssignedIntroduced /\ OfferedHeld /\ ReconcileNeverIntroduces
    /\ \A p \in Procs : CallGood(proc[p], deployments, assigned)

Assigns(A, B) == \A c \in Configs : A[c] # NoRow => B[c] # NoRow

LEMMA CallKept ==
    ASSUME NEW D, NEW E, Grows(D, E), NEW A, NEW B, Assigns(A, B),
           NEW s, s.config \in Configs, CallGood(s, D, A)
    PROVE  CallGood(s, E, B)
  <1>1. Introduced(s.config, D) => Introduced(s.config, E)
    BY DEF Introduced, Grows
  <1> QED BY <1>1 DEF CallGood, Assigns

LEMMA IntroducedKept ==
    ASSUME NEW D, NEW E, Grows(D, E), NEW c, Introduced(c, D)
    PROVE  Introduced(c, E)
  BY DEF Introduced, Grows

LEMMA UpsertAssigns ==
    ASSUME TypeOK, NEW c \in Configs, NEW s \in Statuses, Upsert(c, s)
    PROVE  /\ Assigns(assigned, assigned') /\ assigned'[c] # NoRow
           /\ \A d \in Configs \ {c} : assigned'[d] = assigned[d]
  <1>1. NoRow \notin Statuses
    BY DEF NoRow, Statuses
  <1>2. \A d \in Configs : assigned'[d] = IF d = c THEN s ELSE assigned[d]
    BY DEF TypeOK, Upsert
  <1> QED BY <1>1, <1>2 DEF Assigns

LEMMA SameOffered ==
    ASSUME OfferedHeld, Assigns(assigned, assigned'), UNCHANGED <<running, inbox>>
    PROVE  OfferedHeld'
  BY DEF OfferedHeld, Held, Assigns

LEMMA SameIntroduced ==
    ASSUME AssignedIntroduced, Grows(deployments, deployments'), UNCHANGED assigned
    PROVE  AssignedIntroduced'
  BY IntroducedKept DEF AssignedIntroduced

LEMMA SameRepeats ==
    ASSUME ReconcileNeverIntroduces, Grows(deployments, deployments'),
           DOMAIN deployments' = DOMAIN deployments
    PROVE  ReconcileNeverIntroduces'
  BY DEF ReconcileNeverIntroduces, Grows

(* One process moves, to a good call.                                       *)
LEMMA OfferFrame ==
    ASSUME TypeOK, OfferInv, Grows(deployments, deployments'), Assigns(assigned, assigned'),
           NEW p \in Procs, NEW s, Become(p, s), CallGood(s, deployments', assigned'),
           AssignedIntroduced', OfferedHeld', ReconcileNeverIntroduces'
    PROVE  OfferInv'
  <1>1. proc'[p] = s /\ \A q \in Procs \ {p} : proc'[q] = proc[q]
    BY DEF Become, TypeOK
  <1>2. \A q \in Procs : proc[q].config \in Configs
    BY DEF TypeOK, ProcState
  <1>3. \A q \in Procs : CallGood(proc'[q], deployments', assigned')
    BY <1>1, <1>2, CallKept DEF OfferInv
  <1> QED BY <1>3 DEF OfferInv

(* ... while it offers nothing, assigns nothing and adds no row.            *)
LEMMA OfferMoves ==
    ASSUME TypeOK, OfferInv, Grows(deployments, deployments'),
           DOMAIN deployments' = DOMAIN deployments, UNCHANGED <<assigned, running, inbox>>,
           NEW p \in Procs, NEW s, Become(p, s), CallGood(s, deployments', assigned')
    PROVE  OfferInv'
  <1>1. Assigns(assigned, assigned')
    BY DEF Assigns
  <1> QED BY <1>1, OfferFrame, SameOffered, SameIntroduced, SameRepeats DEF OfferInv

Outside == {"idle", "report", "find", "claim"}

LEMMA OutsideGood ==
    ASSUME NEW s, s.at \in Outside, NEW D, NEW A
    PROVE  CallGood(s, D, A)
  BY DEF CallGood, Outside, Delivering

LEMMA IdleOutside == Idle.at \in Outside
  BY DEF Idle, Outside

(* A call that goes on is as good as it was, where nothing more is asked.   *)
LEMMA GotoGood ==
    ASSUME TypeOK, OfferInv, Grows(deployments, deployments'), Assigns(assigned, assigned'),
           NEW p \in Procs, NEW l, Goto(p, l),
           l \in Outside \/ proc[p].at \in Delivering \cup {"previous"},
           l = "assign" => Introduced(proc[p].config, deployments'),
           l \in {"send", "persist"} => assigned'[proc[p].config] # NoRow
    PROVE  \E s : Become(p, s) /\ CallGood(s, deployments', assigned')
  <1> DEFINE s == [proc[p] EXCEPT !.at = l]
  <1>1. /\ s.at = l /\ s.config = proc[p].config /\ s.hash = proc[p].hash
        /\ s.action = proc[p].action /\ proc[p].config \in Configs
    BY DEF TypeOK, ProcState
  <1>2. Become(p, s)
    BY DEF Goto
  <1> HIDE DEF s
  <1>3. CallGood(proc[p], deployments', assigned')
    BY <1>1, CallKept DEF OfferInv
  <1>4. CASE l \in Outside
    BY <1>1, <1>2, <1>4, OutsideGood
  <1>5. CASE proc[p].at \in Delivering \cup {"previous"}
    <2>1. CallGood(s, deployments', assigned')
      BY <1>1, <1>3, <1>5 DEF CallGood
    <2> QED BY <1>2, <2>1
  <1> QED BY <1>4, <1>5

LEMMA ReturnGood ==
    ASSUME NEW p \in Procs, Return(p)
    PROVE  \E s : Become(p, s) /\ CallGood(s, deployments', assigned')
  BY OutsideGood, IdleOutside DEF Return

LEMMA ReturnErrorGood ==
    ASSUME TypeOK, OfferInv, Grows(deployments, deployments'), Assigns(assigned, assigned'),
           NEW p \in Procs, ReturnError(p)
    PROVE  \E s : Become(p, s) /\ CallGood(s, deployments', assigned')
  BY GotoGood, ReturnGood DEF ReturnError, Outside

LEMMA BeginGood ==
    ASSUME NEW p \in Procs, NEW c \in Configs, NEW act, NEW prev, NEW source, NEW approve,
           NEW l \in {"current", "previous"}, Begin(p, c, act, prev, source, approve, l),
           act = "reconcile" => Introduced(c, deployments')
    PROVE  \E s : Become(p, s) /\ CallGood(s, deployments', assigned')
  <1> DEFINE s == [Idle EXCEPT !.at = l, !.config = c, !.action = act, !.prev = prev,
                               !.source = source, !.approve = approve, !.hash = Hash[c]]
  <1>1. s.at = l /\ s.config = c /\ s.action = act /\ s.hash = Hash[c]
    BY DEF Idle
  <1>2. Become(p, s)
    BY DEF Begin
  <1> HIDE DEF s
  <1>3. CallGood(s, deployments', assigned')
    BY <1>1 DEF CallGood
  <1> QED BY <1>2, <1>3


LEMMA HistoryDomain ==
    ASSUME NEW h, NEW s, UpdateHistory(h, s)
    PROVE  DOMAIN deployments' = DOMAIN deployments
  BY DEF UpdateHistory, UpdateLatestByAgentHash

LEMMA OfferCall ==
    ASSUME TypeOK, OfferInv, Grows(deployments, deployments'), NEW p \in Callers, Call(p)
    PROVE  OfferInv'
  <1>1. PICK c \in Configs : DirectDeploy(p, c) \/ DirectRollback(p, c) \/ Approve(p, c)
    BY DEF Call
  <1>2. /\ p \in Procs /\ UNCHANGED <<deployments, assigned, running, inbox>>
    BY <1>1 DEF Procs, DirectDeploy, DirectRollback, Approve, assignments, agent
  <1>3. \E act \in {"deploy", "rollback"}, approve \in BOOLEAN, l \in {"current", "previous"} :
           Begin(p, c, act, None, 0, approve, l)
    BY <1>1 DEF DirectDeploy, DirectRollback, Approve
  <1>4. \E s : Become(p, s) /\ CallGood(s, deployments', assigned')
    <2>1. PICK act \in {"deploy", "rollback"}, approve \in BOOLEAN, l \in {"current", "previous"} :
             Begin(p, c, act, None, 0, approve, l)
      BY <1>3
    <2>2. act # "reconcile"
      OBVIOUS
    <2> QED BY <1>2, <2>1, <2>2, BeginGood
  <1> QED BY <1>2, <1>4, OfferMoves

(* The row of a call: a reconciliation repeats one that is there, any other *)
(* introduces its configuration.                                            *)
LEMMA OfferCreate ==
    ASSUME TypeOK, OfferInv, Grows(deployments, deployments'), NEW p \in Procs, Create(p)
    PROVE  OfferInv'
  <1> DEFINE n == Len(deployments)
             d == [config |-> proc[p].config, action |-> proc[p].action,
                   prev |-> proc[p].prev, source |-> proc[p].source,
                   claimed |-> FALSE, failedAt |-> FALSE, appliedAt |-> FALSE,
                   status |-> "pending"]
  <1>1. d.config = proc[p].config /\ d.action = proc[p].action
    OBVIOUS
  <1>2. deployments' = Append(deployments, d) /\ Goto(p, "assign") /\ proc[p].at = "create"
        /\ UNCHANGED <<assigned, running, inbox>>
    BY DEF Create, assignments, agent
  <1> HIDE DEF d
  <1>3. /\ n \in Nat /\ DOMAIN deployments = 1 .. n /\ DOMAIN deployments' = 1 .. (n + 1)
        /\ deployments'[n + 1] = d /\ \A i \in 1 .. n : deployments'[i] = deployments[i]
    BY <1>2 DEF TypeOK
  <1>4. d.action = "reconcile" => Introduced(d.config, deployments)
    BY <1>1, <1>2 DEF OfferInv, CallGood, Delivering
  <1>5. Introduced(d.config, deployments')
    <2>1. CASE d.action = "reconcile"
      BY <1>4, <2>1, IntroducedKept
    <2>2. CASE d.action # "reconcile"
      BY <1>3, <2>2 DEF Introduced
    <2> QED BY <2>1, <2>2
  <1>6. ReconcileNeverIntroduces'
    <2>1. ASSUME NEW i \in DOMAIN deployments', deployments'[i].action = "reconcile"
          PROVE  \E j \in DOMAIN deployments' :
                    /\ j < i /\ deployments'[j].action # "reconcile"
                    /\ deployments'[j].config = deployments'[i].config
      <3>1. CASE i \in 1 .. n
        BY <1>3, <2>1, <3>1 DEF OfferInv, ReconcileNeverIntroduces
      <3>2. CASE i = n + 1
        <4>1. PICK j \in 1 .. n : deployments[j].action # "reconcile" /\ deployments[j].config = d.config
          BY <1>3, <1>4, <2>1, <3>2 DEF Introduced
        <4> QED BY <1>3, <3>2, <4>1
      <3> QED BY <1>3, <3>1, <3>2
    <2> QED BY <2>1 DEF ReconcileNeverIntroduces
  <1>7. Assigns(assigned, assigned')
    BY <1>2 DEF Assigns
  <1>8. \E s : Become(p, s) /\ CallGood(s, deployments', assigned')
    BY <1>1, <1>2, <1>5, <1>7, GotoGood DEF Delivering
  <1> QED BY <1>2, <1>6, <1>7, <1>8, OfferFrame, SameOffered, SameIntroduced DEF OfferInv

LEMMA OfferUpsert ==
    ASSUME TypeOK, OfferInv, NEW p \in Procs, NEW s \in Statuses, Upsert(proc[p].config, s),
           NEW l \in {"send", "record"}, Goto(p, l), proc[p].at \in {"assign", "persist"},
           UNCHANGED <<deployments, running, inbox>>, Grows(deployments, deployments')
    PROVE  OfferInv'
  <1>1. proc[p].config \in Configs
    BY DEF TypeOK, ProcState
  <1>2. /\ Assigns(assigned, assigned') /\ assigned'[proc[p].config] # NoRow
        /\ \A d \in Configs \ {proc[p].config} : assigned'[d] = assigned[d]
    BY <1>1, UpsertAssigns
  <1>3. Introduced(proc[p].config, deployments)
    BY <1>1 DEF OfferInv, CallGood, AssignedIntroduced
  <1>4. AssignedIntroduced'
    BY <1>2, <1>3 DEF OfferInv, AssignedIntroduced
  <1>5. OfferedHeld' /\ ReconcileNeverIntroduces'
    BY <1>2, SameOffered, SameRepeats DEF OfferInv
  <1>6. \E t : Become(p, t) /\ CallGood(t, deployments', assigned')
    BY <1>2, <1>3, GotoGood DEF Delivering
  <1> QED BY <1>2, <1>4, <1>5, <1>6, OfferFrame

LEMMA OfferSend ==
    ASSUME TypeOK, OfferInv, Grows(deployments, deployments'), NEW p \in Procs,
           Send(p) \/ SendFails(p)
    PROVE  OfferInv'
  <1>1. PICK o : Outcome(p, o)
    BY DEF Send, SendFails
  <1> DEFINE s == [proc[p] EXCEPT !.at = "persist", !.outcome = o]
  <1>2. /\ s.at = "persist" /\ s.config = proc[p].config /\ s.hash = proc[p].hash
        /\ s.action = proc[p].action /\ proc[p].config \in Configs
    BY DEF TypeOK, ProcState
  <1>3. Become(p, s)
    BY <1>1 DEF Outcome
  <1> HIDE DEF s
  <1>4. /\ proc[p].at = "send" /\ UNCHANGED <<deployments, assigned, running>>
        /\ inbox' \in {inbox, Append(inbox, proc[p].hash)}
    BY DEF Send, SendFails, assignments, agent
  <1>5. /\ proc[p].hash = Hash[proc[p].config] /\ assigned[proc[p].config] # NoRow
        /\ CallGood(proc[p], deployments, assigned)
    BY <1>4 DEF OfferInv, CallGood, Delivering
  <1>6. CallGood(s, deployments', assigned')
    BY <1>2, <1>4, <1>5 DEF CallGood, Delivering
  <1>7. OfferedHeld'
    <2>1. Held(proc[p].hash, assigned)
      BY <1>2, <1>5 DEF Held
    <2>2. inbox \in Seq(Hashes) /\ proc[p].hash \in Hashes
      BY DEF TypeOK, ProcState
    <2>3. \A k \in DOMAIN inbox' : inbox'[k] = proc[p].hash \/ \E j \in DOMAIN inbox : inbox'[k] = inbox[j]
      BY <1>4, <2>2
    <2>4. \A k \in DOMAIN inbox' : Held(inbox'[k], assigned)
      BY <2>1, <2>3 DEF OfferInv, OfferedHeld
    <2> QED BY <1>4, <2>4 DEF OfferInv, OfferedHeld
  <1>8. Assigns(assigned, assigned')
    BY <1>4 DEF Assigns
  <1> QED BY <1>3, <1>4, <1>6, <1>7, <1>8, OfferFrame, SameIntroduced, SameRepeats DEF OfferInv

LEMMA OfferStep ==
    ASSUME TypeOK, RollbackInv, OfferInv, Grows(deployments, deployments'), NEW p \in Procs, Step(p)
    PROVE  OfferInv'
  <1>0. Assigns(assigned, assigned)
    BY DEF Assigns
  <1>a. proc[p].config \in Configs /\ proc[p].outcome \in Statuses
    BY DEF TypeOK, ProcState
  <1>1. CASE ReadPrevious(p)
    <2>1. UNCHANGED <<deployments, assigned, running, inbox>> /\ proc[p].at = "previous"
      BY <1>1 DEF ReadPrevious, assignments, agent
    <2>2. CASE Goto(p, "current")
      BY <1>0, <2>1, <2>2, GotoGood, OfferMoves
    <2>3. ASSUME NEW i, Become(p, [proc[p] EXCEPT !.at = "current", !.prev = deployments[i].config])
          PROVE  OfferInv'
      <3> DEFINE s == [proc[p] EXCEPT !.at = "current", !.prev = deployments[i].config]
      <3>1. /\ s.at = "current" /\ s.config = proc[p].config /\ s.hash = proc[p].hash
            /\ s.action = proc[p].action /\ Become(p, s)
        BY <2>3 DEF TypeOK, ProcState
      <3> HIDE DEF s
      <3>2. CallGood(s, deployments', assigned')
        BY <2>1, <3>1 DEF OfferInv, CallGood, Delivering
      <3> QED BY <2>1, <3>1, <3>2, OfferMoves
    <2> QED BY <1>1, <2>2, <2>3 DEF ReadPrevious
  <1>2. CASE CheckCurrent(p) \/ CheckInProgress(p) \/ AssignFails(p) \/ PersistFails(p)
    <2>1. UNCHANGED <<deployments, assigned, running, inbox>>
          /\ proc[p].at \in {"current", "progress", "assign", "persist"}
      BY <1>2 DEF CheckCurrent, CheckInProgress, AssignFails, PersistFails, assignments, agent
    <2>2. ReturnError(p) \/ Goto(p, "progress") \/ Goto(p, "create") \/ Goto(p, "unassigned")
      BY <1>2 DEF CheckCurrent, CheckInProgress, AssignFails, PersistFails
    <2>3. \E s : Become(p, s) /\ CallGood(s, deployments', assigned')
      BY <1>0, <2>1, <2>2, GotoGood, ReturnErrorGood DEF Delivering
    <2> QED BY <2>1, <2>3, OfferMoves
  <1>3. CASE Refused(p)
    <2>1. UNCHANGED <<deployments, assigned, running, inbox>> /\ (ReturnError(p) \/ Return(p))
      BY <1>3 DEF Refused, assignments, agent
    <2>2. \E s : Become(p, s) /\ CallGood(s, deployments', assigned')
      BY <1>0, <2>1, ReturnGood, ReturnErrorGood
    <2> QED BY <2>1, <2>2, OfferMoves
  <1>4. CASE Create(p)
    BY <1>4, OfferCreate
  <1>5. CASE Assign(p) \/ Persist(p)
    BY <1>5, <1>a, OfferUpsert DEF Assign, Persist, agent, Statuses
  <1>6. CASE MarkUnassigned(p) \/ Record(p)
    <2>1. /\ DOMAIN deployments' = DOMAIN deployments
          /\ UNCHANGED <<assigned, running, inbox>> /\ (ReturnError(p) \/ Return(p))
      BY <1>6, HistoryDomain DEF MarkUnassigned, Record, assignments, agent
    <2>2. \E s : Become(p, s) /\ CallGood(s, deployments', assigned')
      BY <1>0, <2>1, ReturnGood, ReturnErrorGood
    <2> QED BY <2>1, <2>2, OfferMoves
  <1>7. CASE Send(p) \/ SendFails(p)
    BY <1>7, OfferSend
  <1>8. CASE FindFailed(p)
    <2>1. UNCHANGED <<deployments, assigned, running, inbox>>
      BY <1>8 DEF FindFailed, assignments, agent
    <2>2. ASSUME NEW i, Become(p, [proc[p] EXCEPT !.at = "claim", !.candidate = i])
          PROVE  \E s : Become(p, s) /\ CallGood(s, deployments', assigned')
      <3> DEFINE s == [proc[p] EXCEPT !.at = "claim", !.candidate = i]
      <3>1. s.at \in Outside
        BY DEF TypeOK, ProcState, Outside
      <3> HIDE DEF s
      <3> QED BY <2>2, <3>1, OutsideGood DEF s
    <2>3. \E s : Become(p, s) /\ CallGood(s, deployments', assigned')
      BY <1>8, <2>2, ReturnGood DEF FindFailed
    <2> QED BY <2>1, <2>3, OfferMoves
  <1>9. CASE ClaimRollback(p)
    <2> DEFINE i == proc[p].candidate
    <2>1. i \in DOMAIN deployments /\ CanRollBack(deployments[i])
      BY <1>9 DEF RollbackInv, ProcGood, ClaimRollback
    <2>2. UNCHANGED <<assigned, running, inbox>> /\ DOMAIN deployments' = DOMAIN deployments
      BY <1>9 DEF ClaimRollback, assignments, agent
    <2>3. deployments[i].prev \in Configs
      BY <2>1, RowType DEF CanRollBack, Deployment
    <2>4. Return(p) \/ Begin(p, deployments[i].prev, "rollback", None, i, FALSE, "current")
      BY <1>9 DEF ClaimRollback, RollbackTarget
    <2>5. \E s : Become(p, s) /\ CallGood(s, deployments', assigned')
      <3>1. CASE Return(p)
        BY <3>1, ReturnGood
      <3>2. ASSUME NEW act, act # "reconcile", NEW b \in BOOLEAN,
                   Begin(p, deployments[i].prev, act, None, i, b, "current")
            PROVE  \E s : Become(p, s) /\ CallGood(s, deployments', assigned')
        <4> HIDE DEF i
        <4> QED BY <2>3, <3>2, BeginGood
      <3>3. CASE Begin(p, deployments[i].prev, "rollback", None, i, FALSE, "current")
        BY <3>2, <3>3
      <3> QED BY <2>4, <3>1, <3>3
    <2> QED BY <2>2, <2>5, OfferMoves
  <1> QED BY <1>1, <1>2, <1>3, <1>4, <1>5, <1>6, <1>7, <1>8, <1>9 DEF Step


LEMMA OfferReport ==
    ASSUME TypeOK, OfferInv, Grows(deployments, deployments'), TakeReport \/ RecordReport
    PROVE  OfferInv'
  <1>1. CASE TakeReport
    <2> DEFINE h == Head(reports).hash
               o == Head(reports).status
               s == [Idle EXCEPT !.at = "report", !.hash = h, !.outcome = o]
    <2>1. Head(reports) \in Report
      BY <1>1 DEF TypeOK, TakeReport
    <2>2. o \in Statuses
      BY <2>1 DEF Report
    <2>3. s.at \in Outside
      BY DEF Idle, Outside
    <2>4. /\ Become(ConfigLoop, s) /\ UNCHANGED <<deployments, running, inbox>>
          /\ UpdateByAgentHash(h, o) \/ UNCHANGED assigned
      BY <1>1 DEF TakeReport, agent, assignments
    <2> HIDE DEF h, o, s
    <2>5. Assigns(assigned, assigned') /\ \A c \in Configs : assigned'[c] # NoRow => assigned[c] # NoRow
      <3>1. CASE UNCHANGED assigned
        BY <3>1 DEF Assigns
      <3>2. ASSUME NEW c \in Configs, IsLatestOfHash(c, h), Upsert(c, o)
            PROVE  /\ Assigns(assigned, assigned')
                   /\ \A d \in Configs : assigned'[d] # NoRow => assigned[d] # NoRow
        BY <2>2, <3>2, UpsertAssigns DEF IsLatestOfHash
      <3> QED BY <2>4, <3>1, <3>2 DEF UpdateByAgentHash, assignments
    <2>6. AssignedIntroduced'
      BY <2>4, <2>5 DEF OfferInv, AssignedIntroduced
    <2>7. CallGood(s, deployments', assigned')
      BY <2>3, OutsideGood
    <2> QED BY <2>4, <2>5, <2>6, <2>7, ConstantTypes, OfferFrame, SameOffered, SameRepeats
            DEF OfferInv
  <1>2. CASE RecordReport
    <2>1. /\ DOMAIN deployments' = DOMAIN deployments /\ UNCHANGED <<assigned, running, inbox>>
          /\ Goto(ConfigLoop, "find") \/ Return(ConfigLoop)
      BY <1>2, HistoryDomain DEF RecordReport, assignments, agent
    <2>2. Assigns(assigned, assigned')
      BY <2>1 DEF Assigns
    <2>3. \E s : Become(ConfigLoop, s) /\ CallGood(s, deployments', assigned')
      BY <2>1, <2>2, ConstantTypes, GotoGood, ReturnGood DEF Outside
    <2> QED BY <2>1, <2>3, ConstantTypes, OfferMoves
  <1> QED BY <1>1, <1>2

(* Nobody but the agent, the connection or a restart moves.                 *)
LEMMA OfferStill ==
    ASSUME OfferInv, UNCHANGED <<deployments, assigned>>, OfferedHeld',
           proc' = proc \/ proc' = [p \in Procs |-> Idle]
    PROVE  OfferInv'
  <1>1. AssignedIntroduced' /\ ReconcileNeverIntroduces'
    BY DEF OfferInv, AssignedIntroduced, ReconcileNeverIntroduces
  <1>2. \A p \in Procs : CallGood(proc'[p], deployments', assigned')
    BY OutsideGood, IdleOutside DEF OfferInv
  <1> QED BY <1>1, <1>2 DEF OfferInv

LEMMA OfferEffective ==
    ASSUME TypeOK, OfferInv, Grows(deployments, deployments'), TakeEffective
    PROVE  OfferInv'
  <1>1. UNCHANGED <<deployments, assigned, running, inbox>>
    BY DEF TakeEffective, assignments, agent
  <1>2. ASSUME NEW c \in Configs, Drifted(c),
               Begin(DriftLoop, c, "reconcile", None, 0, FALSE, "current")
        PROVE  OfferInv'
    <2>1. Introduced(c, deployments')
      BY <1>1, <1>2 DEF Drifted, IsLatest, OfferInv, AssignedIntroduced
    <2>2. ASSUME NEW b \in BOOLEAN, Begin(DriftLoop, c, "reconcile", None, 0, b, "current")
          PROVE  \E s : Become(DriftLoop, s) /\ CallGood(s, deployments', assigned')
      BY <2>1, <2>2, BeginGood, ConstantTypes
    <2>3. \E s : Become(DriftLoop, s) /\ CallGood(s, deployments', assigned')
      BY <1>2, <2>2
    <2> QED BY <1>1, <2>3, ConstantTypes, OfferMoves
  <1>3. CASE UNCHANGED proc
    BY <1>1, <1>3, OfferStill, SameOffered DEF OfferInv, Assigns
  <1> QED BY <1>2, <1>3 DEF TakeEffective

LEMMA OfferAgent ==
    ASSUME TypeOK, OfferInv,
           \/ AgentApplies \/ AgentRejects \/ AgentApplying \/ LocalChange
           \/ Disconnect \/ Reconnect \/ Crash
    PROVE  OfferInv'
  <1>1. UNCHANGED <<deployments, assigned>> /\ (proc' = proc \/ proc' = [p \in Procs |-> Idle])
    BY DEF AgentApplies, AgentRejects, AgentApplying, AgentAnswers, LocalChange, Disconnect,
           Reconnect, Crash, assignments
  <1>2. inbox \in Seq(Hashes)
    BY DEF TypeOK
  <1>3. \/ running' \in {running, Local}
        \/ inbox # << >> /\ running' = Head(inbox)
    BY DEF AgentApplies, AgentRejects, AgentApplying, AgentAnswers, LocalChange, Disconnect,
           Reconnect, Crash
  <1>4. \/ inbox' \in {inbox, << >>}
        \/ inbox # << >> /\ inbox' = Tail(inbox)
    BY DEF AgentApplies, AgentRejects, AgentApplying, AgentAnswers, LocalChange, Disconnect,
           Reconnect, Crash
  <1>5. running' \in Hashes => Held(running', assigned)
    <2>1. inbox # << >> => Head(inbox) = inbox[1] /\ 1 \in DOMAIN inbox
      BY <1>2
    <2>2. Local \notin Hashes
      BY ConstantTypes DEF Local
    <2> QED BY <1>3, <2>1, <2>2 DEF OfferInv, OfferedHeld
  <1>6. \A k \in DOMAIN inbox' : \E j \in DOMAIN inbox : inbox'[k] = inbox[j]
    <2>1. CASE inbox' \in {inbox, << >>}
      BY <2>1
    <2>2. CASE inbox # << >> /\ inbox' = Tail(inbox)
      <3>1. /\ DOMAIN inbox' = 1 .. (Len(inbox) - 1) /\ DOMAIN inbox = 1 .. Len(inbox)
            /\ Len(inbox) \in Nat /\ \A k \in DOMAIN inbox' : inbox'[k] = inbox[k + 1]
        BY <1>2, <2>2
      <3> QED BY <3>1
    <2> QED BY <1>4, <2>1, <2>2
  <1>7. OfferedHeld'
    BY <1>1, <1>5, <1>6 DEF OfferInv, OfferedHeld
  <1> QED BY <1>1, <1>7, OfferStill

LEMMA OfferNext ==
    ASSUME TypeOK, RollbackInv, OfferInv, [Next]_vars
    PROVE  OfferInv'
  <1>1. Grows(deployments, deployments')
    BY NextInv, StutterInv
  <1>2. CASE UNCHANGED vars
    <2>1. UNCHANGED <<deployments, assigned, running, inbox, proc>>
      BY <1>2 DEF vars, assignments, agent
    <2> QED BY <2>1, OfferStill, SameOffered DEF OfferInv, Assigns
  <1>3. ASSUME NEW p \in Callers, Call(p)
        PROVE  OfferInv'
    BY <1>1, <1>3, OfferCall
  <1>4. ASSUME NEW p \in Procs, Step(p)
        PROVE  OfferInv'
    BY <1>1, <1>4, OfferStep
  <1> QED BY <1>1, <1>2, <1>3, <1>4, OfferReport, OfferEffective, OfferAgent DEF Next

LEMMA OfferInit == Init => OfferInv
  <1> SUFFICES ASSUME Init PROVE OfferInv
    OBVIOUS
  <1>1. /\ DOMAIN deployments = {} /\ DOMAIN inbox = {} /\ running \notin Hashes
        /\ \A c \in Configs : assigned[c] = NoRow
    BY ConstantTypes DEF Init, Local
  <1>2. \A p \in Procs : CallGood(proc[p], deployments, assigned)
    BY OutsideGood, IdleOutside DEF Init
  <1> QED BY <1>1, <1>2 DEF OfferInv, AssignedIntroduced, OfferedHeld, ReconcileNeverIntroduces

THEOREM OfferInvariant == Spec => []OfferInv
  <1> QED BY OfferInit, OfferNext, DeliveryInvariant, PTL DEF Spec

(* Whatever the agent runs or is about to receive has an assignment and a    *)
(* deployment, wherever the server stopped: both rows are written first.     *)
THEOREM OffersAreRecorded == Spec => []OfferedIsRecorded
  <1>1. OfferInv => OfferedIsRecorded
    <2> SUFFICES ASSUME OfferInv, NEW h \in Hashes,
                        running = h \/ \E k \in DOMAIN inbox : inbox[k] = h
                 PROVE  /\ \E i \in DOMAIN deployments : Hash[deployments[i].config] = h
                        /\ \E c \in Configs : assigned[c] # NoRow /\ Hash[c] = h
      BY DEF OfferedIsRecorded
    <2>1. PICK c \in Configs : assigned[c] # NoRow /\ Hash[c] = h
      BY DEF OfferInv, OfferedHeld, Held
    <2>2. Introduced(c, deployments)
      BY <2>1 DEF OfferInv, AssignedIntroduced
    <2> QED BY <2>1, <2>2 DEF Introduced
  <1> QED BY <1>1, OfferInvariant, PTL

(* The drift loop only repeats what somebody deployed or rolled back to.     *)
THEOREM ReconcileRepeats == Spec => []ReconcileNeverIntroduces
  <1>1. OfferInv => ReconcileNeverIntroduces
    BY DEF OfferInv
  <1> QED BY <1>1, OfferInvariant, PTL

---------------------------------------------------------------------------
(* The connections of the agents.                                            *)

LEMMA MergeType ==
    ASSUME PresenceTypeOK, NEW c \in Conns, NEW full \in BOOLEAN
    PROVE  Merge(c, full) \in Health
  BY DEF PresenceTypeOK, Merge, Known, Health

LEMMA PresenceInitType == PresenceInit => PresenceTypeOK
  BY DEF PresenceInit, PresenceTypeOK, Health

LEMMA OnMessageType ==
    ASSUME PresenceTypeOK, NEW c \in Conns, NEW full \in BOOLEAN, OnMessage(c, full)
    PROVE  PresenceTypeOK'
  <1>1. Merge(c, full) \in Health
    BY MergeType
  <1>2. byConn' \in [Conns -> Health \cup {Nothing}] /\ told' \in [Conns -> BOOLEAN]
    BY <1>1 DEF PresenceTypeOK, OnMessage
  <1>3. order' \in Seq(Conns)
    BY DEF PresenceTypeOK, OnMessage
  <1>4. byUID' \in Conns \cup {Nothing} /\ mu' \in Conns \cup {Free}
    BY DEF PresenceTypeOK, OnMessage, Unlock
  <1>5. sending' \in [Conns -> Seq(Event)]
    <2>1. \A t \in {"connected", "updated"} :
              <<[type |-> t, health |-> Merge(c, full)]>> \in Seq(Event)
      BY <1>1 DEF Event
    <2>2. \/ sending' = sending
          \/ \E t \in {"connected", "updated"} :
                sending' = [sending EXCEPT ![c] = <<[type |-> t, health |-> Merge(c, full)]>>]
      BY DEF OnMessage
    <2> QED BY <2>1, <2>2, ZenonT(30) DEF PresenceTypeOK
  <1> QED BY <1>2, <1>3, <1>4, <1>5 DEF PresenceTypeOK, OnMessage

LEMMA CloseType ==
    ASSUME PresenceTypeOK, NEW c \in Conns, OnConnectionClose(c)
    PROVE  PresenceTypeOK'
  <1>1. <<[type |-> "disconnected", health |-> "down"]>> \in Seq(Event)
    BY DEF Event, Health
  <1>2. sending' \in [Conns -> Seq(Event)] /\ byUID' \in Conns \cup {Nothing}
    BY <1>1 DEF PresenceTypeOK, OnConnectionClose
  <1> QED BY <1>2 DEF PresenceTypeOK, OnConnectionClose

LEMMA EmitType ==
    ASSUME PresenceTypeOK, NEW c \in Conns, Emit(c)
    PROVE  PresenceTypeOK'
  <1>1. sending[c] \in Seq(Event) /\ sending[c] # << >>
    BY DEF PresenceTypeOK, Emit
  <1>2. Head(sending[c]) \in Event
    BY <1>1
  <1>3. events' \in Seq(Event)
    BY <1>2 DEF PresenceTypeOK, Emit
  <1>4. sending' \in [Conns -> Seq(Event)]
    <2>1. << >> \in Seq(Event)
      OBVIOUS
    <2> QED BY <2>1 DEF PresenceTypeOK, Emit
  <1> QED BY <1>3, <1>4 DEF PresenceTypeOK, Emit, ends, index

LEMMA TakeEventType ==
    ASSUME PresenceTypeOK, TakeEvent
    PROVE  PresenceTypeOK'
  <1>1. events \in Seq(Event) /\ events # << >> /\ events' = Tail(events)
    BY DEF PresenceTypeOK, TakeEvent
  <1>2. Head(events) \in Event /\ events' \in Seq(Event)
    BY <1>1
  <1>3. inventory' \in [connected : BOOLEAN, health : Health]
    BY <1>2 DEF TakeEvent, Event
  <1> QED BY <1>2, <1>3 DEF PresenceTypeOK, TakeEvent, ends, index

(* The step relation keeps the types.                                        *)
LEMMA PresenceNextType == PresenceTypeOK /\ [PresenceNext]_presenceVars => PresenceTypeOK'
  <1> SUFFICES ASSUME PresenceTypeOK, [PresenceNext]_presenceVars PROVE PresenceTypeOK'
    OBVIOUS
  <1>1. ASSUME NEW c \in Conns, Open(c)
        PROVE  PresenceTypeOK'
    BY <1>1 DEF PresenceTypeOK, Open, index
  <1>4. ASSUME NEW c \in Conns, HealthChanges(c)
        PROVE  PresenceTypeOK'
    <2>1. health' \in [Conns -> Health]
      BY <1>4 DEF PresenceTypeOK, HealthChanges, Health
    <2>2. told' \in [Conns -> BOOLEAN] /\ changes' \in Nat
      BY <1>4 DEF PresenceTypeOK, HealthChanges
    <2> QED BY <1>4, <2>1, <2>2 DEF PresenceTypeOK, HealthChanges, index
  <1>2. CASE LookUp
    BY <1>2 DEF PresenceTypeOK, LookUp, ends, index
  <1>3. CASE UNCHANGED presenceVars
    BY <1>3 DEF PresenceTypeOK, presenceVars, ends, index
  <1> QED BY <1>1, <1>2, <1>3, <1>4, OnMessageType, CloseType, EmitType, TakeEventType DEF PresenceNext

(* Whoever is known has spoken, and spoke on a connection that is open.      *)
IndexInv ==
    /\ PresenceTypeOK
    /\ IndexLive
    /\ \A c \in Conns : Known(c) => link[c] = "open" /\ \E i \in DOMAIN order : order[i] = c

LEMMA PresenceInitInv == PresenceInit => IndexInv
  <1> SUFFICES ASSUME PresenceInit PROVE IndexInv
    OBVIOUS
  <1>1. byUID = Nothing /\ \A c \in Conns : ~Known(c)
    BY DEF PresenceInit, Known
  <1> QED BY <1>1, PresenceInitType DEF IndexInv, IndexLive

(* A message keeps its sender known, and it hands the UID on at most to a    *)
(* connection that had not spoken before.                                    *)
LEMMA OnMessageInv ==
    ASSUME IndexInv, NEW c \in Conns, NEW full \in BOOLEAN, OnMessage(c, full)
    PROVE  IndexInv' /\ HandedOn
  <1>1. PresenceTypeOK' /\ PresenceTypeOK
    BY OnMessageType DEF IndexInv
  <1>2. Merge(c, full) # Nothing
    BY <1>1, MergeType DEF Health, Nothing
  <1>3. byConn'[c] # Nothing /\ \A d \in Conns \ {c} : byConn'[d] = byConn[d]
    BY <1>1, <1>2 DEF OnMessage, PresenceTypeOK
  <1>4. link' = link /\ link[c] = "open" /\ (byUID' = byUID \/ byUID' = c)
    BY DEF OnMessage
  <1>5. IndexLive'
    BY <1>1, <1>3, <1>4 DEF IndexLive, IndexInv, PresenceTypeOK
  <1>6. /\ \A i \in DOMAIN order : i \in DOMAIN order' /\ order'[i] = order[i]
        /\ ~Known(c) => /\ Len(order) + 1 \in DOMAIN order' /\ order'[Len(order) + 1] = c
                        /\ \A i \in DOMAIN order : i < Len(order) + 1
    <2>1. order' = IF Known(c) THEN order ELSE Append(order, c)
      BY DEF OnMessage
    <2>2. order \in Seq(Conns)
      BY <1>1 DEF PresenceTypeOK
    <2> QED BY <2>1, <2>2
  <1>7. \E i \in DOMAIN order' : order'[i] = c
    BY <1>6 DEF IndexInv
  <1>8. \A d \in Conns : Known(d)' =>
            link'[d] = "open" /\ \E i \in DOMAIN order' : order'[i] = d
    BY <1>3, <1>4, <1>6, <1>7 DEF IndexInv, Known
  <1>9. HandedOn
    <2> SUFFICES ASSUME byUID # Nothing, byUID' # Nothing, byUID' # byUID
                 PROVE  Newer(byUID', byUID, order')
      BY DEF HandedOn
    <2>1. byUID' = c /\ ~Known(c)
      BY <1>4 DEF OnMessage, Superseded
    <2>2. PICK i \in DOMAIN order : order[i] = byUID
      BY <1>1 DEF IndexInv, IndexLive, Known, PresenceTypeOK
    <2> QED BY <1>6, <2>1, <2>2 DEF Newer
  <1> QED BY <1>1, <1>5, <1>8, <1>9 DEF IndexInv

LEMMA CloseInv ==
    ASSUME IndexInv, NEW c \in Conns, OnConnectionClose(c)
    PROVE  IndexInv' /\ HandedOn
  <1>1. PresenceTypeOK' /\ PresenceTypeOK
    BY CloseType DEF IndexInv
  <1>2. /\ \A d \in Conns \ {c} : byConn'[d] = byConn[d] /\ link'[d] = link[d]
        /\ byConn'[c] = Nothing /\ order' = order
    BY <1>1 DEF OnConnectionClose, PresenceTypeOK
  <1>3. byUID' = Nothing \/ (byUID' = byUID /\ byUID # c)
    BY <1>1 DEF OnConnectionClose, IndexInv, IndexLive, Known, Owns, PresenceTypeOK
  <1>4. IndexLive'
    BY <1>1, <1>2, <1>3 DEF IndexInv, IndexLive, PresenceTypeOK
  <1>5. \A d \in Conns : Known(d)' =>
            link'[d] = "open" /\ \E i \in DOMAIN order' : order'[i] = d
    BY <1>2 DEF IndexInv, Known
  <1> QED BY <1>1, <1>3, <1>4, <1>5 DEF IndexInv, HandedOn

LEMMA PresenceNextInv == IndexInv /\ [PresenceNext]_presenceVars => IndexInv' /\ HandedOn
  <1> SUFFICES ASSUME IndexInv, [PresenceNext]_presenceVars PROVE IndexInv' /\ HandedOn
    OBVIOUS
  <1>1. PresenceTypeOK /\ PresenceTypeOK'
    BY PresenceNextType DEF IndexInv
  <1>2. ASSUME NEW c \in Conns, Open(c)
        PROVE  IndexInv' /\ HandedOn
    <2>1. UNCHANGED index /\ link[c] = "absent" /\ \A d \in Conns \ {c} : link'[d] = link[d]
      BY <1>1, <1>2 DEF Open, PresenceTypeOK
    <2> QED BY <1>1, <2>1, SMTT(30) DEF IndexInv, IndexLive, HandedOn, Known, PresenceTypeOK, index
  <1>3. ASSUME UNCHANGED index, UNCHANGED link
        PROVE  IndexInv' /\ HandedOn
    BY <1>1, <1>3 DEF IndexInv, IndexLive, HandedOn, Known, index
  <1>4. ASSUME NEW c \in Conns, HealthChanges(c) \/ Emit(c)
        PROVE  UNCHANGED index /\ UNCHANGED link
    BY <1>4 DEF HealthChanges, Emit, ends
  <1>5. ASSUME TakeEvent \/ LookUp \/ UNCHANGED presenceVars
        PROVE  UNCHANGED index /\ UNCHANGED link
    BY <1>5 DEF TakeEvent, LookUp, presenceVars, ends
  <1> QED BY <1>2, <1>3, <1>4, <1>5, OnMessageInv, CloseInv DEF PresenceNext

(* The owner of the UID is always an open connection with a record, for any  *)
(* number of connections and any interleaving of their callbacks.            *)
THEOREM IndexStaysLive == PresenceSpec => []IndexLive
  <1>1. IndexInv => IndexLive
    BY DEF IndexInv
  <1> QED BY <1>1, PresenceInitInv, PresenceNextInv, PTL DEF PresenceSpec

(* The UID is handed on only to connections that spoke later.                *)
THEOREM OwnershipMovesForward == PresenceSpec => OwnerMovesForward
  <1>1. IndexInv /\ [PresenceNext]_presenceVars => [HandedOn]_presenceVars
    BY PresenceNextInv
  <1> QED BY <1>1, PresenceInitInv, PresenceNextInv, PTL DEF PresenceSpec, OwnerMovesForward

=============================================================================
