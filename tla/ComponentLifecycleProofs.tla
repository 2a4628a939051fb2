---------------------- MODULE ComponentLifecycleProofs ----------------------
(***************************************************************************)
(* The chain from a proposal to the outbox, for any number of agents,      *)
(* groups, users, connections and handlers at once: what is queued was     *)
(* approved twice, once, and reaches the collectors that were validated.   *)
(***************************************************************************)
EXTENDS ComponentLifecycle, SequenceTheorems, TLAPS

USE LifecycleAssumption

---------------------------------------------------------------------------
(* Tables are sequences of rows of some kind.                               *)

RowsOf(s) == {s[i] : i \in DOMAIN s}
IsList(s) == s \in Seq(RowsOf(s))

LEMMA ListDomain ==
    ASSUME NEW s, IsList(s)
    PROVE  Len(s) \in Nat /\ DOMAIN s = 1 .. Len(s)
  BY DEF IsList

LEMMA ListAppend ==
    ASSUME NEW s, NEW row, IsList(s)
    PROVE  /\ IsList(Append(s, row))
           /\ DOMAIN Append(s, row) = 1 .. Len(s) + 1
           /\ \A i \in DOMAIN s : Append(s, row)[i] = s[i]
           /\ Append(s, row)[Len(s) + 1] = row
  <1> DEFINE S == RowsOf(s) \cup {row}
             t == Append(s, row)
  <1>1. s \in Seq(S)
    <2>1. \A i \in 1 .. Len(s) : s[i] \in S
      BY ListDomain DEF RowsOf
    <2>2. s \in Seq(RowsOf(s)) /\ RowsOf(s) \subseteq S  BY DEF IsList
    <2> HIDE DEF S
    <2> QED  BY <2>2
  <1>2. row \in S  OBVIOUS
  <1> HIDE DEF S
  <1>3. /\ t \in Seq(S) /\ Len(t) = Len(s) + 1
        /\ \A i \in 1 .. Len(s) : t[i] = s[i] /\ t[Len(s) + 1] = row
    BY <1>1, <1>2, AppendProperties
  <1>4. Len(s) \in Nat /\ DOMAIN s = 1 .. Len(s)  BY ListDomain
  <1>5. DOMAIN t = 1 .. Len(s) + 1  BY <1>3, <1>4
  <1>6. t[Len(s) + 1] = row  BY <1>1, <1>2
  <1>7. IsList(t)
    <2>1. \A i \in 1 .. Len(t) : t[i] \in RowsOf(t)
      BY <1>3, <1>5 DEF RowsOf
    <2>2. t = [i \in 1 .. Len(t) |-> t[i]]
      <3> HIDE DEF t
      <3> QED  BY <1>3
    <2> HIDE DEF t
    <2> QED  BY <1>3, <1>4, <2>1, <2>2 DEF IsList
  <1> QED  BY <1>3, <1>4, <1>5, <1>6, <1>7

LEMMA ListExcept ==
    ASSUME NEW s, NEW k, NEW row, IsList(s)
    PROVE  /\ IsList([s EXCEPT ![k] = row])
           /\ DOMAIN [s EXCEPT ![k] = row] = DOMAIN s
  <1> DEFINE t == [s EXCEPT ![k] = row]
  <1>1. DOMAIN t = 1 .. Len(s) /\ Len(s) \in Nat /\ DOMAIN s = 1 .. Len(s)
    BY ListDomain
  <1>2. t = [i \in 1 .. Len(s) |-> t[i]]  BY <1>1
  <1>3. \A i \in 1 .. Len(s) : t[i] \in RowsOf(t)  BY <1>1 DEF RowsOf
  <1> HIDE DEF t
  <1>4. IsList(t)  BY <1>1, <1>2, <1>3 DEF IsList
  <1> QED  BY <1>1, <1>4 DEF t

---------------------------------------------------------------------------
(* The inductive invariant: each row, and each row that a handler is about  *)
(* to write, is good for the tables as they are, whatever they become.      *)

Approvals == {"approvals", "previewApprovals"}

Clean(s, T) ==
    T # {} /\ \A t \in T : ~Blocking(s, t.report) /\ ~Advisory(s, t.report)

GoodValidation(D, row) ==
    /\ row.request \in DOMAIN D.requests
    /\ row.status = "compatible" => Clean(D.requests[row.request].spec, row.targets)

GoodApproval(D, row) ==
    /\ "validation" \in DOMAIN row /\ row.validation \in DOMAIN D.validations
    /\ D.validations[row.validation].status = "compatible"

GoodPlan(D, row) ==
    row.approval \in DOMAIN D.approvals /\ D.approvals[row.approval].status = "approved"

ValidationOf(D, p) == D.validations[D.approvals[D.plans[p].approval].validation]

GoodPreview(D, row) ==
    /\ row.plan \in DOMAIN D.plans /\ row.connection \in DOMAIN D.connections
    /\ row.file = ValidationOf(D, row.plan).targets
    /\ LET s == D.requests[ValidationOf(D, row.plan).request].spec
       IN s.method = "gitops" /\ Allows(D.connections[row.connection], s.group)

GoodPreviewApproval(D, row) == "preview" \in DOMAIN row /\ row.preview \in DOMAIN D.previews

GoodExecution(D, row) ==
    /\ row.approval \in DOMAIN D.previewApprovals
    /\ D.previewApprovals[row.approval].status = "approved"
    /\ row.preview = D.previewApprovals[row.approval].preview
    /\ \E k \in DOMAIN D.tests :
          D.tests[k].connection = D.previews[row.preview].connection /\ D.tests[k].passed

GoodRow(D, t, row) ==
    /\ t = "requests" => ValidSpec(row.spec)
    /\ t = "validations" => GoodValidation(D, row)
    /\ t \in Approvals => {"by", "reviewer", "status"} \subseteq DOMAIN row /\ row.by # row.reviewer
    /\ t = "approvals" => GoodApproval(D, row)
    /\ t = "plans" => GoodPlan(D, row)
    /\ t = "previews" => GoodPreview(D, row)
    /\ t = "previewApprovals" => GoodPreviewApproval(D, row)
    /\ t = "executions" => GoodExecution(D, row)

AllGood(D) == \A t \in Tables : \A i \in DOMAIN D[t] : GoodRow(D, t, D[t][i])

GoodTask(D, k) ==
    /\ k.does = "insert" => k.table \in Tables /\ GoodRow(D, k.table, k.row)
    /\ k.does = "decide" => k.table \in Approvals /\ k.id \in DOMAIN D[k.table]
    /\ k.does = "resolve" => k.request \in DOMAIN D.requests

Distinct(D) ==
    \A t \in DOMAIN Unique : \A i, j \in DOMAIN D[t] :
        D[t][i][Unique[t]] = D[t][j][Unique[t]] => i = j

Lists(D) == DOMAIN D = Tables /\ \A t \in Tables : IsList(D[t])

Sound(D) == Lists(D) /\ AllGood(D) /\ Distinct(D)
Busy(D, T) == DOMAIN T = Handlers /\ \A h \in Handlers : GoodTask(D, T[h])
Inv == Sound(db) /\ Busy(db, task)

---------------------------------------------------------------------------
(* Tables only grow; of a row only a decision changes, and no approval is   *)
(* taken back.                                                              *)

Decided(r, s) ==
    /\ DOMAIN s = DOMAIN r
    /\ \A f \in DOMAIN r \ {"status"} : s[f] = r[f]
    /\ r.status = "approved" => s.status = "approved"

Extends(D, E) ==
    \A t \in Tables :
        /\ DOMAIN D[t] \subseteq DOMAIN E[t]
        /\ \A i \in DOMAIN D[t] :
              IF t \in Approvals THEN Decided(D[t][i], E[t][i]) ELSE E[t][i] = D[t][i]

LEMMA Names ==
    /\ Approvals \subseteq Tables
    /\ {"requests", "validations", "plans", "connections", "tests", "previews", "executions"}
           = Tables \ Approvals
    /\ DOMAIN Unique \subseteq Tables
  BY DEF Tables, Approvals, Unique

(* An approval that a row names keeps what the row needs of it.             *)
LEMMA ApprovalKeeps ==
    ASSUME NEW D, NEW E, Extends(D, E), AllGood(D), NEW i \in DOMAIN D.approvals
    PROVE  /\ i \in DOMAIN E.approvals /\ E.approvals[i].validation = D.approvals[i].validation
           /\ D.approvals[i].status = "approved" => E.approvals[i].status = "approved"
           /\ D.approvals[i].validation \in DOMAIN D.validations
  <1>1. /\ i \in DOMAIN E.approvals /\ Decided(D.approvals[i], E.approvals[i])
    BY DEF Extends, Tables, Approvals
  <1>2. GoodApproval(D, D.approvals[i])
    BY DEF AllGood, GoodRow, Tables
  <1> QED  BY <1>1, <1>2 DEF Decided, GoodApproval

LEMMA PreviewApprovalKeeps ==
    ASSUME NEW D, NEW E, Extends(D, E), AllGood(D), NEW i \in DOMAIN D.previewApprovals
    PROVE  /\ i \in DOMAIN E.previewApprovals
           /\ E.previewApprovals[i].preview = D.previewApprovals[i].preview
           /\ D.previewApprovals[i].status = "approved" => E.previewApprovals[i].status = "approved"
           /\ D.previewApprovals[i].preview \in DOMAIN D.previews
  <1>1. /\ i \in DOMAIN E.previewApprovals
        /\ Decided(D.previewApprovals[i], E.previewApprovals[i])
    BY DEF Extends, Tables, Approvals
  <1>2. GoodPreviewApproval(D, D.previewApprovals[i])
    BY DEF AllGood, GoodRow, Tables
  <1> QED  BY <1>1, <1>2 DEF Decided, GoodPreviewApproval

LEMMA RowKeeps ==
    ASSUME NEW D, NEW E, Extends(D, E),
           NEW t \in {"requests", "validations", "plans", "connections", "tests", "previews",
                      "executions"},
           NEW i \in DOMAIN D[t]
    PROVE  i \in DOMAIN E[t] /\ E[t][i] = D[t][i]
  BY Names DEF Extends

LEMMA PlanKeeps ==
    ASSUME NEW D, NEW E, Extends(D, E), AllGood(D), NEW p \in DOMAIN D.plans
    PROVE  /\ p \in DOMAIN E.plans /\ ValidationOf(E, p) = ValidationOf(D, p)
           /\ ValidationOf(D, p).request \in DOMAIN D.requests
           /\ E.requests[ValidationOf(E, p).request] = D.requests[ValidationOf(D, p).request]
  <1> DEFINE a == D.plans[p].approval  v == D.approvals[a].validation
  <1>1. p \in DOMAIN E.plans /\ E.plans[p] = D.plans[p]  BY RowKeeps
  <1>2. a \in DOMAIN D.approvals
    BY DEF AllGood, GoodRow, Tables, GoodPlan
  <1>3. E.approvals[a].validation = v /\ v \in DOMAIN D.validations
    BY <1>2, ApprovalKeeps
  <1>4. E.validations[v] = D.validations[v]  BY <1>3, RowKeeps
  <1>5. D.validations[v].request \in DOMAIN D.requests
    BY <1>3 DEF AllGood, GoodRow, Tables, GoodValidation
  <1>6. E.requests[D.validations[v].request] = D.requests[D.validations[v].request]
    <2> DEFINE r == D.validations[v].request
    <2>1. r \in DOMAIN D.requests  BY <1>5
    <2> HIDE DEF r
    <2>2. E.requests[r] = D.requests[r]  BY <2>1, RowKeeps
    <2> QED  BY <2>2 DEF r
  <1> QED  BY <1>1, <1>3, <1>4, <1>5, <1>6 DEF ValidationOf

LEMMA GoodRowKeeps ==
    ASSUME NEW D, NEW E, Extends(D, E), AllGood(D), NEW t \in Tables, NEW row, GoodRow(D, t, row)
    PROVE  GoodRow(E, t, row)
  <1>1. ASSUME GoodValidation(D, row) PROVE GoodValidation(E, row)
    BY <1>1, RowKeeps DEF GoodValidation
  <1>2. ASSUME GoodApproval(D, row) PROVE GoodApproval(E, row)
    BY <1>2, RowKeeps DEF GoodApproval
  <1>3. ASSUME GoodPlan(D, row) PROVE GoodPlan(E, row)
    BY <1>3, ApprovalKeeps DEF GoodPlan
  <1>4. ASSUME GoodPreview(D, row) PROVE GoodPreview(E, row)
    BY <1>4, PlanKeeps, RowKeeps DEF GoodPreview
  <1>5. ASSUME GoodPreviewApproval(D, row) PROVE GoodPreviewApproval(E, row)
    BY <1>5, RowKeeps DEF GoodPreviewApproval
  <1>6. ASSUME GoodExecution(D, row) PROVE GoodExecution(E, row)
    <2>1. PICK k \in DOMAIN D.tests :
             D.tests[k].connection = D.previews[row.preview].connection /\ D.tests[k].passed
      BY <1>6 DEF GoodExecution
    <2>2. k \in DOMAIN E.tests /\ E.tests[k] = D.tests[k]  BY RowKeeps
    <2>3. row.preview \in DOMAIN D.previews
      BY <1>6, PreviewApprovalKeeps DEF GoodExecution
    <2>4. E.previews[row.preview] = D.previews[row.preview]  BY <2>3, RowKeeps
    <2> DEFINE x == row.approval
    <2>5. x \in DOMAIN D.previewApprovals /\ D.previewApprovals[x].status = "approved"
          /\ row.preview = D.previewApprovals[x].preview
      BY <1>6 DEF GoodExecution
    <2> HIDE DEF x
    <2>6. /\ x \in DOMAIN E.previewApprovals /\ E.previewApprovals[x].status = "approved"
          /\ row.preview = E.previewApprovals[x].preview
      BY <2>5, PreviewApprovalKeeps
    <2>7. k \in DOMAIN E.tests /\ E.tests[k].passed
          /\ E.tests[k].connection = E.previews[row.preview].connection
      BY <2>1, <2>2, <2>4
    <2> QED  BY <2>6, <2>7 DEF GoodExecution, x
  <1> QED  BY <1>1, <1>2, <1>3, <1>4, <1>5, <1>6 DEF GoodRow

LEMMA GoodTaskKeeps ==
    ASSUME NEW D, NEW E, Extends(D, E), AllGood(D), NEW k, GoodTask(D, k)
    PROVE  GoodTask(E, k)
  <1>1. k.does = "decide" => k.table \in Approvals /\ k.id \in DOMAIN E[k.table]
    BY Names DEF GoodTask, Extends
  <1>2. k.does = "resolve" => k.request \in DOMAIN E.requests
    BY RowKeeps DEF GoodTask
  <1> QED  BY <1>1, <1>2, GoodRowKeeps DEF GoodTask

---------------------------------------------------------------------------
(* Steps that begin something, add a row, or decide.                        *)

LEMMA TasksKeep ==
    ASSUME Inv, Extends(db, db'), NEW k, GoodTask(db', k),
           task' = task \/ \E h \in Handlers : task' = [task EXCEPT ![h] = k]
    PROVE  Busy(db', task')
  <1>1. \A j \in Handlers : GoodTask(db', task[j])
    BY GoodTaskKeeps DEF Inv, Busy, Sound
  <1> QED  BY <1>1 DEF Inv, Busy

LEMMA IdleIsGood ==
    ASSUME NEW D
    PROVE  GoodTask(D, Idle)
  <1>1. Idle.does = "idle"  BY DEF Idle
  <1> QED  BY <1>1 DEF GoodTask

LEMMA SameExtends == Extends(db, db)
  BY DEF Extends, Decided

LEMMA BecomesSound ==
    ASSUME Inv, NEW h \in Handlers, NEW k, GoodTask(db, k),
           task' = [task EXCEPT ![h] = k], UNCHANGED db
    PROVE  Inv'
  <1>1. Extends(db, db')  BY SameExtends
  <1>2. Busy(db', task')  BY <1>1, TasksKeep
  <1> QED  BY <1>2 DEF Inv

LEMMA AddExtends ==
    ASSUME Inv, NEW t \in Tables, NEW row, Add(t, row)
    PROVE  /\ Extends(db, db') /\ Lists(db')
           /\ DOMAIN db'[t] = 1 .. Len(db[t]) + 1 /\ DOMAIN db[t] = 1 .. Len(db[t])
           /\ Len(db[t]) \in Nat
           /\ \A i \in DOMAIN db[t] : db'[t][i] = db[t][i]
           /\ db'[t][Len(db[t]) + 1] = row
           /\ \A s \in Tables \ {t} : db'[s] = db[s]
  <1>1. IsList(db[t]) /\ DOMAIN db = Tables  BY DEF Inv, Sound, Lists
  <1>2. db'[t] = Append(db[t], row) /\ \A s \in Tables \ {t} : db'[s] = db[s]
    BY <1>1 DEF Add
  <1>3. DOMAIN db' = Tables  BY <1>1 DEF Add
  <1>4. DOMAIN db[t] = 1 .. Len(db[t]) /\ Len(db[t]) \in Nat  BY <1>1, ListDomain
  <1>5. Lists(db')
    <2>1. IsList(db'[t])  BY <1>1, <1>2, ListAppend
    <2>2. \A s \in Tables \ {t} : IsList(db'[s])  BY <1>2 DEF Inv, Sound, Lists
    <2> QED  BY <1>3, <2>1, <2>2 DEF Lists
  <1>6. /\ DOMAIN db'[t] = 1 .. Len(db[t]) + 1
        /\ \A i \in DOMAIN db[t] : db'[t][i] = db[t][i]
        /\ db'[t][Len(db[t]) + 1] = row
    BY <1>1, <1>2, ListAppend
  <1>7. \A s \in Tables : /\ DOMAIN db[s] \subseteq DOMAIN db'[s]
                          /\ \A i \in DOMAIN db[s] : db'[s][i] = db[s][i]
    BY <1>2, <1>4, <1>6
  <1>8. Extends(db, db')  BY <1>7 DEF Extends, Decided
  <1> QED  BY <1>2, <1>4, <1>5, <1>6, <1>8

LEMMA AddSound ==
    ASSUME Inv, NEW t \in Tables, NEW row, GoodRow(db, t, row), Add(t, row),
           t \in DOMAIN Unique => ~Conflicts(t, row),
           task' = task \/ \E h \in Handlers : task' = [task EXCEPT ![h] = Idle]
    PROVE  Inv'
  <1>1. Extends(db, db') /\ Lists(db')  BY AddExtends
  <1>2. Busy(db', task')  BY <1>1, TasksKeep, IdleIsGood
  <1>3. AllGood(db')
    <2>1. AllGood(db)  BY DEF Inv, Sound
    <2>2. GoodRow(db', t, row)  BY <1>1, <2>1, GoodRowKeeps
    <2>3. ASSUME NEW s \in Tables, NEW i \in DOMAIN db'[s]
          PROVE  GoodRow(db', s, db'[s][i])
      <3>1. CASE i \in DOMAIN db[s]
        <4>1. GoodRow(db, s, db[s][i])  BY <2>1, <3>1 DEF AllGood
        <4>2. db'[s][i] = db[s][i]  BY <3>1, AddExtends
        <4> QED  BY <1>1, <2>1, <4>1, <4>2, GoodRowKeeps
      <3>2. CASE i \notin DOMAIN db[s]
        <4>1. s = t /\ i = Len(db[t]) + 1  BY <2>3, <3>2, AddExtends
        <4> QED  BY <2>2, <4>1, AddExtends
      <3> QED  BY <3>1, <3>2
    <2> QED  BY <2>3 DEF AllGood
  <1>4. Distinct(db')
    <2>1. ASSUME NEW s \in DOMAIN Unique, NEW i \in DOMAIN db'[s], NEW j \in DOMAIN db'[s],
                 db'[s][i][Unique[s]] = db'[s][j][Unique[s]]
          PROVE  i = j
      <3>1. s \in Tables  BY Names
      <3>2. Distinct(db)  BY DEF Inv, Sound
      <3>3. CASE s # t
        BY <2>1, <3>1, <3>2, <3>3, AddExtends DEF Distinct
      <3>4. CASE s = t
        <4>1. \A k \in DOMAIN db[t] : db[t][k][Unique[t]] # row[Unique[t]]
          BY <3>4 DEF Conflicts
        <4>2. \A k \in DOMAIN db'[t] :
                 \/ k \in DOMAIN db[t] /\ db'[t][k] = db[t][k]
                 \/ k = Len(db[t]) + 1 /\ db'[t][k] = row
          <5>1. /\ DOMAIN db'[t] = 1 .. Len(db[t]) + 1 /\ DOMAIN db[t] = 1 .. Len(db[t])
                /\ Len(db[t]) \in Nat
            BY AddExtends
          <5>2. \A k \in DOMAIN db'[t] : k \in DOMAIN db[t] \/ k = Len(db[t]) + 1
            BY <5>1
          <5>3. /\ \A k \in DOMAIN db[t] : db'[t][k] = db[t][k]
                /\ db'[t][Len(db[t]) + 1] = row
            BY AddExtends
          <5> QED  BY <5>2, <5>3
        <4> QED  BY <2>1, <3>2, <3>4, <4>1, <4>2 DEF Distinct
      <3> QED  BY <3>3, <3>4
    <2> QED  BY <2>1 DEF Distinct
  <1> QED  BY <1>1, <1>2, <1>3, <1>4 DEF Inv, Sound

LEMMA DecideSound ==
    ASSUME Inv, NEW h \in Handlers, Decide(h)
    PROVE  Inv'
  <1> DEFINE t == task[h].table  i == task[h].id  d == task[h].decision
             row == [db[t][i] EXCEPT !.status = d]
  <1>1. /\ task[h].does = "decide" /\ task' = [task EXCEPT ![h] = Idle]
        /\ \/ UNCHANGED db
           \/ StillPending(db[t][i]) /\ db' = [db EXCEPT ![t] = [db[t] EXCEPT ![i] = row]]
    BY DEF Decide, Ends
  <1>2. t \in Approvals /\ i \in DOMAIN db[t] /\ t \in Tables
    BY <1>1, Names DEF Inv, Busy, GoodTask
  <1>3. Decided(db[t][i], row) \/ UNCHANGED db
    BY <1>1 DEF Decided, StillPending
  <1>4. GoodRow(db, t, db[t][i])  BY <1>2 DEF Inv, Sound, AllGood
  <1>5. DOMAIN row = DOMAIN db[t][i]  OBVIOUS
  <1> HIDE DEF t, i, d, row
  <1>6. CASE UNCHANGED db
    BY <1>1, <1>6, IdleIsGood, BecomesSound
  <1>7. CASE db' = [db EXCEPT ![t] = [db[t] EXCEPT ![i] = row]] /\ Decided(db[t][i], row)
    <2>1. Lists(db)  BY DEF Inv, Sound
    <2>2. /\ DOMAIN db' = Tables /\ db'[t] = [db[t] EXCEPT ![i] = row]
          /\ \A s \in Tables \ {t} : db'[s] = db[s]
      BY <1>2, <1>7, <2>1 DEF Lists
    <2>3. Lists(db') /\ DOMAIN db'[t] = DOMAIN db[t]
      BY <1>2, <2>1, <2>2, ListExcept DEF Lists
    <2>4. /\ db'[t][i] = row
          /\ \A j \in DOMAIN db[t] \ {i} : db'[t][j] = db[t][j]
      BY <1>2, <2>2
    <2>5. Extends(db, db')
      <3>1. \A j \in DOMAIN db[t] : Decided(db[t][j], db'[t][j])
        BY <1>7, <2>4 DEF Decided
      <3>2. \A s \in Tables \ {t} : \A j \in DOMAIN db[s] : Decided(db[s][j], db'[s][j])
        BY <2>2 DEF Decided
      <3> QED  BY <1>2, <2>2, <2>3, <3>1, <3>2 DEF Extends
    <2>6. Busy(db', task')  BY <1>1, <2>5, TasksKeep, IdleIsGood
    <2>7. AllGood(db')
      <3>1. AllGood(db)  BY DEF Inv, Sound
      <3>2. GoodRow(db, t, row)
        <4>1. {"by", "reviewer", "status"} \subseteq DOMAIN row /\ row.by # row.reviewer
          BY <1>2, <1>4, <1>7 DEF GoodRow, Decided
        <4>2. t = "approvals" => GoodApproval(db, row)
          BY <1>4, <1>7 DEF GoodRow, GoodApproval, Decided
        <4>3. t = "previewApprovals" => GoodPreviewApproval(db, row)
          BY <1>4, <1>7 DEF GoodRow, GoodPreviewApproval, Decided
        <4> QED  BY <1>2, <4>1, <4>2, <4>3 DEF GoodRow, Approvals
      <3>3. ASSUME NEW s \in Tables, NEW j \in DOMAIN db'[s]
            PROVE  GoodRow(db, s, db'[s][j])
        BY <2>2, <2>3, <2>4, <3>1, <3>2, <3>3 DEF AllGood
      <3> QED  BY <2>5, <3>1, <3>3, GoodRowKeeps DEF AllGood
    <2>8. Distinct(db')
      <3>1. \A s \in DOMAIN Unique : \A j \in DOMAIN db[s] :
               db'[s][j][Unique[s]] = db[s][j][Unique[s]]
        <4>1. t \in DOMAIN Unique /\ Unique[t] \in DOMAIN db[t][i] \ {"status"}
          BY <1>2, <1>4 DEF Unique, Approvals, GoodRow, GoodApproval, GoodPreviewApproval
        <4>2. db'[t][i][Unique[t]] = db[t][i][Unique[t]]
          BY <1>7, <2>4, <4>1 DEF Decided
        <4> QED  BY <2>2, <2>4, <4>2, Names
      <3>2. \A s \in DOMAIN Unique : DOMAIN db'[s] = DOMAIN db[s]
        BY <2>2, <2>3, Names
      <3> QED  BY <3>1, <3>2 DEF Inv, Sound, Distinct
    <2> QED  BY <2>3, <2>6, <2>7, <2>8 DEF Inv, Sound
  <1> QED  BY <1>1, <1>3, <1>6, <1>7 DEF row

---------------------------------------------------------------------------
(* The actions.                                                             *)

LEMMA WritesSound ==
    ASSUME Inv, NEW h \in Handlers, NEW t \in Tables, NEW row, GoodRow(db, t, row),
           Writes(h, t, row)
    PROVE  Inv'
  <1> DEFINE k == [does |-> "insert", table |-> t, row |-> row]
  <1>1. GoodTask(db, k)  BY DEF GoodTask
  <1>2. task' = [task EXCEPT ![h] = k] /\ UNCHANGED db
    BY DEF Writes, Becomes
  <1> HIDE DEF k
  <1> QED  BY <1>1, <1>2, BecomesSound

LEMMA InsertSound ==
    ASSUME Inv, NEW h \in Handlers, Insert(h)
    PROVE  Inv'
  <1> DEFINE t == task[h].table  row == task[h].row
  <1>1. task[h].does = "insert" /\ task' = [task EXCEPT ![h] = Idle]
    BY DEF Insert, Ends
  <1>2. \/ UNCHANGED db
        \/ ~Conflicts(t, row) /\ Add(t, row)
    BY DEF Insert
  <1>3. t \in Tables /\ GoodRow(db, t, row)  BY <1>1 DEF Inv, Busy, GoodTask
  <1> HIDE DEF t, row
  <1> QED  BY <1>1, <1>2, <1>3, AddSound, BecomesSound, IdleIsGood

LEMMA ProposeSound ==
    ASSUME Inv, NEW u, NEW s, Propose(u, s)
    PROVE  Inv'
  <1> DEFINE row == [spec |-> s]
  <1>1. ValidSpec(row.spec) /\ Add("requests", row) /\ UNCHANGED task
    BY DEF Propose
  <1> HIDE DEF row
  <1>2. "requests" \in Tables /\ "requests" \notin DOMAIN Unique  BY DEF Tables, Unique
  <1>3. GoodRow(db, "requests", row)  BY <1>1 DEF GoodRow, Approvals
  <1> QED  BY <1>1, <1>2, <1>3, AddSound

LEMMA RegisterSound ==
    ASSUME Inv, NEW u, NEW c, Register(u, c)
    PROVE  Inv'
  <1>1. ~Conflicts("connections", c) /\ Add("connections", c) /\ UNCHANGED task
    BY DEF Register
  <1>2. "connections" \in Tables  BY DEF Tables
  <1>3. GoodRow(db, "connections", c)  BY DEF GoodRow, Approvals
  <1> QED  BY <1>1, <1>2, <1>3, AddSound

LEMMA ReadGroupSound ==
    ASSUME Inv, NEW h \in Handlers, NEW u, NEW r, ReadGroup(h, u, r)
    PROVE  Inv'
  <1> DEFINE k == [does |-> "resolve", request |-> r,
                   enabled |-> db.requests[r].spec.group \in enabled]
  <1>1. GoodTask(db, k)  BY DEF GoodTask, ReadGroup
  <1>2. task' = [task EXCEPT ![h] = k] /\ UNCHANGED db  BY DEF ReadGroup, Becomes
  <1> HIDE DEF k
  <1> QED  BY <1>1, <1>2, BecomesSound

(* A snapshot without findings has targets, and nothing against any.        *)
LEMMA ResolveTargetsSound ==
    ASSUME Inv, NEW h \in Handlers, ResolveTargets(h)
    PROVE  Inv'
  <1> DEFINE r == task[h].request
             s == db.requests[r].spec
             T == Targets(s, reported)
             row == [request |-> r, targets |-> T, status |-> Assess(s, task[h].enabled, T)]
  <1>1. /\ task[h].does = "resolve" /\ task' = [task EXCEPT ![h] = Idle]
        /\ Add("validations", row)
    BY DEF ResolveTargets, Ends
  <1>2. r \in DOMAIN db.requests  BY <1>1 DEF Inv, Busy, GoodTask
  <1>3. Assess(s, task[h].enabled, T) = "compatible" => Clean(s, T)
    <2> HIDE DEF s, T
    <2> QED  BY DEF Assess, Clean
  <1>4. GoodValidation(db, row)  BY <1>2, <1>3 DEF GoodValidation
  <1> HIDE DEF row
  <1>5. "validations" \in Tables /\ "validations" \notin DOMAIN Unique  BY DEF Tables, Unique
  <1>6. GoodRow(db, "validations", row)  BY <1>4 DEF GoodRow, Approvals
  <1> QED  BY <1>1, <1>5, <1>6, AddSound

LEMMA SubmitApprovalSound ==
    ASSUME Inv, NEW h \in Handlers, NEW u, NEW r, NEW v, NEW w, SubmitApproval(h, u, r, v, w)
    PROVE  Inv'
  <1> DEFINE row == [validation |-> v, by |-> u, reviewer |-> w, status |-> "pending_approval"]
  <1>1. Writes(h, "approvals", row) /\ GoodApproval(db, row) /\ row.by # row.reviewer
        /\ {"by", "reviewer", "status"} \subseteq DOMAIN row
    BY DEF SubmitApproval, GoodApproval, Compatible, Eligible
  <1> HIDE DEF row
  <1>2. "approvals" \in Tables /\ GoodRow(db, "approvals", row)
    BY <1>1 DEF Tables, GoodRow
  <1> QED  BY <1>1, <1>2, WritesSound

LEMMA ReviewSound ==
    ASSUME Inv, NEW h \in Handlers, NEW u, NEW t \in Approvals, NEW i, NEW d, Review(h, u, t, i, d)
    PROVE  Inv'
  <1> DEFINE k == [does |-> "decide", table |-> t, id |-> i, decision |-> d]
  <1>1. GoodTask(db, k)  BY DEF GoodTask, Review
  <1>2. task' = [task EXCEPT ![h] = k] /\ UNCHANGED db  BY DEF Review, Becomes
  <1> HIDE DEF k
  <1> QED  BY <1>1, <1>2, BecomesSound

LEMMA PreparePlanSound ==
    ASSUME Inv, NEW h \in Handlers, NEW u, NEW a, PreparePlan(h, u, a)
    PROVE  Inv'
  <1> DEFINE row == [approval |-> a]
  <1>1. Writes(h, "plans", row) /\ GoodPlan(db, row)
    BY DEF PreparePlan, GoodPlan
  <1> HIDE DEF row
  <1>2. "plans" \in Tables /\ GoodRow(db, "plans", row)
    BY <1>1 DEF Tables, GoodRow, Approvals
  <1> QED  BY <1>1, <1>2, WritesSound

LEMMA TestConnectionSound ==
    ASSUME Inv, NEW h \in Handlers, NEW u, NEW i, TestConnection(h, u, i)
    PROVE  Inv'
  <1> DEFINE k == [does |-> "test", connection |-> i,
                   passed |-> db.connections[i].enabled /\ db.connections[i].name \in granted]
  <1>1. GoodTask(db, k)  BY DEF GoodTask
  <1>2. task' = [task EXCEPT ![h] = k] /\ UNCHANGED db  BY DEF TestConnection, Becomes
  <1> HIDE DEF k
  <1> QED  BY <1>1, <1>2, BecomesSound

LEMMA RecordTestSound ==
    ASSUME Inv, NEW h \in Handlers, RecordTest(h)
    PROVE  Inv'
  <1> DEFINE row == [connection |-> task[h].connection, passed |-> task[h].passed]
  <1>1. task' = [task EXCEPT ![h] = Idle] /\ Add("tests", row)
    BY DEF RecordTest, Ends
  <1> HIDE DEF row
  <1>2. "tests" \in Tables /\ "tests" \notin DOMAIN Unique  BY DEF Tables, Unique
  <1>3. GoodRow(db, "tests", row)  BY DEF GoodRow, Approvals
  <1> QED  BY <1>1, <1>2, <1>3, AddSound

LEMMA PreparePreviewSound ==
    ASSUME Inv, NEW h \in Handlers, NEW u, NEW p, NEW i, PreparePreview(h, u, p, i)
    PROVE  Inv'
  <1> DEFINE row == [plan |-> p, connection |-> i,
                     file |-> db.validations[SnapshotOf(p)].targets]
  <1>1. Writes(h, "previews", row) /\ GoodPreview(db, row)
    BY DEF PreparePreview, GoodPreview, SnapshotOf, RequestOf, ValidationOf
  <1> HIDE DEF row
  <1>2. "previews" \in Tables /\ GoodRow(db, "previews", row)
    BY <1>1 DEF Tables, GoodRow, Approvals
  <1> QED  BY <1>1, <1>2, WritesSound

LEMMA SubmitPreviewSound ==
    ASSUME Inv, NEW h \in Handlers, NEW u, NEW w, NEW v, SubmitPreview(h, u, w, v)
    PROVE  Inv'
  <1> DEFINE row == [preview |-> w, by |-> u, reviewer |-> v, status |-> "pending_approval"]
  <1>1. Writes(h, "previewApprovals", row) /\ GoodPreviewApproval(db, row)
        /\ row.by # row.reviewer /\ {"by", "reviewer", "status"} \subseteq DOMAIN row
    BY DEF SubmitPreview, GoodPreviewApproval, Eligible
  <1> HIDE DEF row
  <1>2. "previewApprovals" \in Tables /\ GoodRow(db, "previewApprovals", row)
    BY <1>1 DEF Tables, GoodRow
  <1> QED  BY <1>1, <1>2, WritesSound

LEMMA QueueExecutionSound ==
    ASSUME Inv, NEW h \in Handlers, NEW u, NEW x, QueueExecution(h, u, x)
    PROVE  Inv'
  <1> DEFINE w   == db.previewApprovals[x].preview
             row == [approval |-> x, preview |-> w]
  <1>1. /\ x \in DOMAIN db.previewApprovals /\ db.previewApprovals[x].status = "approved"
        /\ Usable(db.previews[w].connection) /\ Writes(h, "executions", row)
    BY DEF QueueExecution
  <1>2. \E k \in DOMAIN db.tests :
           db.tests[k].connection = db.previews[w].connection /\ db.tests[k].passed
    BY <1>1 DEF Usable, LatestTest
  <1>3. row.approval = x /\ row.preview = w  OBVIOUS
  <1>4. GoodExecution(db, row)
    <2> HIDE DEF row
    <2> QED  BY <1>1, <1>2, <1>3 DEF GoodExecution
  <1> HIDE DEF w, row
  <1>5. "executions" \in Tables /\ GoodRow(db, "executions", row)
    BY <1>4 DEF Tables, GoodRow, Approvals
  <1> QED  BY <1>1, <1>5, WritesSound

(* Nothing but the world changes, or the requests under way are lost.       *)
LEMMA WorldSound ==
    ASSUME Inv, UNCHANGED db, task' \in {task, [h \in Handlers |-> Idle]}
    PROVE  Inv'
  <1>1. Busy(db, task')  BY IdleIsGood DEF Inv, Busy
  <1> QED  BY <1>1 DEF Inv

---------------------------------------------------------------------------
(* The theorems.                                                            *)

LEMMA InitSound == Init => Inv
  <1> SUFFICES ASSUME Init
               PROVE  Inv
    OBVIOUS
  <1>1. DOMAIN db = Tables /\ \A t \in Tables : db[t] = <<>>
    BY DEF Init, Tables
  <1>2. IsList(<<>>)  BY DEF IsList
  <1>3. Sound(db)
    BY <1>1, <1>2, Names DEF Sound, Lists, AllGood, Distinct
  <1>4. Busy(db, task)  BY IdleIsGood DEF Init, Busy
  <1> QED  BY <1>3, <1>4 DEF Inv

LEMMA StepSound == Inv /\ [Next]_vars => Inv'
  <1> SUFFICES ASSUME Inv, [Next]_vars
               PROVE  Inv'
    OBVIOUS
  <1>1. CASE UNCHANGED vars
    BY <1>1, WorldSound DEF vars
  <1>2. ASSUME NEW h \in Handlers, NEW u \in Users, Submits(h, u)
        PROVE  Inv'
    BY <1>2, ReadGroupSound, SubmitApprovalSound, SubmitPreviewSound DEF Submits
  <1>3. ASSUME NEW h \in Handlers, NEW u \in Users, Reviews(h, u)
        PROVE  Inv'
    BY <1>3, ReviewSound DEF Reviews, Approvals
  <1>4. ASSUME NEW h \in Handlers, NEW u \in Users, Administers(h, u)
        PROVE  Inv'
    BY <1>4, PreparePlanSound, TestConnectionSound, PreparePreviewSound, QueueExecutionSound
       DEF Administers
  <1>5. ASSUME NEW a, NEW r, AgentReports(a, r)
        PROVE  Inv'
    BY <1>5, WorldSound DEF AgentReports, others
  <1>6. ASSUME NEW u, NEW k, ChangeRank(u, k)
        PROVE  Inv'
    BY <1>6, WorldSound DEF ChangeRank, others
  <1>7. ASSUME NEW g, ToggleGroup(g)
        PROVE  Inv'
    BY <1>7, WorldSound DEF ToggleGroup, others
  <1>8. ASSUME NEW n, ToggleAccess(n)
        PROVE  Inv'
    BY <1>8, WorldSound DEF ToggleAccess, others
  <1>9. CASE Expire \/ Restart
    BY <1>9, WorldSound DEF Expire, Restart
  <1>10. CASE Next
    BY <1>2, <1>3, <1>4, <1>5, <1>6, <1>7, <1>8, <1>9, <1>10, ProposeSound, RegisterSound,
       ResolveTargetsSound, RecordTestSound, InsertSound, DecideSound DEF Next
  <1> QED  BY <1>1, <1>10

THEOREM Soundness == Spec => []Inv
  <1> QED  BY InitSound, StepSound, PTL DEF Spec

(* The chain behind an execution, as the invariant has it.                  *)
LEMMA Chain ==
    ASSUME Inv, NEW i \in DOMAIN db.executions
    PROVE  LET x == db.executions[i].approval
               w == db.executions[i].preview
               p == db.previews[w].plan
               a == db.plans[p].approval
               v == db.approvals[a].validation
           IN /\ x \in DOMAIN db.previewApprovals /\ GoodExecution(db, db.executions[i])
              /\ db.previewApprovals[x].by # db.previewApprovals[x].reviewer
              /\ db.previewApprovals[x].preview = w
              /\ w \in DOMAIN db.previews /\ GoodPreview(db, db.previews[w])
              /\ p \in DOMAIN db.plans /\ GoodPlan(db, db.plans[p])
              /\ a \in DOMAIN db.approvals /\ GoodApproval(db, db.approvals[a])
              /\ db.approvals[a].by # db.approvals[a].reviewer
              /\ v \in DOMAIN db.validations /\ GoodValidation(db, db.validations[v])
              /\ db.validations[v].status = "compatible"
              /\ v = SnapshotOf(p) /\ ValidationOf(db, p) = db.validations[v]
              /\ ValidSpec(RequestOf(v).spec)
  <1> DEFINE x == db.executions[i].approval
             w == db.executions[i].preview
             p == db.previews[w].plan
             a == db.plans[p].approval
             v == db.approvals[a].validation
  <1>1. AllGood(db)  BY DEF Inv, Sound
  <1>2. GoodExecution(db, db.executions[i])  BY <1>1 DEF AllGood, GoodRow, Tables
  <1>3. x \in DOMAIN db.previewApprovals /\ db.previewApprovals[x].preview = w
    BY <1>2 DEF GoodExecution
  <1>4. /\ db.previewApprovals[x].by # db.previewApprovals[x].reviewer
        /\ GoodPreviewApproval(db, db.previewApprovals[x])
    BY <1>1, <1>3 DEF AllGood, GoodRow, Tables, Approvals
  <1>5. w \in DOMAIN db.previews  BY <1>3, <1>4 DEF GoodPreviewApproval
  <1>6. GoodPreview(db, db.previews[w])  BY <1>1, <1>5 DEF AllGood, GoodRow, Tables
  <1>7. p \in DOMAIN db.plans  BY <1>6 DEF GoodPreview
  <1>8. GoodPlan(db, db.plans[p])  BY <1>1, <1>7 DEF AllGood, GoodRow, Tables
  <1>9. a \in DOMAIN db.approvals  BY <1>8 DEF GoodPlan
  <1>10. GoodApproval(db, db.approvals[a]) /\ db.approvals[a].by # db.approvals[a].reviewer
    BY <1>1, <1>9 DEF AllGood, GoodRow, Tables, Approvals
  <1>11. v \in DOMAIN db.validations /\ db.validations[v].status = "compatible"
    BY <1>10 DEF GoodApproval
  <1>12. GoodValidation(db, db.validations[v])  BY <1>1, <1>11 DEF AllGood, GoodRow, Tables
  <1>13. ValidSpec(RequestOf(v).spec)
    BY <1>1, <1>12 DEF GoodValidation, AllGood, GoodRow, Tables, RequestOf
  <1>14. v = SnapshotOf(p) /\ ValidationOf(db, p) = db.validations[v]
    BY DEF SnapshotOf, ValidationOf
  <1> QED  BY <1>2, <1>3, <1>4, <1>5, <1>6, <1>7, <1>8, <1>9, <1>10, <1>11, <1>12, <1>13, <1>14

(* What is queued was approved twice by somebody else than its submitter,   *)
(* rests on a snapshot without findings, and writes its targets to a        *)
(* repository that the group may use and that was reached (deployments.go,  *)
(* component_approvals.go, gitops_preview_approval.go).                     *)
THEOREM QueuedWasApproved == Spec => []QueuedIsApproved
  <1>1. ASSUME Inv, NEW i \in DOMAIN db.executions
        PROVE  LET x == db.previewApprovals[db.executions[i].approval]
                   w == db.previews[db.executions[i].preview]
                   a == db.approvals[db.plans[w.plan].approval]
                   v == db.validations[a.validation]
               IN /\ FourEyes(x) /\ x.preview = db.executions[i].preview
                  /\ FourEyes(a) /\ v.status = "compatible" /\ w.file = v.targets
                  /\ Allows(db.connections[w.connection], db.requests[v.request].spec.group)
                  /\ \E k \in DOMAIN db.tests :
                        db.tests[k].connection = w.connection /\ db.tests[k].passed
    BY <1>1, Chain DEF FourEyes, GoodExecution, GoodPlan, GoodPreview
  <1>2. Inv => QueuedIsApproved  BY <1>1 DEF QueuedIsApproved
  <1> QED  BY <1>2, Soundness, PTL

(* One snapshot is queued once, however many requests act on it at once:    *)
(* the UNIQUE columns of four tables, one after another.                    *)
THEOREM SnapshotsAreQueuedOnce == Spec => []QueuedOnce
  <1>1. ASSUME Inv, NEW t \in DOMAIN Unique, NEW i \in DOMAIN db[t], NEW j \in DOMAIN db[t],
               db[t][i][Unique[t]] = db[t][j][Unique[t]]
        PROVE  i = j
    BY <1>1 DEF Inv, Sound, Distinct
  <1>2. ASSUME Inv
        PROVE  /\ \A i, j \in DOMAIN db.approvals :
                     db.approvals[i].validation = db.approvals[j].validation => i = j
               /\ \A i, j \in DOMAIN db.plans :
                     db.plans[i].approval = db.plans[j].approval => i = j
               /\ \A i, j \in DOMAIN db.previews :
                     db.previews[i].plan = db.previews[j].plan => i = j
               /\ \A i, j \in DOMAIN db.executions :
                     db.executions[i].approval = db.executions[j].approval => i = j
               /\ \A i, j \in DOMAIN db.previewApprovals :
                     db.previewApprovals[i].preview = db.previewApprovals[j].preview => i = j
    BY <1>1, <1>2 DEF Unique
  <1>3. ASSUME Inv, NEW i \in DOMAIN db.executions, NEW j \in DOMAIN db.executions,
               SnapshotOfExecution(i) = SnapshotOfExecution(j)
        PROVE  i = j
    <2> DEFINE w(k) == db.executions[k].preview
               p(k) == db.previews[w(k)].plan
               a(k) == db.plans[p(k)].approval
    <2>1. a(i) = a(j)
      BY <1>2, <1>3, Chain DEF SnapshotOfExecution, SnapshotOf
    <2>2. p(i) = p(j)  BY <1>2, <1>3, <2>1, Chain
    <2>3. w(i) = w(j)  BY <1>2, <1>3, <2>2, Chain
    <2> DEFINE x(k) == db.executions[k].approval
    <2>4. x(i) = x(j)
      <3>1. \A k \in {i, j} : /\ x(k) \in DOMAIN db.previewApprovals
                              /\ db.previewApprovals[x(k)].preview = w(k)
        BY <1>3, Chain
      <3> HIDE DEF x, w
      <3> QED  BY <1>2, <1>3, <2>3, <3>1
    <2> QED  BY <1>2, <1>3, <2>4
  <1>4. Inv => QueuedOnce  BY <1>3 DEF QueuedOnce
  <1> QED  BY <1>4, Soundness, PTL

(* Only a change of Kubernetes collectors passes the findings and reaches a *)
(* repository, and each of its targets was up, healthy, in FleetAMP's care  *)
(* and of the version to replace (lifecycle/compatibility.go).              *)
THEOREM QueuedFits == Spec => []QueuedTargetsFit
  <1>1. ASSUME NEW s, NEW r, ValidSpec(s), s.method = "gitops", ~Blocking(s, r), ~Advisory(s, r)
        PROVE  /\ s.type = "otel-collector-kubernetes"
               /\ r.runtime = "kubernetes" /\ r.authority = "lifecycle_managed"
               /\ r.connected /\ r.healthy
               /\ s.operation # "install" => r.version = s.current
    BY <1>1 DEF ValidSpec, Blocking, Advisory, Runtimes, ComponentTypes
  <1>2. ASSUME Inv, NEW i \in DOMAIN db.executions
        PROVE  LET w == db.previews[db.executions[i].preview]
                   s == RequestOf(SnapshotOf(w.plan)).spec
               IN /\ s.type = "otel-collector-kubernetes" /\ w.file # {}
                  /\ \A t \in w.file :
                        /\ t.report.runtime = "kubernetes"
                        /\ t.report.authority = "lifecycle_managed"
                        /\ t.report.connected /\ t.report.healthy
                        /\ s.operation # "install" => t.report.version = s.current
    <2> DEFINE w == db.previews[db.executions[i].preview]
               s == RequestOf(SnapshotOf(w.plan)).spec
    <2>1. ValidSpec(s) /\ s.method = "gitops" /\ Clean(s, w.file)
      BY <1>2, Chain DEF GoodPreview, GoodValidation, RequestOf, ValidationOf
    <2>2. w.file # {} /\ \A t \in w.file : ~Blocking(s, t.report) /\ ~Advisory(s, t.report)
      BY <2>1 DEF Clean
    <2> HIDE DEF w, s
    <2>3. /\ s.type = "otel-collector-kubernetes" /\ w.file # {}
          /\ \A t \in w.file :
                /\ t.report.runtime = "kubernetes"
                /\ t.report.authority = "lifecycle_managed"
                /\ t.report.connected /\ t.report.healthy
                /\ s.operation # "install" => t.report.version = s.current
      BY <1>1, <2>1, <2>2
    <2> QED  BY <2>3 DEF w, s
  <1>3. Inv => QueuedTargetsFit  BY <1>2 DEF QueuedTargetsFit
  <1> QED  BY <1>3, Soundness, PTL
=============================================================================
