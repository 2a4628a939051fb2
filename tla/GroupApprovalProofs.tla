------------------------ MODULE GroupApprovalProofs ------------------------
(***************************************************************************)
(* What holds of deployment requests for any number of users, agents,      *)
(* requests and handlers at once: each is decided once, carried out only   *)
(* when somebody else approved it, and delivered once to each target.      *)
(***************************************************************************)
EXTENDS GroupApproval, WellFoundedInduction, TLAPS

USE GroupApprovalAssumption

---------------------------------------------------------------------------
(* The newest of a set of positions.                                         *)

LEMMA LargestExists ==
    ASSUME NEW n \in Nat, NEW I \in SUBSET (1 .. n), I # {}
    PROVE  \E i \in I : \A j \in I : j <= i
  <1> DEFINE T == {n - i : i \in I}
             R == OpToRel(<, Nat)
  <1>1. T \subseteq Nat /\ T # {}
    <2>1. \A i \in I : i \in Nat /\ i <= n  OBVIOUS
    <2>2. \A i \in I : n - i \in Nat  BY <2>1
    <2> QED  BY <2>2
  <1> HIDE DEF R
  <1>2. PICK x \in T : \A y \in T : ~(<<y, x>> \in R)
    <2>1. IsWellFoundedOn(R, Nat)  BY NatLessThanWellFounded DEF R
    <2> HIDE DEF T
    <2> QED  BY <1>1, <2>1, WFMin
  <1>3. \A y \in T : x <= y
    <2>1. \A y \in T : y \in Nat /\ x \in Nat  BY <1>1
    <2> HIDE DEF T
    <2>2. \A y \in T : ~(y < x)  BY <1>2, <2>1 DEF R, OpToRel
    <2> QED  BY <2>1, <2>2
  <1>4. PICK i \in I : x = n - i  OBVIOUS
  <1>5. \A j \in I : n - j \in T  OBVIOUS
  <1>6. \A j \in I : n - i <= n - j  BY <1>3, <1>4, <1>5
  <1> QED  BY <1>6

LEMMA NewestType ==
    ASSUME NEW n \in Nat, NEW I \in SUBSET (1 .. n)
    PROVE  /\ I = {} => Newest(I) = 0
           /\ I # {} => Newest(I) \in I
           /\ Newest(I) \in Nat
           /\ Newest(I) # 0 => Newest(I) \in I
  <1>1. I # {} => Newest(I) \in I  BY LargestExists DEF Newest
  <1>2. I = {} => Newest(I) = 0  BY DEF Newest
  <1>3. \A i \in I : i \in Nat  OBVIOUS
  <1> HIDE DEF Newest
  <1>4. CASE I = {}  BY <1>2, <1>4
  <1>5. CASE I # {}  BY <1>1, <1>3, <1>5
  <1> QED  BY <1>4, <1>5


---------------------------------------------------------------------------
(* Histories of one agent only grow: what an attempt carries stays, and what *)
(* was applied stays applied.                                                *)

Grown(s, t) ==
    /\ Len(s) <= Len(t)
    /\ \A i \in 1 .. Len(s) :
          /\ t[i].config = s[i].config /\ t[i].request = s[i].request
          /\ s[i].status = "applied" => t[i].status = "applied"

(* From one history to the next nothing is added in the name of a request    *)
(* but, at most, the first attempt after s for r, of configuration c.        *)
AddsOnly(s, t, r, c) ==
    \A i \in (Len(s) + 1) .. Len(t) :
        t[i].request = 0 \/ (i = Len(s) + 1 /\ t[i].request = r /\ t[i].config = c)

Adds(s, t, r, c) == t \in Seq(Attempt) /\ Grown(s, t) /\ AddsOnly(s, t, r, c)

LEMMA HistoryDomain ==
    ASSUME NEW s \in Seq(Attempt)
    PROVE  /\ Len(s) \in Nat /\ DOMAIN s = 1 .. Len(s)
           /\ \A i \in 1 .. Len(s) : s[i] \in Attempt
  OBVIOUS

LEMMA NothingAdds ==
    ASSUME NEW s \in Seq(Attempt), NEW r \in Nat, NEW c
    PROVE  Adds(s, s, r, c)
  BY HistoryDomain DEF Adds, Grown, AddsOnly

LEMMA SentAdds ==
    ASSUME NEW s \in Seq(Attempt), NEW c \in Configs, NEW act \in {"deploy", "rollback"},
           NEW prev \in Configs \cup {None}, NEW r \in Nat, NEW ok \in BOOLEAN
    PROVE  /\ Adds(s, Sent(s, c, act, prev, r, ok), r, c)
           /\ Len(Sent(s, c, act, prev, r, ok)) = Len(s) + 1
  <1> DEFINE row == [config |-> c, request |-> r, action |-> act, prev |-> prev,
                     claimed |-> FALSE, status |-> IF ok THEN "sent" ELSE "failed"]
             t == Append(s, row)
  <1>1. row \in Attempt  BY DEF Attempt
  <1>2. row.request = r /\ row.config = c  OBVIOUS
  <1> HIDE DEF row
  <1>3. t \in Seq(Attempt) /\ Len(t) = Len(s) + 1 /\ Len(s) \in Nat  BY <1>1
  <1>4. t[Len(s) + 1] = row  BY <1>1
  <1>5. \A i \in 1 .. Len(s) : t[i] = s[i]  BY <1>1
  <1>6. t = Sent(s, c, act, prev, r, ok)  BY DEF Sent, row
  <1> HIDE DEF t
  <1>7. Grown(s, t)  BY <1>3, <1>5 DEF Grown
  <1>8. AddsOnly(s, t, r, c)
    <2>1. \A i \in (Len(s) + 1) .. Len(t) : i = Len(s) + 1  BY <1>3
    <2> QED  BY <2>1, <1>2, <1>4 DEF AddsOnly
  <1> QED  BY <1>3, <1>6, <1>7, <1>8 DEF Adds

(* One attempt of the history changes, and only in its claim or, unless it   *)
(* has been applied, in its status.                                          *)
LEMMA RewriteAdds ==
    ASSUME NEW s \in Seq(Attempt), NEW t, NEW k \in 1 .. Len(s), NEW row \in Attempt,
           t = [s EXCEPT ![k] = row],
           row.config = s[k].config, row.request = s[k].request,
           s[k].status = "applied" => row.status = "applied",
           NEW r \in Nat, NEW c
    PROVE  Adds(s, t, r, c) /\ Len(t) = Len(s)
  <1>1. t \in Seq(Attempt) /\ Len(t) = Len(s) /\ Len(s) \in Nat  OBVIOUS
  <1>2. \A i \in 1 .. Len(s) : t[i] = IF i = k THEN row ELSE s[i]  OBVIOUS
  <1>3. Grown(s, t)  BY <1>1, <1>2 DEF Grown
  <1>4. AddsOnly(s, t, r, c)  BY <1>1 DEF AddsOnly
  <1> QED  BY <1>1, <1>3, <1>4 DEF Adds

LEMMA AddsTwice ==
    ASSUME NEW s \in Seq(Attempt), NEW t \in Seq(Attempt), NEW u \in Seq(Attempt),
           NEW r \in Nat, NEW c, NEW d, Adds(s, t, r, c), Adds(t, u, 0, d)
    PROVE  Adds(s, u, r, c)
  <1>1. Len(s) \in Nat /\ Len(t) \in Nat /\ Len(u) \in Nat  OBVIOUS
  <1>2. Grown(s, u)
    <2>1. Len(s) <= Len(t) /\ Len(t) <= Len(u)  BY DEF Adds, Grown
    <2>2. \A i \in 1 .. Len(s) : i \in 1 .. Len(t)  BY <1>1, <2>1
    <2> QED  BY <1>1, <2>1, <2>2 DEF Adds, Grown
  <1>3. AddsOnly(s, u, r, c)
    <2> SUFFICES ASSUME NEW i \in (Len(s) + 1) .. Len(u)
                 PROVE  u[i].request = 0 \/ (i = Len(s) + 1 /\ u[i].request = r /\ u[i].config = c)
      BY DEF AddsOnly
    <2>1. CASE i <= Len(t)
      <3>1. i \in (Len(s) + 1) .. Len(t) /\ i \in 1 .. Len(t)  BY <1>1, <2>1
      <3> QED  BY <3>1 DEF Adds, Grown, AddsOnly
    <2>2. CASE ~(i <= Len(t))
      <3>1. i \in (Len(t) + 1) .. Len(u)  BY <1>1, <2>2
      <3> QED  BY <3>1 DEF Adds, AddsOnly
    <2> QED  BY <2>1, <2>2
  <1> QED  BY <1>2, <1>3 DEF Adds

(* The automatic rollback carries no request.                                *)
LEMMA RollBackAdds ==
    ASSUME NEW s \in Seq(Attempt), NEW i \in Nat, i # 0 => i \in 1 .. Len(s),
           NEW ok \in BOOLEAN, NEW r \in Nat, NEW c
    PROVE  Adds(s, RollBack(s, i, ok), r, c)
  <1> DEFINE t == [s EXCEPT ![i].claimed = TRUE]
  <1>1. CASE i = 0 \/ s[i].action # "deploy" \/ s[i].prev = None \/ s[i].claimed
    BY <1>1, NothingAdds DEF RollBack
  <1>2. CASE ~(i = 0 \/ s[i].action # "deploy" \/ s[i].prev = None \/ s[i].claimed)
    <2>1. i \in 1 .. Len(s) /\ s[i] \in Attempt /\ s[i].prev # None  BY <1>2, HistoryDomain
    <2>2. s[i].prev \in Configs  BY <2>1 DEF Attempt
    <2>3. [s[i] EXCEPT !.claimed = TRUE] \in Attempt  BY <2>1 DEF Attempt
    <2>4. Adds(s, t, 0, c) /\ Adds(s, t, r, c) /\ t \in Seq(Attempt)
      <3> DEFINE row == [s[i] EXCEPT !.claimed = TRUE]
      <3>1. /\ row \in Attempt /\ row.config = s[i].config /\ row.request = s[i].request
            /\ row.status = s[i].status
        BY <2>1, <2>3 DEF Attempt
      <3>2. t = [s EXCEPT ![i] = row]  OBVIOUS
      <3> HIDE DEF row, t
      <3>3. Adds(s, t, 0, c)  BY <2>1, <3>1, <3>2, RewriteAdds
      <3>4. Adds(s, t, r, c)  BY <2>1, <3>1, <3>2, RewriteAdds
      <3> QED  BY <3>3, <3>4 DEF Adds
    <2> HIDE DEF t
    <2>5. CASE Refuses(t, s[i].prev)
      BY <1>2, <2>4, <2>5 DEF RollBack, t
    <2>6. CASE ~Refuses(t, s[i].prev)
      <3> DEFINE u == Sent(t, s[i].prev, "rollback", None, 0, ok)
      <3>1. Adds(t, u, 0, s[i].prev)  BY <2>2, <2>4, SentAdds
      <3>2. RollBack(s, i, ok) = u  BY <1>2, <2>6 DEF RollBack, t
      <3> HIDE DEF u
      <3>3. u \in Seq(Attempt)  BY <3>1 DEF Adds
      <3>4. Adds(s, u, r, c)  BY <2>4, <3>1, <3>3, AddsTwice
      <3> QED  BY <3>2, <3>4
    <2> QED  BY <2>5, <2>6
  <1> QED  BY <1>1, <1>2


---------------------------------------------------------------------------
(* Requests: once made, a row keeps what was asked for, and once approved it *)
(* stays approved by the same user.                                          *)

Approved == {"deploying", "completed", "failed"}

Keeps(q, n) ==
    q.status # "absent" =>
        /\ n.status # "absent"
        /\ n.config = q.config /\ n.targets = q.targets
        /\ n.by = q.by /\ n.since = q.since
        /\ q.status \in Approved => n.status \in Approved /\ n.reviewedBy = q.reviewedBy

RequestsKeep ==
    /\ request' \in [Requests -> Request]
    /\ \A r \in Requests : Keeps(request[r], request'[r])

(* Every target of a request has applied it since it was made.               *)
Applied(r) ==
    \A a \in request[r].targets : \E i \in DOMAIN attempts[a] :
        /\ i > request[r].since[a]
        /\ attempts[a][i].config = request[r].config
        /\ attempts[a][i].status = "applied"

(* Only what has been asked for has a configuration.                         *)
MadeInv ==
    \A r \in Requests : request[r].status # "absent" => request[r].config \in Configs

(* What a handler holds while it works on a request.                         *)
Working(p) == task[p].at # "idle"

TaskGood(p) ==
    Working(p) =>
        LET q == request[task[p].request] IN
        /\ task[p].request \in Requests /\ q.status # "absent"
        /\ task[p].op \in DOMAIN Decision /\ task[p].by \in Users
        /\ task[p].op = "approve" => task[p].by # q.by
        /\ task[p].at \in {"check", "deliver"} => task[p].op = "approve"
        /\ task[p].at = "deliver" =>
              /\ q.status \in Approved /\ q.reviewedBy \notin {Nobody, q.by}
              /\ task[p].todo \subseteq q.targets

TaskInv == \A p \in Handlers : TaskGood(p)

(* What a handler has still to deliver has not been delivered, and nobody    *)
(* else delivers it.                                                         *)
TodoInv ==
    \A p \in Handlers : task[p].at = "deliver" =>
        /\ \A a \in task[p].todo : \A i \in DOMAIN attempts[a] :
               attempts[a][i].request # task[p].request
        /\ \A o \in Handlers : task[o].at = "deliver" /\ o # p =>
               task[o].request # task[p].request

PageInv ==
    page = NoPage \/
        /\ page.request \in Requests /\ request[page.request].status # "absent"
        /\ page.verdict \in {"completed", "failed"}
        /\ page.verdict = "completed" => Applied(page.request)

Inv == TypeOK /\ MadeInv /\ TaskInv /\ TodoInv /\ PageInv
       /\ AttemptsAreApproved /\ DeliveredOnce /\ CompletedIsApplied

LEMMA DecisionDomain ==
    /\ DOMAIN Decision = {"approve", "reject", "send_back", "cancel"}
    /\ Decision["approve"] = "deploying" /\ Decision["reject"] = "rejected"
    /\ Decision["send_back"] = "sent_back" /\ Decision["cancel"] = "cancelled"
  BY DEF Decision

LEMMA NoTaskType == NoTask \in Task /\ NoTask.at = "idle"
  BY DecisionDomain DEF NoTask, Task

LEMMA RequestsAreNumbers == \A r \in Requests : r \in Nat /\ r # 0
  BY DEF Requests

LEMMA DoneType ==
    ASSUME TypeOK, NEW p \in Handlers, Done(p)
    PROVE  /\ task' \in [Handlers -> Task] /\ task'[p].at = "idle"
           /\ \A o \in Handlers : o # p => task'[o] = task[o]
  BY NoTaskType DEF Done, TypeOK

LEMMA GotoType ==
    ASSUME TypeOK, NEW p \in Handlers, NEW l \in {"idle", "check", "review", "deliver"},
           Goto(p, l)
    PROVE  /\ task' \in [Handlers -> Task]
           /\ task'[p].at = l /\ task'[p].op = task[p].op /\ task'[p].by = task[p].by
           /\ task'[p].request = task[p].request
           /\ \A o \in Handlers : o # p => task'[o] = task[o]
  <1>1. task[p] \in Task  BY DEF TypeOK
  <1>2. [task[p] EXCEPT !.at = l] \in Task  BY <1>1 DEF Task
  <1>3. task' = [task EXCEPT ![p] = [task[p] EXCEPT !.at = l]]  BY DEF Goto, TypeOK
  <1> QED  BY <1>1, <1>2, <1>3 DEF TypeOK, Task

LEMMA DeliverTaskType ==
    ASSUME NEW x \in Task, NEW y \in SUBSET Agents
    PROVE  LET z == [x EXCEPT !.at = "deliver", !.todo = y] IN
           /\ z \in Task /\ z.at = "deliver" /\ z.todo = y
           /\ z.request = x.request /\ z.op = x.op /\ z.by = x.by
  BY DEF Task

LEMMA SweepKeeps ==
    ASSUME TypeOK, request' = Sweep
    PROVE  /\ RequestsKeep
           /\ \A r \in Requests : request'[r].status = request[r].status
                 \/ (request[r].status = "pending_approval" /\ request'[r].status = "expired")
  <1>1. \A r \in Requests : request[r] \in Request  BY DEF TypeOK
  <1>2. \A r \in Requests : request'[r] = IF Swept(r) THEN [request[r] EXCEPT !.status = "expired"]
                                                      ELSE request[r]
    BY DEF Sweep
  <1>0. \A r \in Requests : LET row == [request[r] EXCEPT !.status = "expired"] IN
           row \in Request /\ row.status = "expired"
    BY <1>1 DEF Request, Statuses
  <1>3. \A r \in Requests : request'[r] \in Request
    BY <1>0, <1>1, <1>2
  <1>4. \A r \in Requests : Keeps(request[r], request'[r])
    BY <1>1, <1>2 DEF Request, Keeps, Swept, Pending, Approved
  <1>5. request' \in [Requests -> Request]  BY <1>3 DEF Sweep
  <1>6. \A r \in Requests : request'[r].status = request[r].status
           \/ (request[r].status = "pending_approval" /\ request'[r].status = "expired")
    <2> SUFFICES ASSUME NEW r \in Requests
                 PROVE  request'[r].status = request[r].status
                    \/ (request[r].status = "pending_approval" /\ request'[r].status = "expired")
      OBVIOUS
    <2>1. CASE Swept(r)
      <3>1. request'[r] = [request[r] EXCEPT !.status = "expired"]  BY <1>2, <2>1
      <3>2. request'[r].status = "expired"  BY <1>0, <3>1
      <3> QED  BY <2>1, <3>2 DEF Swept, Pending
    <2>2. CASE ~Swept(r)  BY <1>2, <2>2
    <2> QED  BY <2>1, <2>2
  <1> QED  BY <1>4, <1>5, <1>6 DEF RequestsKeep

LEMMA ConcludeKeeps ==
    ASSUME TypeOK, NEW r \in Requests, NEW s \in {"completed", "failed"}, Conclude(r, s)
    PROVE  /\ RequestsKeep
           /\ \A o \in Requests : o # r => request'[o] = request[o]
           /\ request'[r].status = request[r].status
              \/ (request[r].status = "deploying" /\ request'[r].status = s)
  <1>1. \A o \in Requests : request[o] \in Request  BY DEF TypeOK
  <1>2. CASE request[r].status = "deploying"
    <2> DEFINE row == [request[r] EXCEPT !.status = s]
    <2>1. row \in Request /\ row.status = s /\ Keeps(request[r], row)
      BY <1>1, <1>2 DEF Request, Statuses, Keeps, Approved
    <2>2. request' = [request EXCEPT ![r] = row]  BY <1>2 DEF Conclude
    <2> HIDE DEF row
    <2>3. request'[r] = row /\ \A o \in Requests : o # r => request'[o] = request[o]
      BY <2>2 DEF TypeOK
    <2>4. request' \in [Requests -> Request]  BY <2>1, <2>2 DEF TypeOK
    <2>5. \A o \in Requests : Keeps(request[o], request[o])  BY DEF Keeps
    <2> QED  BY <1>2, <2>1, <2>3, <2>4, <2>5 DEF RequestsKeep
  <1>3. CASE request[r].status # "deploying"
    <2>1. request' = request  BY <1>3 DEF Conclude
    <2>2. \A o \in Requests : Keeps(request[o], request[o])  BY DEF Keeps
    <2>3. request \in [Requests -> Request]  BY DEF TypeOK
    <2> QED  BY <2>1, <2>2, <2>3 DEF RequestsKeep
  <1> QED  BY <1>2, <1>3

LEMMA ReviewedKeeps ==
    ASSUME TypeOK, NEW r \in Requests, NEW s \in Statuses, NEW u \in Users, s # "absent",
           Pending(r), Reviewed(r, s, u)
    PROVE  /\ RequestsKeep
           /\ \A o \in Requests : o # r => request'[o] = request[o]
           /\ request'[r].status = s /\ request'[r].reviewedBy = u
           /\ request'[r].targets = request[r].targets /\ request'[r].by = request[r].by
  <1> DEFINE row == [request[r] EXCEPT !.status = s, !.reviewedBy = u]
  <1>1. \A o \in Requests : request[o] \in Request  BY DEF TypeOK
  <1>2. /\ row \in Request /\ row.status = s /\ row.reviewedBy = u
        /\ row.targets = request[r].targets /\ row.by = request[r].by
        /\ row.config = request[r].config /\ row.since = request[r].since
    BY <1>1 DEF Request
  <1>3. request' = [request EXCEPT ![r] = row]  BY DEF Reviewed
  <1> HIDE DEF row
  <1>4. request'[r] = row /\ \A o \in Requests : o # r => request'[o] = request[o]
    BY <1>3 DEF TypeOK
  <1>5. request' \in [Requests -> Request]  BY <1>2, <1>3 DEF TypeOK
  <1>6. Keeps(request[r], row)  BY <1>2 DEF Pending, Keeps, Approved
  <1>7. \A o \in Requests : Keeps(request[o], request[o])  BY DEF Keeps
  <1> QED  BY <1>2, <1>4, <1>5, <1>6, <1>7 DEF RequestsKeep


---------------------------------------------------------------------------
(* The steps that write to a history.                                        *)

LEMMA HistoryType ==
    ASSUME TypeOK, NEW a \in Agents
    PROVE  attempts[a] \in Seq(Attempt)
  BY DEF TypeOK

LEMMA AnswerWrites ==
    ASSUME TypeOK, NEW a \in Agents, NEW t \in Seq(Attempt),
           attempts' = [attempts EXCEPT ![a] = t]
    PROVE  /\ attempts' \in [Agents -> Seq(Attempt)] /\ attempts'[a] = t
           /\ \A b \in Agents : b # a => attempts'[b] = attempts[b]
  BY DEF TypeOK

(* Nothing is added in the name of a request.                                *)
Quietly ==
    /\ attempts' \in [Agents -> Seq(Attempt)]
    /\ \A a \in Agents : Adds(attempts[a], attempts'[a], 0, None)

LEMMA UnchangedQuietly ==
    ASSUME TypeOK, UNCHANGED attempts
    PROVE  Quietly
  BY HistoryType, NothingAdds DEF Quietly, TypeOK

LEMMA AnswerQuietly ==
    ASSUME TypeOK, NEW a \in Agents, NEW t, NEW c, Adds(attempts[a], t, 0, c), Answer(a, t)
    PROVE  Quietly
  <1>1. t \in Seq(Attempt) /\ Adds(attempts[a], t, 0, None)
    BY DEF Adds, AddsOnly
  <1>2. /\ attempts' \in [Agents -> Seq(Attempt)] /\ attempts'[a] = t
        /\ \A b \in Agents : b # a => attempts'[b] = attempts[b]
    BY <1>1, AnswerWrites DEF Answer
  <1> QED  BY <1>1, <1>2, HistoryType, NothingAdds DEF Quietly

LEMMA InFlightRow ==
    ASSUME NEW s \in Seq(Attempt), InFlight(s)
    PROVE  Len(s) \in 1 .. Len(s) /\ Len(s) \in Nat /\ s[Len(s)].status = "sent"
  <1>1. Len(s) \in Nat /\ (s # << >> => Len(s) # 0)  OBVIOUS
  <1> QED  BY <1>1 DEF InFlight, Last

LEMMA AppliesQuietly ==
    ASSUME TypeOK, NEW a \in Agents, AgentApplies(a)
    PROVE  Quietly
  <1> DEFINE s == attempts[a]
             row == [s[Len(s)] EXCEPT !.status = "applied"]
             t == [s EXCEPT ![Len(s)] = row]
  <1>1. s \in Seq(Attempt) /\ Len(s) \in 1 .. Len(s)
    BY HistoryType, InFlightRow DEF AgentApplies
  <1>2. s[Len(s)] \in Attempt  BY <1>1, HistoryDomain
  <1>3. /\ row \in Attempt /\ row.config = s[Len(s)].config
        /\ row.request = s[Len(s)].request /\ row.status = "applied"
    BY <1>2 DEF Attempt
  <1>4. Answer(a, t)  BY DEF AgentApplies
  <1> HIDE DEF row, s
  <1>5. Adds(s, t, 0, None)  BY <1>1, <1>3, RewriteAdds
  <1> QED  BY <1>4, <1>5, AnswerQuietly DEF s

LEMMA FailsQuietly ==
    ASSUME TypeOK, NEW a \in Agents, AgentFails(a)
    PROVE  Quietly
  <1> DEFINE s == attempts[a]
             row == [s[Len(s)] EXCEPT !.status = "failed"]
             t == [s EXCEPT ![Len(s)] = row]
  <1>1. s \in Seq(Attempt) /\ Len(s) \in 1 .. Len(s) /\ Len(s) \in Nat
        /\ s[Len(s)].status = "sent"
    BY HistoryType, InFlightRow DEF AgentFails
  <1>2. s[Len(s)] \in Attempt  BY <1>1, HistoryDomain
  <1>3. /\ row \in Attempt /\ row.config = s[Len(s)].config
        /\ row.request = s[Len(s)].request
    BY <1>2 DEF Attempt
  <1>4. PICK ok \in BOOLEAN : Answer(a, RollBack(t, Len(s), ok))  BY DEF AgentFails
  <1> HIDE DEF row, s
  <1>5. Adds(s, t, 0, None) /\ t \in Seq(Attempt) /\ Len(t) = Len(s)
    BY <1>1, <1>3, RewriteAdds DEF Adds
  <1> DEFINE u == RollBack(t, Len(s), ok)
  <1> HIDE DEF t
  <1>6. Adds(t, u, 0, None) /\ u \in Seq(Attempt)
    BY <1>1, <1>5, RollBackAdds DEF Adds
  <1> HIDE DEF u
  <1>7. Adds(s, u, 0, None)  BY <1>1, <1>5, <1>6, AddsTwice
  <1> QED  BY <1>4, <1>7, AnswerQuietly DEF s, u

LEMMA DirectQuietly ==
    ASSUME TypeOK, NEW a \in Agents, NEW c \in Configs, Direct(a, c)
    PROVE  Quietly
  <1>1. PICK ok \in BOOLEAN : Answer(a, Sent(attempts[a], c, "deploy", None, 0, ok))
    BY DEF Direct
  <1>2. Adds(attempts[a], Sent(attempts[a], c, "deploy", None, 0, ok), 0, c)
    BY HistoryType, SentAdds
  <1> QED  BY <1>1, <1>2, AnswerQuietly

(* Positions looked up by content are positions.                             *)
LEMMA LastSuccessfulType ==
    ASSUME NEW s \in Seq(Attempt)
    PROVE  LastSuccessful(s) \in Configs \cup {None}
  <1> DEFINE I == {j \in DOMAIN s : s[j].status = "applied"}
  <1>1. I \in SUBSET (1 .. Len(s)) /\ Len(s) \in Nat  BY HistoryDomain
  <1>2. Newest(I) # 0 => Newest(I) \in 1 .. Len(s)
    <2> HIDE DEF I
    <2> QED  BY <1>1, NewestType
  <1>3. \A i \in 1 .. Len(s) : s[i].config \in Configs  BY HistoryDomain DEF Attempt
  <1> QED  BY <1>2, <1>3 DEF LastSuccessful

LEMMA HasHashPosition ==
    ASSUME NEW s \in Seq(Attempt), NEW c
    PROVE  LET i == Newest({j \in DOMAIN s : HasHashOf(s[j], c)}) IN
           i \in Nat /\ (i # 0 => i \in 1 .. Len(s))
  <1> DEFINE I == {j \in DOMAIN s : HasHashOf(s[j], c)}
  <1>1. I \in SUBSET (1 .. Len(s)) /\ Len(s) \in Nat  BY HistoryDomain
  <1> HIDE DEF I
  <1>2. Newest(I) \in Nat /\ (Newest(I) # 0 => Newest(I) \in 1 .. Len(s))
    BY <1>1, NewestType
  <1> QED  BY <1>2 DEF I

(* A delivery adds one attempt in the name of its request, of its            *)
(* configuration, at most.                                                   *)
LEMMA DeliverAdds ==
    ASSUME TypeOK, MadeInv, TaskInv, NEW p \in Handlers, NEW a \in Agents, Deliver(p, a)
    PROVE  LET r == task[p].request
               c == request[r].config IN
           /\ attempts' \in [Agents -> Seq(Attempt)]
           /\ Adds(attempts[a], attempts'[a], r, c)
           /\ \A b \in Agents : b # a => attempts'[b] = attempts[b]
  <1> DEFINE r == task[p].request
             c == request[r].config
             s == attempts[a]
             Back(t, ok) == RollBack(t, Newest({i \in DOMAIN t : HasHashOf(t[i], c)}), ok)
             Failed(t) == \E ok \in BOOLEAN : attempts' = [attempts EXCEPT ![a] = Back(t, ok)]
             Whole(ok) == Sent(s, c, "deploy", LastSuccessful(s), r, ok)
  <1>1. task[p].at = "deliver" /\ Working(p) /\ r \in Requests /\ r \in Nat
    BY RequestsAreNumbers DEF Deliver, TaskInv, TaskGood, Working
  <1>2. s \in Seq(Attempt)  BY HistoryType
  <1>3. PICK ok \in BOOLEAN :
          IF Refuses(s, c) THEN Failed(s)
          ELSE IF ok THEN attempts' = [attempts EXCEPT ![a] = Whole(ok)] ELSE Failed(Whole(ok))
    BY DEF Deliver
  <1>4. ASSUME NEW t \in Seq(Attempt), Adds(s, t, r, c), Failed(t)
        PROVE  \E u \in Seq(Attempt) :
                  Adds(s, u, r, c) /\ attempts' = [attempts EXCEPT ![a] = u]
    <2>1. PICK k \in BOOLEAN : attempts' = [attempts EXCEPT ![a] = Back(t, k)]  BY <1>4
    <2> DEFINE i == Newest({j \in DOMAIN t : HasHashOf(t[j], c)})
               u == RollBack(t, i, k)
    <2>2. i \in Nat /\ (i # 0 => i \in 1 .. Len(t))  BY HasHashPosition
    <2>3. u = Back(t, k)  OBVIOUS
    <2> HIDE DEF i
    <2>4. Adds(t, u, 0, c)  BY <2>2, RollBackAdds
    <2> HIDE DEF u, s, c, r
    <2>5. u \in Seq(Attempt)  BY <2>4 DEF Adds
    <2>6. Adds(s, u, r, c)  BY <1>1, <1>2, <1>4, <2>4, <2>5, AddsTwice
    <2> QED  BY <2>1, <2>3, <2>5, <2>6
  <1>5. \E u \in Seq(Attempt) :
          Adds(s, u, r, c) /\ attempts' = [attempts EXCEPT ![a] = u]
    <2>1. CASE Refuses(s, c)
      <3>1. Adds(s, s, r, c)  BY <1>1, <1>2, NothingAdds
      <3> QED  BY <1>2, <1>3, <1>4, <2>1, <3>1
    <2>2. CASE ~Refuses(s, c)
      <3>1. c \in Configs  BY <1>1 DEF MadeInv, TaskInv, TaskGood
      <3>2. Adds(s, Whole(ok), r, c)  BY <1>1, <1>2, <3>1, LastSuccessfulType, SentAdds
      <3>3. Whole(ok) \in Seq(Attempt)  BY <3>2 DEF Adds
      <3> HIDE DEF Whole
      <3> QED  BY <1>3, <1>4, <2>2, <3>2, <3>3
    <2> QED  BY <2>1, <2>2
  <1>6. PICK u \in Seq(Attempt) : Adds(s, u, r, c) /\ attempts' = [attempts EXCEPT ![a] = u]
    BY <1>5
  <1> QED  BY <1>6, AnswerWrites


---------------------------------------------------------------------------
(* What a step that keeps the requests and adds nothing in their name leaves *)
(* alone.                                                                    *)

LEMMA RowsStay ==
    ASSUME Quietly, TypeOK, NEW a \in Agents
    PROVE  LET s == attempts[a]
               t == attempts'[a] IN
           /\ DOMAIN s = 1 .. Len(s) /\ DOMAIN t = 1 .. Len(t)
           /\ Len(s) \in Nat /\ Len(t) \in Nat /\ Len(s) <= Len(t)
           /\ \A i \in DOMAIN s : i \in DOMAIN t /\ t[i].config = s[i].config
                 /\ t[i].request = s[i].request
                 /\ (s[i].status = "applied" => t[i].status = "applied")
           /\ \A i \in DOMAIN t : i \notin DOMAIN s => t[i].request = 0
  <1> DEFINE s == attempts[a]
             t == attempts'[a]
  <1>1. s \in Seq(Attempt) /\ t \in Seq(Attempt) /\ Adds(s, t, 0, None)
    BY HistoryType DEF Quietly
  <1> HIDE DEF s, t
  <1>2. /\ DOMAIN s = 1 .. Len(s) /\ DOMAIN t = 1 .. Len(t)
        /\ Len(s) \in Nat /\ Len(t) \in Nat
    BY <1>1
  <1>3. Len(s) <= Len(t)  BY <1>1 DEF Adds, Grown
  <1>4. \A i \in DOMAIN s : i \in DOMAIN t /\ t[i].config = s[i].config
           /\ t[i].request = s[i].request
           /\ (s[i].status = "applied" => t[i].status = "applied")
    BY <1>1, <1>2, <1>3 DEF Adds, Grown
  <1>5. \A i \in DOMAIN t : i \notin DOMAIN s => t[i].request = 0
    BY <1>1, <1>2 DEF Adds, AddsOnly
  <1> QED  BY <1>2, <1>3, <1>4, <1>5 DEF s, t

(* Histories grow, whatever is added to them.                                *)
Growing ==
    /\ attempts' \in [Agents -> Seq(Attempt)]
    /\ \A a \in Agents : Grown(attempts[a], attempts'[a])

LEMMA QuietlyGrows ==
    ASSUME Quietly
    PROVE  Growing
  BY DEF Quietly, Growing, Adds

LEMMA RowsGrow ==
    ASSUME Growing, TypeOK, NEW a \in Agents, NEW i \in DOMAIN attempts[a]
    PROVE  /\ i \in DOMAIN attempts'[a]
           /\ attempts'[a][i].config = attempts[a][i].config
           /\ attempts'[a][i].request = attempts[a][i].request
           /\ attempts[a][i].status = "applied" => attempts'[a][i].status = "applied"
  <1> DEFINE s == attempts[a]
             t == attempts'[a]
  <1>1. s \in Seq(Attempt) /\ t \in Seq(Attempt) /\ Grown(s, t)
    BY HistoryType DEF Growing
  <1> HIDE DEF s, t
  <1>2. DOMAIN s = 1 .. Len(s) /\ DOMAIN t = 1 .. Len(t) /\ Len(s) \in Nat /\ Len(t) \in Nat
    BY <1>1
  <1>3. Len(s) <= Len(t)  BY <1>1 DEF Grown
  <1>4. i \in DOMAIN s  BY DEF s
  <1>5. i \in DOMAIN t  BY <1>2, <1>3, <1>4
  <1> QED  BY <1>1, <1>2, <1>4, <1>5 DEF Grown, s, t

LEMMA AppliedStays ==
    ASSUME TypeOK, Growing, NEW r \in Requests, Keeps(request[r], request'[r]),
           request[r].status # "absent", Applied(r)
    PROVE  Applied(r)'
  <1>1. request[r].targets \subseteq Agents  BY DEF TypeOK, Request
  <1> SUFFICES ASSUME NEW a \in request[r].targets
               PROVE  \E i \in DOMAIN attempts'[a] :
                  /\ i > request[r].since[a]
                  /\ attempts'[a][i].config = request[r].config
                  /\ attempts'[a][i].status = "applied"
    BY DEF Applied, Keeps
  <1>2. a \in Agents  BY <1>1
  <1>3. PICK i \in DOMAIN attempts[a] :
           /\ i > request[r].since[a]
           /\ attempts[a][i].config = request[r].config
           /\ attempts[a][i].status = "applied"
    BY DEF Applied
  <1>4. i \in DOMAIN attempts'[a] /\ attempts'[a][i].config = attempts[a][i].config
        /\ attempts'[a][i].status = "applied"
    BY <1>2, <1>3, RowsGrow
  <1> QED  BY <1>3, <1>4

LEMMA ApprovedStays ==
    ASSUME TypeOK, AttemptsAreApproved, RequestsKeep, Quietly
    PROVE  AttemptsAreApproved'
  <1> SUFFICES ASSUME NEW a \in Agents, NEW r \in Requests, NEW i \in DOMAIN attempts'[a],
                      attempts'[a][i].request = r
               PROVE  /\ request'[r].status \in {"deploying", "completed", "failed"}
                      /\ request'[r].reviewedBy \notin {Nobody, request'[r].by}
                      /\ a \in request'[r].targets
                      /\ attempts'[a][i].config = request'[r].config
    BY DEF AttemptsAreApproved, Carries
  <1>1. r # 0  BY RequestsAreNumbers
  <1>2. i \in DOMAIN attempts[a]  BY <1>1, RowsStay
  <1>3. attempts[a][i].request = r /\ attempts'[a][i].config = attempts[a][i].config
    BY <1>2, RowsStay
  <1>4. /\ request[r].status \in {"deploying", "completed", "failed"}
        /\ request[r].reviewedBy \notin {Nobody, request[r].by}
        /\ a \in request[r].targets
        /\ attempts[a][i].config = request[r].config
    BY <1>2, <1>3 DEF AttemptsAreApproved, Carries
  <1>5. Keeps(request[r], request'[r])  BY DEF RequestsKeep
  <1> QED  BY <1>3, <1>4, <1>5 DEF Keeps, Approved

LEMMA OnceStays ==
    ASSUME TypeOK, DeliveredOnce, Quietly
    PROVE  DeliveredOnce'
  <1> SUFFICES ASSUME NEW a \in Agents, NEW r \in Requests,
                      NEW i \in DOMAIN attempts'[a], NEW j \in DOMAIN attempts'[a],
                      attempts'[a][i].request = r, attempts'[a][j].request = r
               PROVE  i = j
    BY DEF DeliveredOnce, Carries
  <1>1. r # 0  BY RequestsAreNumbers
  <1>2. i \in DOMAIN attempts[a] /\ j \in DOMAIN attempts[a]  BY <1>1, RowsStay
  <1>3. attempts[a][i].request = r /\ attempts[a][j].request = r  BY <1>2, RowsStay
  <1> QED  BY <1>2, <1>3 DEF DeliveredOnce, Carries

LEMMA TaskStays ==
    ASSUME NEW p \in Handlers, TaskGood(p), RequestsKeep, task'[p] = task[p]
    PROVE  TaskGood(p)'
  <1> SUFFICES ASSUME Working(p)' PROVE TaskGood(p)'  BY DEF TaskGood
  <1> DEFINE r == task[p].request
  <1>1. Working(p)  BY DEF Working
  <1>2. r \in Requests /\ request[r].status # "absent"  BY <1>1 DEF TaskGood
  <1>3. Keeps(request[r], request'[r])  BY <1>2 DEF RequestsKeep
  <1>4. /\ request'[r].status # "absent" /\ request'[r].by = request[r].by
        /\ request'[r].targets = request[r].targets
        /\ request[r].status \in Approved => request'[r].status \in Approved
              /\ request'[r].reviewedBy = request[r].reviewedBy
    BY <1>2, <1>3 DEF Keeps
  <1> QED  BY <1>1, <1>2, <1>4 DEF TaskGood

LEMMA TodoStays ==
    ASSUME TypeOK, TaskInv, TodoInv, Quietly,
           \A p \in Handlers : task'[p].at = "deliver" =>
              task[p].at = "deliver" /\ task'[p].request = task[p].request
              /\ task'[p].todo = task[p].todo
    PROVE  TodoInv'
  <1> SUFFICES ASSUME NEW p \in Handlers, task'[p].at = "deliver"
               PROVE  /\ \A a \in task'[p].todo : \A i \in DOMAIN attempts'[a] :
                            attempts'[a][i].request # task'[p].request
                      /\ \A o \in Handlers : task'[o].at = "deliver" /\ o # p =>
                            task'[o].request # task'[p].request
    BY DEF TodoInv
  <1>1. task[p].at = "deliver" /\ task[p].request \in Requests /\ task[p].todo \subseteq Agents
    BY DEF TaskInv, TaskGood, Working, TypeOK, Task
  <1>2. \A a \in task'[p].todo : \A i \in DOMAIN attempts'[a] :
           attempts'[a][i].request # task'[p].request
    <2> SUFFICES ASSUME NEW a \in task[p].todo, NEW i \in DOMAIN attempts'[a]
                 PROVE  attempts'[a][i].request # task[p].request
      OBVIOUS
    <2>1. a \in Agents  BY <1>1
    <2>2. CASE i \in DOMAIN attempts[a]
      <3>1. attempts'[a][i].request = attempts[a][i].request  BY <2>1, <2>2, RowsStay
      <3> QED  BY <1>1, <2>2, <3>1 DEF TodoInv
    <2>3. CASE i \notin DOMAIN attempts[a]
      <3>1. attempts'[a][i].request = 0  BY <2>1, <2>3, RowsStay
      <3> QED  BY <1>1, <3>1, RequestsAreNumbers
    <2> QED  BY <2>2, <2>3
  <1>3. \A o \in Handlers : task'[o].at = "deliver" /\ o # p =>
           task'[o].request # task'[p].request
    BY DEF TodoInv
  <1> QED  BY <1>2, <1>3

LEMMA PageStays ==
    ASSUME TypeOK, PageInv, RequestsKeep, Growing, UNCHANGED page
    PROVE  PageInv'
  <1>1. CASE page = NoPage  BY <1>1 DEF PageInv
  <1>2. CASE page # NoPage
    <2>1. page.request \in Requests /\ request[page.request].status # "absent"
          /\ page.verdict \in {"completed", "failed"}
          /\ (page.verdict = "completed" => Applied(page.request))
      BY <1>2 DEF PageInv
    <2>2. Keeps(request[page.request], request'[page.request])  BY <2>1 DEF RequestsKeep
    <2>3. request'[page.request].status # "absent"  BY <2>1, <2>2 DEF Keeps
    <2>4. page.verdict = "completed" => Applied(page.request)'
      BY <2>1, <2>2, AppliedStays
    <2> QED  BY <2>1, <2>3, <2>4 DEF PageInv, Applied
  <1> QED  BY <1>1, <1>2


LEMMA CompletedStays ==
    ASSUME TypeOK, CompletedIsApplied, RequestsKeep, Growing,
           \A r \in Requests : request'[r].status = "completed" =>
              request[r].status = "completed"
              \/ (request[r].status # "absent" /\ Applied(r))
    PROVE  CompletedIsApplied'
  <1> SUFFICES ASSUME NEW r \in Requests, request'[r].status = "completed"
               PROVE  Applied(r)'
    BY DEF CompletedIsApplied, Applied
  <1>1. request[r].status # "absent" /\ Applied(r)
    BY DEF CompletedIsApplied, Applied
  <1>2. Keeps(request[r], request'[r])  BY DEF RequestsKeep
  <1> QED  BY <1>1, <1>2, AppliedStays

LEMMA MadeStays ==
    ASSUME MadeInv, RequestsKeep,
           \A r \in Requests : request'[r].status # "absent" => request[r].status # "absent"
    PROVE  MadeInv'
  BY DEF MadeInv, RequestsKeep, Keeps

LEMMA QuietStep ==
    ASSUME Inv, TypeOK', RequestsKeep, Quietly,
           \A r \in Requests : request'[r].status # "absent" => request[r].status # "absent",
           \A r \in Requests : request'[r].status = "completed" =>
              request[r].status = "completed"
              \/ (request[r].status # "absent" /\ Applied(r)),
           UNCHANGED page \/ page' = NoPage,
           \A p \in Handlers :
              task'[p] = task[p] \/ (TaskGood(p)' /\ task'[p].at # "deliver")
    PROVE  Inv'
  <1>1. MadeInv'  BY MadeStays DEF Inv
  <1>2. TaskInv'
    <2>1. \A p \in Handlers : TaskGood(p)'  BY TaskStays DEF Inv, TaskInv
    <2> QED  BY <2>1 DEF TaskInv
  <1>3. TodoInv'
    <2>1. \A p \in Handlers : task'[p].at = "deliver" =>
             task[p].at = "deliver" /\ task'[p].request = task[p].request
             /\ task'[p].todo = task[p].todo
      OBVIOUS
    <2> QED  BY <2>1, TodoStays DEF Inv
  <1>4. PageInv'
    <2>1. CASE UNCHANGED page  BY <2>1, QuietlyGrows, PageStays DEF Inv
    <2>2. CASE page' = NoPage  BY <2>2 DEF PageInv
    <2> QED  BY <2>1, <2>2
  <1>5. AttemptsAreApproved'  BY ApprovedStays DEF Inv
  <1>6. DeliveredOnce'  BY OnceStays DEF Inv
  <1>7. CompletedIsApplied'  BY QuietlyGrows, CompletedStays DEF Inv
  <1> QED  BY <1>1, <1>2, <1>3, <1>4, <1>5, <1>6, <1>7 DEF Inv

(* Requests are not written at all.                                          *)
LEMMA UnwrittenKeep ==
    ASSUME TypeOK, UNCHANGED request
    PROVE  RequestsKeep
  BY DEF TypeOK, RequestsKeep, Keeps

LEMMA IdleIsGood ==
    ASSUME NEW p \in Handlers, task'[p].at = "idle"
    PROVE  TaskGood(p)' /\ task'[p].at # "deliver"
  BY DEF TaskGood, Working

(* The world around the handlers: neither requests nor tasks change, and     *)
(* histories at most quietly.                                                *)
LEMMA WorldStep ==
    ASSUME Inv, TypeOK', Quietly, UNCHANGED <<request, task, page>>
    PROVE  Inv'
  <1>1. RequestsKeep  BY UnwrittenKeep DEF Inv
  <1> QED  BY <1>1, QuietStep

---------------------------------------------------------------------------
(* The steps, one by one.                                                    *)

LEMMA SubmitInv ==
    ASSUME Inv, NEW r \in Requests, NEW u \in Users, NEW v \in Users, NEW c \in Configs,
           Submit(r, u, v, c)
    PROVE  Inv'
  <1> DEFINE T == {a \in members : Ready(a, c)}
             row == [status |-> "pending_approval", config |-> c, targets |-> T,
                     selector |-> group.selector, by |-> u, reviewer |-> v,
                     reviewedBy |-> Nobody, since |-> [a \in Agents |-> Len(attempts[a])]]
  <1>1. TypeOK  BY DEF Inv
  <1>2. request[r].status = "absent" /\ request' = [request EXCEPT ![r] = row]
    BY DEF Submit
  <1>3. UNCHANGED <<rank, group, members, changes, late, attempts, task, page, trouble, crashes>>
    BY DEF Submit, world, others
  <1>4. row \in Request
    <2>1. T \in SUBSET Agents /\ group.selector \in Selectors  BY <1>1 DEF TypeOK
    <2>2. [a \in Agents |-> Len(attempts[a])] \in [Agents -> Nat]
      BY <1>1, HistoryType, HistoryDomain
    <2> HIDE DEF T
    <2> QED  BY <2>1, <2>2 DEF Request, Statuses
  <1>5. row.status = "pending_approval" /\ row.config = c  OBVIOUS
  <1> HIDE DEF row, T
  <1>6. request'[r] = row /\ \A o \in Requests : o # r => request'[o] = request[o]
    BY <1>1, <1>2 DEF TypeOK
  <1>7. request' \in [Requests -> Request]  BY <1>1, <1>2, <1>4 DEF TypeOK
  <1>8. TypeOK'  BY <1>1, <1>3, <1>7 DEF TypeOK
  <1>9. RequestsKeep
    <2>1. \A o \in Requests : Keeps(request[o], request'[o])  BY <1>2, <1>6 DEF Keeps
    <2> QED  BY <1>7, <2>1 DEF RequestsKeep
  <1>10. Quietly  BY <1>1, <1>3, UnchangedQuietly
  <1>11. MadeInv'
    BY <1>5, <1>6 DEF Inv, MadeInv
  <1>12. TaskInv'
    <2>1. \A p \in Handlers : TaskGood(p)'  BY <1>3, <1>9, TaskStays DEF Inv, TaskInv
    <2> QED  BY <2>1 DEF TaskInv
  <1>13. TodoInv'  BY <1>3, <1>10, TodoStays DEF Inv
  <1>14. PageInv'  BY <1>3, <1>9, <1>10, QuietlyGrows, PageStays DEF Inv
  <1>15. AttemptsAreApproved' /\ DeliveredOnce'
    BY <1>9, <1>10, ApprovedStays, OnceStays DEF Inv
  <1>16. CompletedIsApplied'
    <2>1. \A o \in Requests : request'[o].status = "completed" => request[o].status = "completed"
      BY <1>5, <1>6
    <2> QED  BY <1>1, <1>9, <1>10, <2>1, QuietlyGrows, CompletedStays DEF Inv
  <1> QED  BY <1>8, <1>11, <1>12, <1>13, <1>14, <1>15, <1>16 DEF Inv

LEMMA OpenInv ==
    ASSUME Inv, NEW p \in Handlers, NEW u \in Users, NEW verb \in DOMAIN Decision,
           NEW r \in Requests, Open(p, u, verb, r)
    PROVE  Inv'
  <1> DEFINE t == [NoTask EXCEPT !.op = verb, !.request = r, !.by = u,
                      !.at = IF verb = "approve" THEN "check" ELSE "review"]
  <1>1. TypeOK  BY DEF Inv
  <1>2. /\ request[r].status # "absent" /\ MayAct(u, verb, request[r])
        /\ request' = Sweep /\ task' = [task EXCEPT ![p] = t]
    BY DEF Open
  <1>3. UNCHANGED <<rank, group, members, changes, late, attempts, page, trouble, crashes>>
    BY DEF Open, world, others
  <1>4. /\ t \in Task /\ t.request = r /\ t.by = u /\ t.op = verb
        /\ t.at = IF verb = "approve" THEN "check" ELSE "review"
    BY RequestsAreNumbers, DecisionDomain DEF NoTask, Task
  <1> HIDE DEF t
  <1>5. task' \in [Handlers -> Task] /\ task'[p] = t
        /\ \A o \in Handlers : o # p => task'[o] = task[o]
    BY <1>1, <1>2, <1>4 DEF TypeOK
  <1>6. RequestsKeep /\ \A o \in Requests : request'[o].status = request[o].status
           \/ (request[o].status = "pending_approval" /\ request'[o].status = "expired")
    BY <1>1, <1>2, SweepKeeps
  <1>7. TypeOK'  BY <1>1, <1>3, <1>5, <1>6 DEF TypeOK, RequestsKeep
  <1>8. Quietly  BY <1>1, <1>3, UnchangedQuietly
  <1>9. TaskGood(p)' /\ task'[p].at # "deliver"
    <2>1. verb = "approve" => u # request[r].by  BY <1>2 DEF MayAct
    <2>2. request'[r].by = request[r].by /\ request'[r].status # "absent"
      BY <1>2, <1>6 DEF RequestsKeep, Keeps
    <2>3. verb # "approve" => task'[p].at = "review"  BY <1>4, <1>5
    <2>4. task'[p].at \in {"check", "review"}  BY <1>4, <1>5
    <2> QED  BY <1>4, <1>5, <2>1, <2>2, <2>3, <2>4 DEF TaskGood
  <1>10. \A o \in Handlers : task'[o] = task[o] \/ (TaskGood(o)' /\ task'[o].at # "deliver")
    BY <1>5, <1>9
  <1>11. \A o \in Requests : /\ request'[o].status # "absent" => request[o].status # "absent"
                             /\ request'[o].status = "completed" => request[o].status = "completed"
    BY <1>6
  <1> QED  BY <1>3, <1>6, <1>7, <1>8, <1>10, <1>11, QuietStep

LEMMA CheckTargetsInv ==
    ASSUME Inv, NEW p \in Handlers, CheckTargets(p)
    PROVE  Inv'
  <1>1. TypeOK  BY DEF Inv
  <1>2. task[p].at = "check" /\ (Goto(p, "review") \/ Done(p))  BY DEF CheckTargets
  <1>3. UNCHANGED <<rank, group, members, changes, request, late, attempts, page, trouble, crashes>>
    BY DEF CheckTargets, world, others
  <1>4. RequestsKeep /\ Quietly  BY <1>1, <1>3, UnwrittenKeep, UnchangedQuietly
  <1>5. task' \in [Handlers -> Task] /\ (\A o \in Handlers : o # p => task'[o] = task[o])
        /\ TaskGood(p)' /\ task'[p].at # "deliver"
    <2>1. CASE Done(p)  BY <1>1, <2>1, DoneType, IdleIsGood
    <2>2. CASE Goto(p, "review")
      <3>1. /\ task' \in [Handlers -> Task] /\ task'[p].at = "review"
            /\ task'[p].op = task[p].op /\ task'[p].by = task[p].by
            /\ task'[p].request = task[p].request
            /\ \A o \in Handlers : o # p => task'[o] = task[o]
        BY <1>1, <2>2, GotoType
      <3>2. TaskGood(p) /\ Working(p)  BY <1>2 DEF Inv, TaskInv, Working
      <3>3. TaskGood(p)'  BY <1>3, <3>1, <3>2 DEF TaskGood
      <3> QED  BY <3>1, <3>3
    <2> QED  BY <1>2, <2>1, <2>2
  <1>6. TypeOK'  BY <1>1, <1>3, <1>5 DEF TypeOK
  <1>7. \A o \in Handlers : task'[o] = task[o] \/ (TaskGood(o)' /\ task'[o].at # "deliver")
    BY <1>5
  <1> QED  BY <1>3, <1>4, <1>6, <1>7, QuietStep


(* The decision that approves is made while the request is pending, so that  *)
(* no other handler delivers it and nothing was delivered in its name.       *)
LEMMA ReviewInv ==
    ASSUME Inv, NEW p \in Handlers, Review(p)
    PROVE  Inv'
  <1> DEFINE r == task[p].request
             verb == task[p].op
             u == task[p].by
  <1>1. TypeOK  BY DEF Inv
  <1>2. task[p].at = "review" /\ Working(p) /\ TaskGood(p)
    BY DEF Review, Working, Inv, TaskInv
  <1>3. r \in Requests /\ verb \in DOMAIN Decision /\ u \in Users
        /\ request[r].status # "absent" /\ (verb = "approve" => u # request[r].by)
    BY <1>2 DEF TaskGood
  <1>4. UNCHANGED <<rank, group, members, changes, late, attempts, page, trouble, crashes>>
    BY DEF Review, world, others
  <1>5. Quietly  BY <1>1, <1>4, UnchangedQuietly
  <1>6. CASE ~Pending(r)
    <2>1. Done(p) /\ UNCHANGED request  BY <1>6 DEF Review
    <2>2. RequestsKeep  BY <1>1, <2>1, UnwrittenKeep
    <2>3. task' \in [Handlers -> Task] /\ task'[p].at = "idle"
          /\ \A o \in Handlers : o # p => task'[o] = task[o]
      BY <1>1, <2>1, DoneType
    <2>4. TypeOK'  BY <1>1, <1>4, <2>1, <2>3 DEF TypeOK
    <2>5. \A o \in Handlers : task'[o] = task[o] \/ (TaskGood(o)' /\ task'[o].at # "deliver")
      BY <2>3, IdleIsGood
    <2> QED  BY <1>4, <1>5, <2>1, <2>2, <2>4, <2>5, QuietStep
  <1>7. CASE Pending(r)
    <2>1. Reviewed(r, Decision[verb], u)  BY <1>7 DEF Review
    <2>2. Decision[verb] \in Statuses \ {"absent", "completed", "failed"}
          /\ (verb = "approve" => Decision[verb] = "deploying")
      BY <1>3, DecisionDomain DEF Statuses
    <2>3. /\ RequestsKeep
          /\ \A o \in Requests : o # r => request'[o] = request[o]
          /\ request'[r].status = Decision[verb] /\ request'[r].reviewedBy = u
          /\ request'[r].targets = request[r].targets /\ request'[r].by = request[r].by
      <3> HIDE DEF r, u, verb
      <3> QED  BY <1>1, <1>3, <1>7, <2>1, <2>2, ReviewedKeeps
    <2>4. \A o \in Requests : /\ request'[o].status # "absent" => request[o].status # "absent"
                              /\ request'[o].status = "completed" => request[o].status = "completed"
      BY <1>3, <2>2, <2>3
    <2>5. CASE verb # "approve"
      <3>1. Done(p)  BY <1>7, <2>5 DEF Review
      <3>2. task' \in [Handlers -> Task] /\ task'[p].at = "idle"
            /\ \A o \in Handlers : o # p => task'[o] = task[o]
        BY <1>1, <3>1, DoneType
      <3>3. TypeOK'  BY <1>1, <1>4, <2>3, <3>2 DEF TypeOK, RequestsKeep
      <3>4. \A o \in Handlers : task'[o] = task[o] \/ (TaskGood(o)' /\ task'[o].at # "deliver")
        BY <3>2, IdleIsGood
      <3> QED  BY <1>4, <1>5, <2>3, <2>4, <3>3, <3>4, QuietStep
    <2>6. CASE verb = "approve"
      <3> DEFINE t == [task[p] EXCEPT !.at = "deliver", !.todo = request[r].targets]
      <3>1. task' = [task EXCEPT ![p] = t]  BY <1>7, <2>6 DEF Review
      <3>2. request[r].targets \subseteq Agents  BY <1>1, <1>3 DEF TypeOK, Request
      <3>3. /\ t \in Task /\ t.at = "deliver" /\ t.todo = request[r].targets
            /\ t.request = r /\ t.op = verb /\ t.by = u
        <4>1. task[p] \in Task  BY <1>1 DEF TypeOK
        <4>2. request[r].targets \in SUBSET Agents  BY <3>2
        <4> QED  BY <4>1, <4>2, DeliverTaskType
      <3> HIDE DEF t
      <3>4. task' \in [Handlers -> Task] /\ task'[p] = t
            /\ \A o \in Handlers : o # p => task'[o] = task[o]
        BY <1>1, <3>1, <3>3 DEF TypeOK
      <3>5. TypeOK'  BY <1>1, <1>4, <2>3, <3>4 DEF TypeOK, RequestsKeep
      <3>6. MadeInv'  BY <2>3, <2>4, MadeStays DEF Inv
      <3>7. TaskInv'
        <4>1. TaskGood(p)'
          BY <1>3, <2>2, <2>3, <2>6, <3>3, <3>4 DEF TaskGood, Approved
        <4>2. \A o \in Handlers : o # p => TaskGood(o)'
          BY <2>3, <3>4, TaskStays DEF Inv, TaskInv
        <4> QED  BY <4>1, <4>2 DEF TaskInv
      <3>8. \A a \in Agents : \A i \in DOMAIN attempts[a] : attempts[a][i].request # r
        BY <1>3, <1>7 DEF Inv, AttemptsAreApproved, Carries, Pending
      <3>9. \A o \in Handlers : task[o].at = "deliver" => task[o].request # r
        BY <1>7 DEF Inv, TaskInv, TaskGood, Working, Pending, Approved
      <3>10. TodoInv'
        <4> SUFFICES ASSUME NEW o \in Handlers, task'[o].at = "deliver"
                     PROVE  /\ \A a \in task'[o].todo : \A i \in DOMAIN attempts[a] :
                                  attempts[a][i].request # task'[o].request
                            /\ \A q \in Handlers : task'[q].at = "deliver" /\ q # o =>
                                  task'[q].request # task'[o].request
          BY <1>4 DEF TodoInv
        <4>1. CASE o = p
          BY <4>1, <3>2, <3>3, <3>4, <3>8, <3>9
        <4>2. CASE o # p
          <5>1. task'[o] = task[o]  BY <3>4, <4>2
          <5>2. task[o].request # r  BY <3>9, <5>1
          <5> QED  BY <5>1, <5>2, <3>3, <3>4 DEF Inv, TodoInv
        <4> QED  BY <4>1, <4>2
      <3>11. PageInv'  BY <1>1, <1>4, <1>5, <2>3, QuietlyGrows, PageStays DEF Inv
      <3>12. AttemptsAreApproved' /\ DeliveredOnce'
        BY <1>5, <2>3, ApprovedStays, OnceStays DEF Inv
      <3>13. CompletedIsApplied'  BY <1>1, <1>5, <2>3, <2>4, QuietlyGrows, CompletedStays DEF Inv
      <3> QED  BY <3>5, <3>6, <3>7, <3>10, <3>11, <3>12, <3>13 DEF Inv
    <2> QED  BY <2>5, <2>6
  <1> QED  BY <1>6, <1>7


(* A delivery takes the target off the list of what the only handler that    *)
(* delivers the request has still to do.                                     *)
LEMMA DeliverInv ==
    ASSUME Inv, NEW p \in Handlers, NEW a \in Agents, Deliver(p, a)
    PROVE  Inv'
  <1> DEFINE r == task[p].request
             c == request[r].config
             s == attempts[a]
             t == attempts'[a]
  <1>1. TypeOK /\ TaskInv /\ MadeInv  BY DEF Inv
  <1>2. task[p].at = "deliver" /\ a \in task[p].todo  BY DEF Deliver
  <1>3. /\ r \in Requests /\ request[r].status \in Approved
        /\ request[r].reviewedBy \notin {Nobody, request[r].by}
        /\ task[p].todo \subseteq request[r].targets
    BY <1>1, <1>2 DEF TaskInv, TaskGood, Working
  <1>4. UNCHANGED <<rank, group, members, changes, request, late, page, crashes>>
    BY DEF Deliver, world
  <1>5. /\ attempts' \in [Agents -> Seq(Attempt)] /\ Adds(s, t, r, c)
        /\ \A b \in Agents : b # a => attempts'[b] = attempts[b]
    BY <1>1, DeliverAdds
  <1>6. PICK refused \in BOOLEAN :
           task' = [task EXCEPT ![p] = [task[p] EXCEPT !.todo = task[p].todo \ {a},
                                                       !.refused = refused]]
    <2>1. \A ok \in BOOLEAN : (task[p].refused \/ Refuses(s, c) \/ ~ok) \in BOOLEAN
      OBVIOUS
    <2>2. PICK ok \in BOOLEAN :
             task' = [task EXCEPT ![p] = [task[p] EXCEPT !.todo = task[p].todo \ {a},
                                 !.refused = (task[p].refused \/ Refuses(s, c) \/ ~ok)]]
      BY DEF Deliver
    <2> DEFINE b == (task[p].refused \/ Refuses(s, c) \/ ~ok)
    <2>3. b \in BOOLEAN  BY <2>1
    <2>4. task' = [task EXCEPT ![p] = [task[p] EXCEPT !.todo = task[p].todo \ {a},
                                                      !.refused = b]]
      BY <2>2
    <2> HIDE DEF b
    <2> QED  BY <2>3, <2>4
  <1>7. task' \in [Handlers -> Task]
        /\ task'[p].at = "deliver" /\ task'[p].todo = task[p].todo \ {a}
        /\ task'[p].request = r /\ task'[p].op = task[p].op /\ task'[p].by = task[p].by
        /\ \A o \in Handlers : o # p => task'[o] = task[o]
    <2> DEFINE x == [task[p] EXCEPT !.todo = task[p].todo \ {a}, !.refused = refused]
    <2>1. task[p] \in Task  BY <1>1 DEF TypeOK
    <2>2. x \in Task /\ x.at = task[p].at /\ x.todo = task[p].todo \ {a}
          /\ x.request = r /\ x.op = task[p].op /\ x.by = task[p].by
      BY <2>1 DEF Task
    <2>3. task' = [task EXCEPT ![p] = x]  BY <1>6
    <2> HIDE DEF x
    <2> QED  BY <1>1, <1>2, <2>2, <2>3 DEF TypeOK
  <1>8. TypeOK'
    <2>1. trouble' \in [Requests -> SUBSET Agents]
      <3>1. UNCHANGED trouble \/ trouble' = [trouble EXCEPT ![r] = trouble[r] \cup {a}]
        BY DEF Deliver
      <3>2. trouble \in [Requests -> SUBSET Agents]  BY <1>1 DEF TypeOK
      <3>3. trouble[r] \cup {a} \in SUBSET Agents  BY <1>3, <3>2
      <3> QED  BY <3>1, <3>2, <3>3
    <2> QED  BY <1>1, <1>4, <1>5, <1>7, <2>1 DEF TypeOK
  <1>9. RequestsKeep  BY <1>1, <1>4, UnwrittenKeep
  <1>10. Growing
    <2>1. \A b \in Agents : Grown(attempts[b], attempts'[b])
      BY <1>1, <1>5, HistoryType, NothingAdds DEF Adds
    <2> QED  BY <1>5, <2>1 DEF Growing
  <1>11. DOMAIN s = 1 .. Len(s) /\ Len(s) \in Nat /\ DOMAIN t = 1 .. Len(t) /\ Len(t) \in Nat
    BY <1>1, <1>5, HistoryType, HistoryDomain
  <1>12. \A b \in Agents : \A i \in DOMAIN attempts'[b] :
            \/ i \in DOMAIN attempts[b] /\ attempts'[b][i].request = attempts[b][i].request
                  /\ attempts'[b][i].config = attempts[b][i].config
            \/ attempts'[b][i].request = 0
            \/ b = a /\ i = Len(s) + 1 /\ attempts'[b][i].request = r
                  /\ attempts'[b][i].config = c /\ i \notin DOMAIN s
    <2> SUFFICES ASSUME NEW b \in Agents, NEW i \in DOMAIN attempts'[b]
                 PROVE  \/ i \in DOMAIN attempts[b]
                              /\ attempts'[b][i].request = attempts[b][i].request
                              /\ attempts'[b][i].config = attempts[b][i].config
                        \/ attempts'[b][i].request = 0
                        \/ b = a /\ i = Len(s) + 1 /\ attempts'[b][i].request = r
                              /\ attempts'[b][i].config = c /\ i \notin DOMAIN s
      OBVIOUS
    <2>1. CASE i \in DOMAIN attempts[b]  BY <1>1, <1>10, <2>1, RowsGrow
    <2>2. CASE i \notin DOMAIN attempts[b]
      <3>1. b = a  BY <1>5, <2>2
      <3>2. i \in (Len(s) + 1) .. Len(t)  BY <1>11, <2>2, <3>1
      <3>3. AddsOnly(s, t, r, c)  BY <1>5 DEF Adds
      <3>4. t[i].request = 0 \/ (i = Len(s) + 1 /\ t[i].request = r /\ t[i].config = c)
        <4> HIDE DEF s, t, r, c
        <4> QED  BY <3>2, <3>3 DEF AddsOnly
      <3> QED  BY <2>2, <3>1, <3>4
    <2> QED  BY <2>1, <2>2
  <1> HIDE DEF r, c, s, t
  <1>13. \A i \in DOMAIN s : s[i].request # r
    BY <1>1, <1>2 DEF Inv, TodoInv, r, s
  <1>14. MadeInv'  BY <1>4, <1>1 DEF MadeInv
  <1>15. TaskInv'
    <2>1. TaskGood(p)'
      <3>1. TaskGood(p) /\ Working(p)  BY <1>1, <1>2 DEF TaskInv, Working
      <3> QED  BY <1>2, <1>4, <1>7, <3>1 DEF TaskGood, r
    <2>2. \A o \in Handlers : o # p => TaskGood(o)'
      BY <1>1, <1>7, <1>9, TaskStays DEF TaskInv
    <2> QED  BY <2>1, <2>2 DEF TaskInv
  <1>16. TodoInv'
    <2> SUFFICES ASSUME NEW o \in Handlers, task'[o].at = "deliver"
                 PROVE  /\ \A b \in task'[o].todo : \A i \in DOMAIN attempts'[b] :
                              attempts'[b][i].request # task'[o].request
                        /\ \A q \in Handlers : task'[q].at = "deliver" /\ q # o =>
                              task'[q].request # task'[o].request
      BY DEF TodoInv
    <2>1. /\ task[o].at = "deliver" /\ task'[o].request = task[o].request
          /\ task'[o].todo \subseteq task[o].todo /\ (o = p => a \notin task'[o].todo)
      BY <1>2, <1>7 DEF r
    <2>2. task[o].request \in Requests /\ task[o].todo \subseteq Agents
      BY <1>1, <2>1 DEF TaskInv, TaskGood, Working, TypeOK, Task
    <2>3. o # p => task[o].request # r
      BY <1>2, <2>1 DEF Inv, TodoInv, r
    <2>4. ASSUME NEW b \in task'[o].todo, NEW i \in DOMAIN attempts'[b]
          PROVE  attempts'[b][i].request # task'[o].request
      <3>1. b \in Agents /\ b \in task[o].todo  BY <2>1, <2>2, <2>4
      <3>2. task[o].request # 0  BY <2>2, RequestsAreNumbers
      <3>3. b = a => o # p  BY <2>1, <2>4
      <3>4. \A j \in DOMAIN attempts[b] : attempts[b][j].request # task[o].request
        BY <2>1, <3>1 DEF Inv, TodoInv
      <3> QED  BY <1>12, <2>1, <2>3, <2>4, <3>1, <3>2, <3>3, <3>4
    <2>5. \A q \in Handlers : task'[q].at = "deliver" /\ q # o =>
             task'[q].request # task'[o].request
      BY <1>2, <1>7, <2>1 DEF Inv, TodoInv, r
    <2> QED  BY <2>4, <2>5
  <1>17. PageInv'  BY <1>1, <1>4, <1>9, <1>10, PageStays DEF Inv
  <1>18. AttemptsAreApproved'
    <2> SUFFICES ASSUME NEW b \in Agents, NEW q \in Requests, NEW i \in DOMAIN attempts'[b],
                        attempts'[b][i].request = q
                 PROVE  /\ request[q].status \in {"deploying", "completed", "failed"}
                        /\ request[q].reviewedBy \notin {Nobody, request[q].by}
                        /\ b \in request[q].targets
                        /\ attempts'[b][i].config = request[q].config
      BY <1>4 DEF AttemptsAreApproved, Carries
    <2>1. q # 0  BY RequestsAreNumbers
    <2>2. CASE i \in DOMAIN attempts[b] /\ attempts'[b][i].request = attempts[b][i].request
                  /\ attempts'[b][i].config = attempts[b][i].config
      BY <2>2 DEF Inv, AttemptsAreApproved, Carries
    <2>3. CASE b = a /\ attempts'[b][i].request = r /\ attempts'[b][i].config = c
      BY <1>2, <1>3, <2>3 DEF Approved, c
    <2> QED  BY <1>12, <2>1, <2>2, <2>3
  <1>19. DeliveredOnce'
    <2> SUFFICES ASSUME NEW b \in Agents, NEW q \in Requests,
                        NEW i \in DOMAIN attempts'[b], NEW j \in DOMAIN attempts'[b],
                        attempts'[b][i].request = q, attempts'[b][j].request = q
                 PROVE  i = j
      BY DEF DeliveredOnce, Carries
    <2>1. q # 0  BY RequestsAreNumbers
    <2>2. CASE i \in DOMAIN attempts[b] /\ j \in DOMAIN attempts[b]
      <3>1. attempts[b][i].request = q /\ attempts[b][j].request = q
        BY <1>1, <1>10, <2>2, RowsGrow
      <3> QED  BY <2>2, <3>1 DEF Inv, DeliveredOnce, Carries
    <2>3. CASE i \notin DOMAIN attempts[b]
      <3>1. b = a /\ i = Len(s) + 1 /\ q = r  BY <1>12, <2>1, <2>3
      <3>2. ~(j \in DOMAIN s /\ t[j].request = s[j].request)
        BY <1>13, <3>1 DEF t
      <3>3. j = Len(s) + 1  BY <1>12, <2>1, <3>1, <3>2 DEF s, t
      <3> QED  BY <3>1, <3>3
    <2>4. CASE j \notin DOMAIN attempts[b]
      <3>1. b = a /\ j = Len(s) + 1 /\ q = r  BY <1>12, <2>1, <2>4
      <3>2. ~(i \in DOMAIN s /\ t[i].request = s[i].request)
        BY <1>13, <3>1 DEF t
      <3>3. i = Len(s) + 1  BY <1>12, <2>1, <3>1, <3>2 DEF s, t
      <3> QED  BY <3>1, <3>3
    <2> QED  BY <2>2, <2>3, <2>4
  <1>20. CompletedIsApplied'
    BY <1>1, <1>4, <1>9, <1>10, CompletedStays DEF Inv
  <1> QED  BY <1>8, <1>14, <1>15, <1>16, <1>17, <1>18, <1>19, <1>20 DEF Inv


LEMMA FinishInv ==
    ASSUME Inv, NEW p \in Handlers, Finish(p)
    PROVE  Inv'
  <1>1. TypeOK  BY DEF Inv
  <1>2. task[p].at = "deliver" /\ Done(p)  BY DEF Finish
  <1>3. task[p].request \in Requests
    BY <1>2 DEF Inv, TaskInv, TaskGood, Working
  <1>4. UNCHANGED <<rank, group, members, changes, late, attempts, page, trouble, crashes>>
    BY DEF Finish, world, others
  <1>5. RequestsKeep /\ \A o \in Requests :
           request'[o].status = request[o].status
           \/ (request[o].status = "deploying" /\ request'[o].status = "failed")
    <2>1. CASE Conclude(task[p].request, "failed")
      BY <1>1, <1>3, <2>1, ConcludeKeeps
    <2>2. CASE UNCHANGED request
      BY <1>1, <2>2, UnwrittenKeep
    <2> QED  BY <2>1, <2>2 DEF Finish
  <1>6. Quietly  BY <1>1, <1>4, UnchangedQuietly
  <1>7. task' \in [Handlers -> Task] /\ task'[p].at = "idle"
        /\ \A o \in Handlers : o # p => task'[o] = task[o]
    BY <1>1, <1>2, DoneType
  <1>8. TypeOK'  BY <1>1, <1>4, <1>5, <1>7 DEF TypeOK, RequestsKeep
  <1>9. \A o \in Handlers : task'[o] = task[o] \/ (TaskGood(o)' /\ task'[o].at # "deliver")
    BY <1>7, IdleIsGood
  <1>10. \A o \in Requests : /\ request'[o].status # "absent" => request[o].status # "absent"
                             /\ request'[o].status = "completed" => request[o].status = "completed"
    BY <1>5
  <1> QED  BY <1>4, <1>5, <1>6, <1>8, <1>9, <1>10, QuietStep

(* The page counts only attempts made since the request.                     *)
LEMMA SaysPosition ==
    ASSUME TypeOK, NEW r \in Requests, NEW a \in Agents, NEW st, Says(r, a, st)
    PROVE  \E i \in DOMAIN attempts[a] :
              /\ i > request[r].since[a] /\ attempts[a][i].config = request[r].config
              /\ attempts[a][i].status = st
  <1> DEFINE I == {i \in DOMAIN attempts[a] :
                      i > request[r].since[a] /\ HasHashOf(attempts[a][i], request[r].config)}
  <1>1. I \in SUBSET (1 .. Len(attempts[a])) /\ Len(attempts[a]) \in Nat
    BY HistoryType, HistoryDomain
  <1>2. Counted(r, a) = Newest(I)  BY DEF Counted
  <1>3. Counted(r, a) # 0 /\ attempts[a][Counted(r, a)].status = st  BY DEF Says
  <1>4. Counted(r, a) \in I
    <2> HIDE DEF I
    <2> QED  BY <1>1, <1>2, <1>3, NewestType
  <1> QED  BY <1>3, <1>4 DEF HasHashOf

LEMMA VerdictApplied ==
    ASSUME TypeOK, NEW r \in Requests, Verdict(r) = "completed"
    PROVE  Applied(r)
  <1>1. \A a \in request[r].targets : Says(r, a, "applied")  BY DEF Verdict
  <1>2. request[r].targets \subseteq Agents  BY DEF TypeOK, Request
  <1> QED  BY <1>1, <1>2, SaysPosition DEF Applied

LEMMA ReadPageInv ==
    ASSUME Inv, NEW r \in Requests, ReadPage(r)
    PROVE  Inv'
  <1>1. TypeOK  BY DEF Inv
  <1>2. /\ request[r].status = "deploying" /\ Verdict(r) # ""
        /\ page' = [request |-> r, verdict |-> Verdict(r)]
    BY DEF ReadPage
  <1>3. UNCHANGED <<rank, group, members, changes, request, late, attempts, task, trouble, crashes>>
    BY DEF ReadPage, world
  <1>4. Verdict(r) \in {"", "completed", "failed"}  BY DEF Verdict
  <1>5. page'.request = r /\ page'.verdict = Verdict(r)
        /\ page' \in [request : Nat, verdict : {"", "completed", "failed"}]
    BY <1>2, <1>4, RequestsAreNumbers
  <1>6. TypeOK'  BY <1>1, <1>3, <1>5 DEF TypeOK
  <1>7. PageInv'
    <2>1. Verdict(r) = "completed" => Applied(r)'
      BY <1>1, <1>3, VerdictApplied DEF Applied
    <2>2. request'[r].status # "absent"  BY <1>2, <1>3
    <2> QED  BY <1>2, <1>4, <1>5, <2>1, <2>2 DEF PageInv, Applied
  <1>8. MadeInv' /\ TaskInv' /\ TodoInv'
    BY <1>3 DEF Inv, MadeInv, TaskInv, TaskGood, Working, TodoInv
  <1>9. AttemptsAreApproved' /\ DeliveredOnce' /\ CompletedIsApplied'
    BY <1>3 DEF Inv, AttemptsAreApproved, DeliveredOnce, CompletedIsApplied, Carries
  <1> QED  BY <1>6, <1>7, <1>8, <1>9 DEF Inv

LEMMA ConcludePageInv ==
    ASSUME Inv, ConcludePage
    PROVE  Inv'
  <1> DEFINE r == page.request
  <1>1. TypeOK  BY DEF Inv
  <1>2. page # NoPage /\ Conclude(r, page.verdict) /\ page' = NoPage  BY DEF ConcludePage
  <1>3. r \in Requests /\ request[r].status # "absent"
        /\ (page.verdict = "completed" => Applied(r))
    BY <1>2 DEF Inv, PageInv
  <1>4. UNCHANGED <<rank, group, members, changes, late, attempts, task, trouble, crashes>>
    BY DEF ConcludePage, world
  <1>5. Quietly  BY <1>1, <1>4, UnchangedQuietly
  <1>6. page.verdict \in {"completed", "failed"}
    BY <1>2 DEF Inv, PageInv
  <1> HIDE DEF r
  <1>7. /\ RequestsKeep
        /\ \A o \in Requests : o # r => request'[o] = request[o]
        /\ \/ request'[r].status = request[r].status
           \/ (request[r].status = "deploying" /\ request'[r].status = page.verdict)
    BY <1>1, <1>2, <1>3, <1>6, ConcludeKeeps
  <1>8. TypeOK'
    <2>1. page' \in [request : Nat, verdict : {"", "completed", "failed"}]
      BY <1>2 DEF NoPage
    <2> QED  BY <1>1, <1>4, <1>7, <2>1 DEF TypeOK, RequestsKeep
  <1>9. \A o \in Requests :
           /\ request'[o].status # "absent" => request[o].status # "absent"
           /\ request'[o].status = "completed" =>
                 request[o].status = "completed" \/ (request[o].status # "absent" /\ Applied(o))
    BY <1>3, <1>7
  <1>10. \A p \in Handlers : task'[p] = task[p]  BY <1>4
  <1> QED  BY <1>2, <1>5, <1>7, <1>8, <1>9, <1>10, QuietStep

LEMMA ExpireInv ==
    ASSUME Inv, Expire
    PROVE  Inv'
  <1>1. TypeOK /\ request' = Sweep  BY DEF Inv, Expire
  <1>2. UNCHANGED <<rank, group, members, changes, late, attempts, task, page, trouble, crashes>>
    BY DEF Expire, world, others
  <1>3. RequestsKeep /\ \A o \in Requests : request'[o].status = request[o].status
           \/ (request[o].status = "pending_approval" /\ request'[o].status = "expired")
    BY <1>1, SweepKeeps
  <1>4. Quietly  BY <1>1, <1>2, UnchangedQuietly
  <1>5. TypeOK'  BY <1>1, <1>2, <1>3 DEF TypeOK, RequestsKeep
  <1>6. \A o \in Requests : /\ request'[o].status # "absent" => request[o].status # "absent"
                            /\ request'[o].status = "completed" => request[o].status = "completed"
    BY <1>3
  <1> QED  BY <1>2, <1>3, <1>4, <1>5, <1>6, QuietStep

LEMMA CountersType ==
    ASSUME TypeOK
    PROVE  /\ changes \in Nat /\ crashes \in Nat
           /\ changes + 1 \in Nat /\ crashes + 1 \in Nat
  <1>1. changes \in Nat /\ crashes \in Nat  BY DEF TypeOK
  <1> QED  BY <1>1

LEMMA DeadlineInv ==
    ASSUME Inv, NEW r \in Requests, DeadlinePasses(r)
    PROVE  Inv'
  <1>1. TypeOK /\ late' = late \cup {r}  BY DEF Inv, DeadlinePasses
  <1>2. UNCHANGED <<rank, group, members, changes, request, attempts, task, page, trouble, crashes>>
    BY DEF DeadlinePasses, world, others
  <1>3. TypeOK'  BY <1>1, <1>2 DEF TypeOK
  <1> QED  BY <1>1, <1>2, <1>3, UnchangedQuietly, WorldStep

LEMMA EnvironmentInv ==
    ASSUME Inv, Environment
    PROVE  Inv'
  <1>1. TypeOK  BY DEF Inv
  <1>2. ASSUME NEW a \in Agents, AgentApplies(a) \/ AgentFails(a)
        PROVE  Inv'
    <2>1. Quietly  BY <1>1, <1>2, AppliesQuietly, FailsQuietly
    <2>2. UNCHANGED <<rank, group, members, changes, request, late, task, page, trouble, crashes>>
      BY <1>2 DEF AgentApplies, AgentFails, world, others
    <2>3. TypeOK'  BY <1>1, <2>1, <2>2 DEF TypeOK, Quietly
    <2> QED  BY <2>1, <2>2, <2>3, WorldStep
  <1>3. ASSUME NEW a \in Agents, NEW c \in Configs, Direct(a, c)
        PROVE  Inv'
    <2>1. Quietly  BY <1>1, <1>3, DirectQuietly
    <2>2. UNCHANGED <<rank, group, members, request, late, task, page, trouble, crashes>>
          /\ changes' = changes + 1
      BY <1>3 DEF Direct, others, Change
    <2>3. changes' \in Nat  BY <1>1, <2>2, CountersType
    <2>4. TypeOK'  BY <1>1, <2>1, <2>2, <2>3 DEF TypeOK, Quietly
    <2> QED  BY <2>1, <2>2, <2>4, WorldStep
  <1>4. ASSUME NEW u \in Users, NEW k \in NewRanks, ChangeRank(u, k)
        PROVE  Inv'
    <2>1. rank' = [rank EXCEPT ![u] = k] /\ changes' = changes + 1 /\ k \in Ranks
          /\ UNCHANGED <<group, members, request, late, attempts, task, page, trouble, crashes>>
      BY <1>4 DEF ChangeRank, others, Change
    <2>2. changes' \in Nat  BY <1>1, <2>1, CountersType
    <2>3. TypeOK'  BY <1>1, <2>1, <2>2 DEF TypeOK
    <2> QED  BY <1>1, <2>1, <2>3, UnchangedQuietly, WorldStep
  <1>5. ASSUME NEW row \in [enabled : BOOLEAN, selector : Selectors], EditGroup(row)
        PROVE  Inv'
    <2>1. group' = row /\ changes' = changes + 1
          /\ UNCHANGED <<rank, members, request, late, attempts, task, page, trouble, crashes>>
      BY <1>5 DEF EditGroup, others, Change
    <2>2. changes' \in Nat  BY <1>1, <2>1, CountersType
    <2>3. TypeOK'  BY <1>1, <2>1, <2>2 DEF TypeOK
    <2> QED  BY <1>1, <2>1, <2>3, UnchangedQuietly, WorldStep
  <1>6. ASSUME NEW a \in Agents, MoveAgent(a)
        PROVE  Inv'
    <2>1. members' \in {members \ {a}, members \cup {a}} /\ changes' = changes + 1
          /\ UNCHANGED <<rank, group, request, late, attempts, task, page, trouble, crashes>>
      BY <1>6 DEF MoveAgent, others, Change
    <2>2. changes' \in Nat  BY <1>1, <2>1, CountersType
    <2>3. TypeOK'  BY <1>1, <2>1, <2>2 DEF TypeOK
    <2> QED  BY <1>1, <2>1, <2>3, UnchangedQuietly, WorldStep
  <1> QED  BY <1>2, <1>3, <1>4, <1>5, <1>6 DEF Environment

LEMMA CrashInv ==
    ASSUME Inv, Crash
    PROVE  Inv'
  <1>1. TypeOK  BY DEF Inv
  <1>2. task' = [p \in Handlers |-> NoTask] /\ page' = NoPage /\ crashes' = crashes + 1
        /\ UNCHANGED <<rank, group, members, changes, request, late, attempts, trouble>>
    BY DEF Crash, world
  <1>3. TypeOK'
    <2>1. crashes' \in Nat  BY <1>1, <1>2, CountersType
    <2>2. page' \in [request : Nat, verdict : {"", "completed", "failed"}]
      BY <1>2 DEF NoPage
    <2>3. task' \in [Handlers -> Task]  BY <1>2, NoTaskType
    <2> QED  BY <1>1, <1>2, <2>1, <2>2, <2>3 DEF TypeOK
  <1>4. \A p \in Handlers : TaskGood(p)' /\ task'[p].at # "deliver"
    BY <1>2, NoTaskType, IdleIsGood
  <1>5. RequestsKeep /\ Quietly  BY <1>1, <1>2, UnwrittenKeep, UnchangedQuietly
  <1> QED  BY <1>2, <1>3, <1>4, <1>5, QuietStep


---------------------------------------------------------------------------
(* The theorems.                                                             *)

LEMMA InitInv ==
    ASSUME Init
    PROVE  Inv
  <1>1. \A r \in Requests : request[r] = NoRequest  BY DEF Init
  <1>2. NoRequest.status = "absent" /\ NoRequest \in Request
    <2>1. group.selector \in Selectors  BY DEF Init
    <2>2. (CHOOSE s \in Selectors : TRUE) \in Selectors  BY <2>1
    <2> QED  BY <2>2 DEF NoRequest, Request, Statuses
  <1>3. \A p \in Handlers : task[p].at = "idle"  BY NoTaskType DEF Init
  <1>4. \A a \in Agents : attempts[a] \in Seq(Attempt)
                          /\ \A i \in DOMAIN attempts[a] : attempts[a][i].request = 0
    <2> SUFFICES ASSUME NEW a \in Agents
                 PROVE  attempts[a] \in Seq(Attempt)
                        /\ \A i \in DOMAIN attempts[a] : attempts[a][i].request = 0
      OBVIOUS
    <2>1. attempts[a] \in Before  BY DEF Init
    <2>2. CASE attempts[a] = << >>  BY <2>2
    <2>3. CASE attempts[a] # << >>
      <3>1. PICK c \in Configs :
              attempts[a] = <<[config |-> c, request |-> 0, action |-> "deploy", prev |-> None,
                               claimed |-> FALSE, status |-> "applied"]>>
        BY <2>1, <2>3 DEF Before
      <3> DEFINE row == [config |-> c, request |-> 0, action |-> "deploy", prev |-> None,
                         claimed |-> FALSE, status |-> "applied"]
      <3>2. row \in Attempt /\ row.request = 0  BY DEF Attempt
      <3>3. attempts[a] = <<row>>  BY <3>1
      <3> HIDE DEF row
      <3>4. DOMAIN attempts[a] = {1} /\ attempts[a][1] = row /\ attempts[a] \in Seq(Attempt)
        BY <3>2, <3>3
      <3> QED  BY <3>2, <3>4
    <2> QED  BY <2>2, <2>3
  <1>5. TypeOK
    <2>1. page \in [request : Nat, verdict : {"", "completed", "failed"}]
      BY DEF Init, NoPage
    <2>2. attempts \in [Agents -> Seq(Attempt)]
      <3>1. attempts \in [Agents -> Before]  BY DEF Init
      <3> QED  BY <1>4, <3>1
    <2>3. task \in [Handlers -> Task]  BY NoTaskType DEF Init
    <2>4. request \in [Requests -> Request]  BY <1>2 DEF Init
    <2>5. rank \in [Users -> Ranks] /\ group \in [enabled : BOOLEAN, selector : Selectors]
          /\ members \subseteq Agents /\ late \subseteq Requests
          /\ trouble \in [Requests -> SUBSET Agents] /\ changes \in Nat /\ crashes \in Nat
      BY DEF Init
    <2> QED  BY <2>1, <2>2, <2>3, <2>4, <2>5 DEF TypeOK
  <1>6. MadeInv /\ TaskInv /\ TodoInv /\ PageInv
    BY <1>1, <1>2, <1>3 DEF MadeInv, TaskInv, TaskGood, Working, TodoInv, PageInv, Init
  <1>7. AttemptsAreApproved /\ DeliveredOnce
    BY <1>4, RequestsAreNumbers DEF AttemptsAreApproved, DeliveredOnce, Carries
  <1>8. CompletedIsApplied  BY <1>1, <1>2 DEF CompletedIsApplied
  <1> QED  BY <1>5, <1>6, <1>7, <1>8 DEF Inv

LEMMA NextInv ==
    ASSUME Inv, [Next]_vars
    PROVE  Inv'
  <1>1. ASSUME NEW r \in Requests, NEW u \in Users, NEW v \in Users, NEW c \in Configs,
               Submit(r, u, v, c)
        PROVE  Inv'
    BY <1>1, SubmitInv
  <1>2. ASSUME NEW p \in Handlers, NEW u \in Users, NEW verb \in DOMAIN Decision,
               NEW r \in Requests, Open(p, u, verb, r)
        PROVE  Inv'
    BY <1>2, OpenInv
  <1>3. ASSUME NEW p \in Handlers, Step(p)
        PROVE  Inv'
    BY <1>3, CheckTargetsInv, ReviewInv, DeliverInv, FinishInv DEF Step
  <1>4. CASE View  BY <1>4, ReadPageInv DEF View
  <1>5. CASE ConcludePage  BY <1>5, ConcludePageInv
  <1>6. ASSUME NEW r \in Requests, DeadlinePasses(r)
        PROVE  Inv'
    BY <1>6, DeadlineInv
  <1>7. CASE Expire  BY <1>7, ExpireInv
  <1>8. CASE Environment  BY <1>8, EnvironmentInv
  <1>9. CASE Crash  BY <1>9, CrashInv
  <1>10. CASE UNCHANGED vars
    <2>1. UNCHANGED <<rank, group, members, request, late, attempts, task, page, trouble,
                      changes, crashes>>
      BY <1>10 DEF vars
    <2>2. TypeOK'  BY <2>1 DEF Inv, TypeOK
    <2> QED  BY <2>1, <2>2, UnchangedQuietly, WorldStep DEF Inv
  <1> QED  BY <1>1, <1>2, <1>3, <1>4, <1>5, <1>6, <1>7, <1>8, <1>9, <1>10 DEF Next

(* The rows and the handlers keep their types and each handler works on a    *)
(* request that stands behind it (request_deployment to the page of a group, *)
(* groups.go).                                                               *)
THEOREM Soundness == Spec => []Inv
  <1>1. Init => Inv  BY InitInv
  <1>2. Inv /\ [Next]_vars => Inv'  BY NextInv
  <1> QED  BY <1>1, <1>2, PTL DEF Spec

(* What reaches an agent in the name of a request was approved by somebody   *)
(* else than who asked (reviewGroupDeployment).                              *)
THEOREM ApprovalPrecedes == Spec => []AttemptsAreApproved
  <1>1. Inv => AttemptsAreApproved  BY DEF Inv
  <1> QED  BY <1>1, Soundness, PTL

(* However many handlers approve a request, each target gets it once.        *)
THEOREM OneDeliveryEach == Spec => []DeliveredOnce
  <1>1. Inv => DeliveredOnce  BY DEF Inv
  <1> QED  BY <1>1, Soundness, PTL

(* The page ends a request as completed only when every target has applied   *)
(* its configuration.                                                        *)
THEOREM CompletionIsTrue == Spec => []CompletedIsApplied
  <1>1. Inv => CompletedIsApplied  BY DEF Inv
  <1> QED  BY <1>1, Soundness, PTL


---------------------------------------------------------------------------
(* A request is decided once.                                                *)

Status == [r \in Requests |-> request[r].status]

(* One request goes from one status to another, the others stay.             *)
LEMMA OneMoves ==
    ASSUME NEW r \in Requests, NEW from, NEW to, NEW s \in to,
           request[r].status \in from, request'[r].status = s,
           \A o \in Requests : o # r => request'[o].status = request[o].status
    PROVE  Decided!Move(r, from, to)
  <1>1. Status[r] \in from /\ Status' = [Status EXCEPT ![r] = s]  BY DEF Status
  <1> QED  BY <1>1 DEF Decided!Move, Status

LEMMA SweepExpires ==
    ASSUME TypeOK, request' = Sweep
    PROVE  Decided!Expired
  <1> DEFINE R == {r \in Requests : Swept(r)}
  <1>1. R \subseteq {r \in Requests : Status[r] = "pending_approval"}
    BY DEF Status, Swept, Pending
  <1>2. \A r \in Requests : request'[r].status = IF r \in R THEN "expired" ELSE request[r].status
    <2> SUFFICES ASSUME NEW r \in Requests
                 PROVE  request'[r].status = IF r \in R THEN "expired" ELSE request[r].status
      OBVIOUS
    <2>1. request[r] \in Request  BY DEF TypeOK
    <2>2. [request[r] EXCEPT !.status = "expired"].status = "expired"  BY <2>1 DEF Request
    <2>3. request'[r] = IF Swept(r) THEN [request[r] EXCEPT !.status = "expired"] ELSE request[r]
      BY DEF Sweep
    <2> QED  BY <2>2, <2>3
  <1>3. Status' = [r \in Requests |-> IF r \in R THEN "expired" ELSE Status[r]]
    BY <1>2 DEF Status
  <1> HIDE DEF R
  <1> QED  BY <1>1, <1>3 DEF Decided!Expired, Status

LEMMA ConcludeEnds ==
    ASSUME TypeOK, NEW r \in Requests, NEW s \in {"completed", "failed"}, Conclude(r, s)
    PROVE  Decided!Ended(r) \/ UNCHANGED Status
  <1>1. \A o \in Requests : o # r => request'[o].status = request[o].status
    BY ConcludeKeeps
  <1>2. CASE request'[r].status = request[r].status
    BY <1>1, <1>2 DEF Status
  <1>3. CASE request[r].status = "deploying" /\ request'[r].status = s
    <2>1. s \in Decided!Outcomes  BY DEF Decided!Outcomes
    <2>2. Decided!Move(r, {"deploying"}, Decided!Outcomes)  BY <1>1, <1>3, <2>1, OneMoves
    <2> QED  BY <2>2 DEF Decided!Ended
  <1> QED  BY <1>2, <1>3, ConcludeKeeps

LEMMA ReviewDecides ==
    ASSUME Inv, NEW p \in Handlers, NEW r \in Requests, task[p].request = r, Review(p)
    PROVE  Decided!Decided(r) \/ UNCHANGED Status
  <1> DEFINE s == Decision[task[p].op]
  <1>1. TypeOK /\ Working(p) /\ TaskGood(p)  BY DEF Review, Working, Inv, TaskInv
  <1>2. r \in Requests /\ task[p].op \in DOMAIN Decision /\ task[p].by \in Users
    BY <1>1 DEF TaskGood
  <1>3. CASE ~Pending(r)
    <2>1. UNCHANGED request  BY <1>3 DEF Review
    <2> QED  BY <2>1 DEF Status
  <1>4. CASE Pending(r)
    <2>1. s \in Statuses /\ s # "absent" /\ s \in Decided!Decisions \ {"expired"}
      BY <1>2, DecisionDomain DEF Statuses, Decided!Decisions
    <2>2. Reviewed(r, s, task[p].by)  BY <1>4 DEF Review
    <2> HIDE DEF s
    <2>3. request'[r].status = s /\ \A o \in Requests : o # r => request'[o] = request[o]
      BY <1>1, <1>2, <1>4, <2>1, <2>2, ReviewedKeeps
    <2>4. Decided!Move(r, {"pending_approval"}, Decided!Decisions \ {"expired"})
      BY <1>2, <1>4, <2>1, <2>3, OneMoves DEF Pending
    <2> QED  BY <2>4 DEF Decided!Decided
  <1> QED  BY <1>3, <1>4

LEMMA SubmitSubmits ==
    ASSUME TypeOK, NEW r \in Requests, NEW u \in Users, NEW v \in Users, NEW c \in Configs,
           Submit(r, u, v, c)
    PROVE  Decided!Submitted(r)
  <1>1. request[r].status = "absent"  BY DEF Submit
  <1>2. request'[r].status = "pending_approval"
        /\ \A o \in Requests : o # r => request'[o] = request[o]
    BY DEF Submit, TypeOK
  <1>3. Decided!Move(r, {"absent"}, {"pending_approval"})  BY <1>1, <1>2, OneMoves
  <1> QED  BY <1>3 DEF Decided!Submitted

LEMMA StepMoves ==
    ASSUME Inv, [Next]_vars
    PROVE  [Decided!Next]_Status
  <1>1. TypeOK  BY DEF Inv
  <1>2. ASSUME NEW r \in Requests, NEW u \in Users, NEW v \in Users, NEW c \in Configs,
               Submit(r, u, v, c)
        PROVE  Decided!Next
    BY <1>1, <1>2, SubmitSubmits DEF Decided!Next
  <1>3. ASSUME request' = Sweep
        PROVE  Decided!Next
    BY <1>1, <1>3, SweepExpires DEF Decided!Next
  <1>4. ASSUME NEW p \in Handlers, Step(p)
        PROVE  Decided!Next \/ UNCHANGED Status
    <2>1. CASE CheckTargets(p)  BY <2>1 DEF CheckTargets, Status
    <2>2. CASE Review(p)
      <3>1. PICK r \in Requests : task[p].request = r
        BY <2>2 DEF Review, Inv, TaskInv, TaskGood, Working
      <3>2. Decided!Decided(r) => Decided!Next
        BY DEF Decided!Next
      <3>3. Decided!Decided(r) \/ UNCHANGED Status
        BY <2>2, <3>1, ReviewDecides
      <3> QED  BY <3>2, <3>3
    <2>3. ASSUME NEW a \in Agents, Deliver(p, a)
          PROVE  UNCHANGED Status
      BY <2>3 DEF Deliver, Status
    <2>4. CASE Finish(p)
      <3>1. task[p].request \in Requests
        BY <2>4 DEF Finish, Inv, TaskInv, TaskGood, Working
      <3>2. CASE Conclude(task[p].request, "failed")
        BY <1>1, <3>1, <3>2, ConcludeEnds DEF Decided!Next
      <3>3. CASE UNCHANGED request  BY <3>3 DEF Status
      <3> QED  BY <2>4, <3>2, <3>3 DEF Finish
    <2> QED  BY <1>4, <2>1, <2>2, <2>3, <2>4 DEF Step
  <1>5. CASE ConcludePage
    <2>1. page.request \in Requests /\ page.verdict \in {"completed", "failed"}
      BY <1>5 DEF ConcludePage, Inv, PageInv
    <2> QED  BY <1>1, <1>5, <2>1, ConcludeEnds DEF ConcludePage, Decided!Next
  <1>6. ASSUME UNCHANGED request
        PROVE  UNCHANGED Status
    BY <1>6 DEF Status
  <1>7. CASE View \/ (\E r \in Requests : DeadlinePasses(r)) \/ Environment \/ Crash
             \/ UNCHANGED vars
    BY <1>6, <1>7 DEF View, ReadPage, DeadlinePasses, Environment, AgentApplies, AgentFails,
       MoveAgent, Direct, ChangeRank, EditGroup, Crash, world, vars
  <1>8. ASSUME NEW p \in Handlers, NEW u \in Users, NEW verb \in DOMAIN Decision,
               NEW r \in Requests, Open(p, u, verb, r)
        PROVE  Decided!Next
    BY <1>3, <1>8 DEF Open
  <1>9. CASE Expire  BY <1>3, <1>9 DEF Expire
  <1> QED  BY <1>2, <1>4, <1>5, <1>7, <1>8, <1>9 DEF Next

(* Every behaviour of the handlers, the page and the sweep is one of         *)
(* GroupDecision: a request is decided once and the two kinds of end do not  *)
(* mix (group_deployment_request_store.go, Review and UpdateStatus).         *)
THEOREM ImplementsDecision == Spec => RefinesDecision
  <1>1. Init => Decided!Init
    <2>1. Init => \A r \in Requests : request[r].status = "absent"
      BY DEF Init, NoRequest
    <2> QED  BY <2>1 DEF Decided!Init, Status
  <1>2. Inv /\ [Next]_vars => [Decided!Next]_Status  BY StepMoves
  <1> QED  BY <1>1, <1>2, Soundness, PTL DEF Spec, RefinesDecision, Decided!Spec, Status
=============================================================================
