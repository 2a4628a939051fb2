----------------------- MODULE MembershipChangeProofs -----------------------
(***************************************************************************)
(* What holds of governed membership changes for any number of collectors, *)
(* changes, groups, configurations and handlers, next to any faults and    *)
(* any writes of others: each is carried out once, its outcome is true of  *)
(* every collector that it has for itself, and what is reported as         *)
(* restored is restored.                                                   *)
(***************************************************************************)
EXTENDS MembershipChange, WellFoundedInduction, TLAPS

USE MembershipAssumption

---------------------------------------------------------------------------
(* The inductive invariant.                                                  *)

Busy(h) == ~At(h, "idle")
Own(n)  == {a \in change[n].targets : <<n, a>> \in alone}

Forward == {"check", "deliver", "place", "snapshot"}
Backward == {"undo", "resnapshot"}

(* Every row that was proposed has collectors, and no results before its     *)
(* handler writes them.                                                      *)
RowsInv ==
    \A n \in Changes :
        /\ change[n].status # "absent" => change[n].targets # {}
        /\ change[n].status \in {"absent", "pending_approval"} =>
              \A a \in Agents : change[n].results[a] = ""

WorkInv ==
    /\ \A h \in Handlers : Busy(h) =>
          task[h].change \in Changes /\ Row(h).status = "executing"
    /\ \A h, k \in Handlers :
          Busy(h) /\ Busy(k) /\ task[h].change = task[k].change => h = k

(* Nobody but its own handler is at work on a collector that a change has    *)
(* for itself.                                                               *)
AloneInv ==
    \A n \in Changes : \A a \in Agents : <<n, a>> \in alone =>
        /\ a \in change[n].targets
        /\ change[n].status \in {"executing", "completed", "failed"}
        /\ \A k \in Handlers : Busy(k) /\ task[k].change # n => a \notin Row(k).targets

(* How far a handler is, and what it has noted down.                         *)
ShapeGood(t, row) ==
    /\ t.at # "conclude" => \A a \in Agents : row.results[a] = ""
    /\ t.at \in {"check", "deliver", "place", "undo"} => t.i \in row.targets
    /\ t.at \in Forward => ~t.error /\ \A a \in Agents : t.results[a] # "restored"
    /\ t.at \in Backward => t.error
    /\ t.at = "check" => t.placed = {} /\ t.configured = {}
    /\ t.at \in {"deliver", "place"} => t.placed = {a \in row.targets : a < t.i}
    /\ t.at = "snapshot" => t.placed = row.targets
    /\ t.at = "undo" => \A a \in row.targets : a <= t.i => a \in t.placed

(* Where a collector is: gone to where the change takes it, or back.         *)
Gone(n, a) == place[a] = change[n].target /\ saved[a] = change[n].target
Back(n, a) == n \notin unsaved => /\ place[a] = origin[n][a].place
                                  /\ saved[a] = origin[n][a].place

Moved(t, a) == a \in t.placed /\ ~(t.at = "undo" /\ a > t.i)

PlaceGood(t, n, a) ==
    /\ t.at \in Forward \cup {"undo"} =>
          /\ place[a] = IF Moved(t, a) THEN change[n].target ELSE origin[n][a].place
          /\ saved[a] = origin[n][a].place \/ (a \in t.placed /\ saved[a] = change[n].target)
          /\ t.at # "check" \/ a < t.i => t.home[a] = origin[n][a].place
    /\ t.at = "resnapshot" => place[a] = origin[n][a].place
    /\ t.at \in {"evidence", "conclude"} /\ ~t.error => Gone(n, a)
    /\ t.at = "evidence" /\ t.error => Back(n, a)
    /\ t.at = "conclude" /\ t.error /\ change[n].results[a] # "" => Back(n, a)

(* What it runs: what it ran, untouched, or sent again after something else. *)
Kept(n, a)     == wanted[a] = origin[n][a].config /\ ~InFlight(a)
Returned(n, a) == wanted[a] = origin[n][a].config /\ (InFlight(a) => prior[a] = None)

ConfigGood(t, n, a) == origin[n][a].settled =>
    /\ t.at \in {"deliver", "place", "snapshot", "undo"} \/ (t.at = "check" /\ a < t.i) =>
          t.previous[a] = origin[n][a].config
    /\ (t.at \in Forward \/ (t.at = "undo" /\ a <= t.i)) /\ a \notin t.configured =>
          Kept(n, a)
    /\ t.at \in Backward \cup {"evidence"} /\ t.results[a] = "restored" => Returned(n, a)

TaskGood(h) ==
    LET n == task[h].change IN
    /\ ShapeGood(task[h], change[n])
    /\ \A a \in Own(n) : PlaceGood(task[h], n, a) /\ ConfigGood(task[h], n, a)

RowGood(n) ==
    \A a \in Own(n) :
        /\ change[n].status = "completed" => Gone(n, a)
        /\ change[n].status = "failed" /\ change[n].results[a] # "" => Back(n, a)
        /\ change[n].results[a] = "restored" /\ origin[n][a].settled => Returned(n, a)

Inv ==
    /\ RecordsOK /\ RowsInv /\ WorkInv /\ AloneInv
    /\ \A h \in Handlers : Busy(h) => TaskGood(h)
    /\ \A n \in Changes : RowGood(n)

---------------------------------------------------------------------------
(* Lemmas on the batch.  A nonempty set of collectors has a first and a last *)
(* one.                                                                      *)

LEMMA LeastExists ==
    ASSUME NEW S \in SUBSET Nat, S # {}
    PROVE  \E a \in S : \A b \in S : a <= b
  <1> DEFINE R == OpToRel(<, Nat)
  <1>1. S \subseteq Nat  OBVIOUS
  <1>2. IsWellFoundedOn(R, Nat)  BY NatLessThanWellFounded DEF R
  <1> HIDE DEF R
  <1>3. PICK a \in S : \A b \in S : ~(<<b, a>> \in R)  BY <1>1, <1>2, WFMin
  <1>4. \A b \in S : ~(b < a)  BY <1>1, <1>3 DEF R, OpToRel
  <1> QED  BY <1>1, <1>4

LEMMA GreatestExists ==
    ASSUME NEW N \in Nat, NEW S \in SUBSET (1 .. N), S # {}
    PROVE  \E a \in S : \A b \in S : b <= a
  <1> DEFINE T == {N + 1 - a : a \in S}
  <1>1. \A a \in S : a \in Nat /\ N + 1 - a \in 1 .. N  OBVIOUS
  <1>2. T \in SUBSET Nat /\ T # {}
    <2>1. \A a \in S : N + 1 - a \in Nat  BY <1>1
    <2> QED  BY <2>1
  <1>3. PICK x \in T : \A y \in T : x <= y
    <2> HIDE DEF T
    <2> QED  BY <1>2, LeastExists
  <1>4. PICK a \in S : x = N + 1 - a  OBVIOUS
  <1>5. \A b \in S : N + 1 - a <= N + 1 - b  BY <1>3, <1>4
  <1> QED  BY <1>1, <1>5

(* Going on to another collector changes nothing that was noted down.        *)
Elsewhere(u, t) ==
    /\ u \in Task /\ u.change = t.change /\ u.home = t.home /\ u.previous = t.previous
    /\ u.placed = t.placed /\ u.configured = t.configured
    /\ u.results = t.results /\ u.error = t.error

LEMMA StepsOn ==
    ASSUME NEW t \in Task, NEW s \in Steps, NEW u, u = [t EXCEPT !.at = s]
    PROVE  Elsewhere(u, t) /\ u.at = s /\ u.i = t.i
  <1>1. u \in Task /\ u.at = s /\ u.i = t.i  BY DEF Task
  <1> QED  BY <1>1 DEF Task, Elsewhere

LEMMA FirstIs ==
    ASSUME NEW t \in Task, NEW S \in SUBSET Agents, NEW s \in Steps, NEW done \in Steps,
           NEW u, u = First(t, S, s, done)
    PROVE  /\ Elsewhere(u, t)
           /\ S = {} => u.at = done
           /\ S # {} => u.at = s /\ u.i \in S /\ \A b \in S : u.i <= b
  <1>1. CASE S = {}
    <2>1. u = [t EXCEPT !.at = done]  BY <1>1 DEF First
    <2> QED  BY <1>1, <2>1, StepsOn
  <1>2. CASE S # {}
    <2>1. PICK a \in Agents : /\ a \in S /\ \A b \in S : a <= b
                              /\ u = [t EXCEPT !.at = s, !.i = a]
      <3>1. S \in SUBSET Nat  BY DEF Agents
      <3>2. \E b \in S : \A d \in S : b <= d  BY <1>2, <3>1, LeastExists
      <3> QED  BY <1>2, <3>2 DEF IsLeast, First
    <2>2. a \in Nat  BY DEF Agents
    <2>3. u = [t EXCEPT !.at = s, !.i = a]  BY <2>1
    <2>4. u \in Task /\ u.at = s /\ u.i = a  BY <2>2, <2>3 DEF Task
    <2>5. Elsewhere(u, t)  BY <2>3, <2>4 DEF Task, Elsewhere
    <2> QED  BY <1>2, <2>1, <2>4, <2>5
  <1> QED  BY <1>1, <1>2

LEMMA UndoIs ==
    ASSUME NEW t \in Task, NEW S \in SUBSET Agents, NEW u, u = Undo(t, S)
    PROVE  /\ Elsewhere(u, t)
           /\ S = {} => u.at = "resnapshot"
           /\ S # {} => u.at = "undo" /\ u.i \in S /\ \A b \in S : b <= u.i
  <1>0. "undo" \in Steps /\ "resnapshot" \in Steps  BY DEF Steps
  <1>1. CASE S = {}
    <2>1. u = [t EXCEPT !.at = "resnapshot"]  BY <1>1 DEF Undo
    <2> QED  BY <1>0, <1>1, <2>1, StepsOn
  <1>2. CASE S # {}
    <2>1. PICK a \in Agents : /\ a \in S /\ \A b \in S : b <= a
                              /\ u = [t EXCEPT !.at = "undo", !.i = a]
      <3>1. S \in SUBSET (1 .. NumAgents)  BY DEF Agents
      <3>2. \E b \in S : \A d \in S : d <= b  BY <1>2, <3>1, GreatestExists
      <3> QED  BY <1>2, <3>2 DEF IsGreatest, Undo
    <2>2. a \in Nat  BY DEF Agents
    <2>3. u = [t EXCEPT !.at = "undo", !.i = a]  BY <2>1
    <2>4. u \in Task /\ u.at = "undo" /\ u.i = a  BY <1>0, <2>2, <2>3 DEF Task
    <2>5. Elsewhere(u, t)  BY <2>3, <2>4 DEF Task, Elsewhere
    <2> QED  BY <1>2, <2>1, <2>4, <2>5
  <1> QED  BY <1>1, <1>2

(* What is known of the task of a handler that has not finished, and of the  *)
(* row that it carries out.                                                  *)
LEMMA AtWork ==
    ASSUME RecordsOK, WorkInv, NEW h \in Handlers, Busy(h)
    PROVE  /\ task[h] \in Task /\ task[h].change \in Changes
           /\ change[task[h].change] \in Change
           /\ Row(h).status = "executing"
           /\ Row(h).targets \subseteq Agents
           /\ origin[task[h].change] \in [Agents -> Origin]
  <1>1. task[h] \in Task /\ task[h].change \in Changes /\ Row(h).status = "executing"
    BY DEF RecordsOK, WorkInv
  <1>2. change[task[h].change] \in Change /\ origin[task[h].change] \in [Agents -> Origin]
    BY <1>1 DEF RecordsOK
  <1>3. Row(h).targets \subseteq Agents  BY <1>2 DEF Change, Row
  <1> QED  BY <1>1, <1>2, <1>3

LEMMA IdleTask == NoTask \in Task /\ NoTask.at = "idle"
  BY DEF NoTask, Task, Steps, Place, Version, Results

AttemptsTyped ==
    /\ wanted \in [Agents -> Version] /\ prior \in [Agents -> Version]
    /\ answer \in [Agents -> {"none", "sent", "applied", "failed"}]
    /\ \A a \in Agents : wanted[a] = None <=> answer[a] = "none"

(* An attempt concerns one agent, and ends as sent or as failed.             *)
LEMMA SendIs ==
    ASSUME RecordsOK, NEW a \in Agents, NEW c \in Configs, NEW back \in Version,
           Send(a, c, back)
    PROVE  /\ AttemptsTyped' /\ faults' \in Nat
           /\ wanted'[a] = c /\ prior'[a] = back /\ answer'[a] \in {"sent", "failed"}
           /\ \A b \in Agents \ {a} :
                 wanted'[b] = wanted[b] /\ prior'[b] = prior[b] /\ answer'[b] = answer[b]
  <1>1. PICK s \in {"sent", "failed"} : answer' = [answer EXCEPT ![a] = s] /\ faults' \in Nat
    BY DEF Send, Fault, RecordsOK
  <1>2. wanted' = [wanted EXCEPT ![a] = c] /\ prior' = [prior EXCEPT ![a] = back]
    BY DEF Send
  <1>3. c \in Version /\ c # None  BY MembershipAssumption DEF Version
  <1>4. wanted' \in [Agents -> Version] /\ prior' \in [Agents -> Version]
    BY <1>2, <1>3 DEF RecordsOK
  <1>5. answer' \in [Agents -> {"none", "sent", "applied", "failed"}]
    BY <1>1 DEF RecordsOK
  <1>6. /\ wanted'[a] = c /\ prior'[a] = back /\ answer'[a] \in {"sent", "failed"}
        /\ \A b \in Agents \ {a} :
              wanted'[b] = wanted[b] /\ prior'[b] = prior[b] /\ answer'[b] = answer[b]
    BY <1>1, <1>2 DEF RecordsOK
  <1>7. \A b \in Agents : wanted'[b] = None <=> answer'[b] = "none"
    BY <1>3, <1>6 DEF RecordsOK
  <1> QED  BY <1>1, <1>4, <1>5, <1>6, <1>7 DEF AttemptsTyped

LEMMA QuietIs ==
    ASSUME RecordsOK, Quiet
    PROVE  /\ AttemptsTyped' /\ faults' \in Nat
           /\ wanted' = wanted /\ prior' = prior /\ answer' = answer
  BY DEF RecordsOK, Quiet, attempt, AttemptsTyped

---------------------------------------------------------------------------
(* What a step of handler h leaves alone.                                    *)

Frame(h) ==
    LET n == task[h].change IN
    /\ \A k \in Handlers : k # h => task'[k] = task[k]
    /\ \A m \in Changes : m # n => change'[m] = change[m]
    /\ change'[n].targets = change[n].targets
    /\ origin' = origin /\ alone' = alone
    /\ unsaved' = unsaved \/ unsaved' = unsaved \cup {n}
    /\ saved' = saved \/ saved' = place
    /\ \A a \in Agents : a \notin Row(h).targets =>
          /\ place'[a] = place[a] /\ wanted'[a] = wanted[a]
          /\ answer'[a] = answer[a] /\ prior'[a] = prior[a]

(* What another handler has noted of a collector stays true, and so does     *)
(* what another row says of it.                                              *)
LEMMA TaskKept ==
    ASSUME NEW k, NEW n, TaskGood(k), task[k].change = n, task'[k] = task[k],
           change'[n] = change[n], origin'[n] = origin[n], Own(n)' \subseteq Own(n),
           n \in unsaved => n \in unsaved',
           \A a \in Own(n)' :
               /\ place'[a] = place[a] /\ (saved'[a] = saved[a] \/ saved'[a] = place[a])
               /\ Kept(n, a) => Kept(n, a)'
               /\ Returned(n, a) => Returned(n, a)'
    PROVE  TaskGood(k)'
  <1>2. ShapeGood(task[k], change[n])'  BY DEF TaskGood, ShapeGood
  <1>3. \A a \in Own(n)' : PlaceGood(task[k], n, a)'
    <2> SUFFICES ASSUME NEW a \in Own(n)'  PROVE PlaceGood(task[k], n, a)'  OBVIOUS
    <2>1. PlaceGood(task[k], n, a)  BY DEF TaskGood
    <2> QED  BY <2>1 DEF PlaceGood, Moved, Gone, Back
  <1>4. \A a \in Own(n)' : ConfigGood(task[k], n, a)'
    <2> SUFFICES ASSUME NEW a \in Own(n)'  PROVE ConfigGood(task[k], n, a)'  OBVIOUS
    <2>1. ConfigGood(task[k], n, a)  BY DEF TaskGood
    <2> QED  BY <2>1 DEF ConfigGood
  <1> QED  BY <1>2, <1>3, <1>4 DEF TaskGood

LEMMA RowKept ==
    ASSUME NEW n, RowGood(n), change'[n] = change[n], origin'[n] = origin[n],
           Own(n)' \subseteq Own(n), n \in unsaved => n \in unsaved',
           \A a \in Own(n)' :
               /\ place'[a] = place[a] /\ (saved'[a] = saved[a] \/ saved'[a] = place[a])
               /\ Returned(n, a) => Returned(n, a)'
    PROVE  RowGood(n)'
  <1> SUFFICES ASSUME NEW a \in Own(n)'
               PROVE  /\ change[n].status = "completed" => Gone(n, a)'
                      /\ change[n].status = "failed" /\ change[n].results[a] # "" => Back(n, a)'
                      /\ change[n].results[a] = "restored" /\ origin[n][a].settled =>
                            Returned(n, a)'
    BY DEF RowGood
  <1>2. /\ change[n].status = "completed" => Gone(n, a)
        /\ change[n].status = "failed" /\ change[n].results[a] # "" => Back(n, a)
        /\ change[n].results[a] = "restored" /\ origin[n][a].settled => Returned(n, a)
    BY DEF RowGood
  <1>3. Gone(n, a) => Gone(n, a)'  BY DEF Gone
  <1>4. Back(n, a) => Back(n, a)'  BY DEF Back
  <1> QED  BY <1>2, <1>3, <1>4

(* A step of a handler keeps the invariant if it keeps the part about its    *)
(* own task and row.                                                         *)
LEMMA HandlerKeeps ==
    ASSUME Inv, NEW h \in Handlers, Busy(h), NEW n, n = task[h].change, Frame(h), RecordsOK',
           change'[n].status \in {"executing", "completed", "failed"},
           Busy(h)' => /\ task'[h].change = n /\ change'[n].status = "executing"
                       /\ TaskGood(h)',
           RowGood(n)'
    PROVE  Inv'
  <1>0. n \in Changes /\ Row(h) = change[n] /\ Row(h).status = "executing"
    BY DEF Inv, WorkInv, Row
  <1>1. RowsInv'
    <2>1. \A m \in Changes : m # n => change'[m] = change[m]  BY DEF Frame
    <2>2. change[n].targets # {} /\ change'[n].targets = change[n].targets
      BY <1>0 DEF Inv, RowsInv, Frame
    <2> QED  BY <1>0, <2>1, <2>2 DEF Inv, RowsInv
  <1>2. \A k \in Handlers : Busy(k)' =>
           Busy(k) /\ task'[k].change = task[k].change /\ (k # h => task[k].change # n)
    <2> SUFFICES ASSUME NEW k \in Handlers, Busy(k)'
                 PROVE  Busy(k) /\ task'[k].change = task[k].change /\ (k # h => task[k].change # n)
      OBVIOUS
    <2>1. CASE k = h  BY <2>1
    <2>2. CASE k # h
      <3>1. task'[k] = task[k]  BY <2>2 DEF Frame
      <3>2. Busy(k)  BY <3>1 DEF Busy, At
      <3> QED  BY <2>2, <3>1, <3>2 DEF Inv, WorkInv
    <2> QED  BY <2>1, <2>2
  <1>3. WorkInv'
    <2>1. \A k \in Handlers : Busy(k)' =>
             task'[k].change \in Changes /\ change'[task'[k].change].status = "executing"
      <3> SUFFICES ASSUME NEW k \in Handlers, Busy(k)'
                   PROVE  task'[k].change \in Changes /\ change'[task'[k].change].status = "executing"
        OBVIOUS
      <3>1. CASE k = h  BY <1>0, <3>1
      <3>2. CASE k # h
        <4>1. Busy(k) /\ task'[k].change = task[k].change /\ task[k].change # n
          BY <1>2, <3>2
        <4>2. task[k].change \in Changes /\ change[task[k].change].status = "executing"
          BY <4>1 DEF Inv, WorkInv, Row
        <4> QED  BY <4>1, <4>2 DEF Frame
      <3> QED  BY <3>1, <3>2
    <2>2. \A j, k \in Handlers :
             Busy(j)' /\ Busy(k)' /\ task'[j].change = task'[k].change => j = k
      BY <1>2 DEF Inv, WorkInv
    <2> QED  BY <2>1, <2>2 DEF WorkInv, Row
  <1>4. AloneInv'
    <2> SUFFICES ASSUME NEW m \in Changes, NEW a \in Agents, <<m, a>> \in alone'
                 PROVE  /\ a \in change'[m].targets
                        /\ change'[m].status \in {"executing", "completed", "failed"}
                        /\ \A k \in Handlers : Busy(k)' /\ task'[k].change # m =>
                              a \notin change'[task'[k].change].targets
      BY DEF AloneInv, Row
    <2>1. /\ a \in change[m].targets
          /\ change[m].status \in {"executing", "completed", "failed"}
          /\ \A k \in Handlers : Busy(k) /\ task[k].change # m =>
                a \notin change[task[k].change].targets
      BY DEF Frame, Inv, AloneInv, Row
    <2>2. \A j \in Changes : change'[j].targets = change[j].targets  BY DEF Frame
    <2>3. \A k \in Handlers : Busy(k) => task[k].change \in Changes  BY DEF Inv, WorkInv
    <2>4. change'[m].status \in {"executing", "completed", "failed"}
      BY <2>1 DEF Frame
    <2> QED  BY <1>2, <2>1, <2>2, <2>3, <2>4
  <1>5. \A m \in Changes : m # n =>
           \A a \in Own(m) : a \in Agents /\ a \notin Row(h).targets
    <2>1. \A m \in Changes : \A a \in Own(m) : a \in Agents
      BY DEF Own, Inv, RecordsOK
    <2> QED  BY <1>0, <2>1 DEF Own, Inv, AloneInv
  <1>6. \A m \in Changes : m \in unsaved => m \in unsaved'  BY DEF Frame
  <1>7. \A m \in Changes : m # n =>
           \A a \in Own(m) :
               /\ place'[a] = place[a] /\ (saved'[a] = saved[a] \/ saved'[a] = place[a])
               /\ Kept(m, a) => Kept(m, a)'
               /\ Returned(m, a) => Returned(m, a)'
    BY <1>5 DEF Frame, Kept, Returned, InFlight
  <1>8. \A k \in Handlers : Busy(k)' => TaskGood(k)'
    <2> SUFFICES ASSUME NEW k \in Handlers, Busy(k)', k # h  PROVE TaskGood(k)'  OBVIOUS
    <2>1. Busy(k) /\ task'[k] = task[k] /\ task[k].change # n  BY <1>2 DEF Frame
    <2>2. task[k].change \in Changes /\ TaskGood(k)  BY <2>1 DEF Inv, WorkInv
    <2>3. PICK m \in Changes : m = task[k].change  BY <2>2
    <2>4. /\ change'[m] = change[m] /\ origin' = origin /\ Own(m)' = Own(m)
          /\ m \in unsaved => m \in unsaved'
      BY <1>6, <2>1, <2>3 DEF Frame, Own
    <2> QED  BY <1>7, <2>1, <2>2, <2>3, <2>4, TaskKept
  <1>9. \A m \in Changes : RowGood(m)'
    <2> SUFFICES ASSUME NEW m \in Changes, m # n  PROVE RowGood(m)'  OBVIOUS
    <2>1. change'[m] = change[m] /\ origin' = origin /\ Own(m)' = Own(m)  BY DEF Frame, Own
    <2>2. RowGood(m)  BY DEF Inv
    <2> QED  BY <1>6, <1>7, <2>1, <2>2, RowKept
  <1> QED  BY <1>1, <1>3, <1>4, <1>8, <1>9 DEF Inv

(* A step that leaves the rows alone has only its own task to keep true.     *)
LEMMA BeIs ==
    ASSUME RecordsOK, NEW h \in Handlers, NEW u \in Task, Be(h, u)
    PROVE  /\ task' \in [Handlers -> Task] /\ task'[h] = u
           /\ \A k \in Handlers : k # h => task'[k] = task[k]
  BY DEF RecordsOK, Be

LEMMA WorkKeeps ==
    ASSUME Inv, NEW h \in Handlers, Busy(h), NEW n, n = task[h].change,
           task[h].at # "conclude", change' = change,
           Frame(h), RecordsOK', task'[h].change = n, TaskGood(h)'
    PROVE  Inv'
  <1>1. /\ n \in Changes /\ change[n].status = "executing"
        /\ \A a \in Agents : change[n].results[a] = ""
    BY DEF Inv, WorkInv, Row, TaskGood, ShapeGood
  <1>2. RowGood(n)'
    <2>1. Own(n)' \subseteq Agents  BY <1>1 DEF Own, RecordsOK
    <2> QED  BY <1>1, <2>1 DEF RowGood
  <1> QED  BY <1>1, <1>2, HandlerKeeps

---------------------------------------------------------------------------
(* The handler goes forward.                                                 *)

(* Where nothing but the task changes, it is as good as it would have been.  *)
LEMMA TaskMade ==
    ASSUME NEW h, NEW n, NEW u, task'[h] = u, u.change = n,
           ShapeGood(u, change[n]),
           \A a \in Own(n) : PlaceGood(u, n, a) /\ ConfigGood(u, n, a),
           UNCHANGED <<place, saved, wanted, answer, prior, change, origin, alone, unsaved>>
    PROVE  TaskGood(h)'
  <1>1. Own(n)' = Own(n)  BY DEF Own
  <1>2. ShapeGood(u, change[n])'  BY DEF ShapeGood
  <1>3. \A a \in Own(n) : PlaceGood(u, n, a)'
    <2> SUFFICES ASSUME NEW a \in Own(n)  PROVE PlaceGood(u, n, a)'  OBVIOUS
    <2>1. PlaceGood(u, n, a)  OBVIOUS
    <2> QED  BY <2>1 DEF PlaceGood, Moved, Gone, Back
  <1>4. \A a \in Own(n) : ConfigGood(u, n, a)'
    <2> SUFFICES ASSUME NEW a \in Own(n)  PROVE ConfigGood(u, n, a)'  OBVIOUS
    <2>1. ConfigGood(u, n, a)  OBVIOUS
    <2> QED  BY <2>1 DEF ConfigGood, Kept, Returned, InFlight
  <1> QED  BY <1>1, <1>2, <1>3, <1>4 DEF TaskGood

LEMMA CheckKeeps ==
    ASSUME Inv, NEW h \in Handlers, Check(h)
    PROVE  Inv'
  <1>1. Busy(h) /\ At(h, "check")  BY DEF Check, At, Busy
  <1>2. PICK n \in Changes, t \in Task : n = task[h].change /\ t = task[h]
    BY <1>1, AtWork DEF Inv
  <1>3. /\ Row(h) = change[n] /\ change[n] \in Change /\ change[n].targets \subseteq Agents
        /\ change[n].status = "executing" /\ origin[n] \in [Agents -> Origin]
    BY <1>1, <1>2, AtWork DEF Inv, Row
  <1>4. ShapeGood(t, change[n])  BY <1>1, <1>2 DEF Inv, TaskGood
  <1>5. PICK a \in Agents : a = t.i /\ a \in change[n].targets
    BY <1>1, <1>2, <1>3, <1>4 DEF ShapeGood, At
  <1>6. Own(n) \subseteq change[n].targets  BY DEF Own
  <1>7. \A b \in Own(n) :
           /\ place[b] = origin[n][b].place /\ saved[b] = origin[n][b].place
           /\ b < a => t.home[b] = origin[n][b].place
    <2> SUFFICES ASSUME NEW b \in Own(n)
                 PROVE  /\ place[b] = origin[n][b].place /\ saved[b] = origin[n][b].place
                        /\ b < a => t.home[b] = origin[n][b].place
      OBVIOUS
    <2>1. PlaceGood(t, n, b) /\ t.at = "check" /\ t.placed = {}
      BY <1>1, <1>2, <1>4 DEF Inv, TaskGood, ShapeGood, At
    <2> QED  BY <1>5, <2>1 DEF PlaceGood, Moved, Forward
  <1>8. \A b \in Own(n) : origin[n][b].settled =>
           Kept(n, b) /\ (b < a => t.previous[b] = origin[n][b].config)
    <2> SUFFICES ASSUME NEW b \in Own(n), origin[n][b].settled
                 PROVE  Kept(n, b) /\ (b < a => t.previous[b] = origin[n][b].config)
      OBVIOUS
    <2>1. ConfigGood(t, n, b) /\ t.at = "check" /\ t.configured = {}
      BY <1>1, <1>2, <1>4 DEF Inv, TaskGood, ShapeGood, At
    <2> QED  BY <1>5, <2>1 DEF ConfigGood, Forward
  <1>9. UNCHANGED <<place, saved, wanted, answer, prior, change, origin, alone, unsaved, faults>>
    BY DEF Check, attempt, history
  <1>10. ASSUME NEW u \in Task, Be(h, u), u.change = n, ShapeGood(u, change[n]),
                \A b \in Own(n) : PlaceGood(u, n, b) /\ ConfigGood(u, n, b)
         PROVE  Inv'
    <2>1. task' \in [Handlers -> Task] /\ task'[h] = u /\ \A k \in Handlers : k # h => task'[k] = task[k]
      BY <1>10, BeIs DEF Inv
    <2>2. RecordsOK'  BY <1>9, <2>1 DEF Inv, RecordsOK
    <2>3. Frame(h)  BY <1>2, <1>9, <2>1 DEF Frame
    <2>4. TaskGood(h)'  BY <1>9, <1>10, <2>1, TaskMade
    <2> QED  BY <1>1, <1>2, <1>9, <1>10, <2>1, <2>2, <2>3, <2>4, WorkKeeps DEF At
  <1>11. CASE place[a] = change[n].source
    <2>1. PICK u0 : u0 = [t EXCEPT !.home = [t.home EXCEPT ![a] = place[a]],
                                   !.previous = [t.previous EXCEPT ![a] = wanted[a]]]
      OBVIOUS
    <2>2. /\ u0 \in Task /\ u0.change = n /\ u0.placed = t.placed /\ u0.configured = t.configured
          /\ u0.results = t.results /\ u0.error = t.error
      BY <1>2, <1>5, <2>1 DEF Task, Inv, RecordsOK
    <2>3. \A b \in Agents :
             /\ u0.home[b] = IF b = a THEN place[a] ELSE t.home[b]
             /\ u0.previous[b] = IF b = a THEN wanted[a] ELSE t.previous[b]
      BY <2>1 DEF Task
    <2>4. PICK S \in SUBSET Agents : S = {b \in change[n].targets : b > a}  BY <1>3
    <2>5. PICK u : /\ u = IF S = {} THEN First(u0, change[n].targets, "deliver", "snapshot")
                                   ELSE First(u0, S, "check", "deliver")
                   /\ Be(h, u)
      BY <1>2, <1>3, <1>5, <1>11, <2>1, <2>4 DEF Check, After
    <2>6. CASE S = {}
      <3>1. /\ Elsewhere(u, u0) /\ u.at = "deliver" /\ u.i \in change[n].targets
            /\ \A b \in change[n].targets : u.i <= b
        BY <1>3, <1>5, <2>2, <2>5, <2>6, FirstIs DEF Steps
      <3>2. ShapeGood(u, change[n])
        <4>1. t.at = "check" /\ t.placed = {}  BY <1>1, <1>2, <1>4 DEF ShapeGood, At
        <4>2. \A b \in change[n].targets : ~(b < u.i)  BY <1>3, <3>1 DEF Agents
        <4>3. {b \in change[n].targets : b < u.i} = {}  BY <4>2
        <4> QED  BY <1>4, <2>2, <3>1, <4>1, <4>3 DEF ShapeGood, Elsewhere, Forward, Backward
      <3>3. \A b \in change[n].targets : b <= a  BY <1>3, <1>5, <2>4, <2>6 DEF Agents
      <3>4. \A b \in Own(n) : PlaceGood(u, n, b) /\ ConfigGood(u, n, b)
        <4> SUFFICES ASSUME NEW b \in Own(n)  PROVE PlaceGood(u, n, b) /\ ConfigGood(u, n, b)
          OBVIOUS
        <4>1. b \in Agents /\ (b = a \/ b < a)  BY <1>3, <1>5, <1>6, <3>3 DEF Agents
        <4>2. u.home[b] = origin[n][b].place
          BY <1>7, <2>2, <2>3, <3>1, <4>1 DEF Elsewhere
        <4>3. b \notin u.placed  BY <1>1, <1>2, <1>4, <2>2, <3>1 DEF Elsewhere, ShapeGood, At
        <4>4. PlaceGood(u, n, b)  BY <1>7, <3>1, <4>2, <4>3 DEF PlaceGood, Moved
        <4>5. origin[n][b].settled => u.previous[b] = origin[n][b].config
          BY <1>8, <2>3, <3>1, <4>1 DEF Elsewhere, Kept
        <4>6. ConfigGood(u, n, b)  BY <1>8, <3>1, <4>5 DEF ConfigGood, Backward
        <4> QED  BY <4>4, <4>6
      <3> QED  BY <1>10, <2>2, <2>5, <3>1, <3>2, <3>4 DEF Elsewhere
    <2>7. CASE S # {}
      <3>1. /\ Elsewhere(u, u0) /\ u.at = "check" /\ u.i \in S /\ \A b \in S : u.i <= b
        BY <2>2, <2>5, <2>7, FirstIs DEF Steps
      <3>2. ShapeGood(u, change[n])
        BY <1>1, <1>2, <1>3, <1>4, <2>2, <2>4, <3>1 DEF ShapeGood, Elsewhere, At, Forward, Backward
      <3>3. \A b \in change[n].targets : b < u.i => b = a \/ b < a
        BY <1>3, <1>5, <2>4, <3>1 DEF Agents
      <3>4. \A b \in Own(n) : PlaceGood(u, n, b) /\ ConfigGood(u, n, b)
        <4> SUFFICES ASSUME NEW b \in Own(n)  PROVE PlaceGood(u, n, b) /\ ConfigGood(u, n, b)
          OBVIOUS
        <4>1. b \in Agents /\ (b < u.i => b = a \/ b < a)  BY <1>3, <1>6, <3>3
        <4>2. b < u.i => u.home[b] = origin[n][b].place
          BY <1>7, <2>2, <2>3, <3>1, <4>1 DEF Elsewhere
        <4>3. b \notin u.placed  BY <1>1, <1>2, <1>4, <2>2, <3>1 DEF Elsewhere, ShapeGood, At
        <4>4. PlaceGood(u, n, b)  BY <1>7, <3>1, <4>2, <4>3 DEF PlaceGood, Moved
        <4>5. origin[n][b].settled /\ b < u.i => u.previous[b] = origin[n][b].config
          BY <1>8, <2>3, <3>1, <4>1 DEF Elsewhere, Kept
        <4>6. ConfigGood(u, n, b)  BY <1>8, <3>1, <4>5 DEF ConfigGood, Backward
        <4> QED  BY <4>4, <4>6
      <3> QED  BY <1>10, <2>2, <2>5, <3>1, <3>2, <3>4 DEF Elsewhere
    <2> QED  BY <2>6, <2>7
  <1>12. CASE place[a] # change[n].source
    <2>1. PICK u : u = [Fails(t, a) EXCEPT !.at = "evidence"] /\ Be(h, u)
      BY <1>2, <1>3, <1>5, <1>12 DEF Check
    <2>2. /\ u \in Task /\ u.change = n /\ u.at = "evidence" /\ u.error
          /\ \A b \in Agents : u.results[b] = IF b = a THEN "failed" ELSE t.results[b]
      BY <1>2, <1>5, <2>1 DEF Fails, Mark, Task, Steps, Results
    <2>3. ShapeGood(u, change[n])
      BY <1>1, <1>2, <1>4, <2>2 DEF ShapeGood, At, Forward, Backward
    <2>4. \A b \in Own(n) : u.results[b] # "restored"
      BY <1>1, <1>2, <1>3, <1>4, <1>6, <2>2 DEF ShapeGood, At, Forward
    <2>5. \A b \in Own(n) : PlaceGood(u, n, b) /\ ConfigGood(u, n, b)
      BY <1>7, <2>2, <2>4 DEF PlaceGood, ConfigGood, Back, Forward
    <2> QED  BY <1>10, <2>1, <2>2, <2>3, <2>5
  <1> QED  BY <1>11, <1>12

(* What a step makes of the task is good for the collectors of the change,   *)
(* where neither the records nor the rows move.                              *)
LEMMA TaskMoved ==
    ASSUME NEW h, NEW n, NEW u, task'[h] = u, u.change = n,
           ShapeGood(u, change[n]),
           \A a \in Own(n) : PlaceGood(u, n, a) /\ ConfigGood(u, n, a)',
           UNCHANGED <<place, saved, change, origin, alone, unsaved>>
    PROVE  TaskGood(h)'
  <1>1. Own(n)' = Own(n)  BY DEF Own
  <1>2. ShapeGood(u, change[n])'  BY DEF ShapeGood
  <1>3. \A a \in Own(n) : PlaceGood(u, n, a)'
    <2> SUFFICES ASSUME NEW a \in Own(n)  PROVE PlaceGood(u, n, a)'  OBVIOUS
    <2>1. PlaceGood(u, n, a)  OBVIOUS
    <2> QED  BY <2>1 DEF PlaceGood, Moved, Gone, Back
  <1>4. \A a \in Own(n) : ConfigGood(u, n, a)'  OBVIOUS
  <1> QED  BY <1>1, <1>2, <1>3, <1>4 DEF TaskGood

LEMMA FailsIs ==
    ASSUME NEW t \in Task, NEW a \in Agents, NEW u, u = Fails(t, a)
    PROVE  /\ u \in Task /\ u.error /\ u.change = t.change /\ u.home = t.home
           /\ u.previous = t.previous /\ u.placed = t.placed /\ u.configured = t.configured
           /\ \A b \in Agents : u.results[b] = IF b = a THEN "failed" ELSE t.results[b]
  BY DEF Fails, Mark, Task, Results

LEMMA DeliverKeeps ==
    ASSUME Inv, NEW h \in Handlers, Deliver(h)
    PROVE  Inv'
  <1>1. Busy(h) /\ At(h, "deliver")  BY DEF Deliver, At, Busy
  <1>2. PICK n \in Changes, t \in Task : n = task[h].change /\ t = task[h]
    BY <1>1, AtWork DEF Inv
  <1>3. /\ Row(h) = change[n] /\ change[n] \in Change /\ change[n].targets \subseteq Agents
        /\ change[n].status = "executing" /\ origin[n] \in [Agents -> Origin]
    BY <1>1, <1>2, AtWork DEF Inv, Row
  <1>4. ShapeGood(t, change[n])  BY <1>1, <1>2 DEF Inv, TaskGood
  <1>5. PICK a \in Agents : a = t.i /\ a \in change[n].targets
    BY <1>1, <1>2, <1>3, <1>4 DEF ShapeGood, At
  <1>6. Own(n) \subseteq change[n].targets  BY DEF Own
  <1>7. PICK B \in SUBSET Agents : B = {b \in change[n].targets : b < a}  BY <1>3
  <1>8. /\ t.placed = B /\ ~t.error /\ \A b \in Agents : t.results[b] # "restored"
        /\ \A b \in Agents : change[n].results[b] = ""
    BY <1>1, <1>2, <1>4, <1>5, <1>7 DEF ShapeGood, At, Forward
  <1>9. \A b \in Own(n) :
           /\ place[b] = IF b \in B THEN change[n].target ELSE origin[n][b].place
           /\ saved[b] = origin[n][b].place \/ (b \in B /\ saved[b] = change[n].target)
           /\ t.home[b] = origin[n][b].place
           /\ origin[n][b].settled =>
                 t.previous[b] = origin[n][b].config /\ (b \notin t.configured => Kept(n, b))
    <2> SUFFICES ASSUME NEW b \in Own(n)
                 PROVE  /\ place[b] = IF b \in B THEN change[n].target ELSE origin[n][b].place
                        /\ saved[b] = origin[n][b].place \/ (b \in B /\ saved[b] = change[n].target)
                        /\ t.home[b] = origin[n][b].place
                        /\ origin[n][b].settled =>
                              t.previous[b] = origin[n][b].config /\ (b \notin t.configured => Kept(n, b))
      OBVIOUS
    <2>1. PlaceGood(t, n, b) /\ ConfigGood(t, n, b) /\ t.at = "deliver"
      BY <1>1, <1>2 DEF Inv, TaskGood, At
    <2> QED  BY <1>8, <2>1 DEF PlaceGood, ConfigGood, Moved, Forward
  <1>10. UNCHANGED <<place, saved, change, origin, alone, unsaved>>
    BY DEF Deliver, history
  <1>11. ASSUME NEW u \in Task, Be(h, u), u.change = n, AttemptsTyped', faults' \in Nat,
                \A b \in Agents : b # a =>
                    wanted'[b] = wanted[b] /\ answer'[b] = answer[b] /\ prior'[b] = prior[b],
                ShapeGood(u, change[n]),
                \A b \in Own(n) : PlaceGood(u, n, b) /\ ConfigGood(u, n, b)'
         PROVE  Inv'
    <2>1. task' \in [Handlers -> Task] /\ task'[h] = u /\ \A k \in Handlers : k # h => task'[k] = task[k]
      BY <1>11, BeIs DEF Inv
    <2>2. RecordsOK'  BY <1>10, <1>11, <2>1 DEF Inv, RecordsOK, AttemptsTyped
    <2>3. Frame(h)  BY <1>2, <1>3, <1>5, <1>10, <1>11, <2>1 DEF Frame
    <2>4. TaskGood(h)'  BY <1>10, <1>11, <2>1, TaskMoved
    <2> QED  BY <1>1, <1>2, <1>10, <1>11, <2>1, <2>2, <2>3, <2>4, WorkKeeps DEF At
  <1>12. ASSUME NEW u \in Task, Be(h, u), u.change = n, AttemptsTyped', faults' \in Nat,
                \A b \in Agents : b # a =>
                    wanted'[b] = wanted[b] /\ answer'[b] = answer[b] /\ prior'[b] = prior[b],
                u.at = "place", u.i = a, u.placed = t.placed, u.home = t.home,
                u.previous = t.previous, u.results = t.results, u.error = t.error,
                \A b \in Own(n) : b \notin u.configured =>
                    b \notin t.configured /\ wanted'[b] = wanted[b] /\ answer'[b] = answer[b]
         PROVE  Inv'
    <2>1. ShapeGood(u, change[n])
      BY <1>5, <1>7, <1>8, <1>12 DEF ShapeGood, Forward, Backward
    <2>2. ASSUME NEW b \in Own(n)  PROVE PlaceGood(u, n, b)
      <3>1. u.placed = B /\ u.home = t.home /\ (Moved(u, b) <=> b \in B)
        BY <1>8, <1>12 DEF Moved
      <3> QED  BY <1>9, <1>12, <3>1 DEF PlaceGood
    <2>3. \A b \in Own(n) : ConfigGood(u, n, b)'
      BY <1>9, <1>10, <1>12 DEF ConfigGood, Kept, InFlight, Backward
    <2> QED  BY <1>11, <1>12, <2>1, <2>2, <2>3
  <1>13. ASSUME Be(h, Undo(Fails(t, a), B)), AttemptsTyped', faults' \in Nat,
                \A b \in Agents : b # a =>
                    wanted'[b] = wanted[b] /\ answer'[b] = answer[b] /\ prior'[b] = prior[b]
         PROVE  Inv'
    <2>1. PICK u0 \in Task : u0 = Fails(t, a)  BY FailsIs
    <2>2. /\ u0.error /\ u0.change = n /\ u0.home = t.home /\ u0.previous = t.previous
          /\ u0.placed = B /\ u0.configured = t.configured
          /\ \A b \in Agents : u0.results[b] # "restored"
      <3>1. /\ u0.error /\ u0.change = t.change /\ u0.home = t.home /\ u0.previous = t.previous
            /\ u0.placed = t.placed /\ u0.configured = t.configured
            /\ \A b \in Agents : u0.results[b] = IF b = a THEN "failed" ELSE t.results[b]
        BY <2>1, FailsIs
      <3> QED  BY <1>2, <1>8, <3>1
    <2>3. PICK u : u = Undo(u0, B)  OBVIOUS
    <2>4. /\ Elsewhere(u, u0) /\ (B = {} => u.at = "resnapshot")
          /\ B # {} => u.at = "undo" /\ u.i \in B /\ \A b \in B : b <= u.i
      BY <2>1, <2>3, UndoIs
    <2>5. /\ u \in Task /\ u.error /\ u.change = n /\ u.home = t.home
          /\ u.previous = t.previous /\ u.placed = B /\ u.configured = t.configured
          /\ \A b \in Agents : u.results[b] # "restored"
      BY <2>2, <2>4 DEF Elsewhere
    <2>6. u.at \in {"undo", "resnapshot"} /\ (u.at = "resnapshot" => B = {})
      BY <2>4
    <2>7. \A b \in change[n].targets : u.at = "undo" => (b \in B <=> b <= u.i)
      BY <1>3, <1>5, <1>7, <2>4, <2>6 DEF Agents
    <2>8. ShapeGood(u, change[n])
      BY <1>3, <1>7, <1>8, <2>4, <2>5, <2>6, <2>7 DEF ShapeGood, Forward, Backward
    <2>9. \A b \in Own(n) : u.at = "undo" => (b \in B => b <= u.i /\ ~(b > u.i))
      <3> SUFFICES ASSUME NEW b \in Own(n), u.at = "undo", b \in B
                   PROVE  b <= u.i /\ ~(b > u.i)
        OBVIOUS
      <3>1. b \in change[n].targets /\ b \in Agents  BY <1>3, <1>6
      <3>2. u.i \in Agents  BY <2>4
      <3> QED  BY <2>7, <3>1, <3>2 DEF Agents
    <2>10. ASSUME NEW b \in Own(n)  PROVE PlaceGood(u, n, b)
      <3>1. u.at = "undo" => (Moved(u, b) <=> b \in B)  BY <2>5, <2>9 DEF Moved
      <3>2. u.at = "resnapshot" => b \notin B  BY <2>6
      <3> QED  BY <1>9, <2>5, <2>6, <3>1, <3>2 DEF PlaceGood, Forward
    <2>11. \A b \in Own(n) : u.at = "undo" /\ b <= u.i => b # a
      BY <1>6, <1>7, <1>3, <2>7 DEF Agents
    <2>12. \A b \in Own(n) : ConfigGood(u, n, b)'
      BY <1>3, <1>6, <1>9, <1>10, <1>13, <2>5, <2>6, <2>11 DEF ConfigGood, Kept, InFlight, Forward
    <2> QED  BY <1>11, <1>13, <2>1, <2>3, <2>5, <2>8, <2>10, <2>12
  <1>14. PICK c \in Version : c = Chosen(h)
    BY <1>2, <1>3, <1>5 DEF Chosen, Change, Version
  <1>15. Before(h) = B  BY <1>2, <1>3, <1>5, <1>7 DEF Before
  <1>16. CASE c = None \/ IsCurrent(a, c)
    <2>1. PICK u : u = [t EXCEPT !.at = "place"] /\ Be(h, u) /\ Quiet
      BY <1>2, <1>5, <1>14, <1>16 DEF Deliver
    <2>2. Elsewhere(u, t) /\ u.at = "place" /\ u.i = a
      BY <1>5, <2>1, StepsOn DEF Steps
    <2> QED  BY <1>2, <1>12, <2>1, <2>2, QuietIs DEF Elsewhere, Inv
  <1>17. CASE ~(c = None \/ IsCurrent(a, c)) /\ InFlight(a)
    <2>1. Be(h, Undo(Fails(t, a), B)) /\ Quiet
      BY <1>2, <1>5, <1>14, <1>15, <1>17 DEF Deliver
    <2> QED  BY <1>13, <2>1, QuietIs DEF Inv
  <1>18. CASE ~(c = None \/ IsCurrent(a, c)) /\ ~InFlight(a)
    <2>1. PICK back \in Version : Send(a, c, back)
      BY <1>2, <1>5, <1>14, <1>18 DEF Deliver, Task, Version
    <2>2. /\ AttemptsTyped' /\ faults' \in Nat
          /\ \A b \in Agents : b # a =>
                wanted'[b] = wanted[b] /\ answer'[b] = answer[b] /\ prior'[b] = prior[b]
      BY <1>14, <1>18, <2>1, SendIs DEF Inv, Version
    <2>3. CASE answer'[a] = "sent"
      <3>1. PICK u : /\ u = [t EXCEPT !.at = "place", !.configured = t.configured \cup {a}]
                     /\ Be(h, u)
        BY <1>2, <1>5, <1>14, <1>18, <2>3 DEF Deliver
      <3>2. /\ u \in Task /\ u.change = n /\ u.at = "place" /\ u.i = a /\ u.placed = t.placed
            /\ u.home = t.home /\ u.previous = t.previous /\ u.results = t.results
            /\ u.error = t.error /\ u.configured = t.configured \cup {a}
        BY <1>2, <1>5, <3>1 DEF Task, Steps
      <3>3. \A b \in Own(n) : b \notin u.configured =>
               b \notin t.configured /\ wanted'[b] = wanted[b] /\ answer'[b] = answer[b]
        BY <1>3, <1>6, <2>2, <3>2
      <3> QED  BY <1>12, <2>2, <3>1, <3>2, <3>3
    <2>4. CASE answer'[a] # "sent"
      <3>1. Be(h, Undo(Fails(t, a), B))
        BY <1>2, <1>5, <1>14, <1>15, <1>18, <2>4 DEF Deliver
      <3> QED  BY <1>13, <2>2, <3>1
    <2> QED  BY <2>3, <2>4
  <1> QED  BY <1>16, <1>17, <1>18

LEMMA TaskHolds ==
    ASSUME NEW h, NEW n, NEW u, task'[h] = u, u.change = n,
           UNCHANGED <<change, origin, alone>>, ShapeGood(u, change[n]),
           \A a \in Own(n) : PlaceGood(u, n, a)' /\ ConfigGood(u, n, a)'
    PROVE  TaskGood(h)'
  <1>1. Own(n)' = Own(n)  BY DEF Own
  <1>2. ShapeGood(u, change[n])'  BY DEF ShapeGood
  <1> QED  BY <1>1, <1>2 DEF TaskGood

LEMMA PlaceAgentKeeps ==
    ASSUME Inv, NEW h \in Handlers, PlaceAgent(h)
    PROVE  Inv'
  <1>1. Busy(h) /\ At(h, "place")  BY DEF PlaceAgent, At, Busy
  <1>2. PICK n \in Changes, t \in Task : n = task[h].change /\ t = task[h]
    BY <1>1, AtWork DEF Inv
  <1>3. /\ Row(h) = change[n] /\ change[n] \in Change /\ change[n].targets \subseteq Agents
        /\ change[n].status = "executing" /\ origin[n] \in [Agents -> Origin]
    BY <1>1, <1>2, AtWork DEF Inv, Row
  <1>4. ShapeGood(t, change[n])  BY <1>1, <1>2 DEF Inv, TaskGood
  <1>5. PICK a \in Agents : a = t.i /\ a \in change[n].targets
    BY <1>1, <1>2, <1>3, <1>4 DEF ShapeGood, At
  <1>6. Own(n) \subseteq change[n].targets  BY DEF Own
  <1>7. PICK B \in SUBSET Agents : B = {b \in change[n].targets : b < a}  BY <1>3
  <1>8. PICK A \in SUBSET Agents : A = {b \in change[n].targets : b > a}  BY <1>3
  <1>9. /\ t.placed = B /\ ~t.error /\ \A b \in Agents : t.results[b] # "restored"
        /\ \A b \in Agents : change[n].results[b] = ""
    BY <1>1, <1>2, <1>4, <1>5, <1>7 DEF ShapeGood, At, Forward
  <1>10. PICK u0 : u0 = [Mark(t, a, "completed") EXCEPT !.placed = t.placed \cup {a}]
    OBVIOUS
  <1>11. /\ u0 \in Task /\ u0.change = n /\ u0.home = t.home /\ u0.previous = t.previous
         /\ u0.configured = t.configured /\ u0.error = t.error /\ u0.placed = t.placed \cup {a}
         /\ \A b \in Agents : u0.results[b] = IF b = a THEN "completed" ELSE t.results[b]
    BY <1>2, <1>5, <1>10 DEF Mark, Task, Results
  <1>12. PICK u : /\ u = First(u0, A, "deliver", "snapshot") /\ Be(h, u)
                  /\ place' = [place EXCEPT ![a] = change[n].target]
    <2>1. Mark(t, a, "completed").placed = t.placed  BY <1>2, <1>5 DEF Mark, Task
    <2>2. After(h) = A  BY <1>2, <1>3, <1>5, <1>8 DEF After
    <2>3. u0 = [Mark(task[h], task[h].i, "completed") EXCEPT !.placed = @ \cup {task[h].i}]
      BY <1>2, <1>5, <1>10, <2>1
    <2> QED  BY <1>2, <1>3, <1>5, <2>2, <2>3 DEF PlaceAgent
  <1>13. /\ Elsewhere(u, u0) /\ (A = {} => u.at = "snapshot")
         /\ A # {} => u.at = "deliver" /\ u.i \in A /\ \A b \in A : u.i <= b
    BY <1>11, <1>12, FirstIs DEF Steps
  <1>14. /\ u \in Task /\ u.change = n /\ u.home = t.home /\ u.previous = t.previous
         /\ u.configured = t.configured /\ u.error = t.error /\ u.placed = B \cup {a}
         /\ \A b \in Agents : u.results[b] # "restored"
    <2>1. u.results = u0.results  BY <1>13 DEF Elsewhere
    <2>2. ASSUME NEW b \in Agents  PROVE u.results[b] # "restored"
      <3>1. u.results[b] = IF b = a THEN "completed" ELSE t.results[b]  BY <1>11, <2>1
      <3>2. t.results[b] # "restored"  BY <1>9
      <3> QED  BY <3>1, <3>2
    <2>3. u.error = t.error /\ u.placed = B \cup {a}  BY <1>9, <1>11, <1>13 DEF Elsewhere
    <2> QED  BY <1>11, <1>13, <2>2, <2>3 DEF Elsewhere
  <1>15. UNCHANGED <<saved, wanted, answer, prior, change, origin, alone, unsaved, faults>>
    BY DEF PlaceAgent, attempt, history
  <1>16. ShapeGood(u, change[n])
    <2>1. A = {} => change[n].targets = B \cup {a}
      BY <1>3, <1>5, <1>7, <1>8 DEF Agents
    <2>2. A # {} => \A b \in change[n].targets : b < u.i <=> b \in B \cup {a}
      BY <1>3, <1>5, <1>7, <1>8, <1>13 DEF Agents
    <2>3. A # {} => B \cup {a} = {b \in change[n].targets : b < u.i}
      BY <1>5, <1>7, <2>2
    <2>4. u.at \in {"deliver", "snapshot"} /\ (u.at = "deliver" => A # {} /\ u.i \in change[n].targets)
      BY <1>8, <1>13
    <2>5. ~u.error  BY <1>9, <1>14
    <2> QED  BY <1>9, <1>13, <1>14, <2>1, <2>3, <2>4, <2>5 DEF ShapeGood, Forward, Backward
  <1>17. ASSUME NEW b \in Own(n)  PROVE PlaceGood(u, n, b)' /\ ConfigGood(u, n, b)'
    <2>1. PlaceGood(t, n, b) /\ ConfigGood(t, n, b) /\ t.at = "place" /\ b \in Agents
      BY <1>1, <1>2, <1>3, <1>6 DEF Inv, TaskGood, At
    <2>2. /\ place[b] = IF b \in B THEN change[n].target ELSE origin[n][b].place
          /\ saved[b] = origin[n][b].place \/ (b \in B /\ saved[b] = change[n].target)
          /\ t.home[b] = origin[n][b].place
      BY <1>9, <2>1 DEF PlaceGood, Moved, Forward
    <2>3. place'[b] = IF b \in B \cup {a} THEN change[n].target ELSE origin[n][b].place
      BY <1>12, <2>1, <2>2 DEF Inv, RecordsOK
    <2>4. u.at \in {"deliver", "snapshot"} /\ (Moved(u, b) <=> b \in B \cup {a})
      BY <1>13, <1>14 DEF Moved
    <2>5. PlaceGood(u, n, b)'
      BY <1>14, <1>15, <2>2, <2>3, <2>4 DEF PlaceGood, Moved
    <2>6. origin[n][b].settled =>
             t.previous[b] = origin[n][b].config /\ (b \notin t.configured => Kept(n, b))
      BY <2>1 DEF ConfigGood, Forward
    <2>7. ConfigGood(u, n, b)'
      BY <1>14, <1>15, <2>1, <2>4, <2>6 DEF ConfigGood, Kept, InFlight, Backward
    <2> QED  BY <2>5, <2>7
  <1>18. task' \in [Handlers -> Task] /\ task'[h] = u /\ \A k \in Handlers : k # h => task'[k] = task[k]
    BY <1>12, <1>14, BeIs DEF Inv
  <1>19. RecordsOK'
    <2>1. place' \in [Agents -> Place]  BY <1>3, <1>12 DEF Inv, RecordsOK, Change
    <2> QED  BY <1>15, <1>18, <2>1 DEF Inv, RecordsOK
  <1>20. Frame(h)  BY <1>2, <1>3, <1>5, <1>12, <1>15, <1>18 DEF Frame, Inv, RecordsOK
  <1>21. TaskGood(h)'  BY <1>14, <1>15, <1>16, <1>17, <1>18, TaskHolds
  <1> QED  BY <1>1, <1>2, <1>14, <1>15, <1>18, <1>19, <1>20, <1>21, WorkKeeps DEF At

LEMMA SnapshotKeeps ==
    ASSUME Inv, NEW h \in Handlers, Snapshot(h)
    PROVE  Inv'
  <1>1. Busy(h) /\ At(h, "snapshot")  BY DEF Snapshot, At, Busy
  <1>2. PICK n \in Changes, t \in Task : n = task[h].change /\ t = task[h]
    BY <1>1, AtWork DEF Inv
  <1>3. /\ Row(h) = change[n] /\ change[n] \in Change /\ change[n].targets \subseteq Agents
        /\ change[n].status = "executing" /\ change[n].targets # {}
    BY <1>1, <1>2, AtWork DEF Inv, Row, RowsInv
  <1>4. ShapeGood(t, change[n])  BY <1>1, <1>2 DEF Inv, TaskGood
  <1>5. /\ t.placed = change[n].targets /\ ~t.error /\ \A b \in Agents : t.results[b] # "restored"
        /\ \A b \in Agents : change[n].results[b] = ""
    BY <1>1, <1>2, <1>4 DEF ShapeGood, At, Forward
  <1>6. ASSUME NEW b \in Own(n)
        PROVE  /\ b \in change[n].targets /\ b \in Agents
               /\ place[b] = change[n].target
               /\ saved[b] = origin[n][b].place \/ saved[b] = change[n].target
               /\ t.home[b] = origin[n][b].place
               /\ origin[n][b].settled =>
                     t.previous[b] = origin[n][b].config /\ (b \notin t.configured => Kept(n, b))
    <2>1. b \in change[n].targets /\ b \in Agents  BY <1>3 DEF Own
    <2>2. PlaceGood(t, n, b) /\ ConfigGood(t, n, b) /\ t.at = "snapshot"
      BY <1>1, <1>2 DEF Inv, TaskGood, At
    <2> QED  BY <1>5, <2>1, <2>2 DEF PlaceGood, ConfigGood, Moved, Forward
  <1>7. UNCHANGED <<place, wanted, answer, prior, change, origin, alone, unsaved>>
    BY DEF Snapshot, attempt, history
  <1>8. ASSUME NEW u \in Task, Be(h, u), u.change = n, ShapeGood(u, change[n]),
               saved' = saved \/ saved' = place, faults' \in Nat,
               \A b \in Own(n) : PlaceGood(u, n, b)' /\ ConfigGood(u, n, b)'
        PROVE  Inv'
    <2>1. task' \in [Handlers -> Task] /\ task'[h] = u /\ \A k \in Handlers : k # h => task'[k] = task[k]
      BY <1>8, BeIs DEF Inv
    <2>2. RecordsOK'  BY <1>7, <1>8, <2>1 DEF Inv, RecordsOK
    <2>3. Frame(h)  BY <1>2, <1>7, <1>8, <2>1 DEF Frame
    <2>4. TaskGood(h)'  BY <1>7, <1>8, <2>1, TaskHolds
    <2> QED  BY <1>1, <1>2, <1>7, <1>8, <2>1, <2>2, <2>3, <2>4, WorkKeeps DEF At
  <1>9. CASE saved' = place /\ faults' = faults /\ Be(h, [t EXCEPT !.at = "evidence"])
    <2>1. PICK u : u = [t EXCEPT !.at = "evidence"] /\ Be(h, u)  BY <1>9
    <2>2. /\ u \in Task /\ u.change = n /\ u.at = "evidence" /\ u.error = t.error
          /\ u.results = t.results
      BY <1>2, <2>1, StepsOn DEF Steps, Elsewhere
    <2>3. ~u.error  BY <1>5, <2>2
    <2>4. ShapeGood(u, change[n])  BY <1>5, <2>2, <2>3 DEF ShapeGood, Forward, Backward
    <2>5. ASSUME NEW b \in Own(n)  PROVE PlaceGood(u, n, b)' /\ ConfigGood(u, n, b)'
      <3>1. Gone(n, b)'  BY <1>6, <1>7, <1>9 DEF Gone
      <3>2. PlaceGood(u, n, b)'  BY <2>2, <2>3, <3>1 DEF PlaceGood, Forward
      <3>3. u.results[b] # "restored"  BY <1>5, <1>6, <2>2
      <3>4. ConfigGood(u, n, b)'  BY <2>2, <3>3 DEF ConfigGood, Forward
      <3> QED  BY <3>2, <3>4
    <2> QED  BY <1>8, <1>9, <2>1, <2>2, <2>4, <2>5 DEF Inv, RecordsOK
  <1>10. CASE Fault /\ saved' = saved /\ Be(h, Undo([t EXCEPT !.error = TRUE], change[n].targets))
    <2>1. PICK u0 : u0 = [t EXCEPT !.error = TRUE]  OBVIOUS
    <2>2. /\ u0 \in Task /\ u0.error /\ u0.change = n /\ u0.home = t.home
          /\ u0.previous = t.previous /\ u0.placed = t.placed
          /\ u0.configured = t.configured /\ u0.results = t.results
      BY <1>2, <2>1 DEF Task
    <2>3. PICK u : u = Undo(u0, change[n].targets) /\ Be(h, u)  BY <1>10, <2>1
    <2>4. /\ Elsewhere(u, u0) /\ u.at = "undo" /\ u.i \in change[n].targets
          /\ \A b \in change[n].targets : b <= u.i
      BY <1>3, <2>2, <2>3, UndoIs
    <2>5. /\ u \in Task /\ u.error /\ u.change = n /\ u.home = t.home
          /\ u.previous = t.previous /\ u.placed = t.placed
          /\ u.configured = t.configured /\ u.results = t.results
      BY <2>2, <2>4 DEF Elsewhere
    <2>6. ShapeGood(u, change[n])  BY <1>5, <2>4, <2>5 DEF ShapeGood, Forward, Backward
    <2>7. ASSUME NEW b \in Own(n)  PROVE PlaceGood(u, n, b)' /\ ConfigGood(u, n, b)'
      <3>1. b <= u.i /\ ~(b > u.i)  BY <1>3, <1>6, <2>4 DEF Agents
      <3>2. Moved(u, b)  BY <1>5, <1>6, <2>5, <3>1 DEF Moved
      <3>3. PlaceGood(u, n, b)'
        BY <1>5, <1>6, <1>7, <1>10, <2>4, <2>5, <3>2 DEF PlaceGood, Moved
      <3>4. u.results[b] # "restored"
        <4>1. b \in Agents /\ u.results = t.results  BY <1>6, <2>5
        <4> QED  BY <1>5, <4>1
      <3>5. Kept(n, b) => Kept(n, b)'  BY <1>7 DEF Kept, InFlight
      <3>6. ConfigGood(u, n, b)'
        BY <1>6, <1>7, <2>4, <2>5, <3>4, <3>5 DEF ConfigGood, Forward
      <3> QED  BY <3>3, <3>6
    <2> QED  BY <1>8, <1>10, <2>3, <2>5, <2>6, <2>7 DEF Fault, Inv, RecordsOK
  <1> QED  BY <1>2, <1>3, <1>9, <1>10 DEF Snapshot

---------------------------------------------------------------------------
(* The handler goes back.                                                    *)

LEMMA MarkIs ==
    ASSUME NEW t \in Task, NEW a \in Agents, NEW r \in Results, NEW u, u = Mark(t, a, r)
    PROVE  /\ u \in Task /\ u.error = t.error /\ u.change = t.change /\ u.home = t.home
           /\ u.previous = t.previous /\ u.placed = t.placed /\ u.configured = t.configured
           /\ \A b \in Agents : u.results[b] = IF b = a THEN r ELSE t.results[b]
  BY DEF Mark, Task

LEMMA UndoOneKeeps ==
    ASSUME Inv, NEW h \in Handlers, UndoOne(h)
    PROVE  Inv'
  <1>1. Busy(h) /\ At(h, "undo")  BY DEF UndoOne, At, Busy
  <1>2. PICK n \in Changes, t \in Task : n = task[h].change /\ t = task[h]
    BY <1>1, AtWork DEF Inv
  <1>3. /\ Row(h) = change[n] /\ change[n] \in Change /\ change[n].targets \subseteq Agents
        /\ change[n].status = "executing"
    BY <1>1, <1>2, AtWork DEF Inv, Row
  <1>4. ShapeGood(t, change[n])  BY <1>1, <1>2 DEF Inv, TaskGood
  <1>5. PICK a \in Agents : a = t.i /\ a \in change[n].targets
    BY <1>1, <1>2, <1>3, <1>4 DEF ShapeGood, At
  <1>6. PICK B \in SUBSET Agents : B = {b \in change[n].targets : b < a}  BY <1>3
  <1>7. /\ t.error /\ \A b \in change[n].targets : b <= a => b \in t.placed
        /\ \A b \in Agents : change[n].results[b] = ""
    BY <1>1, <1>2, <1>4, <1>5 DEF ShapeGood, At, Backward
  <1>8. B \cup {a} \subseteq t.placed
    <2>1. \A b \in B \cup {a} : b \in change[n].targets /\ b <= a
      BY <1>3, <1>5, <1>6 DEF Agents
    <2> QED  BY <1>7, <2>1
  <1>9. UNCHANGED <<saved, change, origin, alone, unsaved>>  BY DEF UndoOne, history
  <1>10. place' = [place EXCEPT ![a] = t.home[a]]
    BY <1>2, <1>5, <1>8 DEF UndoOne
  <1>11. PICK c \in Version : c = t.previous[a]  BY <1>5 DEF Task
  <1>12. Before(h) = B  BY <1>2, <1>3, <1>5, <1>6 DEF Before
  <1>13. ASSUME NEW b \in Own(n)
         PROVE  /\ b \in change[n].targets /\ b \in Agents
                /\ place[b] = IF b \in B \cup {a} THEN change[n].target ELSE origin[n][b].place
                /\ saved[b] = origin[n][b].place \/ (b \in t.placed /\ saved[b] = change[n].target)
                /\ t.home[b] = origin[n][b].place
    <2>1. b \in change[n].targets /\ b \in Agents  BY <1>3 DEF Own
    <2>2. PlaceGood(t, n, b) /\ t.at = "undo"  BY <1>1, <1>2 DEF Inv, TaskGood, At
    <2>3. ~(b > a) <=> b \in B \cup {a}  BY <1>5, <1>6, <2>1 DEF Agents
    <2> QED  BY <1>5, <1>8, <2>1, <2>2, <2>3 DEF PlaceGood, Moved
  <1>14. ASSUME NEW b \in Own(n), origin[n][b].settled
         PROVE  /\ t.previous[b] = origin[n][b].config
                /\ b \in B \cup {a} /\ b \notin t.configured => Kept(n, b)
                /\ t.results[b] = "restored" => Returned(n, b)
    <2>1. b \in change[n].targets /\ b \in Agents  BY <1>3 DEF Own
    <2>2. ConfigGood(t, n, b) /\ t.at = "undo"  BY <1>1, <1>2 DEF Inv, TaskGood, At
    <2>3. b \in B \cup {a} => b <= a  BY <1>5, <1>6, <2>1 DEF Agents
    <2> QED  BY <1>5, <1>14, <2>2, <2>3 DEF ConfigGood, Backward
  <1>15. PICK r \in {"restored", "rollback_failed"} :
            /\ Be(h, Undo(Mark(t, a, r), B)) /\ AttemptsTyped' /\ faults' \in Nat
            /\ \A b \in Agents : b # a =>
                  wanted'[b] = wanted[b] /\ answer'[b] = answer[b] /\ prior'[b] = prior[b]
            /\ r = "restored" /\ a \in Own(n) /\ origin[n][a].settled => Returned(n, a)'
    <2>1. CASE a \notin t.configured \/ (c # None /\ IsCurrent(a, c))
      <3>1. Be(h, Undo(Mark(t, a, "restored"), B)) /\ Quiet
        BY <1>2, <1>5, <1>11, <1>12, <2>1 DEF UndoOne
      <3>2. AttemptsTyped' /\ faults' \in Nat /\ wanted' = wanted /\ prior' = prior /\ answer' = answer
        BY <3>1, QuietIs DEF Inv
      <3>3. a \in Own(n) /\ origin[n][a].settled => Returned(n, a)
        BY <1>11, <1>14, <2>1 DEF Kept, Returned, IsCurrent, InFlight
      <3>4. Returned(n, a) => Returned(n, a)'  BY <1>9, <3>2 DEF Returned, InFlight
      <3> QED  BY <3>1, <3>2, <3>3, <3>4
    <2>2. CASE ~(a \notin t.configured \/ (c # None /\ IsCurrent(a, c))) /\ (c = None \/ InFlight(a))
      <3>1. Be(h, Undo(Mark(t, a, "rollback_failed"), B)) /\ Quiet
        BY <1>2, <1>5, <1>11, <1>12, <2>2 DEF UndoOne
      <3> QED  BY <3>1, QuietIs DEF Inv
    <2>3. CASE ~(a \notin t.configured \/ (c # None /\ IsCurrent(a, c))) /\ ~(c = None \/ InFlight(a))
      <3>1. PICK r \in {"restored", "rollback_failed"} :
               Be(h, Undo(Mark(t, a, r), B)) /\ Send(a, c, None)
        BY <1>2, <1>5, <1>11, <1>12, <2>3 DEF UndoOne
      <3>2. c \in Configs /\ None \in Version  BY <1>11, <2>3 DEF Version
      <3>3. /\ AttemptsTyped' /\ faults' \in Nat /\ wanted'[a] = c /\ prior'[a] = None
            /\ \A b \in Agents : b # a =>
                  wanted'[b] = wanted[b] /\ answer'[b] = answer[b] /\ prior'[b] = prior[b]
        BY <3>1, <3>2, SendIs DEF Inv
      <3>4. a \in Own(n) /\ origin[n][a].settled => Returned(n, a)'
        BY <1>9, <1>11, <1>14, <3>3 DEF Returned
      <3> QED  BY <3>1, <3>3, <3>4
    <2> QED  BY <2>1, <2>2, <2>3
  <1>16. PICK u0 : u0 = Mark(t, a, r)  OBVIOUS
  <1>17. /\ u0 \in Task /\ u0.error = t.error /\ u0.change = t.change /\ u0.home = t.home
         /\ u0.previous = t.previous /\ u0.placed = t.placed /\ u0.configured = t.configured
         /\ \A b \in Agents : u0.results[b] = IF b = a THEN r ELSE t.results[b]
    <2>1. r \in Results  BY DEF Results
    <2> QED  BY <1>16, <2>1, MarkIs
  <1>18. PICK u : u = Undo(u0, B) /\ Be(h, u)  BY <1>15, <1>16
  <1>19. /\ Elsewhere(u, u0) /\ (B = {} => u.at = "resnapshot")
         /\ B # {} => u.at = "undo" /\ u.i \in B /\ \A b \in B : b <= u.i
    BY <1>17, <1>18, UndoIs
  <1>20. /\ u \in Task /\ u.change = n /\ u.home = t.home /\ u.previous = t.previous
         /\ u.placed = t.placed /\ u.configured = t.configured /\ u.results = u0.results
    BY <1>2, <1>17, <1>19 DEF Elsewhere
  <1>21. u.error  BY <1>7, <1>17, <1>19 DEF Elsewhere
  <1>22. u.at \in {"undo", "resnapshot"} /\ (u.at = "resnapshot" => B = {})
    BY <1>19
  <1>23. \A b \in change[n].targets : u.at = "undo" => (b \in B <=> ~(b > u.i))
    <2> SUFFICES ASSUME NEW b \in change[n].targets, u.at = "undo"
                 PROVE  b \in B <=> ~(b > u.i)
      OBVIOUS
    <2>1. u.i \in B /\ u.i \in Agents /\ b \in Agents  BY <1>3, <1>19
    <2>2. u.i < a  BY <1>6, <2>1
    <2> QED  BY <1>5, <1>6, <1>19, <2>1, <2>2 DEF Agents
  <1>24. ShapeGood(u, change[n])
    <2>1. u.at = "undo" => u.i \in change[n].targets  BY <1>6, <1>19, <1>22
    <2>2. u.at = "undo" => \A b \in change[n].targets : b <= u.i => b \in u.placed
      <3> SUFFICES ASSUME u.at = "undo", NEW b \in change[n].targets, b <= u.i  PROVE b \in u.placed
        OBVIOUS
      <3>1. u.i \in B /\ u.i \in Agents /\ b \in Agents  BY <1>3, <1>19
      <3>2. u.i < a  BY <1>6, <3>1
      <3>3. b <= a  BY <3>1, <3>2 DEF Agents
      <3> QED  BY <1>7, <1>20, <3>3
    <2> QED  BY <1>7, <1>21, <1>22, <2>1, <2>2 DEF ShapeGood, Forward, Backward
  <1>25. ASSUME NEW b \in Own(n)  PROVE PlaceGood(u, n, b)' /\ ConfigGood(u, n, b)'
    <2>1. place'[b] = IF b \in B THEN change[n].target ELSE origin[n][b].place
      <3>1. a \notin B  BY <1>6 DEF Agents
      <3> QED  BY <1>10, <1>13, <3>1 DEF Inv, RecordsOK
    <2>2. b \in change[n].targets /\ b \in Agents  BY <1>13
    <2>3. b \in B => b \in t.placed  BY <1>8
    <2>4. u.at = "undo" => (Moved(u, b) <=> b \in B)
      BY <1>20, <1>23, <2>2, <2>3 DEF Moved
    <2>5. PlaceGood(u, n, b)'
      BY <1>9, <1>13, <1>20, <1>22, <2>1, <2>4 DEF PlaceGood, Moved, Forward
    <2>6. ConfigGood(u, n, b)'
      <3> SUFFICES ASSUME origin'[n][b].settled
                   PROVE  /\ u.previous[b] = origin'[n][b].config
                          /\ u.at = "undo" /\ b <= u.i /\ b \notin u.configured => Kept(n, b)'
                          /\ u.results[b] = "restored" => Returned(n, b)'
        BY <1>22 DEF ConfigGood, Forward
      <3>1. origin[n][b].settled  BY <1>9
      <3>2. u.previous[b] = origin'[n][b].config  BY <1>9, <1>14, <1>20, <3>1
      <3>3. b # a => (Kept(n, b) => Kept(n, b)') /\ (Returned(n, b) => Returned(n, b)')
        BY <1>9, <1>15, <2>2 DEF Kept, Returned, InFlight
      <3>4. u.at = "undo" /\ b <= u.i => b \in B /\ b # a
        <4> SUFFICES ASSUME u.at = "undo", b <= u.i  PROVE b \in B /\ b # a  OBVIOUS
        <4>1. u.i \in B /\ u.i \in Agents  BY <1>19
        <4>2. u.i < a  BY <1>6, <4>1
        <4> QED  BY <1>6, <2>2, <4>1, <4>2 DEF Agents
      <3>5. u.at = "undo" /\ b <= u.i /\ b \notin u.configured => Kept(n, b)'
        BY <1>14, <1>20, <3>1, <3>3, <3>4
      <3>6. u.results[b] = "restored" => Returned(n, b)'
        <4>1. u.results[b] = IF b = a THEN r ELSE t.results[b]  BY <1>17, <1>20, <2>2
        <4>2. CASE b = a  BY <1>15, <3>1, <4>1, <4>2
        <4>3. CASE b # a  BY <1>14, <3>1, <3>3, <4>1, <4>3
        <4> QED  BY <4>2, <4>3
      <3> QED  BY <3>2, <3>5, <3>6
    <2> QED  BY <2>5, <2>6
  <1>26. task' \in [Handlers -> Task] /\ task'[h] = u /\ \A k \in Handlers : k # h => task'[k] = task[k]
    BY <1>18, <1>20, BeIs DEF Inv
  <1>27. RecordsOK'
    <2>1. place' \in [Agents -> Place]  BY <1>5, <1>10 DEF Inv, RecordsOK, Task
    <2> QED  BY <1>9, <1>15, <1>26, <2>1 DEF Inv, RecordsOK, AttemptsTyped
  <1>28. Frame(h)
    BY <1>2, <1>3, <1>5, <1>9, <1>10, <1>15, <1>26 DEF Frame, Inv, RecordsOK
  <1>29. TaskGood(h)'  BY <1>9, <1>20, <1>24, <1>25, <1>26, TaskHolds
  <1> QED  BY <1>1, <1>2, <1>9, <1>20, <1>26, <1>27, <1>28, <1>29, WorkKeeps DEF At

LEMMA ResnapshotKeeps ==
    ASSUME Inv, NEW h \in Handlers, Resnapshot(h)
    PROVE  Inv'
  <1>1. Busy(h) /\ At(h, "resnapshot")  BY DEF Resnapshot, At, Busy
  <1>2. PICK n \in Changes, t \in Task : n = task[h].change /\ t = task[h]
    BY <1>1, AtWork DEF Inv
  <1>3. /\ t.error /\ \A b \in Agents : change[n].results[b] = ""
    BY <1>1, <1>2 DEF Inv, TaskGood, ShapeGood, At, Backward
  <1>4. UNCHANGED <<place, wanted, answer, prior, change, origin, alone>>
    BY DEF Resnapshot, attempt
  <1>5. /\ (saved' = place /\ unsaved' = unsaved) \/ (saved' = saved /\ unsaved' = unsaved \cup {n})
        /\ faults' \in Nat
    BY <1>2 DEF Resnapshot, Fault, Inv, RecordsOK
  <1>6. PICK u : u = [t EXCEPT !.at = "evidence"] /\ Be(h, u)  BY <1>2 DEF Resnapshot
  <1>7. /\ u \in Task /\ u.change = n /\ u.at = "evidence" /\ u.error = t.error
        /\ u.results = t.results
    BY <1>2, <1>6, StepsOn DEF Steps, Elsewhere
  <1>8. u.error  BY <1>3, <1>7
  <1>9. ShapeGood(u, change[n])  BY <1>3, <1>7, <1>8 DEF ShapeGood, Forward, Backward
  <1>10. ASSUME NEW b \in Own(n)  PROVE PlaceGood(u, n, b)' /\ ConfigGood(u, n, b)'
    <2>1. PlaceGood(t, n, b) /\ ConfigGood(t, n, b) /\ t.at = "resnapshot"
      BY <1>1, <1>2 DEF Inv, TaskGood, At
    <2>2. place[b] = origin[n][b].place  BY <2>1 DEF PlaceGood
    <2>3. Back(n, b)'  BY <1>4, <1>5, <2>2 DEF Back
    <2>4. PlaceGood(u, n, b)'  BY <1>7, <1>8, <2>3 DEF PlaceGood, Forward
    <2>5. origin[n][b].settled /\ t.results[b] = "restored" => Returned(n, b)
      BY <2>1 DEF ConfigGood, Backward
    <2>6. Returned(n, b) => Returned(n, b)'  BY <1>4 DEF Returned, InFlight
    <2>7. ConfigGood(u, n, b)'  BY <1>4, <1>7, <2>5, <2>6 DEF ConfigGood, Forward
    <2> QED  BY <2>4, <2>7
  <1>11. task' \in [Handlers -> Task] /\ task'[h] = u /\ \A k \in Handlers : k # h => task'[k] = task[k]
    BY <1>6, <1>7, BeIs DEF Inv
  <1>12. RecordsOK'
    <2>1. unsaved' \subseteq Changes  BY <1>5 DEF Inv, RecordsOK
    <2>2. saved' \in [Agents -> Place]  BY <1>5 DEF Inv, RecordsOK
    <2> QED  BY <1>4, <1>5, <1>11, <2>1, <2>2 DEF Inv, RecordsOK
  <1>13. Frame(h)  BY <1>2, <1>4, <1>5, <1>11 DEF Frame
  <1>14. TaskGood(h)'  BY <1>4, <1>7, <1>9, <1>10, <1>11, TaskHolds
  <1> QED  BY <1>1, <1>2, <1>4, <1>7, <1>11, <1>12, <1>13, <1>14, WorkKeeps DEF At

---------------------------------------------------------------------------
(* The handler tells the outcome.                                            *)

LEMMA EvidenceKeeps ==
    ASSUME Inv, NEW h \in Handlers, Evidence(h)
    PROVE  Inv'
  <1>1. Busy(h) /\ At(h, "evidence")  BY DEF Evidence, At, Busy
  <1>2. PICK n \in Changes, t \in Task : n = task[h].change /\ t = task[h]
    BY <1>1, AtWork DEF Inv
  <1>3. change[n] \in Change /\ change[n].status = "executing"
    BY <1>1, <1>2, AtWork DEF Inv, Row
  <1>4. \A b \in Agents : change[n].results[b] = ""
    BY <1>1, <1>2 DEF Inv, TaskGood, ShapeGood, At
  <1>5. UNCHANGED <<place, saved, wanted, answer, prior, origin, alone, unsaved>>
    BY DEF Evidence, attempt, history
  <1>6. ASSUME NEW b \in Own(n)
        PROVE  /\ b \in Agents /\ (~t.error => Gone(n, b)) /\ (t.error => Back(n, b))
               /\ t.results[b] = "restored" /\ origin[n][b].settled => Returned(n, b)
    <2>1. b \in Agents  BY <1>3 DEF Own, Change
    <2>2. PlaceGood(t, n, b) /\ ConfigGood(t, n, b) /\ t.at = "evidence"
      BY <1>1, <1>2 DEF Inv, TaskGood, At
    <2> QED  BY <2>1, <2>2 DEF PlaceGood, ConfigGood
  <1>7. PICK r \in [Agents -> Results], u \in Task :
           /\ change' = [change EXCEPT ![n].results = r] /\ faults' \in Nat
           /\ Be(h, u) /\ u.at = "conclude" /\ u.change = n
           /\ \/ r = t.results /\ u.error = t.error
              \/ (\A b \in Agents : r[b] = "") /\ u.error
    <2>1. CASE /\ change' = [change EXCEPT ![n].results = t.results]
               /\ Be(h, [t EXCEPT !.at = "conclude"]) /\ faults' = faults
      <3>1. PICK u : u = [t EXCEPT !.at = "conclude"]  OBVIOUS
      <3>2. u \in Task /\ u.at = "conclude" /\ u.change = n /\ u.error = t.error
        BY <1>2, <3>1, StepsOn DEF Steps, Elsewhere
      <3>3. t.results \in [Agents -> Results]  BY DEF Task
      <3> QED  BY <2>1, <3>1, <3>2, <3>3 DEF Inv, RecordsOK
    <2>2. CASE /\ change' = change /\ Fault
               /\ Be(h, [t EXCEPT !.at = "conclude", !.error = TRUE])
      <3>1. PICK u : u = [t EXCEPT !.at = "conclude", !.error = TRUE]  OBVIOUS
      <3>2. u \in Task /\ u.at = "conclude" /\ u.change = n /\ u.error
        BY <1>2, <3>1 DEF Task, Steps
      <3>3. change[n].results \in [Agents -> Results]  BY <1>3 DEF Change
      <3>4. change = [change EXCEPT ![n].results = change[n].results]
        BY <1>3 DEF Inv, RecordsOK, Change
      <3>5. faults' \in Nat  BY <2>2 DEF Fault, Inv, RecordsOK
      <3> QED  BY <1>4, <2>2, <3>1, <3>2, <3>3, <3>4, <3>5
    <2> QED  BY <1>2, <2>1, <2>2 DEF Evidence
  <1>8. /\ change' \in [Changes -> Change] /\ change'[n].results = r
        /\ change'[n].targets = change[n].targets /\ change'[n].target = change[n].target
        /\ change'[n].status = "executing"
        /\ \A m \in Changes : m # n => change'[m] = change[m]
    BY <1>3, <1>7 DEF Inv, RecordsOK, Change
  <1>9. task' \in [Handlers -> Task] /\ task'[h] = u /\ \A k \in Handlers : k # h => task'[k] = task[k]
    BY <1>7, BeIs DEF Inv
  <1>10. RecordsOK'  BY <1>5, <1>7, <1>8, <1>9 DEF Inv, RecordsOK
  <1>11. Frame(h)  BY <1>2, <1>5, <1>8, <1>9 DEF Frame
  <1>12. Own(n)' = Own(n)  BY <1>5, <1>8 DEF Own
  <1>13. ASSUME NEW b \in Own(n)
         PROVE  /\ (~u.error => Gone(n, b)') /\ (u.error /\ r[b] # "" => Back(n, b)')
                /\ r[b] = "restored" /\ origin[n][b].settled => Returned(n, b)'
    <2>1. Gone(n, b) => Gone(n, b)'  BY <1>5, <1>8 DEF Gone
    <2>2. Back(n, b) => Back(n, b)'  BY <1>5 DEF Back
    <2>3. Returned(n, b) => Returned(n, b)'  BY <1>5 DEF Returned, InFlight
    <2>4. CASE r = t.results /\ u.error = t.error  BY <1>6, <2>1, <2>2, <2>3, <2>4
    <2>5. CASE (\A a \in Agents : r[a] = "") /\ u.error
      <3>1. r[b] = ""  BY <1>6, <2>5
      <3> QED  BY <2>5, <3>1
    <2> QED  BY <1>7, <2>4, <2>5
  <1>14. TaskGood(h)'
    <2>1. ShapeGood(u, change[n])'  BY <1>7 DEF ShapeGood, Forward, Backward
    <2>2. \A b \in Own(n) : PlaceGood(u, n, b)'
      BY <1>7, <1>8, <1>13 DEF PlaceGood, Forward
    <2>3. \A b \in Own(n) : ConfigGood(u, n, b)'
      BY <1>7 DEF ConfigGood, Forward, Backward
    <2> QED  BY <1>7, <1>9, <1>12, <2>1, <2>2, <2>3 DEF TaskGood
  <1>15. RowGood(n)'  BY <1>5, <1>8, <1>12, <1>13 DEF RowGood
  <1> QED  BY <1>1, <1>2, <1>7, <1>8, <1>9, <1>10, <1>11, <1>14, <1>15, HandlerKeeps

LEMMA ConcludeKeeps ==
    ASSUME Inv, NEW h \in Handlers, Conclude(h)
    PROVE  Inv'
  <1>1. Busy(h) /\ At(h, "conclude")  BY DEF Conclude, At, Busy
  <1>2. PICK n \in Changes, t \in Task : n = task[h].change /\ t = task[h]
    BY <1>1, AtWork DEF Inv
  <1>3. change[n] \in Change /\ change[n].status = "executing"
    BY <1>1, <1>2, AtWork DEF Inv, Row
  <1>4. PICK s \in Statuses : s = IF t.error THEN "failed" ELSE "completed"  BY DEF Statuses
  <1>5. /\ UNCHANGED <<place, saved, wanted, answer, prior, origin, alone, unsaved, faults>>
        /\ change' = [change EXCEPT ![n].status = s] /\ Be(h, NoTask)
    BY <1>2, <1>3, <1>4 DEF Conclude, attempt, history, Moves, Update
  <1>6. /\ change' \in [Changes -> Change] /\ change'[n].results = change[n].results
        /\ change'[n].targets = change[n].targets /\ change'[n].target = change[n].target
        /\ change'[n].status = s
        /\ \A m \in Changes : m # n => change'[m] = change[m]
    BY <1>3, <1>5 DEF Inv, RecordsOK, Change
  <1>7. /\ task' \in [Handlers -> Task] /\ task'[h].at = "idle"
        /\ \A k \in Handlers : k # h => task'[k] = task[k]
    BY <1>5, BeIs, IdleTask DEF Inv
  <1>8. RecordsOK'  BY <1>5, <1>6, <1>7 DEF Inv, RecordsOK
  <1>9. Frame(h)  BY <1>2, <1>5, <1>6, <1>7 DEF Frame
  <1>10. ~Busy(h)'  BY <1>7 DEF Busy, At
  <1>11. RowGood(n)'
    <2>1. Own(n)' = Own(n)  BY <1>5, <1>6 DEF Own
    <2> SUFFICES ASSUME NEW b \in Own(n)
                 PROVE  /\ s = "completed" => Gone(n, b)'
                        /\ s = "failed" /\ change[n].results[b] # "" => Back(n, b)'
                        /\ change[n].results[b] = "restored" /\ origin[n][b].settled =>
                              Returned(n, b)'
      BY <1>5, <1>6, <2>1 DEF RowGood
    <2>2. PlaceGood(t, n, b) /\ t.at = "conclude"  BY <1>1, <1>2 DEF Inv, TaskGood, At
    <2>3. change[n].results[b] = "restored" /\ origin[n][b].settled => Returned(n, b)
      BY DEF Inv, RowGood
    <2>4. Gone(n, b) => Gone(n, b)'  BY <1>5, <1>6 DEF Gone
    <2>5. Back(n, b) => Back(n, b)'  BY <1>5 DEF Back
    <2>6. Returned(n, b) => Returned(n, b)'  BY <1>5 DEF Returned, InFlight
    <2> QED  BY <1>4, <2>2, <2>3, <2>4, <2>5, <2>6 DEF PlaceGood
  <1> QED  BY <1>1, <1>2, <1>4, <1>6, <1>8, <1>9, <1>10, <1>11, HandlerKeeps

---------------------------------------------------------------------------
(* A change begins.                                                          *)

LEMMA ApproveKeeps ==
    ASSUME Inv, NEW h \in Handlers, NEW n \in Changes, Approve(h, n)
    PROVE  Inv'
  <1>1. ~Busy(h) /\ change[n].status = "pending_approval"
    BY DEF Approve, Busy, Moves
  <1>2. /\ change[n] \in Change /\ change[n].targets \in SUBSET Agents
        /\ change[n].targets # {} /\ \A a \in Agents : change[n].results[a] = ""
    BY <1>1 DEF Inv, RecordsOK, Change, RowsInv
  <1>3. UNCHANGED <<place, saved, wanted, answer, prior, unsaved, faults>>
    BY DEF Approve, attempt
  <1>4. /\ change' \in [Changes -> Change] /\ change'[n].status = "executing"
        /\ change'[n].targets = change[n].targets /\ change'[n].target = change[n].target
        /\ change'[n].results = change[n].results
        /\ \A m \in Changes : m # n => change'[m] = change[m]
    BY <1>2 DEF Approve, Update, Inv, RecordsOK, Change, Statuses
  <1>5. PICK r : r = [a \in Agents |-> IF a \in change[n].targets THEN "not_started" ELSE ""]
    OBVIOUS
  <1>6. PICK u0 : u0 = [NoTask EXCEPT !.change = n, !.results = r]  OBVIOUS
  <1>7. /\ u0 \in Task /\ u0.change = n /\ u0.results = r /\ u0.placed = {}
        /\ u0.configured = {} /\ ~u0.error
    <2>1. n \in Nat  BY DEF Changes
    <2>2. r \in [Agents -> Results]  BY <1>5 DEF Results
    <2> QED  BY <1>6, <2>1, <2>2, IdleTask DEF Task, NoTask
  <1>8. PICK u : u = First(u0, change[n].targets, "check", "deliver") /\ Be(h, u)
    BY <1>5, <1>6 DEF Approve
  <1>9. /\ Elsewhere(u, u0) /\ u.at = "check" /\ u.i \in change[n].targets
        /\ \A b \in change[n].targets : u.i <= b
    <2>2. PICK T \in SUBSET Agents : T = change[n].targets  BY <1>2
    <2>3. u = First(u0, T, "check", "deliver") /\ T # {}  BY <1>2, <1>8, <2>2
    <2>4. Elsewhere(u, u0) /\ u.at = "check" /\ u.i \in T /\ \A b \in T : u.i <= b
      BY <1>7, <2>3, FirstIs DEF Steps
    <2> QED  BY <2>2, <2>4
  <1>10. /\ u \in Task /\ u.change = n /\ u.placed = {} /\ u.configured = {} /\ ~u.error
         /\ u.results = r
    BY <1>7, <1>9 DEF Elsewhere
  <1>11. /\ task' \in [Handlers -> Task] /\ task'[h] = u
         /\ \A k \in Handlers : k # h => task'[k] = task[k]
    BY <1>8, <1>10, BeIs DEF Inv
  <1>12. /\ origin' \in [Changes -> [Agents -> Origin]]
         /\ \A m \in Changes : m # n => origin'[m] = origin[m]
         /\ \A a \in change[n].targets :
               /\ origin'[n][a].place = place[a] /\ origin'[n][a].config = wanted[a]
               /\ origin'[n][a].settled => ~InFlight(a)
    <2>1. PICK o : /\ o = [a \in Agents |->
                            IF a \in change[n].targets
                            THEN [place |-> place[a], config |-> wanted[a], settled |-> ~InFlight(a)]
                            ELSE Unknown]
                   /\ origin' = [origin EXCEPT ![n] = o]
      BY DEF Approve
    <2>2. Unknown \in Origin  BY DEF Unknown, Origin, Place, Version
    <2>3. \A a \in Agents :
             [place |-> place[a], config |-> wanted[a], settled |-> ~InFlight(a)] \in Origin
      BY DEF Inv, RecordsOK, Origin, InFlight
    <2>4. o \in [Agents -> Origin]  BY <2>1, <2>2, <2>3
    <2>5. origin' \in [Changes -> [Agents -> Origin]] /\ origin'[n] = o
      BY <2>1, <2>4 DEF Inv, RecordsOK
    <2>6. \A m \in Changes : m # n => origin'[m] = origin[m]  BY <2>1 DEF Inv, RecordsOK
    <2>7. ASSUME NEW a \in change[n].targets
          PROVE  /\ o[a].place = place[a] /\ o[a].config = wanted[a]
                 /\ o[a].settled => ~InFlight(a)
      <3>1. PICK x : /\ x = o[a]
                     /\ x = [place |-> place[a], config |-> wanted[a], settled |-> ~InFlight(a)]
        BY <1>2, <2>1
      <3>2. x.place = place[a] /\ x.config = wanted[a] /\ (x.settled => ~InFlight(a))
        <4>1. x = [place |-> place[a], config |-> wanted[a], settled |-> ~InFlight(a)]  BY <3>1
        <4> QED  BY <4>1 DEF InFlight
      <3> QED  BY <3>1, <3>2
    <2> QED  BY <2>5, <2>6, <2>7
  <1>13. \A m \in Changes, a \in Agents : <<m, a>> \in alone' =>
            \/ <<m, a>> \in alone /\ a \notin change[n].targets
            \/ m = n /\ a \in Untouched(n)
    BY DEF Approve, Begun
  <1>14. \A a \in Agents : <<n, a>> \notin alone  BY <1>1 DEF Inv, AloneInv
  <1>15. alone' \subseteq Changes \X Agents
    BY DEF Approve, Begun, Untouched, Inv, RecordsOK, Change
  <1>16. RecordsOK'  BY <1>3, <1>4, <1>11, <1>12, <1>15 DEF Inv, RecordsOK
  <1>17. RowsInv'  BY <1>2, <1>4 DEF Inv, RowsInv
  <1>18. \A k \in Handlers : Busy(k)' /\ k # h =>
            Busy(k) /\ task'[k] = task[k] /\ task[k].change \in Changes /\ task[k].change # n
    BY <1>1, <1>11 DEF Busy, At, Inv, WorkInv, Row
  <1>19. WorkInv'
    <2>1. \A k \in Handlers : Busy(k)' =>
             task'[k].change \in Changes /\ change'[task'[k].change].status = "executing"
      <3> SUFFICES ASSUME NEW k \in Handlers, Busy(k)'
                   PROVE  task'[k].change \in Changes /\ change'[task'[k].change].status = "executing"
        OBVIOUS
      <3>1. CASE k = h  BY <1>4, <1>10, <1>11, <3>1
      <3>2. CASE k # h  BY <1>4, <1>18, <3>2 DEF Inv, WorkInv, Row
      <3> QED  BY <3>1, <3>2
    <2>2. \A j, k \in Handlers :
             Busy(j)' /\ Busy(k)' /\ task'[j].change = task'[k].change => j = k
      BY <1>10, <1>11, <1>18 DEF Inv, WorkInv
    <2> QED  BY <2>1, <2>2 DEF WorkInv, Row
  <1>20. AloneInv'
    <2> SUFFICES ASSUME NEW m \in Changes, NEW a \in Agents, <<m, a>> \in alone'
                 PROVE  /\ a \in change'[m].targets
                        /\ change'[m].status \in {"executing", "completed", "failed"}
                        /\ \A k \in Handlers : Busy(k)' /\ task'[k].change # m =>
                              a \notin change'[task'[k].change].targets
      BY DEF AloneInv, Row
    <2>1. CASE m = n /\ a \in Untouched(n)
      <3>1. \A k \in Handlers : Busy(k)' /\ k # h => a \notin change[task[k].change].targets
        BY <1>18, <2>1 DEF Untouched, Busy, Row
      <3> QED  BY <1>4, <1>10, <1>11, <1>18, <2>1, <3>1 DEF Untouched
    <2>2. CASE m # n /\ <<m, a>> \in alone /\ a \notin change[n].targets
      <3>1. /\ a \in change[m].targets
            /\ change[m].status \in {"executing", "completed", "failed"}
            /\ \A k \in Handlers : Busy(k) /\ task[k].change # m =>
                  a \notin change[task[k].change].targets
        BY <2>2 DEF Inv, AloneInv, Row
      <3>2. \A k \in Handlers : Busy(k)' /\ task'[k].change # m =>
               a \notin change'[task'[k].change].targets
        <4> SUFFICES ASSUME NEW k \in Handlers, Busy(k)', task'[k].change # m
                     PROVE  a \notin change'[task'[k].change].targets
          OBVIOUS
        <4>1. CASE k = h  BY <1>4, <1>10, <1>11, <2>2, <4>1
        <4>2. CASE k # h  BY <1>4, <1>18, <3>1, <4>2
        <4> QED  BY <4>1, <4>2
      <3> QED  BY <1>4, <2>2, <3>1, <3>2
    <2> QED  BY <1>13, <1>14, <2>1, <2>2
  <1>21. \A m \in Changes : m # n => Own(m)' \subseteq Own(m)
    <2> SUFFICES ASSUME NEW m \in Changes, m # n, NEW a \in change[m].targets, <<m, a>> \in alone'
                 PROVE  <<m, a>> \in alone
      BY <1>4 DEF Own
    <2>1. a \in Agents  BY <1>15
    <2> QED  BY <1>13, <2>1
  <1>22. \A m, a : m \in Changes /\ m # n =>
            (Kept(m, a) => Kept(m, a)') /\ (Returned(m, a) => Returned(m, a)')
    BY <1>3, <1>12 DEF Kept, Returned, InFlight
  <1>23. ASSUME NEW a \in Own(n)'
         PROVE  /\ a \in change[n].targets /\ place[a] = saved[a]
                /\ origin'[n][a].place = place[a] /\ origin'[n][a].config = wanted[a]
                /\ origin'[n][a].settled => ~InFlight(a)
    <2>1. a \in Agents /\ <<n, a>> \in alone'  BY <1>15 DEF Own
    <2>2. a \in Untouched(n)  BY <1>13, <1>14, <2>1
    <2> QED  BY <1>12, <2>2 DEF Untouched
  <1>24. TaskGood(h)'
    <2>1. \A a \in Agents : r[a] # "restored"  BY <1>5
    <2>2. ShapeGood(u, change'[n])
      BY <1>2, <1>4, <1>9, <1>10, <2>1 DEF ShapeGood, Backward
    <2>3. ASSUME NEW a \in Own(n)'  PROVE PlaceGood(u, n, a)' /\ ConfigGood(u, n, a)'
      <3>1. /\ place'[a] = origin'[n][a].place /\ saved'[a] = origin'[n][a].place
            /\ origin'[n][a].settled => Kept(n, a)'
        BY <1>3, <1>23 DEF Kept, InFlight
      <3>2. ~(a < u.i)
        <4>1. u.i <= a /\ u.i \in Agents /\ a \in Agents  BY <1>2, <1>9, <1>23
        <4> QED  BY <4>1 DEF Agents
      <3>3. PlaceGood(u, n, a)'  BY <1>9, <1>10, <3>1, <3>2 DEF PlaceGood, Moved
      <3>4. ConfigGood(u, n, a)'  BY <1>9, <1>10, <3>1, <3>2 DEF ConfigGood, Backward
      <3> QED  BY <3>3, <3>4
    <2> QED  BY <1>10, <1>11, <2>2, <2>3 DEF TaskGood
  <1>25. \A k \in Handlers : Busy(k)' => TaskGood(k)'
    <2> SUFFICES ASSUME NEW k \in Handlers, Busy(k)', k # h  PROVE TaskGood(k)'
      BY <1>24
    <2>1. PICK m \in Changes : m = task[k].change /\ m # n  BY <1>18
    <2>2. TaskGood(k) /\ task'[k] = task[k]  BY <1>18 DEF Inv
    <2>3. \A a \in Own(m) :
             /\ place'[a] = place[a] /\ (saved'[a] = saved[a] \/ saved'[a] = place[a])
             /\ Kept(m, a) => Kept(m, a)'
             /\ Returned(m, a) => Returned(m, a)'
      BY <1>3, <1>22, <2>1
    <2> QED  BY <1>3, <1>4, <1>12, <1>21, <2>1, <2>2, <2>3, TaskKept
  <1>26. \A m \in Changes : RowGood(m)'
    <2> SUFFICES ASSUME NEW m \in Changes  PROVE RowGood(m)'  OBVIOUS
    <2>1. CASE m = n
      <3>1. \A a \in Own(n)' : a \in Agents  BY <1>2, <1>23
      <3> QED  BY <1>2, <1>4, <2>1, <3>1 DEF RowGood
    <2>2. CASE m # n
      <3>1. RowGood(m)  BY DEF Inv
      <3>2. \A a \in Own(m) :
               /\ place'[a] = place[a] /\ (saved'[a] = saved[a] \/ saved'[a] = place[a])
               /\ Returned(m, a) => Returned(m, a)'
        BY <1>3, <1>22, <2>2
      <3> QED  BY <1>3, <1>4, <1>12, <1>21, <2>2, <3>1, <3>2, RowKept
    <2> QED  BY <2>1, <2>2
  <1> QED  BY <1>16, <1>17, <1>19, <1>20, <1>25, <1>26 DEF Inv

---------------------------------------------------------------------------
(* The rest of the server and the fleet.                                     *)

(* Whatever leaves the rows and the tasks alone, and of the collectors that  *)
(* the changes still have for themselves the records, what is settled and    *)
(* what was returned, keeps the invariant.                                   *)
LEMMA FleetKeeps ==
    ASSUME Inv, RecordsOK', UNCHANGED <<change, origin, unsaved, task>>,
           alone' \subseteq alone,
           \A n \in Changes : \A a \in Agents : <<n, a>> \in alone' =>
               /\ place'[a] = place[a] /\ (saved'[a] = saved[a] \/ saved'[a] = place[a])
               /\ Kept(n, a) => Kept(n, a)'
               /\ Returned(n, a) => Returned(n, a)'
    PROVE  Inv'
  <1>0. \A h \in Handlers : (Busy(h)' <=> Busy(h)) /\ Row(h)' = Row(h)  BY DEF Busy, At, Row
  <1>1. RowsInv' /\ WorkInv' /\ AloneInv'
    <2>1. RowsInv'  BY DEF Inv, RowsInv
    <2>2. WorkInv'  BY <1>0 DEF Inv, WorkInv
    <2>3. AloneInv'  BY <1>0 DEF Inv, AloneInv
    <2> QED  BY <2>1, <2>2, <2>3
  <1>2. \A n \in Changes : Own(n)' \subseteq Own(n) /\ Own(n)' \subseteq Agents
    BY DEF Own, Inv, RecordsOK
  <1>3. \A n \in Changes : \A a \in Own(n)' :
           /\ place'[a] = place[a] /\ (saved'[a] = saved[a] \/ saved'[a] = place[a])
           /\ Kept(n, a) => Kept(n, a)'
           /\ Returned(n, a) => Returned(n, a)'
    BY <1>2 DEF Own
  <1>4. \A k \in Handlers : Busy(k)' => TaskGood(k)'
    <2> SUFFICES ASSUME NEW k \in Handlers, Busy(k)'  PROVE TaskGood(k)'  OBVIOUS
    <2>1. Busy(k)  BY DEF Busy, At
    <2>2. PICK n \in Changes : n = task[k].change  BY <2>1 DEF Inv, WorkInv
    <2>3. TaskGood(k)  BY <2>1 DEF Inv
    <2> QED  BY <1>2, <1>3, <2>2, <2>3, TaskKept
  <1>5. \A n \in Changes : RowGood(n)'
    <2> SUFFICES ASSUME NEW n \in Changes  PROVE RowGood(n)'  OBVIOUS
    <2>1. RowGood(n)  BY DEF Inv
    <2> QED  BY <1>2, <1>3, <2>1, RowKept
  <1> QED  BY <1>1, <1>4, <1>5 DEF Inv

LEMMA AppliesKeeps ==
    ASSUME Inv, NEW a \in Agents, Applies(a)
    PROVE  Inv'
  <1>1. /\ answer[a] = "sent" /\ answer' = [answer EXCEPT ![a] = "applied"]
        /\ UNCHANGED <<place, saved, wanted, prior, change, origin, alone, unsaved, task, faults>>
    BY DEF Applies, InFlight, history
  <1>2. RecordsOK'
    <2>1. answer' \in [Agents -> {"none", "sent", "applied", "failed"}]  BY <1>1 DEF Inv, RecordsOK
    <2>2. \A b \in Agents : wanted'[b] = None <=> answer'[b] = "none"  BY <1>1 DEF Inv, RecordsOK
    <2> QED  BY <1>1, <2>1, <2>2 DEF Inv, RecordsOK
  <1>3. \A n \in Changes : \A b \in Agents :
           (Kept(n, b) => Kept(n, b)') /\ (Returned(n, b) => Returned(n, b)')
    BY <1>1 DEF Kept, Returned, InFlight, Inv, RecordsOK
  <1> QED  BY <1>1, <1>2, <1>3, FleetKeeps

LEMMA RejectsKeeps ==
    ASSUME Inv, NEW a \in Agents, Rejects(a)
    PROVE  Inv'
  <1>1. answer[a] = "sent" /\ UNCHANGED <<place, saved, change, origin, alone, unsaved, task>>
    BY DEF Rejects, InFlight, history
  <1>2. CASE prior[a] = None
    <2>1. answer' = [answer EXCEPT ![a] = "failed"] /\ UNCHANGED <<wanted, prior, faults>>
      BY <1>2 DEF Rejects
    <2>2. RecordsOK'
      <3>1. answer' \in [Agents -> {"none", "sent", "applied", "failed"}]  BY <2>1 DEF Inv, RecordsOK
      <3>2. \A b \in Agents : wanted'[b] = None <=> answer'[b] = "none"
        BY <1>1, <2>1 DEF Inv, RecordsOK
      <3> QED  BY <1>1, <2>1, <3>1, <3>2 DEF Inv, RecordsOK
    <2>3. \A n \in Changes : \A b \in Agents :
             (Kept(n, b) => Kept(n, b)') /\ (Returned(n, b) => Returned(n, b)')
      BY <1>1, <2>1 DEF Kept, Returned, InFlight, Inv, RecordsOK
    <2> QED  BY <1>1, <2>2, <2>3, FleetKeeps
  <1>3. CASE prior[a] # None
    <2>1. prior[a] \in Configs /\ None \in Version /\ Send(a, prior[a], None)
      BY <1>3 DEF Rejects, Inv, RecordsOK, Version
    <2>2. /\ AttemptsTyped' /\ faults' \in Nat
          /\ \A b \in Agents \ {a} :
                wanted'[b] = wanted[b] /\ prior'[b] = prior[b] /\ answer'[b] = answer[b]
      BY <2>1, SendIs DEF Inv
    <2>3. RecordsOK'  BY <1>1, <2>2 DEF Inv, RecordsOK, AttemptsTyped
    <2>4. \A n \in Changes : \A b \in Agents :
             (Kept(n, b) => Kept(n, b)') /\ (Returned(n, b) => Returned(n, b)')
      BY <1>1, <1>3, <2>2 DEF Kept, Returned, InFlight
    <2> QED  BY <1>1, <2>3, <2>4, FleetKeeps
  <1> QED  BY <1>2, <1>3

LEMMA OtherSaveKeeps ==
    ASSUME Inv, OtherSave
    PROVE  Inv'
  <1>1. /\ saved' = place
        /\ UNCHANGED <<place, wanted, answer, prior, change, origin, alone, unsaved, task, faults>>
    BY DEF OtherSave, attempt, history
  <1>2. RecordsOK'  BY <1>1 DEF Inv, RecordsOK
  <1>3. \A n \in Changes : \A b \in Agents :
           (Kept(n, b) => Kept(n, b)') /\ (Returned(n, b) => Returned(n, b)')
    BY <1>1 DEF Kept, Returned, InFlight
  <1> QED  BY <1>1, <1>2, <1>3, FleetKeeps

(* A record that changes its place is lost to every change.                  *)
LEMMA PutKeeps ==
    ASSUME Inv, NEW a \in Agents, NEW p \in Place, Put(a, p), SaveAll,
           UNCHANGED <<attempt, change, origin, unsaved, task, faults>>
    PROVE  Inv'
  <1>1. place' = [place EXCEPT ![a] = p]  BY DEF Put
  <1>2. alone' \subseteq alone  BY DEF Put, Lost
  <1>3. \A n \in Changes : \A b \in Agents : <<n, b>> \in alone' => place'[b] = place[b]
    <2> SUFFICES ASSUME NEW n \in Changes, NEW b \in Agents, <<n, b>> \in alone'
                 PROVE  place'[b] = place[b]
      OBVIOUS
    <2>1. CASE b # a  BY <1>1, <2>1 DEF Inv, RecordsOK
    <2>2. CASE b = a /\ place[a] = p  BY <1>1, <2>2 DEF Inv, RecordsOK
    <2>3. CASE b = a /\ place[a] # p
      <3>1. alone' = {pair \in alone : pair[2] # a}  BY <2>3 DEF Put, Lost
      <3> QED  BY <2>3, <3>1
    <2> QED  BY <2>1, <2>2, <2>3
  <1>4. UNCHANGED <<wanted, answer, prior, change, origin, unsaved, task, faults>>
    BY DEF attempt
  <1>5. place' \in [Agents -> Place] /\ saved' \in [Agents -> Place]
    BY <1>1 DEF SaveAll, Inv, RecordsOK
  <1>6. alone' \subseteq Changes \X Agents  BY <1>2 DEF Inv, RecordsOK
  <1>7. RecordsOK'  BY <1>4, <1>5, <1>6 DEF Inv, RecordsOK
  <1>8. \A n \in Changes : \A b \in Agents :
           (Kept(n, b) => Kept(n, b)') /\ (Returned(n, b) => Returned(n, b)')
    BY <1>4 DEF Kept, Returned, InFlight
  <1>9. \A n \in Changes : \A b \in Agents : <<n, b>> \in alone' =>
           place'[b] = place[b] /\ (saved'[b] = saved[b] \/ saved'[b] = place[b])
    BY <1>3 DEF SaveAll
  <1> QED  BY <1>2, <1>4, <1>7, <1>8, <1>9, FleetKeeps

(* The rest of what concerns an event leaves all of this alone.              *)
LEMMA EventKeeps ==
    ASSUME Inv,
           UNCHANGED <<place, saved, attempt, change, origin, alone, unsaved, task, faults>>
    PROVE  Inv'
  <1>1. UNCHANGED <<place, saved, wanted, answer, prior, change, origin, alone, unsaved, task, faults>>
    BY DEF attempt
  <1>2. RecordsOK'  BY <1>1 DEF Inv, RecordsOK
  <1>3. \A n \in Changes : \A b \in Agents :
           (Kept(n, b) => Kept(n, b)') /\ (Returned(n, b) => Returned(n, b)')
    BY <1>1 DEF Kept, Returned, InFlight
  <1> QED  BY <1>1, <1>2, <1>3, FleetKeeps

LEMMA JoinGroupKeeps ==
    ASSUME Inv, EventOK, NEW g \in Groups, NEW c \in Version, JoinGroup(g, c)
    PROVE  Inv'
  <1>1. event \in Event  BY DEF JoinGroup, EventOK
  <1>2. PICK a \in Agents : a = event.agent  BY <1>1 DEF Event
  <1>3. UNCHANGED <<place, saved, change, origin, unsaved, task>>  BY DEF JoinGroup
  <1>4. CASE UNCHANGED <<attempt, faults, alone>>  BY <1>3, <1>4, EventKeeps
  <1>5. CASE c # None /\ Send(a, c, None) /\ Lost(a)
    <2>1. c \in Configs /\ None \in Version  BY <1>5 DEF Version
    <2>2. /\ AttemptsTyped' /\ faults' \in Nat
          /\ \A b \in Agents \ {a} :
                wanted'[b] = wanted[b] /\ prior'[b] = prior[b] /\ answer'[b] = answer[b]
      BY <1>5, <2>1, SendIs DEF Inv
    <2>3. alone' = {pair \in alone : pair[2] # a}  BY <1>5 DEF Lost
    <2>4. alone' \subseteq alone /\ alone' \subseteq Changes \X Agents
      BY <2>3 DEF Inv, RecordsOK
    <2>5. RecordsOK'  BY <1>3, <2>2, <2>4 DEF Inv, RecordsOK, AttemptsTyped
    <2>6. \A n \in Changes : \A b \in Agents : <<n, b>> \in alone' => b # a
      BY <2>3
    <2>7. \A n \in Changes : \A b \in Agents : b # a =>
             (Kept(n, b) => Kept(n, b)') /\ (Returned(n, b) => Returned(n, b)')
      BY <1>3, <2>2 DEF Kept, Returned, InFlight
    <2> QED  BY <1>3, <2>4, <2>5, <2>6, <2>7, FleetKeeps
  <1> QED  BY <1>2, <1>4, <1>5 DEF JoinGroup, Quiet

LEMMA WriteRecordKeeps ==
    ASSUME Inv, EventOK, WriteRecord
    PROVE  Inv'
  <1>1. event \in Event  BY DEF WriteRecord, EventOK
  <1>2. event.agent \in Agents /\ event.place \in Place  BY <1>1 DEF Event
  <1>3. NoGroup \in Place  BY DEF Place
  <1>4. UNCHANGED <<attempt, change, origin, unsaved, task, faults>>  BY DEF WriteRecord
  <1>5. CASE Put(event.agent, event.place) /\ SaveAll  BY <1>2, <1>4, <1>5, PutKeeps
  <1>6. CASE Put(event.agent, NoGroup) /\ saved' = saved
    BY <1>2, <1>3, <1>4, <1>6, PutKeeps DEF SaveAll
  <1> QED  BY <1>5, <1>6 DEF WriteRecord

LEMMA AssignGroupKeeps ==
    ASSUME Inv, NEW a \in Agents, NEW g \in Groups, AssignGroup(a, g)
    PROVE  Inv'
  BY PutKeeps DEF AssignGroup, Place

LEMMA OthersKeep ==
    ASSUME Inv, EventOK, Others
    PROVE  Inv'
  <1>1. CASE OtherSave  BY <1>1, OtherSaveKeeps
  <1>2. CASE \E a \in Agents : ReadRecord(a)  BY <1>2, EventKeeps DEF ReadRecord, history
  <1>3. CASE \E a \in Agents, g \in Groups : AssignGroup(a, g)  BY <1>3, AssignGroupKeeps
  <1>4. CASE WriteRecord  BY <1>4, WriteRecordKeeps
  <1>5. CASE StaysOut  BY <1>5, EventKeeps DEF StaysOut, history
  <1>6. CASE \E g \in Groups, c \in Version : JoinGroup(g, c)  BY <1>6, JoinGroupKeeps
  <1> QED  BY <1>1, <1>2, <1>3, <1>4, <1>5, <1>6 DEF Others

(* What an event says has its type.                                          *)
LEMMA EventTyped ==
    ASSUME RecordsOK, EventOK, Others
    PROVE  EventOK'
  <1>1. CASE OtherSave  BY <1>1 DEF OtherSave, others, EventOK
  <1>2. ASSUME NEW a \in Agents, ReadRecord(a)  PROVE EventOK'
    <2>1. PICK e \in Event : event' = e
      BY <1>2 DEF ReadRecord, Event, RecordsOK
    <2>2. writes' = writes + 1  BY <1>2 DEF ReadRecord, Writes
    <2> QED  BY <2>1, <2>2 DEF EventOK
  <1>3. ASSUME NEW a \in Agents, NEW g \in Groups, AssignGroup(a, g)  PROVE EventOK'
    BY <1>3 DEF AssignGroup, Writes, EventOK
  <1>4. CASE WriteRecord
    <2>1. event \in Event /\ writes' = writes  BY <1>4 DEF WriteRecord, EventOK
    <2>2. [event EXCEPT !.at = "join"] \in Event  BY <2>1 DEF Event
    <2> QED  BY <1>4, <2>1, <2>2 DEF WriteRecord, EventOK
  <1>5. CASE StaysOut  BY <1>5 DEF StaysOut, EventOK
  <1>6. ASSUME NEW g \in Groups, NEW c \in Version, JoinGroup(g, c)  PROVE EventOK'
    <2>1. event \in Event /\ writes' = writes  BY <1>6 DEF JoinGroup, EventOK
    <2>2. [event EXCEPT !.at = "record", !.place = g, !.joins = TRUE] \in Event
      BY <2>1 DEF Event, Place
    <2> QED  BY <1>6, <2>1, <2>2 DEF JoinGroup, EventOK
  <1> QED  BY <1>1, <1>2, <1>3, <1>4, <1>5, <1>6 DEF Others

LEMMA StutterKeeps ==
    ASSUME Inv, UNCHANGED vars
    PROVE  Inv'
  <1>1. UNCHANGED <<place, saved, wanted, answer, prior, change, origin, alone, unsaved, task, faults>>
    BY DEF vars, attempt, history
  <1>2. RecordsOK'  BY <1>1 DEF Inv, RecordsOK
  <1>3. \A n \in Changes : \A b \in Agents :
           (Kept(n, b) => Kept(n, b)') /\ (Returned(n, b) => Returned(n, b)')
    BY <1>1 DEF Kept, Returned, InFlight
  <1> QED  BY <1>1, <1>2, <1>3, FleetKeeps

LEMMA RestartKeeps ==
    ASSUME Inv, Restart
    PROVE  Inv'
  <1>1. /\ place' = saved /\ task' = [h \in Handlers |-> NoTask] /\ faults' \in Nat
        /\ UNCHANGED <<saved, wanted, answer, prior, change, origin, alone, unsaved>>
    BY DEF Restart, Fault, attempt, history, Inv, RecordsOK
  <1>2. \A h \in Handlers : ~Busy(h)'  BY <1>1, IdleTask DEF Busy, At
  <1>3. RecordsOK'  BY <1>1, IdleTask DEF Inv, RecordsOK
  <1>4. RowsInv' /\ WorkInv' /\ AloneInv'
    BY <1>1, <1>2 DEF Inv, RowsInv, WorkInv, AloneInv
  <1>5. \A n \in Changes : RowGood(n)'
    <2> SUFFICES ASSUME NEW n \in Changes, NEW a \in Own(n)
                 PROVE  /\ change[n].status = "completed" => Gone(n, a)'
                        /\ change[n].status = "failed" /\ change[n].results[a] # "" => Back(n, a)'
                        /\ change[n].results[a] = "restored" /\ origin[n][a].settled =>
                              Returned(n, a)'
      BY <1>1 DEF RowGood, Own
    <2>1. /\ change[n].status = "completed" => Gone(n, a)
          /\ change[n].status = "failed" /\ change[n].results[a] # "" => Back(n, a)
          /\ change[n].results[a] = "restored" /\ origin[n][a].settled => Returned(n, a)
      BY DEF Inv, RowGood
    <2>2. Gone(n, a) => Gone(n, a)'  BY <1>1 DEF Gone
    <2>3. Back(n, a) => Back(n, a)'  BY <1>1 DEF Back
    <2>4. Returned(n, a) => Returned(n, a)'  BY <1>1 DEF Returned, InFlight
    <2> QED  BY <2>1, <2>2, <2>3, <2>4
  <1> QED  BY <1>2, <1>3, <1>4, <1>5 DEF Inv

---------------------------------------------------------------------------
(* Proposals.                                                                *)

(* A snapshot is a configuration, or none.                                   *)
LEMMA PreviousType ==
    ASSUME RecordsOK, NEW a \in Agents, NEW op, NEW restore
    PROVE  Previous(a, op, restore) \in Version
  <1>1. Baseline(a) \in Version
    <2>1. CASE \E n \in Changes : Joined(n, a)
      <3>1. PICK S \in SUBSET (1 .. NumChanges) : S = {n \in Changes : Joined(n, a)}
        BY DEF Changes
      <3>2. PICK m \in S : \A k \in S : k <= m  BY <2>1, <3>1, GreatestExists
      <3>3. m \in Changes /\ Joined(m, a) /\ \A k \in Changes : Joined(k, a) => k <= m
        BY <3>1, <3>2
      <3>4. PICK n \in Changes : Baseline(a) = change[n].previous[a]
        BY <2>1, <3>3 DEF Baseline
      <3>5. change[n].previous \in [Agents -> Version]  BY DEF RecordsOK, Change
      <3> QED  BY <3>4, <3>5
    <2>2. CASE ~(\E n \in Changes : Joined(n, a))  BY <2>2 DEF Baseline, Version
    <2> QED  BY <2>1, <2>2
  <1> QED  BY <1>1 DEF Previous, RecordsOK

(* What happens to a row that nobody carries out disturbs no other.          *)
LEMMA RowStepKeeps ==
    ASSUME Inv, RecordsOK', NEW n \in Changes, change[n].status \in {"absent", "pending_approval"},
           change'[n].status \in {"pending_approval", "rejected"}, change'[n].targets # {},
           \A a \in Agents : change'[n].results[a] = "",
           \A m \in Changes : m # n => change'[m] = change[m],
           UNCHANGED <<place, saved, wanted, answer, prior, origin, alone, unsaved, task>>
    PROVE  Inv'
  <1>1. RowsInv'  BY DEF Inv, RowsInv
  <1>2. \A h \in Handlers : Busy(h)' =>
           Busy(h) /\ task[h].change \in Changes /\ task[h].change # n
    BY DEF Inv, WorkInv, Busy, At, Row
  <1>3. WorkInv'  BY <1>2 DEF Inv, WorkInv, Row
  <1>4. \A a \in Agents : <<n, a>> \notin alone  BY DEF Inv, AloneInv
  <1>5. AloneInv'
    <2> SUFFICES ASSUME NEW m \in Changes, NEW a \in Agents, <<m, a>> \in alone
                 PROVE  /\ a \in change'[m].targets
                        /\ change'[m].status \in {"executing", "completed", "failed"}
                        /\ \A k \in Handlers : Busy(k)' /\ task[k].change # m =>
                              a \notin change'[task[k].change].targets
      BY DEF AloneInv, Row
    <2>1. m # n  BY <1>4
    <2> QED  BY <1>2, <2>1 DEF Inv, AloneInv, Row
  <1>6. \A m \in Changes : m # n => Own(m)' \subseteq Own(m)  BY DEF Own
  <1>7. \A m, a : (Kept(m, a) => Kept(m, a)') /\ (Returned(m, a) => Returned(m, a)')
    BY DEF Kept, Returned, InFlight
  <1>8. \A k \in Handlers : Busy(k)' => TaskGood(k)'
    <2> SUFFICES ASSUME NEW k \in Handlers, Busy(k)'  PROVE TaskGood(k)'  OBVIOUS
    <2>1. PICK m \in Changes : m = task[k].change /\ m # n  BY <1>2
    <2>2. TaskGood(k)  BY <1>2 DEF Inv
    <2> QED  BY <1>6, <1>7, <2>1, <2>2, TaskKept
  <1>9. \A m \in Changes : RowGood(m)'
    <2> SUFFICES ASSUME NEW m \in Changes  PROVE RowGood(m)'  OBVIOUS
    <2>1. CASE m = n
      <3>1. Own(n)' = {}
        <4>1. alone \subseteq Changes \X Agents  BY DEF Inv, RecordsOK
        <4> QED  BY <1>4, <4>1 DEF Own
      <3> QED  BY <2>1, <3>1 DEF RowGood
    <2>2. CASE m # n
      <3>1. RowGood(m)  BY DEF Inv
      <3> QED  BY <1>6, <1>7, <2>2, <3>1, RowKept
    <2> QED  BY <2>1, <2>2
  <1> QED  BY <1>1, <1>3, <1>5, <1>8, <1>9 DEF Inv

LEMMA ProposeKeeps ==
    ASSUME Inv, NEW n \in Changes, NEW op \in Operations, NEW source \in Place, NEW target \in Place,
           NEW restore \in BOOLEAN, NEW c \in Version, NEW T \in SUBSET Agents,
           Propose(n, op, source, target, restore, c, T)
    PROVE  Inv'
  <1>1. change[n].status = "absent" /\ T # {}  BY DEF Propose
  <1>2. PICK p : p = [a \in Agents |-> IF a \in T THEN Previous(a, op, restore) ELSE None]
    OBVIOUS
  <1>3. PICK r : r = [a \in Agents |-> ""]  OBVIOUS
  <1>4. PICK row : row = [status |-> "pending_approval", op |-> op, source |-> source,
                          target |-> target, restore |-> restore, config |-> c, targets |-> T,
                          previous |-> p, results |-> r]
    OBVIOUS
  <1>5. change' = [change EXCEPT ![n] = row]  BY <1>2, <1>3, <1>4 DEF Propose
  <1>6. p \in [Agents -> Version]
    <2>1. \A a \in Agents : Previous(a, op, restore) \in Version  BY PreviousType DEF Inv
    <2> QED  BY <1>2, <2>1 DEF Version
  <1>7. r \in [Agents -> Results] /\ \A a \in Agents : r[a] = ""  BY <1>3 DEF Results
  <1>8. row \in Change  BY <1>4, <1>6, <1>7 DEF Change, Statuses
  <1>9. row.status = "pending_approval" /\ row.targets = T /\ row.results = r  BY <1>4
  <1>10. UNCHANGED <<place, saved, wanted, answer, prior, origin, alone, unsaved, task, faults>>
    BY DEF Propose, attempt, history
  <1>11. RecordsOK'
    <2>1. change' \in [Changes -> Change]  BY <1>5, <1>8 DEF Inv, RecordsOK
    <2> QED  BY <1>10, <2>1 DEF Inv, RecordsOK
  <1>12. change'[n] = row /\ \A m \in Changes : m # n => change'[m] = change[m]
    BY <1>5 DEF Inv, RecordsOK
  <1> QED  BY <1>1, <1>7, <1>9, <1>10, <1>11, <1>12, RowStepKeeps

LEMMA RejectKeeps ==
    ASSUME Inv, NEW n \in Changes, Reject(n)
    PROVE  Inv'
  <1>1. /\ change[n].status = "pending_approval" /\ change[n] \in Change
        /\ change[n].targets # {} /\ \A a \in Agents : change[n].results[a] = ""
    BY DEF Reject, Moves, Inv, RowsInv, RecordsOK
  <1>2. change' = [change EXCEPT ![n].status = "rejected"]  BY DEF Reject, Update
  <1>3. /\ change' \in [Changes -> Change] /\ change'[n].status = "rejected"
        /\ change'[n].targets = change[n].targets /\ change'[n].results = change[n].results
        /\ \A m \in Changes : m # n => change'[m] = change[m]
    BY <1>1, <1>2 DEF Inv, RecordsOK, Change, Statuses
  <1>4. UNCHANGED <<place, saved, wanted, answer, prior, origin, alone, unsaved, task, faults>>
    BY DEF Reject, attempt, history
  <1>5. RecordsOK'  BY <1>3, <1>4 DEF Inv, RecordsOK
  <1> QED  BY <1>1, <1>3, <1>4, <1>5, RowStepKeeps

---------------------------------------------------------------------------
(* Theorems.                                                                 *)

LEMMA InitInv ==
    ASSUME Init
    PROVE  Inv
  <1>1. /\ place = [a \in Agents |-> NoGroup] /\ saved = place
        /\ wanted \in [Agents -> Version]
        /\ answer = [a \in Agents |-> IF wanted[a] = None THEN "none" ELSE "applied"]
        /\ prior = [a \in Agents |-> None] /\ change = [n \in Changes |-> NoChange]
        /\ origin = [n \in Changes |-> [a \in Agents |-> Unknown]] /\ alone = {} /\ unsaved = {}
        /\ task = [h \in Handlers |-> NoTask] /\ faults = 0
    BY DEF Init
  <1>2. /\ NoChange \in Change /\ NoChange.status = "absent"
        /\ \A a \in Agents : NoChange.results[a] = ""
    BY DEF NoChange, Change, Statuses, Operations, Place, Version, Results
  <1>3. Unknown \in Origin  BY DEF Unknown, Origin, Place, Version
  <1>4. RecordsOK
    <2>1. place \in [Agents -> Place] /\ saved \in [Agents -> Place]  BY <1>1 DEF Place
    <2>2. answer \in [Agents -> {"none", "sent", "applied", "failed"}]  BY <1>1
    <2>3. \A a \in Agents : wanted[a] = None <=> answer[a] = "none"  BY <1>1
    <2>4. prior \in [Agents -> Version]  BY <1>1 DEF Version
    <2>5. change \in [Changes -> Change]  BY <1>1, <1>2
    <2>6. origin \in [Changes -> [Agents -> Origin]]  BY <1>1, <1>3
    <2>7. task \in [Handlers -> Task]  BY <1>1, IdleTask
    <2> QED  BY <1>1, <2>1, <2>2, <2>3, <2>4, <2>5, <2>6, <2>7 DEF RecordsOK
  <1>5. \A h \in Handlers : ~Busy(h)  BY <1>1, IdleTask DEF Busy, At
  <1>6. RowsInv  BY <1>1, <1>2 DEF RowsInv
  <1>7. \A n \in Changes : Own(n) = {}  BY <1>1 DEF Own
  <1> QED  BY <1>1, <1>4, <1>5, <1>6, <1>7 DEF Inv, WorkInv, AloneInv, RowGood

LEMMA NextInv ==
    ASSUME Inv, EventOK, [Next]_vars
    PROVE  Inv' /\ EventOK'
  <1>1. CASE Batches /\ UNCHANGED others
    <2>1. EventOK'  BY <1>1 DEF others, EventOK
    <2>2. CASE \E n \in Changes, op \in Operations, source, target \in Place,
                 restore \in BOOLEAN, c \in Version, T \in Selections :
                   Propose(n, op, source, target, restore, c, T)
      <3>1. PICK n \in Changes, op \in Operations, source \in Place, target \in Place,
                 restore \in BOOLEAN, c \in Version, T \in Selections :
                   Propose(n, op, source, target, restore, c, T)
        BY <2>2
      <3>2. T \in SUBSET Agents  BY DEF Agents
      <3> QED  BY <2>1, <3>1, <3>2, ProposeKeeps
    <2>3. CASE \E n \in Changes : Reject(n)  BY <2>1, <2>3, RejectKeeps
    <2>4. CASE \E h \in Handlers, n \in Changes : Approve(h, n)  BY <2>1, <2>4, ApproveKeeps
    <2>5. CASE \E h \in Handlers : Step(h)
      <3>1. PICK h \in Handlers : Step(h)  BY <2>5
      <3> QED  BY <2>1, <3>1, CheckKeeps, DeliverKeeps, PlaceAgentKeeps, SnapshotKeeps,
                  UndoOneKeeps, ResnapshotKeeps, EvidenceKeeps, ConcludeKeeps DEF Step
    <2>6. CASE \E a \in Agents : Applies(a) \/ Rejects(a)
      BY <2>1, <2>6, AppliesKeeps, RejectsKeeps
    <2> QED  BY <1>1, <2>2, <2>3, <2>4, <2>5, <2>6 DEF Batches
  <1>2. CASE Others  BY <1>2, OthersKeep, EventTyped DEF Inv
  <1>3. CASE Restart
    <2>1. event' = NoEvent /\ writes' = writes  BY <1>3 DEF Restart
    <2> QED  BY <1>3, <2>1, RestartKeeps DEF EventOK
  <1>4. CASE UNCHANGED vars
    <2>1. event' = event /\ writes' = writes  BY <1>4 DEF vars, others
    <2> QED  BY <1>4, <2>1, StutterKeeps DEF EventOK
  <1> QED  BY <1>1, <1>2, <1>3, <1>4 DEF Next

(* The inductive invariant holds of every run, types included.               *)
THEOREM MembershipInvariant == Spec => [](Inv /\ TypeOK)
  <1>1. Init => Inv /\ EventOK  BY InitInv DEF Init, EventOK
  <1>2. Inv /\ EventOK /\ [Next]_vars => Inv' /\ EventOK'  BY NextInv
  <1>3. Inv /\ EventOK => Inv /\ TypeOK  BY DEF Inv, TypeOK
  <1> QED  BY <1>1, <1>2, <1>3, PTL DEF Spec

(* An approved change is carried out by one handler and once, although two   *)
(* handlers may have read it as pending: the update that starts it is taken  *)
(* from the status, and only its handler takes it on from there.             *)
THEOREM CarriedOutOnce == Spec => []ExecutedOnce
  <1>1. Inv => ExecutedOnce  BY DEF Inv, WorkInv, ExecutedOnce, Busy
  <1> QED  BY <1>1, MembershipInvariant, PTL

(* What a change says of its outcome is true: completed, every collector is  *)
(* where it was to go; failed, each is where it was; through restarts, next  *)
(* to changes of other collectors and to events and pages that write the     *)
(* records, unless these moved it themselves.                                *)
THEOREM OutcomeIsTrue == Spec => []PlacedOrRestored
  <1>1. Inv => PlacedOrRestored
    <2> SUFFICES ASSUME Inv, NEW n \in Changes, NEW a \in change[n].targets, <<n, a>> \in alone
                 PROVE  /\ change[n].status = "completed" => place[a] = change[n].target
                        /\ change[n].status = "failed" /\ Evident(n) /\ n \notin unsaved =>
                              place[a] = origin[n][a].place
      BY DEF PlacedOrRestored
    <2>1. a \in Own(n) /\ RowGood(n)  BY DEF Own, Inv
    <2> QED  BY <2>1 DEF RowGood, Gone, Back, Evident
  <1> QED  BY <1>1, MembershipInvariant, PTL

(* A collector reported as restored is to run what it ran before the change. *)
THEOREM RestorationIsTrue == Spec => []RestoredConfiguration
  <1>1. Inv => RestoredConfiguration
    <2> SUFFICES ASSUME Inv, NEW n \in Changes, NEW a \in change[n].targets,
                        change[n].results[a] = "restored", <<n, a>> \in alone, origin[n][a].settled
                 PROVE  wanted[a] = origin[n][a].config
      BY DEF RestoredConfiguration
    <2>1. a \in Own(n) /\ RowGood(n)  BY DEF Own, Inv
    <2> QED  BY <2>1 DEF RowGood, Returned
  <1> QED  BY <1>1, MembershipInvariant, PTL
=============================================================================
