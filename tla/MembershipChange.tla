-------------------------- MODULE MembershipChange --------------------------
(***************************************************************************)
(* Governed changes of collector membership: a proposal names collectors   *)
(* to assign, remove or move, its reviewer approves it, and the approving  *)
(* handler then carries it out one collector at a time: deliver a          *)
(* configuration, write the record back, and undo what was done when a     *)
(* later collector fails.  Two approved changes run side by side, and next *)
(* to them the others that write whole records of collectors: the event    *)
(* loop, and the pages that change a part of one.                          *)
(***************************************************************************)
EXTENDS Naturals, FiniteSets

CONSTANTS
    NumAgents,     \* collectors are 1 .. NumAgents, in the order of the form
    NumChanges,    \* proposals are 1 .. NumChanges, oldest first
    Groups,        \* groups with exclusive selectors
    Configs,       \* completed versions that a group may give
    Selections,    \* the sets of collectors that the form submits
    Handlers,      \* goroutines of HTTP requests
    MaxFaults,     \* bound on failed sends, failed writes and restarts
    MaxRequests,   \* bound on the proposals and the writes by others, together
    NoGroup, None

Agents  == 1 .. NumAgents
Changes == 1 .. NumChanges

ASSUME MembershipAssumption ==
    /\ NumAgents \in Nat /\ NumChanges \in Nat /\ MaxFaults \in Nat /\ MaxRequests \in Nat
    /\ Selections \subseteq SUBSET (1 .. NumAgents)
    /\ NoGroup \notin Groups /\ None \notin Configs

Place == Groups \cup {NoGroup}
Version == Configs \cup {None}

Operations == {"assign", "remove", "move"}
Statuses == {"absent", "pending_approval", "rejected", "executing", "completed", "failed"}
Results  == {"", "not_started", "completed", "failed", "restored", "rollback_failed"}

(* previous: the snapshot made with the proposal.  results: the column       *)
(* execution_results, with "" for every collector until it is written.       *)
Change == [status : Statuses, op : Operations, source : Place, target : Place,
           restore : BOOLEAN, config : Version, targets : SUBSET Agents,
           previous : [Agents -> Version], results : [Agents -> Results]]

Steps == {"idle", "check", "deliver", "place", "snapshot", "undo", "resnapshot",
          "evidence", "conclude"}

(* The checkpoints of a handler: what was read of each collector, and what   *)
(* was changed; i is the collector it is at.                                 *)
Task == [at : Steps, change : Nat, i : Nat, home : [Agents -> Place],
         previous : [Agents -> Version], placed : SUBSET Agents, configured : SUBSET Agents,
         results : [Agents -> Results], error : BOOLEAN]

(* The event loop at work: the place that the event's record will name, and  *)
(* whether it is written for a dynamic rule that followed the event.         *)
Event == [at : {"record", "join"}, agent : Agents, place : Place, joins : BOOLEAN]
NoEvent == [at |-> "idle"]

VARIABLES
    place,    \* the group that the record of each agent names
    saved,    \* the same in agents.json
    wanted,   \* the configuration of the newest attempt of each agent
    answer,   \* "none", "sent", "applied" or "failed": its status
    prior,    \* what its failure makes the server send again, if anything
    change,   \* the rows of membership_changes
    origin,   \* its collectors when each change was approved (history)
    alone,    \* the collectors that each change has had for itself (history)
    unsaved,  \* changes whose undoing could not be saved (history)
    task, faults,
    event, writes

attempt == <<wanted, answer, prior>>
history == <<origin, alone, unsaved>>
others == <<event, writes>>
vars == <<place, saved, attempt, change, history, task, faults, others>>

NoTask == [at |-> "idle", change |-> 0, i |-> 0, home |-> [a \in Agents |-> NoGroup],
           previous |-> [a \in Agents |-> None], placed |-> {}, configured |-> {},
           results |-> [a \in Agents |-> ""], error |-> FALSE]

Fault == faults < MaxFaults /\ faults' = faults + 1

Room == writes + Cardinality({n \in Changes : change[n].status # "absent"}) < MaxRequests

At(h, s) == task[h].at = s
Be(h, t) == task' = [task EXCEPT ![h] = t]
Row(h)   == change[task[h].change]

InFlight(a) == answer[a] = "sent"

---------------------------------------------------------------------------
(* Proposals.                                                                *)

(* membershipBaseline: what the newest completed assignment or move of the   *)
(* collector found there.                                                    *)
Joined(n, a) ==
    /\ change[n].status = "completed" /\ a \in change[n].targets
    /\ change[n].op \in {"assign", "move"}

Baseline(a) ==
    IF \E n \in Changes : Joined(n, a)
    THEN LET n == CHOOSE m \in Changes :
                     Joined(m, a) /\ \A k \in Changes : Joined(k, a) => k <= m
         IN change[n].previous[a]
    ELSE None

Previous(a, op, restore) ==
    IF op = "remove" /\ restore /\ Baseline(a) # None THEN Baseline(a) ELSE wanted[a]

(* The transition that a proposal asks for.                                  *)
WellFormed(op, source, target) ==
    CASE op = "assign" -> source = NoGroup /\ target # NoGroup
      [] op = "remove" -> source # NoGroup /\ target = NoGroup
      [] op = "move"   -> source # NoGroup /\ target # NoGroup /\ source # target

Propose(n, op, source, target, restore, c, T) ==
    /\ change[n].status = "absent" /\ (n > 1 => change[n - 1].status # "absent") /\ Room
    /\ WellFormed(op, source, target) /\ T # {}
    /\ \A a \in T : place[a] = source
    /\ op = "remove" => c = None
    /\ op # "remove" => ~restore
    /\ change' = [change EXCEPT ![n] =
          [status |-> "pending_approval", op |-> op, source |-> source, target |-> target,
           restore |-> restore, config |-> c, targets |-> T,
           previous |-> [a \in Agents |-> IF a \in T THEN Previous(a, op, restore) ELSE None],
           results |-> [a \in Agents |-> ""]]]
    /\ UNCHANGED <<place, saved, attempt, history, task, faults>>

(* Update writes if the row is still in the status it is taken from.         *)
\* Mutant: the update has no condition on the status.
MovesAlways(n, from) == change[n].status # "absent"

Moves(n, from) == change[n].status = from
Update(n, to) == change' = [change EXCEPT ![n].status = to]

Reject(n) ==
    /\ Moves(n, "pending_approval")
    /\ Update(n, "rejected")
    /\ UNCHANGED <<place, saved, attempt, history, task, faults>>

---------------------------------------------------------------------------
(* The approving handler.                                                    *)

IsLeast(a, S)    == a \in S /\ \A b \in S : a <= b
IsGreatest(a, S) == a \in S /\ \A b \in S : b <= a

(* Go on to the first collector of S at step s, or to step done.             *)
First(t, S, s, done) ==
    IF S = {} THEN [t EXCEPT !.at = done]
    ELSE [t EXCEPT !.at = s, !.i = CHOOSE a \in S : IsLeast(a, S)]

After(h) == {a \in Row(h).targets : a > task[h].i}

(* Where a collector was, what it was to run, and whether that was answered. *)
Origin  == [place : Place, config : Version, settled : BOOLEAN]
Unknown == [place |-> NoGroup, config |-> None, settled |-> FALSE]

(* A change has a collector for itself if nobody is at work on it, or has    *)
(* left it unsaved, and until another change begins on it.                   *)
Untouched(n) ==
    {a \in change[n].targets :
        /\ place[a] = saved[a]
        /\ \A k \in Handlers : ~At(k, "idle") => a \notin Row(k).targets}

Begun(n) == {pair \in alone : pair[2] \notin change[n].targets}
            \cup {<<n, a>> : a \in Untouched(n)}

Approve(h, n) ==
    /\ At(h, "idle") /\ Moves(n, "pending_approval")
    /\ Update(n, "executing")
    /\ Be(h, First([NoTask EXCEPT !.change = n,
                       !.results = [a \in Agents |-> IF a \in change[n].targets
                                                     THEN "not_started" ELSE ""]],
                   change[n].targets, "check", "deliver"))
    /\ origin' = [origin EXCEPT ![n] =
                     [a \in Agents |->
                         IF a \in change[n].targets
                         THEN [place |-> place[a], config |-> wanted[a], settled |-> ~InFlight(a)]
                         ELSE Unknown]]
    /\ alone' = Begun(n)
    /\ UNCHANGED <<place, saved, attempt, unsaved, faults>>

Mark(t, a, r) == [t EXCEPT !.results = [@ EXCEPT ![a] = r]]

Fails(t, a) == [Mark(t, a, "failed") EXCEPT !.error = TRUE]

(* Every collector is checked before any is changed.                         *)
Check(h) ==
    /\ At(h, "check")
    /\ LET t == task[h]
           a == t.i
           u == [t EXCEPT !.home = [@ EXCEPT ![a] = place[a]],
                          !.previous = [@ EXCEPT ![a] = wanted[a]]] IN
       /\ IF place[a] = Row(h).source
          THEN Be(h, IF After(h) = {} THEN First(u, Row(h).targets, "deliver", "snapshot")
                                      ELSE First(u, After(h), "check", "deliver"))
          ELSE Be(h, [Fails(t, a) EXCEPT !.at = "evidence"])
    /\ UNCHANGED <<place, saved, attempt, change, history, faults>>

(* deliverConfigurationWithRollback: already current, in flight, or sent.    *)
IsCurrent(a, c) == wanted[a] = c /\ answer[a] = "applied"

Send(a, c, back) ==
    /\ wanted' = [wanted EXCEPT ![a] = c]
    /\ prior' = [prior EXCEPT ![a] = back]
    /\ \/ answer' = [answer EXCEPT ![a] = "sent"] /\ UNCHANGED faults
       \/ answer' = [answer EXCEPT ![a] = "failed"] /\ Fault

Quiet == UNCHANGED <<attempt, faults>>

(* The configuration to deliver, None if there is none.                      *)
Chosen(h) ==
    IF Row(h).op = "remove"
    THEN IF Row(h).restore THEN Row(h).previous[task[h].i] ELSE None
    ELSE Row(h).config

(* After a failure, those before the collector are undone, last one first.   *)
Undo(t, S) ==
    IF S = {} THEN [t EXCEPT !.at = "resnapshot"]
    ELSE [t EXCEPT !.at = "undo", !.i = CHOOSE a \in S : IsGreatest(a, S)]

Before(h) == {a \in Row(h).targets : a < task[h].i}

Deliver(h) ==
    /\ At(h, "deliver")
    /\ LET t == task[h]
           a == t.i
           c == Chosen(h) IN
       IF c = None \/ IsCurrent(a, c) THEN Be(h, [t EXCEPT !.at = "place"]) /\ Quiet
       ELSE IF InFlight(a) THEN Be(h, Undo(Fails(t, a), Before(h))) /\ Quiet
       ELSE /\ Send(a, c, IF Row(h).op = "remove" THEN None ELSE t.previous[a])
            /\ Be(h, IF answer'[a] = "sent"
                     THEN [t EXCEPT !.at = "place", !.configured = @ \cup {a}]
                     ELSE Undo(Fails(t, a), Before(h)))
    /\ UNCHANGED <<place, saved, change, history>>

(* The record that was read at the check is written back with its new group, *)
(* whatever others have written there in between.                            *)
PlaceAgent(h) ==
    /\ At(h, "place")
    /\ LET a == task[h].i IN
       /\ place' = [place EXCEPT ![a] = Row(h).target]
       /\ Be(h, First([Mark(task[h], a, "completed") EXCEPT !.placed = @ \cup {a}],
                      After(h), "deliver", "snapshot"))
    /\ UNCHANGED <<saved, attempt, change, history, faults>>

Snapshot(h) ==
    /\ At(h, "snapshot")
    /\ \/ /\ saved' = place /\ UNCHANGED faults
          /\ Be(h, [task[h] EXCEPT !.at = "evidence"])
       \/ /\ Fault /\ UNCHANGED saved
          /\ Be(h, Undo([task[h] EXCEPT !.error = TRUE], Row(h).targets))
    /\ UNCHANGED <<place, attempt, change, history>>

(* rollbackMembershipBatch, one checkpoint: the record, then the             *)
(* configuration, which can only be sent once the attempt it undoes is over. *)
\* Mutants: the record is kept; an unrecorded configuration is sent back.
UndoConfiguration(h) ==
    /\ At(h, "undo")
    /\ LET t == task[h]
           a == t.i
           c == t.previous[a]
           Go(r) == Be(h, Undo(Mark(t, a, r), Before(h))) IN
       IF a \notin t.configured \/ (c # None /\ IsCurrent(a, c))
       THEN Go("restored") /\ Quiet
       ELSE IF c = None \/ InFlight(a) THEN Go("rollback_failed") /\ Quiet
       ELSE /\ Send(a, c, None)
            /\ Go(IF answer'[a] = "sent" THEN "restored" ELSE "rollback_failed")
    /\ UNCHANGED <<place, saved, change, history>>

UndoUnasked(h) ==
    /\ At(h, "undo")
    /\ LET t == task[h]
           a == t.i IN
       /\ place' = IF a \in t.placed THEN [place EXCEPT ![a] = t.home[a]] ELSE place
       /\ Be(h, Undo(Mark(t, a, "restored"), Before(h)))
       /\ IF a \notin t.configured \/ InFlight(a) THEN Quiet
          ELSE Send(a, t.previous[a], None)
    /\ UNCHANGED <<saved, change, history>>

UndoOne(h) ==
    /\ At(h, "undo")
    /\ LET t == task[h]
           a == t.i
           c == t.previous[a]
           Go(r) == Be(h, Undo(Mark(t, a, r), Before(h))) IN
       /\ place' = IF a \in t.placed THEN [place EXCEPT ![a] = t.home[a]] ELSE place
       /\ IF a \notin t.configured \/ (c # None /\ IsCurrent(a, c))
          THEN Go("restored") /\ Quiet
          ELSE IF c = None \/ InFlight(a) THEN Go("rollback_failed") /\ Quiet
          ELSE /\ Send(a, c, None)
               /\ Go(IF answer'[a] = "sent" THEN "restored" ELSE "rollback_failed")
    /\ UNCHANGED <<saved, change, history>>

(* A second failure to save is only told.                                    *)
Resnapshot(h) ==
    /\ At(h, "resnapshot")
    /\ \/ saved' = place /\ UNCHANGED <<faults, unsaved>>
       \/ Fault /\ unsaved' = unsaved \cup {task[h].change} /\ UNCHANGED saved
    /\ Be(h, [task[h] EXCEPT !.at = "evidence"])
    /\ UNCHANGED <<place, attempt, change, origin, alone>>

(* SaveExecutionResults.                                                     *)
Evidence(h) ==
    /\ At(h, "evidence")
    /\ \/ /\ change' = [change EXCEPT ![task[h].change].results = task[h].results]
          /\ Be(h, [task[h] EXCEPT !.at = "conclude"]) /\ UNCHANGED faults
       \/ /\ Fault /\ UNCHANGED change
          /\ Be(h, [task[h] EXCEPT !.at = "conclude", !.error = TRUE])
    /\ UNCHANGED <<place, saved, attempt, history>>

(* The last update writes no reviewer: it empties reviewed_by.               *)
Conclude(h) ==
    /\ At(h, "conclude")
    /\ LET n == task[h].change IN
       IF Moves(n, "executing") THEN Update(n, IF task[h].error THEN "failed" ELSE "completed")
       ELSE UNCHANGED change
    /\ Be(h, NoTask)
    /\ UNCHANGED <<place, saved, attempt, history, faults>>

---------------------------------------------------------------------------
(* The rest of the server and the fleet.                                     *)

(* The agent's answer; a failure of what was deployed over another           *)
(* configuration makes the status loop send that one again.                  *)
Applies(a) ==
    /\ InFlight(a)
    /\ answer' = [answer EXCEPT ![a] = "applied"]
    /\ UNCHANGED <<place, saved, wanted, prior, change, history, task, faults>>

Rejects(a) ==
    /\ InFlight(a)
    /\ IF prior[a] = None
       THEN answer' = [answer EXCEPT ![a] = "failed"] /\ UNCHANGED <<wanted, prior, faults>>
       ELSE Send(a, prior[a], None)
    /\ UNCHANGED <<place, saved, change, history, task>>

---------------------------------------------------------------------------
(* The others who write the record of a collector.  Nothing orders them and  *)
(* a batch.                                                                  *)

Writes == Room /\ writes' = writes + 1

(* A change has no longer for itself a collector that another one moves or   *)
(* gives a configuration.                                                    *)
Lost(a) == alone' = {pair \in alone : pair[2] # a}

Put(a, p) ==
    /\ place' = [place EXCEPT ![a] = p]
    /\ IF place[a] = p THEN UNCHANGED alone ELSE Lost(a)

(* saveAgentSnapshot writes all records, or fails and says so.               *)
SaveAll == saved' = place' \/ UNCHANGED saved

(* An event, or a request that changes another part of the record, which     *)
(* nobody comes between: it writes the place back that it read.              *)
OtherSave ==
    /\ saved # place /\ saved' = place
    /\ UNCHANGED <<place, attempt, change, history, task, faults, others>>

(* Otherwise the event loop reads the record here, copies its group into the *)
(* event's, and writes that whole later on.                                  *)
ReadRecord(a) ==
    /\ event = NoEvent /\ Writes
    /\ event' = [at |-> "record", agent |-> a, place |-> place[a], joins |-> FALSE]
    /\ UNCHANGED <<place, saved, attempt, change, history, task, faults>>

(* The connected collector of an event without a group goes on to its        *)
(* dynamic rules; when the write of their group cannot be saved, the group   *)
(* is taken back.                                                            *)
WriteRecord ==
    /\ event # NoEvent /\ event.at = "record"
    /\ \/ /\ Put(event.agent, event.place) /\ SaveAll
          /\ event' = IF event.joins \/ event.place # NoGroup \/ saved' # place' THEN NoEvent
                      ELSE [event EXCEPT !.at = "join"]
       \/ /\ event.joins /\ Put(event.agent, NoGroup)
          /\ event' = NoEvent /\ UNCHANGED saved
    /\ UNCHANGED <<attempt, change, origin, unsaved, task, faults, writes>>

(* reconcileDynamicGroupMembership: none or several rules match, or one      *)
(* group's does, and its approved configuration c, if it has one, is         *)
(* delivered before the record is written.  Which rules match is left open,  *)
(* the exclusions that a removal leaves behind with it.                      *)
StaysOut ==
    /\ event # NoEvent /\ event.at = "join" /\ event' = NoEvent
    /\ UNCHANGED <<place, saved, attempt, change, history, task, faults, writes>>

JoinGroup(g, c) ==
    /\ event # NoEvent /\ event.at = "join"
    /\ LET a == event.agent
           joins == [event EXCEPT !.at = "record", !.place = g, !.joins = TRUE]
       IN IF c = None \/ IsCurrent(a, c) THEN event' = joins /\ Quiet /\ UNCHANGED alone
          ELSE IF InFlight(a) THEN event' = NoEvent /\ Quiet /\ UNCHANGED alone
          ELSE /\ Send(a, c, None) /\ Lost(a)
               /\ event' = IF answer'[a] = "sent" THEN joins ELSE NoEvent
    /\ UNCHANGED <<place, saved, change, origin, unsaved, task, writes>>

(* POST /agents/{uid}/group replaces the group, whatever it was read as.     *)
AssignGroup(a, g) ==
    /\ Writes /\ Put(a, g) /\ SaveAll
    /\ UNCHANGED <<attempt, change, origin, unsaved, task, faults, event>>

(* The records come back from the file; nobody resumes a change.             *)
Restart ==
    /\ Fault
    /\ place' = saved /\ task' = [h \in Handlers |-> NoTask] /\ event' = NoEvent
    /\ UNCHANGED <<saved, attempt, change, history, writes>>

---------------------------------------------------------------------------

NoChange == [status |-> "absent", op |-> "assign", source |-> NoGroup, target |-> NoGroup,
             restore |-> FALSE, config |-> None, targets |-> {},
             previous |-> [a \in Agents |-> None], results |-> [a \in Agents |-> ""]]

(* Collectors connect without a group, with a configuration that works or    *)
(* without one.                                                              *)
Init ==
    /\ place = [a \in Agents |-> NoGroup] /\ saved = place
    /\ wanted \in [Agents -> Version]
    /\ answer = [a \in Agents |-> IF wanted[a] = None THEN "none" ELSE "applied"]
    /\ prior = [a \in Agents |-> None]
    /\ change = [n \in Changes |-> NoChange]
    /\ origin = [n \in Changes |-> [a \in Agents |-> Unknown]] /\ alone = {} /\ unsaved = {}
    /\ task = [h \in Handlers |-> NoTask]
    /\ faults = 0 /\ event = NoEvent /\ writes = 0

Step(h) ==
    \/ Check(h) \/ Deliver(h) \/ PlaceAgent(h) \/ Snapshot(h) \/ UndoOne(h)
    \/ Resnapshot(h) \/ Evidence(h) \/ Conclude(h)

Batches ==
    \/ \E n \in Changes, op \in Operations, source, target \in Place, restore \in BOOLEAN,
         c \in Version, T \in Selections : Propose(n, op, source, target, restore, c, T)
    \/ \E n \in Changes : Reject(n)
    \/ \E h \in Handlers, n \in Changes : Approve(h, n)
    \/ \E h \in Handlers : Step(h)
    \/ \E a \in Agents : Applies(a) \/ Rejects(a)

Others ==
    \/ OtherSave
    \/ \E a \in Agents : ReadRecord(a) \/ \E g \in Groups : AssignGroup(a, g)
    \/ WriteRecord \/ StaysOut
    \/ \E g \in Groups, c \in Version : JoinGroup(g, c)

Next == (Batches /\ UNCHANGED others) \/ Others \/ Restart

Spec == Init /\ [][Next]_vars

---------------------------------------------------------------------------
(* Properties.                                                               *)

RecordsOK ==
    /\ place \in [Agents -> Place] /\ saved \in [Agents -> Place]
    /\ wanted \in [Agents -> Version]
    /\ answer \in [Agents -> {"none", "sent", "applied", "failed"}]
    /\ \A a \in Agents : wanted[a] = None <=> answer[a] = "none"
    /\ prior \in [Agents -> Version]
    /\ change \in [Changes -> Change]
    /\ origin \in [Changes -> [Agents -> Origin]]
    /\ alone \subseteq Changes \X Agents /\ unsaved \subseteq Changes
    /\ task \in [Handlers -> Task]
    /\ faults \in Nat

EventOK == event \in Event \cup {NoEvent} /\ writes \in Nat

(* Every variable has its type; an agent has a configuration exactly when an *)
(* attempt was made.                                                         *)
TypeOK == RecordsOK /\ EventOK

(* An approved change is carried out by one handler and once, although two   *)
(* handlers may have read it as pending.                                     *)
ExecutedOnce ==
    /\ \A h \in Handlers : ~At(h, "idle") => Row(h).status = "executing"
    /\ \A h, k \in Handlers :
          ~At(h, "idle") /\ ~At(k, "idle") /\ task[h].change = task[k].change => h = k

Evident(n) == \A a \in change[n].targets : change[n].results[a] # ""

(* All or nothing: after a completed change every collector is in the group  *)
(* it was to go to, and after a failed one, as far as its evidence and the   *)
(* file could be written, every collector is where it was; through restarts  *)
(* and next to changes of other collectors and the events of this one.  It   *)
(* is asked of the collectors that the change has for itself.  An event read *)
(* before a collector is placed and written after it undoes the placement,   *)
(* and the change stays completed: the code has nothing against it, and such *)
(* a collector no longer counts, nor one that somebody else moved.           *)
PlacedOrRestored ==
    \A n \in Changes : \A a \in change[n].targets : <<n, a>> \in alone =>
        /\ change[n].status = "completed" => place[a] = change[n].target
        /\ change[n].status = "failed" /\ Evident(n) /\ n \notin unsaved =>
              place[a] = origin[n][a].place

(* A collector reported as restored is to run the configuration that it ran  *)
(* before the change, also when its agent refuses what is sent back.  One    *)
(* that had an attempt under way then may have had it rolled back since, and *)
(* a dynamic rule may have given it another.                                 *)
RestoredConfiguration ==
    \A n \in Changes : \A a \in change[n].targets :
        change[n].results[a] = "restored" /\ <<n, a>> \in alone /\ origin[n][a].settled =>
            wanted[a] = origin[n][a].config
=============================================================================
