------------------------ MODULE AgentInventoryProofs ------------------------
(***************************************************************************)
(* What holds of the agent's record for any number of goroutines.          *)
(***************************************************************************)
EXTENDS AgentInventory, FiniteSetTheorems, TLAPS

USE AgentInventoryAssumption, MarkersAssumption

LEMMA ProcsFinite == IsFiniteSet(Procs) /\ Cardinality(Procs) \in Nat
  <1>1. IsFiniteSet(Handlers \cup {Loop})
    BY FS_AddElement
  <1>2. IsFiniteSet((Handlers \cup {Loop}) \cup {Retirer})
    BY <1>1, FS_AddElement
  <1>3. Procs = (Handlers \cup {Loop}) \cup {Retirer}
    BY DEF Procs
  <1> QED BY <1>2, <1>3, FS_CardinalityType

(* While p has no file open and there is no temporary file, the others use   *)
(* at most one inode each and the snapshot one.                              *)
LEMMA InodeLeft ==
    ASSUME TypeOK, tmp = Absent
    PROVE  \E i \in Inodes : i \in Unused
  <1> DEFINE fd == [p \in Procs |-> task[p].fd]
             Held == {fd[p] : p \in Procs}
             Used == Held \cup {dst}
  <1>1. fd \in Surjection(Procs, Held)
    BY DEF Surjection
  <1>2. IsFiniteSet(Held) /\ Cardinality(Held) <= Cardinality(Procs)
    BY <1>1, ProcsFinite, FS_Surjection
  <1>3. IsFiniteSet(Used) /\ Cardinality(Used) <= Cardinality(Procs) + 1
    <2>1. Cardinality(Held) \in Nat
      BY <1>2, FS_CardinalityType
    <2>2. /\ IsFiniteSet(Held \cup {dst})
          /\ Cardinality(Held \cup {dst})
                = IF dst \in Held THEN Cardinality(Held) ELSE Cardinality(Held) + 1
      BY <1>2, FS_AddElement
    <2> HIDE DEF Held
    <2> QED BY <1>2, <2>1, <2>2, ProcsFinite
  <1>4. Cardinality(Inodes) = Cardinality(Procs) + 2
    BY ProcsFinite, FS_Interval DEF Inodes
  <1>5. PICK i \in Inodes : i \notin Used
    <2>1. SUFFICES ASSUME Inodes \subseteq Used PROVE FALSE
      OBVIOUS
    <2>2. Cardinality(Inodes) <= Cardinality(Used)
      BY <2>1, <1>3, FS_Subset
    <2>3. Cardinality(Used) \in Nat
      BY <1>3, FS_CardinalityType
    <2> QED BY <2>2, <2>3, <1>3, <1>4, ProcsFinite
  <1>6. \A p \in Procs : task[p].fd # i
    BY <1>5
  <1>7. i # tmp /\ i # dst
    BY <1>5
  <1> QED BY <1>5, <1>6, <1>7 DEF Unused

LEMMA OpenInode ==
    ASSUME TypeOK, NEW p \in Procs, Open(p)
    PROVE  /\ tmp' \in Inodes
           /\ tmp = Absent => tmp' # dst
           /\ tmp # Absent => tmp' = tmp
  <1>1. CASE tmp = Absent
    <2>1. (CHOOSE i \in Unused : TRUE) \in Unused
      BY <1>1, InodeLeft
    <2> QED BY <1>1, <2>1 DEF Open, Unused
  <1>2. CASE tmp # Absent
    BY <1>2 DEF Open, TypeOK
  <1> QED BY <1>1, <1>2

---------------------------------------------------------------------------
(* Types.                                                                    *)

LEMMA NoTaskType == NoTask \in Task
  BY DEF NoTask, Task, Stored

LEMMA AbsentStored == Absent \in Stored
  BY DEF Stored

LEMMA EditStored ==
    ASSUME NEW r \in Stored, r # Absent, NEW g \in Groups \cup {NoGroup}
    PROVE  [r EXCEPT !.group = g] \in Agent /\ [r EXCEPT !.group = g].status = r.status
  BY DEF Stored, Agent

LEMMA BeginType ==
    ASSUME TypeOK, NEW p \in Procs, NEW copy \in Stored, NEW prev \in Stored,
           NEW op \in {"event", "join", "retire", "group", "rename", "delete"},
           Begin(p, op, copy, prev)
    PROVE  task' \in [Procs -> Task]
  <1> DEFINE b == [NoTask EXCEPT !.op = op, !.at = "write", !.copy = copy,
                       !.prev = IF PutsBack(op) THEN prev ELSE Absent]
  <1>1. b \in Task
    BY DEF NoTask, Task, Stored
  <1>2. task' = [task EXCEPT ![p] = b]
    BY DEF Begin
  <1> QED BY <1>1, <1>2 DEF TypeOK

LEMMA GotoType ==
    ASSUME TypeOK, NEW p \in Procs,
           NEW s \in {"idle", "deliver", "write", "list", "open", "fill", "move", "restore"}
    PROVE  [task EXCEPT ![p].at = s] \in [Procs -> Task]
  <1> DEFINE v == [task[p] EXCEPT !.at = s]
  <1>1. v \in Task
    <2>1. task[p] \in Task
      BY DEF TypeOK
    <2> QED BY <2>1 DEF Task
  <1>2. [task EXCEPT ![p].at = s] = [task EXCEPT ![p] = v]
    OBVIOUS
  <1> HIDE DEF v
  <1> QED BY <1>1, <1>2 DEF TypeOK

LEMMA DoneType ==
    ASSUME TypeOK, NEW p \in Procs
    PROVE  [task EXCEPT ![p] = NoTask] \in [Procs -> Task]
  BY NoTaskType DEF TypeOK

LEMMA RunningProcs == Running \subseteq Procs /\ Loop \in Procs /\ Retirer \in Procs
  BY DEF Procs

LEMMA LoadedType ==
    ASSUME NEW d \in Stored \cup {Empty, Torn}
    PROVE  Loaded(d) \in Stored /\ ~Connected(Loaded(d))
  BY DEF Loaded, Unreadable, Stored, Agent, Connected
---------------------------------------------------------------------------
(* The invariant.  A goroutine that moves on, or is done, holds nothing new. *)

LEMMA BeginKeeps ==
    ASSUME TypeOK, EventKept, CopiesHeard, NEW p \in Procs,
           NEW copy \in Stored, NEW prev \in Stored,
           NEW op \in {"event", "join", "retire", "group", "rename", "delete"},
           Begin(p, op, copy, prev), heard => heard',
           op = "event" => copy # Absent,
           Connected(copy) => heard',
           PutsBack(op) /\ Connected(prev) => heard'
    PROVE  EventKept' /\ CopiesHeard'
  <1> DEFINE b == [NoTask EXCEPT !.op = op, !.at = "write", !.copy = copy,
                       !.prev = IF PutsBack(op) THEN prev ELSE Absent]
  <1>1. /\ b.op = op /\ b.at = "write" /\ b.copy = copy
        /\ b.prev = IF PutsBack(op) THEN prev ELSE Absent
    BY DEF NoTask
  <1>2. /\ task'[p] = b
        /\ \A q \in Procs \ {p} : task'[q] = task[q]
    BY DEF Begin, TypeOK
  <1> HIDE DEF b
  <1>3. EventKept'
    BY <1>1, <1>2 DEF EventKept
  <1>4. CopiesHeard'
    BY <1>1, <1>2 DEF CopiesHeard, Connected
  <1> QED BY <1>3, <1>4

LEMMA MovesOn ==
    ASSUME TypeOK, EventKept, CopiesHeard, NEW p \in Procs, NEW t \in Task,
           t.op = task[p].op, t.copy = task[p].copy, t.prev = task[p].prev,
           t.at # "deliver", task' = [task EXCEPT ![p] = t], heard' = heard
    PROVE  EventKept' /\ CopiesHeard' /\ task' \in [Procs -> Task]
  <1>1. task' \in [Procs -> Task]
    BY DEF TypeOK
  <1>2. \A q \in Procs : task'[q] = IF q = p THEN t ELSE task[q]
    BY DEF TypeOK
  <1> QED BY <1>1, <1>2 DEF EventKept, CopiesHeard, Connected

LEMMA GotoKeeps ==
    ASSUME TypeOK, EventKept, CopiesHeard, NEW p \in Procs,
           NEW s \in {"list", "open", "fill", "move", "restore", "deliver"},
           Goto(p, s), heard' = heard, s = "deliver" => task[p].op = "event"
    PROVE  EventKept' /\ CopiesHeard' /\ task' \in [Procs -> Task]
  <1>1. task' \in [Procs -> Task]
    BY GotoType DEF Goto
  <1>2. \A q \in Procs : /\ task'[q].op = task[q].op /\ task'[q].copy = task[q].copy
                        /\ task'[q].prev = task[q].prev
                        /\ task'[q].at = IF q = p THEN s ELSE task[q].at
    BY DEF Goto, TypeOK, Task
  <1> QED BY <1>1, <1>2 DEF EventKept, CopiesHeard, Connected

LEMMA DoneKeeps ==
    ASSUME TypeOK, EventKept, CopiesHeard, NEW p \in Procs, Done(p), heard' = heard
    PROVE  EventKept' /\ CopiesHeard' /\ task' \in [Procs -> Task]
  <1>1. task' \in [Procs -> Task]
    BY DoneType DEF Done
  <1>2. \A q \in Procs : task'[q] = IF q = p THEN NoTask ELSE task[q]
    BY DEF Done, TypeOK
  <1> QED BY <1>1, <1>2 DEF EventKept, CopiesHeard, Connected, NoTask

LEMMA SaveFailsKeeps ==
    ASSUME TypeOK, EventKept, CopiesHeard, NEW p \in Procs, SaveFails(p), heard' = heard
    PROVE  EventKept' /\ CopiesHeard' /\ task' \in [Procs -> Task]
  BY GotoKeeps, DoneKeeps DEF SaveFails

LEMMA TypeFrame ==
    ASSUME TypeOK, UNCHANGED <<link, events, files, heard, counts>>,
           store' \in Stored, task' \in [Procs -> Task]
    PROVE  TypeOK'
  BY DEF TypeOK, files, counts

---------------------------------------------------------------------------

LEMMA InitInv == Init => InventoryInv
  <1> SUFFICES ASSUME Init PROVE InventoryInv
    OBVIOUS
  <1>1. TypeOK
    <2>1. events \in Seq(EventType) /\ store \in Stored
      BY DEF Init, Stored
    <2>2. task \in [Procs -> Task]
      BY NoTaskType DEF Init
    <2>3. data \in [Inodes -> Stored \cup {Empty, Torn}]
      BY DEF Init
    <2> QED BY <2>1, <2>2, <2>3 DEF Init, TypeOK
  <1>2. \A p \in Procs : task[p] = NoTask
    BY DEF Init
  <1> QED BY <1>1, <1>2 DEF Init, InventoryInv, EventKept, CopiesHeard, ConnectedIsHeard,
                            Connected, NoTask

LEMMA SignalInv ==
    ASSUME InventoryInv, Connect \/ Update \/ Close
    PROVE  InventoryInv'
  <1>1. events' \in Seq(EventType)
    BY SMTT(30) DEF InventoryInv, TypeOK, Connect, Update, Close, Signal, EventType
  <1>2. UNCHANGED <<store, task, data, tmp, dst, heard, requests, faults>>
    BY DEF Connect, Update, Close, files, counts
  <1>3. link' \in BOOLEAN
    BY DEF InventoryInv, TypeOK, Connect, Update, Close
  <1>4. closes' \in Nat
    BY DEF InventoryInv, TypeOK, Connect, Update, Close, counts
  <1>5. TypeOK'
    BY <1>1, <1>2, <1>3, <1>4 DEF InventoryInv, TypeOK
  <1> QED BY <1>2, <1>5 DEF InventoryInv, EventKept, CopiesHeard, ConnectedIsHeard, Connected

LEMMA TakeEventInv ==
    ASSUME InventoryInv, TakeEvent
    PROVE  InventoryInv'
  <1> DEFINE copy == [status |-> StatusAfter(Head(events)), group |-> Preserved]
  <1>1. Head(events) \in EventType /\ events' \in Seq(EventType)
    BY DEF InventoryInv, TypeOK, TakeEvent
  <1>2. copy \in Agent /\ copy \in Stored /\ copy # Absent
    BY DEF StatusAfter, Preserved, InventoryInv, TypeOK, Stored, Agent
  <1>3. Begin(Loop, "event", copy, store) /\ store \in Stored /\ Loop \in Procs
    BY RunningProcs DEF TakeEvent, InventoryInv, TypeOK
  <1>4. Connected(copy) => heard'
    BY <1>1 DEF TakeEvent, Connected, StatusAfter, EventType
  <1>5. task' \in [Procs -> Task]
    BY <1>2, <1>3, BeginType DEF InventoryInv
  <1>6. EventKept' /\ CopiesHeard'
    <2>1. heard => heard'
      BY DEF TakeEvent
    <2> QED BY <1>2, <1>3, <1>4, <2>1, BeginKeeps DEF InventoryInv, PutsBack
  <1>7. TypeOK'
    BY <1>1, <1>5 DEF InventoryInv, TypeOK, TakeEvent, files, counts
  <1>8. ConnectedIsHeard'
    BY DEF InventoryInv, ConnectedIsHeard, Connected, TakeEvent
  <1> QED BY <1>6, <1>7, <1>8 DEF InventoryInv

LEMMA RequestInv ==
    ASSUME InventoryInv, NEW p \in Procs,
           NEW copy \in Stored, NEW op \in {"retire", "group", "rename", "delete"},
           Begin(p, op, copy, store), Connected(copy) => Connected(store),
           UNCHANGED <<link, events, store, files, heard, closes, faults>>,
           requests' \in Nat
    PROVE  InventoryInv'
  <1>1. store \in Stored /\ heard' = heard
    BY DEF InventoryInv, TypeOK
  <1>2. task' \in [Procs -> Task]
    BY <1>1, BeginType DEF InventoryInv
  <1>3. EventKept' /\ CopiesHeard'
    BY <1>1, BeginKeeps DEF InventoryInv, ConnectedIsHeard
  <1>4. TypeOK'
    BY <1>2 DEF InventoryInv, TypeOK, files
  <1> QED BY <1>1, <1>3, <1>4 DEF InventoryInv, ConnectedIsHeard, Connected

LEMMA EditInv ==
    ASSUME InventoryInv, NEW p \in Procs, NEW op \in {"group", "rename"},
           NEW g \in Groups, Edit(p, op, g)
    PROVE  InventoryInv'
  <1>1. store \in Stored /\ store # Absent
    BY DEF InventoryInv, TypeOK, Edit
  <1>2. [store EXCEPT !.group = g] \in Stored /\ [store EXCEPT !.group = g].status = store.status
    BY <1>1, EditStored DEF Stored
  <1>3. Connected([store EXCEPT !.group = g]) => Connected(store)
    BY <1>1, <1>2 DEF Connected
  <1>4. requests' \in Nat
    BY DEF InventoryInv, TypeOK, Edit
  <1>5. /\ Begin(p, op, [store EXCEPT !.group = g], store)
        /\ UNCHANGED <<link, events, store, files, heard, closes, faults>>
    BY DEF Edit
  <1> QED BY <1>2, <1>3, <1>4, <1>5, RequestInv

LEMMA StartDeleteInv ==
    ASSUME InventoryInv, NEW p \in Procs, StartDelete(p)
    PROVE  InventoryInv'
  <1>1. requests' \in Nat
    BY DEF InventoryInv, TypeOK, StartDelete
  <1>2. /\ Begin(p, "delete", Absent, store)
        /\ UNCHANGED <<link, events, store, files, heard, closes, faults>>
    BY DEF StartDelete
  <1>3. ~Connected(Absent)
    BY DEF Connected
  <1> QED BY <1>1, <1>2, <1>3, AbsentStored, RequestInv

LEMMA RetireInv ==
    ASSUME InventoryInv, Retire
    PROVE  InventoryInv'
  <1> DEFINE copy == [store EXCEPT !.status = "retired"]
  <1>1. copy \in Stored /\ copy.status = "retired"
    BY DEF InventoryInv, TypeOK, Retire, Stored, Agent
  <1>2. ~Connected(copy)
    BY <1>1 DEF Connected
  <1>3. /\ Begin(Retirer, "retire", copy, store)
        /\ UNCHANGED <<link, events, store, files, heard, closes, faults>>
        /\ requests' \in Nat
    BY DEF Retire, counts, InventoryInv, TypeOK
  <1> HIDE DEF copy
  <1> QED BY <1>1, <1>2, <1>3, RunningProcs, RequestInv

LEMMA WriteInv ==
    ASSUME InventoryInv, NEW p \in Procs, Write(p)
    PROVE  InventoryInv'
  <1>1. task[p] \in Task /\ heard' = heard
    BY DEF InventoryInv, TypeOK, Write
  <1>2. CASE Done(p) /\ UNCHANGED store
    <2>1. EventKept' /\ CopiesHeard' /\ task' \in [Procs -> Task]
      BY <1>1, <1>2, DoneKeeps DEF InventoryInv
    <2>2. TypeOK'
      BY <1>2, <2>1, TypeFrame DEF InventoryInv, Write, TypeOK
    <2> QED BY <1>1, <1>2, <2>1, <2>2 DEF InventoryInv, ConnectedIsHeard, Connected
  <1>3. CASE Written(p) /\ store' = task[p].copy
    <2>1. task' \in [Procs -> Task]
      <3> DEFINE c == IF task[p].op = "event" THEN task[p].copy ELSE Absent
                 v == [task[p] EXCEPT !.at = "list", !.copy = c]
      <3>1. c \in Stored
        BY <1>1, AbsentStored DEF Task
      <3> HIDE DEF c
      <3>2. v \in Task
        BY <1>1, <3>1 DEF Task
      <3>3. task' = [task EXCEPT ![p] = v]
        BY <1>3 DEF Written, c
      <3> HIDE DEF v
      <3> QED BY <3>2, <3>3 DEF InventoryInv, TypeOK
    <2>2. \A q \in Procs :
             /\ task'[q].op = task[q].op /\ task'[q].prev = task[q].prev
             /\ task'[q].at = IF q = p THEN "list" ELSE task[q].at
             /\ task'[q].copy = task[q].copy \/ (task[q].op # "event" /\ task'[q].copy = Absent)
      BY <1>1, <1>3 DEF Written, InventoryInv, TypeOK, Task
    <2>3. EventKept' /\ CopiesHeard'
      BY <1>1, <2>2 DEF InventoryInv, EventKept, CopiesHeard, Connected
    <2>4. store' \in Stored
      BY <1>1, <1>3 DEF Task
    <2>5. TypeOK'
      BY <2>1, <2>4, TypeFrame DEF InventoryInv, Write
    <2>6. ConnectedIsHeard'
      BY <1>1, <1>3 DEF InventoryInv, CopiesHeard, ConnectedIsHeard, Connected
    <2> QED BY <2>3, <2>5, <2>6 DEF InventoryInv
  <1> QED BY <1>2, <1>3 DEF Write

LEMMA ListInv ==
    ASSUME InventoryInv, NEW p \in Procs, List(p)
    PROVE  InventoryInv'
  <1> DEFINE t == [task[p] EXCEPT !.at = "open", !.list = store]
  <1>1. store \in Stored
    BY DEF InventoryInv, TypeOK
  <1>2. task[p] \in Task
    BY DEF InventoryInv, TypeOK
  <1>3. /\ t \in Task /\ t.op = task[p].op /\ t.copy = task[p].copy
        /\ t.prev = task[p].prev /\ t.at # "deliver"
    BY <1>1, <1>2, ZenonT(30) DEF Task, Stored
  <1>4. task' = [task EXCEPT ![p] = t] /\ UNCHANGED <<store, heard>>
    BY <1>2 DEF List, InventoryInv, TypeOK
  <1>5. EventKept' /\ CopiesHeard' /\ task' \in [Procs -> Task]
    <2> HIDE DEF t
    <2> QED BY <1>3, <1>4, MovesOn DEF InventoryInv
  <1>7. TypeOK'
    BY <1>1, <1>4, <1>5, TypeFrame DEF InventoryInv, List
  <1> QED BY <1>4, <1>5, <1>7 DEF InventoryInv, ConnectedIsHeard, Connected

LEMMA OpenInv ==
    ASSUME InventoryInv, NEW p \in Procs, Open(p)
    PROVE  InventoryInv'
  <1> DEFINE t == [task[p] EXCEPT !.at = "fill", !.fd = tmp']
  <1>1. tmp' \in Inodes
    BY OpenInode DEF InventoryInv
  <1>2. task[p] \in Task
    BY DEF InventoryInv, TypeOK
  <1>3. /\ t \in Task /\ t.op = task[p].op /\ t.copy = task[p].copy
        /\ t.prev = task[p].prev /\ t.at # "deliver"
    BY <1>1, <1>2 DEF Task, Stored
  <1>4. task' = [task EXCEPT ![p] = t] /\ UNCHANGED <<store, heard>>
    <2>1. task' = [task EXCEPT ![p].at = "fill", ![p].fd = tmp']
      BY DEF Open
    <2>2. [task EXCEPT ![p].at = "fill", ![p].fd = tmp'] = [task EXCEPT ![p] = t]
      BY <1>2 DEF InventoryInv, TypeOK
    <2> QED BY <2>1, <2>2 DEF Open
  <1>5. EventKept' /\ CopiesHeard' /\ task' \in [Procs -> Task]
    <2> HIDE DEF t
    <2> QED BY <1>3, <1>4, MovesOn DEF InventoryInv
  <1>6. data' \in [Inodes -> Stored \cup {Empty, Torn}]
    BY <1>1 DEF InventoryInv, TypeOK, Open
  <1>7. TypeOK'
    BY <1>1, <1>5, <1>6 DEF InventoryInv, TypeOK, Open, counts
  <1> QED BY <1>4, <1>5, <1>7 DEF InventoryInv, ConnectedIsHeard, Connected

LEMMA FillInv ==
    ASSUME InventoryInv, NEW p \in Procs, Fill(p)
    PROVE  InventoryInv'
  <1> DEFINE t == [task[p] EXCEPT !.at = "move", !.fd = Absent, !.list = Absent]
  <1>1. task[p].list \in Stored
    BY DEF InventoryInv, TypeOK, Task
  <1>2. task[p] \in Task
    BY DEF InventoryInv, TypeOK
  <1>3. /\ t \in Task /\ t.op = task[p].op /\ t.copy = task[p].copy
        /\ t.prev = task[p].prev /\ t.at # "deliver"
    BY <1>1, <1>2 DEF Task, Stored
  <1>4. task' = [task EXCEPT ![p] = t] /\ UNCHANGED <<store, heard>>
    BY <1>2 DEF Fill, InventoryInv, TypeOK
  <1>5. EventKept' /\ CopiesHeard' /\ task' \in [Procs -> Task]
    <2> HIDE DEF t
    <2> QED BY <1>3, <1>4, MovesOn DEF InventoryInv
  <1>6. data' \in [Inodes -> Stored \cup {Empty, Torn}]
    <2>1. PICK d \in Overlay(data[task[p].fd], task[p].list) :
              data' = [data EXCEPT ![task[p].fd] = d]
      BY DEF Fill
    <2>2. d \in Stored \cup {Empty, Torn}
      BY <1>1, <2>1 DEF Overlay
    <2> QED BY <2>1, <2>2 DEF InventoryInv, TypeOK
  <1>7. TypeOK'
    BY <1>5, <1>6 DEF InventoryInv, TypeOK, Fill, counts
  <1> QED BY <1>4, <1>5, <1>7 DEF InventoryInv, ConnectedIsHeard, Connected

LEMMA MoveInv ==
    ASSUME InventoryInv, NEW p \in Procs, Move(p)
    PROVE  InventoryInv'
  <1>1. heard' = heard /\ UNCHANGED <<link, events, store, counts>>
    BY DEF Move
  <1>2. EventKept' /\ CopiesHeard' /\ task' \in [Procs -> Task]
    <2>1. CASE SaveFails(p)
      BY <1>1, <2>1, SaveFailsKeeps DEF InventoryInv
    <2>2. CASE Joins(p) /\ Goto(p, "deliver")
      BY <1>1, <2>2, GotoKeeps DEF InventoryInv, Joins
    <2>3. CASE Done(p)
      BY <1>1, <2>3, DoneKeeps DEF InventoryInv
    <2> QED BY <2>1, <2>2, <2>3 DEF Move
  <1>3. data' \in [Inodes -> Stored \cup {Empty, Torn}]
    BY DEF InventoryInv, TypeOK, Move, Unlinked, files
  <1>4. tmp' \in Inodes \cup {Absent} /\ dst' \in Inodes \cup {Absent}
    BY DEF InventoryInv, TypeOK, Move, files, SaveFails
  <1>5. TypeOK'
    BY <1>1, <1>2, <1>3, <1>4 DEF InventoryInv, TypeOK, counts
  <1> QED BY <1>1, <1>2, <1>5 DEF InventoryInv, ConnectedIsHeard, Connected

LEMMA FaultInv ==
    ASSUME InventoryInv, NEW p \in Procs, DiskFails(p) \/ Cancelled(p)
    PROVE  InventoryInv'
  <1>1. heard' = heard /\ UNCHANGED <<link, events, store, files, requests, closes>>
    BY DEF DiskFails, Cancelled
  <1>2. EventKept' /\ CopiesHeard' /\ task' \in [Procs -> Task]
    BY <1>1, SaveFailsKeeps, DoneKeeps DEF InventoryInv, DiskFails, Cancelled
  <1>3. faults' \in Nat
    BY DEF InventoryInv, TypeOK, DiskFails, Cancelled
  <1>4. TypeOK'
    BY <1>1, <1>2, <1>3 DEF InventoryInv, TypeOK, files
  <1> QED BY <1>1, <1>2, <1>4 DEF InventoryInv, ConnectedIsHeard, Connected

LEMMA PutBackInv ==
    ASSUME InventoryInv, NEW p \in Procs, PutBack(p)
    PROVE  InventoryInv'
  <1>1. heard' = heard /\ Done(p)
    BY DEF PutBack
  <1>2. EventKept' /\ CopiesHeard' /\ task' \in [Procs -> Task]
    BY <1>1, DoneKeeps DEF InventoryInv
  <1>3. store' \in Stored
    BY DEF InventoryInv, TypeOK, PutBack, Task
  <1>4. TypeOK'
    BY <1>2, <1>3, TypeFrame DEF InventoryInv, PutBack
  <1>5. ConnectedIsHeard'
    BY <1>1 DEF InventoryInv, CopiesHeard, ConnectedIsHeard, Connected, PutBack
  <1> QED BY <1>2, <1>4, <1>5 DEF InventoryInv

LEMMA JoinInv ==
    ASSUME InventoryInv, Join
    PROVE  InventoryInv'
  <1> DEFINE kept == task[Loop].copy
             copy == [kept EXCEPT !.group = RuleGroup]
  <1>1. kept \in Stored /\ kept # Absent /\ Loop \in Procs
    BY RunningProcs DEF InventoryInv, TypeOK, Task, EventKept, Join, At
  <1>2. copy \in Agent /\ copy \in Stored /\ copy.status = kept.status
    BY <1>1 DEF Stored, Agent
  <1>3. Connected(kept) => heard
    BY <1>1 DEF InventoryInv, CopiesHeard
  <1>4. Connected(copy) => heard
    BY <1>1, <1>2, <1>3 DEF Connected
  <1>5. heard' = heard /\ UNCHANGED store
    BY DEF Join
  <1>6. EventKept' /\ CopiesHeard' /\ task' \in [Procs -> Task]
    <2>1. CASE Begin(Loop, "join", copy, kept)
      <3> HIDE DEF copy, kept
      <3> QED BY <1>1, <1>2, <1>3, <1>4, <1>5, <2>1, BeginKeeps, BeginType DEF InventoryInv
    <2>2. CASE Done(Loop)
      BY <1>1, <1>5, <2>2, DoneKeeps DEF InventoryInv
    <2> QED BY <2>1, <2>2 DEF Join
  <1>7. TypeOK'
    BY <1>5, <1>6, TypeFrame DEF InventoryInv, Join, TypeOK
  <1> QED BY <1>5, <1>6, <1>7 DEF InventoryInv, ConnectedIsHeard, Connected

LEMMA RestartInv ==
    ASSUME InventoryInv, Restart
    PROVE  InventoryInv'
  <1>1. OnDisk \in Stored \cup {Empty, Torn}
    BY DEF InventoryInv, TypeOK, OnDisk, Stored
  <1>2. store' \in Stored /\ ~Connected(store')
    BY <1>1, LoadedType DEF Restart
  <1>3. task' \in [Procs -> Task] /\ \A p \in Procs : task'[p] = NoTask
    BY NoTaskType DEF Restart
  <1>4. data' \in [Inodes -> Stored \cup {Empty, Torn}]
    BY AbsentStored DEF InventoryInv, TypeOK, Restart
  <1>5. faults' \in Nat /\ events' \in Seq(EventType)
    BY DEF InventoryInv, TypeOK, Restart
  <1>6. link' \in BOOLEAN /\ heard' \in BOOLEAN
    BY DEF Restart
  <1>7. UNCHANGED <<tmp, dst, requests, closes>>
    BY DEF Restart
  <1>8. TypeOK'
    BY <1>2, <1>3, <1>4, <1>5, <1>6, <1>7 DEF InventoryInv, TypeOK
  <1> QED BY <1>2, <1>3, <1>8 DEF InventoryInv, EventKept, CopiesHeard, ConnectedIsHeard,
                                  Connected, NoTask

LEMMA StutterInv ==
    ASSUME InventoryInv, UNCHANGED vars
    PROVE  InventoryInv'
  BY DEF InventoryInv, TypeOK, EventKept, CopiesHeard, ConnectedIsHeard, Connected, vars,
         files, counts

LEMMA NextInv == InventoryInv /\ [Next]_vars => InventoryInv'
  <1> SUFFICES ASSUME InventoryInv, [Next]_vars PROVE InventoryInv'
    OBVIOUS
  <1>1. CASE Connect \/ Update \/ Close
    BY <1>1, SignalInv
  <1>2. CASE TakeEvent \/ Join \/ Retire \/ Restart
    BY <1>2, TakeEventInv, JoinInv, RetireInv, RestartInv
  <1>3. CASE \E p \in Handlers : \/ \E op \in {"group", "rename"}, g \in Groups : Edit(p, op, g)
                                \/ StartDelete(p)
    BY <1>3, EditInv, StartDeleteInv DEF Procs
  <1>4. CASE \E p \in Running : Step(p) \/ DiskFails(p) \/ Cancelled(p)
    BY <1>4, RunningProcs, WriteInv, ListInv, OpenInv, FillInv, MoveInv, PutBackInv, FaultInv
       DEF Step
  <1>5. CASE UNCHANGED vars
    BY <1>5, StutterInv
  <1> QED BY <1>1, <1>2, <1>3, <1>4, <1>5 DEF Next

(* Type correctness, and that no copy of the record shows the agent          *)
(* connected before an event of this run of the process did: for any number  *)
(* of handlers that overlap with the event loop and the retirement loop.     *)
THEOREM InventoryInvariant == Spec => [](TypeOK /\ ConnectedIsHeard)
  <1>1. InventoryInv => TypeOK /\ ConnectedIsHeard
    BY DEF InventoryInv
  <1> QED BY <1>1, InitInv, NextInv, PTL DEF Spec
=============================================================================
