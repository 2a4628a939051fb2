--------------------------- MODULE AgentInventory ---------------------------
(***************************************************************************)
(* The record of one agent and the file that keeps it over a restart.      *)
(*                                                                         *)
(* The agent store is safe for concurrent calls, but nobody holds a lock   *)
(* over two of them: the event loop, the HTTP handlers and the retirement  *)
(* loop each read the record, change their copy, write the copy back and   *)
(* then save the whole store as agents.json, by way of one temporary file. *)
(***************************************************************************)
EXTENDS Naturals, Sequences, FiniteSets

CONSTANTS
    Loop,         \* the event loop
    Retirer,      \* the retirement loop
    Handlers,     \* goroutines of HTTP requests
    Groups,       \* values of the operator's fields: group, labels, name
    RuleGroup,    \* the group of the one membership rule that matches, if any
    Running,      \* the goroutines that an instance runs
    MaxRequests,  \* bound on operator requests and retirements
    MaxCloses,    \* bound on lost connections
    MaxFaults,    \* bound on failed saves and restarts
    QueueCap,     \* capacity of the event channel (128 in the code)
    Absent,       \* no record, no file, no descriptor
    Empty,        \* a file that was opened and not yet written
    Torn          \* a file that two writers wrote over each other

NoGroup == "unassigned"

Procs == {Loop, Retirer} \cup Handlers

ASSUME AgentInventoryAssumption ==
    /\ Loop # Retirer /\ {Loop, Retirer} \cap Handlers = {}
    /\ Running \subseteq Procs /\ IsFiniteSet(Handlers)
    /\ RuleGroup \in Groups \cup {NoGroup} /\ NoGroup \notin Groups
    /\ MaxRequests \in Nat /\ MaxCloses \in Nat /\ MaxFaults \in Nat
    /\ QueueCap \in Nat \ {0}

Agent  == [status : {"connected", "disconnected", "retired"},
           group  : Groups \cup {NoGroup}]
Stored == Agent \cup {Absent}
Inodes == 1 .. Cardinality(Procs) + 2   \* as many as can be in use at once

ASSUME MarkersAssumption ==
    /\ Absent # Empty /\ Empty # Torn /\ Absent # Torn
    /\ {Absent, Empty, Torn} \cap Agent = {} /\ Absent \notin Inodes

EventType == {"connected", "updated", "disconnected"}

(* The local variables of a goroutine: what it does, where it is, the copy   *)
(* it will write, the record to put back, the listed store, its open file.   *)
Task == [op   : {"none", "event", "join", "retire", "group", "rename", "delete"},
         at   : {"idle", "deliver", "write", "list", "open", "fill", "move", "restore"},
         copy : Stored, prev : Stored, list : Stored,
         fd   : Inodes \cup {Absent}]

VARIABLES
    link,     \* whether the agent has a connection
    events,   \* Adapter.events
    store,    \* the record in the memory store
    task,
    data,     \* the contents of each inode
    tmp,      \* the inode called agents.json.tmp
    dst,      \* the inode called agents.json
    heard,    \* an event said connected since the start (history)
    requests, closes, faults

files  == <<data, tmp, dst>>
counts == <<requests, closes, faults>>
vars   == <<link, events, store, task, files, heard, counts>>

NoTask == [op |-> "none", at |-> "idle", copy |-> Absent, prev |-> Absent,
           list |-> Absent, fd |-> Absent]

Idle(p)  == p \in Running /\ task[p].at = "idle"
At(p, s) == task[p].at = s
Goto(p, s) == task' = [task EXCEPT ![p].at = s]
Done(p) == task' = [task EXCEPT ![p] = NoTask]

---------------------------------------------------------------------------
(* The agent, seen through the adapter.                                      *)

Signal(type) == Len(events) < QueueCap /\ events' = Append(events, type)

Connect ==
    /\ ~link /\ link' = TRUE
    /\ Signal("connected")
    /\ UNCHANGED <<store, task, files, heard, counts>>

Update ==
    /\ link /\ Signal("updated")
    /\ UNCHANGED <<link, store, task, files, heard, counts>>

Close ==
    /\ link /\ link' = FALSE
    /\ closes < MaxCloses /\ closes' = closes + 1
    /\ Signal("disconnected")
    /\ UNCHANGED <<store, task, files, heard, requests, faults>>

---------------------------------------------------------------------------
(* Reading the record: every operation begins with a copy of it.             *)

PutsBack(op) == op \in {"join", "rename", "delete"}

Begin(p, op, copy, prev) ==
    task' = [task EXCEPT ![p] = [NoTask EXCEPT !.op = op, !.at = "write", !.copy = copy,
                                     !.prev = IF PutsBack(op) THEN prev ELSE Absent]]

\* Mutants: the event's name is the status; only a first event sets it.
StatusNamed(type) == type
StatusKept(type) ==
    IF type = "updated" /\ store # Absent THEN store.status
    ELSE IF type = "disconnected" THEN "disconnected" ELSE "connected"
StatusAfter(type) ==
    IF type = "disconnected" THEN "disconnected" ELSE "connected"

(* The event carries no operator's fields; those of the record are kept.     *)
Preserved == IF store = Absent THEN NoGroup ELSE store.group

TakeEvent ==
    /\ Idle(Loop) /\ events # << >>
    /\ events' = Tail(events)
    /\ Begin(Loop, "event", [status |-> StatusAfter(Head(events)), group |-> Preserved], store)
    /\ heard' = (heard \/ Head(events) # "disconnected")
    /\ UNCHANGED <<link, store, files, counts>>

(* Handlers that assign a group or labels, and those that set a display name *)
(* or an authority, which put the record back when the save fails.           *)
Edit(p, op, g) ==
    /\ Idle(p) /\ store # Absent
    /\ requests < MaxRequests /\ requests' = requests + 1
    /\ Begin(p, op, [store EXCEPT !.group = g], store)
    /\ UNCHANGED <<link, events, store, files, heard, closes, faults>>

StartDelete(p) ==
    /\ Idle(p) /\ store # Absent /\ store.status # "connected"
    /\ requests < MaxRequests /\ requests' = requests + 1
    /\ Begin(p, "delete", Absent, store)
    /\ UNCHANGED <<link, events, store, files, heard, closes, faults>>

Retire ==
    /\ Idle(Retirer) /\ store # Absent /\ store.status = "disconnected"
    /\ requests < MaxRequests /\ requests' = requests + 1
    /\ Begin(Retirer, "retire", [store EXCEPT !.status = "retired"], store)
    /\ UNCHANGED <<link, events, store, files, heard, closes, faults>>

---------------------------------------------------------------------------
(* Writing it back.                                                          *)

(* Only the event loop uses its copy again.                                  *)
Written(p) ==
    task' = [task EXCEPT ![p].at = "list",
                 ![p].copy = IF task[p].op = "event" THEN @ ELSE Absent]

\* Mutant: a membership that is applied and not saved.
WriteUnsaved(p) ==
    /\ At(p, "write")
    /\ IF task[p].op = "delete" /\ store = Absent
       THEN Done(p) /\ UNCHANGED store
       ELSE /\ IF task[p].op = "join" THEN Done(p) ELSE Written(p)
            /\ store' = task[p].copy
    /\ UNCHANGED <<link, events, files, heard, counts>>
Write(p) ==
    /\ At(p, "write")
    /\ IF task[p].op = "delete" /\ store = Absent
       THEN Done(p) /\ UNCHANGED store
       ELSE Written(p) /\ store' = task[p].copy
    /\ UNCHANGED <<link, events, files, heard, counts>>

(* saveAgentSnapshot: list the store, open and truncate the temporary file,  *)
(* write it, rename it over the snapshot.                                    *)
List(p) ==
    /\ At(p, "list")
    /\ task' = [task EXCEPT ![p].at = "open", ![p].list = store]
    /\ UNCHANGED <<link, events, store, files, heard, counts>>

Unused == {i \in Inodes : i \notin {tmp, dst} /\ \A p \in Procs : task[p].fd # i}

\* Mutant: the snapshot itself is opened and truncated.
OpenSnapshot(p) ==
    /\ At(p, "open")
    /\ tmp' = IF dst = Absent THEN CHOOSE i \in Unused : TRUE ELSE dst
    /\ data' = [data EXCEPT ![tmp'] = Empty]
    /\ task' = [task EXCEPT ![p].at = "fill", ![p].fd = tmp']
    /\ UNCHANGED <<link, events, store, dst, heard, counts>>
Open(p) ==
    /\ At(p, "open")
    /\ tmp' = IF tmp = Absent THEN CHOOSE i \in Unused : TRUE ELSE tmp
    /\ data' = [data EXCEPT ![tmp'] = Empty]
    /\ task' = [task EXCEPT ![p].at = "fill", ![p].fd = tmp']
    /\ UNCHANGED <<link, events, store, dst, heard, counts>>

(* A second writer overwrites the first from the start: what is left depends *)
(* on which of the two is longer.                                            *)
Overlay(old, new) == IF old \in {Empty, new} THEN {new} ELSE {new, Torn}

Fill(p) ==
    /\ At(p, "fill")
    /\ \E d \in Overlay(data[task[p].fd], task[p].list) :
          data' = [data EXCEPT ![task[p].fd] = d]
    /\ task' = [task EXCEPT ![p].at = "move", ![p].fd = Absent, ![p].list = Absent]
    /\ UNCHANGED <<link, events, store, tmp, dst, heard, counts>>

Joins(p) ==
    /\ task[p].op = "event" /\ task[p].copy.status = "connected"
    /\ task[p].copy.group = NoGroup /\ RuleGroup # NoGroup

SaveFails(p) ==
    IF PutsBack(task[p].op) THEN Goto(p, "restore") ELSE Done(p)

(* The replaced snapshot is gone unless another writer has it open.          *)
Unlinked(i) ==
    IF i # Absent /\ \A p \in Procs : task[p].fd # i
    THEN [data EXCEPT ![i] = Empty] ELSE data

Move(p) ==
    /\ At(p, "move")
    /\ IF tmp = Absent
       THEN SaveFails(p) /\ UNCHANGED files
       ELSE /\ dst' = tmp /\ tmp' = Absent /\ data' = Unlinked(dst)
            /\ IF Joins(p) THEN Goto(p, "deliver") ELSE Done(p)
    /\ UNCHANGED <<link, events, store, heard, counts>>

(* The disk refuses, or the request is cancelled: the store then refuses     *)
(* every call, also the one that would put the record back.                  *)
DiskFails(p) ==
    /\ At(p, "open") /\ faults < MaxFaults /\ faults' = faults + 1
    /\ SaveFails(p)
    /\ UNCHANGED <<link, events, store, files, heard, requests, closes>>

Cancelled(p) ==
    /\ p \in Handlers /\ task[p].at \in {"write", "list", "restore"}
    /\ faults < MaxFaults /\ faults' = faults + 1
    /\ Done(p)
    /\ UNCHANGED <<link, events, store, files, heard, requests, closes>>

PutBack(p) ==
    /\ At(p, "restore")
    /\ store' = task[p].prev
    /\ Done(p)
    /\ UNCHANGED <<link, events, files, heard, counts>>

(* reconcileDynamicGroupMembership: the approved configuration is delivered, *)
(* then the event's own copy is written again, with the group.               *)
Join ==
    /\ At(Loop, "deliver")
    /\ \/ Begin(Loop, "join", [task[Loop].copy EXCEPT !.group = RuleGroup], task[Loop].copy)
       \/ Done(Loop)   \* the delivery was refused
    /\ UNCHANGED <<link, events, store, files, heard, counts>>

---------------------------------------------------------------------------
(* A restart, at any step.  loadAgentSnapshot takes nobody for connected and *)
(* replaces a file it cannot read by an empty list.                          *)

OnDisk == IF dst = Absent THEN Absent ELSE data[dst]
Unreadable(d) == d \in {Empty, Torn}

\* Mutant: a reader that trusts the snapshot.
LoadedAsSaved(d) == d
Loaded(d) ==
    IF Unreadable(d) \/ d = Absent THEN Absent
    ELSE IF d.status = "connected" THEN [d EXCEPT !.status = "disconnected"] ELSE d

Restart ==
    /\ faults < MaxFaults /\ faults' = faults + 1
    /\ link' = FALSE /\ events' = << >>
    /\ task' = [p \in Procs |-> NoTask]
    /\ store' = Loaded(OnDisk)
    /\ data' = IF Unreadable(OnDisk) THEN [data EXCEPT ![dst] = Absent] ELSE data
    /\ heard' = FALSE
    /\ UNCHANGED <<tmp, dst, requests, closes>>

---------------------------------------------------------------------------

Init ==
    /\ link = FALSE /\ events = << >> /\ store = Absent
    /\ task = [p \in Procs |-> NoTask]
    /\ data = [i \in Inodes |-> Empty] /\ tmp = Absent /\ dst = Absent
    /\ heard = FALSE /\ requests = 0 /\ closes = 0 /\ faults = 0

Step(p) == Write(p) \/ List(p) \/ Open(p) \/ Fill(p) \/ Move(p) \/ PutBack(p)

Next ==
    \/ Connect \/ Update \/ Close
    \/ TakeEvent \/ Join \/ Retire \/ Restart
    \/ \E p \in Handlers :
          \/ \E op \in {"group", "rename"}, g \in Groups : Edit(p, op, g)
          \/ StartDelete(p)
    \/ \E p \in Running : Step(p) \/ DiskFails(p) \/ Cancelled(p)

Spec == Init /\ [][Next]_vars

(* What has begun goes on, the event loop is scheduled, and a connected      *)
(* agent sends messages again and again, waiting in turn for the channel.    *)
Fairness ==
    /\ \A p \in Running : WF_vars(Step(p))
    /\ WF_vars(TakeEvent) /\ WF_vars(Join)
    /\ SF_vars(Connect) /\ SF_vars(Update)

FairSpec == Spec /\ Fairness

---------------------------------------------------------------------------
(* Properties.                                                               *)

TypeOK ==
    /\ link \in BOOLEAN /\ heard \in BOOLEAN
    /\ events \in Seq(EventType)
    /\ store \in Stored
    /\ task \in [Procs -> Task]
    /\ data \in [Inodes -> Stored \cup {Empty, Torn}]
    /\ tmp \in Inodes \cup {Absent} /\ dst \in Inodes \cup {Absent}
    /\ requests \in Nat /\ closes \in Nat /\ faults \in Nat

(* The comment of loadAgentSnapshot: whoever was connected is taken for      *)
(* disconnected until it proves liveness.  No copy of the record that a      *)
(* handler, the retirement loop or the file held across a restart or a close *)
(* shows the agent connected before an event of this run of the process did. *)
Connected(r) == r # Absent /\ r.status = "connected"
ConnectedIsHeard == Connected(store) => heard

(* An agent that stays connected is shown so in the end, and the file        *)
(* catches up with the store, whatever handlers, the retirement loop and     *)
(* failing saves wrote in between.                                           *)
Shown == Connected(store) /\ OnDisk = store
PresenceHeals == <>[]link => <>[]Shown

---------------------------------------------------------------------------
(* What the proofs add.                                                      *)

(* No goroutine holds a copy that shows what was not heard.                  *)
CopiesHeard ==
    \A p \in Procs : Connected(task[p].copy) \/ Connected(task[p].prev) => heard

(* The event loop keeps its copy until it has joined a group or not.         *)
EventKept ==
    \A p \in Procs :
        /\ task[p].op = "event" => task[p].copy # Absent
        /\ task[p].at = "deliver" => task[p].op = "event"

InventoryInv == TypeOK /\ EventKept /\ CopiesHeard /\ ConnectedIsHeard

=============================================================================
