------------------------ MODULE GitOpsExecutionProofs -------------------------
(***************************************************************************)
(* What holds of GitOpsExecution for every number of workers, attempts,    *)
(* faults and pull requests.                                               *)
(***************************************************************************)
EXTENDS GitOpsExecution, SequenceTheorems, FiniteSetTheorems, WellFoundedInduction,
        TLAPS

---------------------------------------------------------------------------
(* The timeline.                                                             *)

LEMMA LatestType ==
    ASSUME events \in Seq(Event), events # << >>
    PROVE  /\ Len(events) \in Nat \ {0} /\ DOMAIN events = 1 .. Len(events)
           /\ Latest \in Event /\ Status = Latest.status
  BY DEF Latest, Status

LEMMA QueuedIsFinite ==
    ASSUME events \in Seq(Event)
    PROVE  /\ IsFiniteSet({i \in DOMAIN events : events[i].status = "queued"})
           /\ Attempts \in Nat
  <1> DEFINE Q == {i \in DOMAIN events : events[i].status = "queued"}
  <1>1. Q \in SUBSET (1 .. Len(events)) /\ Len(events) \in Int
    OBVIOUS
  <1>2. IsFiniteSet(1 .. Len(events))
    BY <1>1, FS_Interval
  <1>3. IsFiniteSet(Q)
    BY <1>1, <1>2, FS_Subset
  <1> QED BY <1>3, FS_CardinalityType DEF Attempts

(* What recording an event does to everything that reads the timeline.       *)
LEMMA RecordFacts ==
    ASSUME events \in Seq(Event),
           NEW status \in Statuses, NEW actor \in Workers \cup Syncs \cup {Admin},
           NEW pull \in Nat, Record(status, actor, pull)
    PROVE  /\ events' \in Seq(Event) /\ events' # << >>
           /\ Len(events') = Len(events) + 1 /\ Len(events) \in Nat
           /\ DOMAIN events' = 1 .. Len(events) + 1 /\ DOMAIN events = 1 .. Len(events)
           /\ \A i \in DOMAIN events : events'[i] = events[i]
           /\ events'[Len(events) + 1] = [status |-> status, actor |-> actor, pull |-> pull]
           /\ Status' = status /\ Latest'.actor = actor
           /\ Attempts' = IF status = "queued" THEN Attempts + 1 ELSE Attempts
  <1> DEFINE e == [status |-> status, actor |-> actor, pull |-> pull]
  <1>1. e \in Event
    BY DEF Event
  <1>2. events' = Append(events, e)
    BY DEF Record
  <1> HIDE DEF e
  <1>3. /\ events' \in Seq(Event) /\ events' # << >>
        /\ Len(events') = Len(events) + 1 /\ Len(events) \in Nat
        /\ \A i \in 1 .. Len(events) : events'[i] = events[i]
        /\ events'[Len(events) + 1] = e
    BY <1>1, <1>2, AppendProperties
  <1>4. /\ DOMAIN events' = 1 .. Len(events) + 1 /\ DOMAIN events = 1 .. Len(events)
        /\ \A i \in DOMAIN events : events'[i] = events[i]
    BY <1>3
  <1>5. Status' = status /\ Latest'.actor = actor
    BY <1>3 DEF Status, Latest, e
  <1>6. Attempts' = IF status = "queued" THEN Attempts + 1 ELSE Attempts
    <2> DEFINE Q == {i \in DOMAIN events : events[i].status = "queued"}
               Q1 == {i \in DOMAIN events' : events'[i].status = "queued"}
    <2>1. IsFiniteSet(Q) /\ Cardinality(Q) \in Nat
      BY QueuedIsFinite, FS_CardinalityType
    <2>2. CASE status = "queued"
      <3>1. Q1 = Q \cup {Len(events) + 1} /\ Len(events) + 1 \notin Q
        BY <1>3, <1>4, <2>2 DEF e
      <3>2. Cardinality(Q1) = Cardinality(Q) + 1
        BY <2>1, <3>1, FS_AddElement
      <3> QED BY <2>2, <3>2 DEF Attempts
    <2>3. CASE status # "queued"
      <3>1. Q1 = Q
        BY <1>3, <1>4, <2>3 DEF e
      <3> QED BY <2>3, <3>1 DEF Attempts
    <2> QED BY <2>2, <2>3
  <1> QED BY <1>3, <1>4, <1>5, <1>6 DEF e

(* A claimed execution has a timeline, and nobody but a worker claims.       *)
LEMMA InitialFacts ==
    ASSUME Init
    PROVE  TypeOK /\ LeaseNamesClaim
  <1>1. Attempts = 0
    <2>1. {i \in DOMAIN events : events[i].status = "queued"} = {}
      BY DEF Init
    <2> QED BY <2>1, FS_EmptySet DEF Attempts
  <1>2. NoWork \in Work /\ NoSync \in Sync /\ events \in Seq(Event)
    BY DEF NoWork, Work, Stages, NoSync, Sync, Statuses, Changes, Init
  <1> QED
    BY <1>1, <1>2, GitOpsExecutionAssumption
    DEF Init, TypeOK, LeaseNamesClaim, Status, Decisions

---------------------------------------------------------------------------
(* Types of what the steps build.                                            *)

LEMMA LocalTypes ==
    /\ NoWork \in Work /\ NoSync \in Sync
    /\ \A ok \in BOOLEAN, n \in Nat : Reporting(ok, n) \in Work
    /\ [NoWork EXCEPT !.at = "look"] \in Work
  BY DEF NoWork, Work, Stages, NoSync, Sync, Statuses, Changes, Reporting

LEMMA AdvanceType ==
    ASSUME work \in [Workers -> Work], NEW w \in Workers, NEW n \in Nat, Advance(w, n)
    PROVE  work' \in [Workers -> Work]
  <1>1. Reporting(TRUE, n) \in Work
    BY LocalTypes
  <1>2. [NoWork EXCEPT !.at = "look", !.stage = StageAfter(work[w].stage)] \in Work
    BY LocalTypes DEF Work, StageAfter, Stages
  <1> QED BY <1>1, <1>2 DEF Advance

LEMMA GiveUpType ==
    ASSUME work \in [Workers -> Work], NEW w \in Workers, GiveUp(w)
    PROVE  work' \in [Workers -> Work]
  BY LocalTypes DEF GiveUp

---------------------------------------------------------------------------
(* Types and the lease.  A step that leaves the timeline and the lease alone *)
(* keeps what they say of one another.                                       *)

(* While a synchroniser is busy nobody else writes the timeline.             *)
SyncsFollow ==
    \A s \in Syncs :
        /\ sync[s].at # "idle" => Status \in {"succeeded"} \cup Changes
        /\ sync[s].at = "append" => sync[s].found \in Changes

LeaseInv == TypeOK /\ LeaseNamesClaim /\ SyncsFollow

LEMMA QuietStep ==
    ASSUME LeaseInv, UNCHANGED <<events, lease>>
    PROVE  /\ LeaseNamesClaim' /\ Attempts' <= MaxAttempts /\ Status' = Status
           /\ events' \in Seq(Event) /\ lease' \in Lease \cup {NoLease}
           /\ UNCHANGED sync => SyncsFollow'
  BY DEF LeaseInv, TypeOK, LeaseNamesClaim, SyncsFollow, Status, Latest, Attempts

LEMMA NothingQueued == events = << >> => Attempts = 0
  <1> SUFFICES ASSUME events = << >> PROVE Attempts = 0
    OBVIOUS
  <1>1. {i \in DOMAIN events : events[i].status = "queued"} = {}
    OBVIOUS
  <1> QED BY <1>1, FS_EmptySet DEF Attempts

LEMMA PutType ==
    ASSUME TypeOK, NEW stage \in Stages, Put(stage)
    PROVE  pulls' \in Seq(PullStates) /\ repo' \subseteq {"branch", "file"}
  <1>1. CASE stage = "pull"
    <2>1. pulls \in Seq(PullStates) /\ "open" \in PullStates
      BY DEF TypeOK, PullStates
    <2>2. Append(pulls, "open") \in Seq(PullStates)
      BY <2>1, AppendProperties
    <2> QED BY <1>1, <2>2 DEF Put, TypeOK
  <1>2. CASE stage # "pull"
    BY <1>2 DEF Put, TypeOK, Stages
  <1> QED BY <1>1, <1>2

LEMMA EvidenceType ==
    ASSUME events \in Seq(Event), Evidence # 0
    PROVE  Evidence \in Nat /\ \E i \in DOMAIN events : events[i].pull = Evidence
  <1>1. Naming # {} /\ Naming \subseteq 1 .. Len(events) /\ Len(events) \in Nat
    <2>1. Naming # {}
      BY DEF Evidence
    <2>2. Naming \subseteq DOMAIN events
      BY DEF Naming
    <2> QED BY <2>1, <2>2
  <1>2. \E i \in Naming : \A j \in Naming : j <= i
    <2> DEFINE below == {Len(events) - i : i \in Naming}
    <2>1. below \in SUBSET Nat /\ below # {}
      <3>1. ASSUME NEW i \in Naming PROVE Len(events) - i \in Nat
        <4>1. i \in 1 .. Len(events) /\ Len(events) \in Nat
          BY <1>1
        <4> QED BY <4>1
      <3>2. PICK i \in Naming : TRUE
        BY <1>1
      <3>3. Len(events) - i \in below
        BY <3>2
      <3> QED BY <3>1, <3>3
    <2> DEFINE R == {ss \in Nat \X Nat : ss[1] < ss[2]}
    <2> HIDE DEF below
    <2>2. PICK m \in below : \A k \in below : m <= k
      <3>1. IsWellFoundedOn(R, Nat)
        BY NatLessThanWellFounded DEF OpToRel
      <3> HIDE DEF R
      <3>2. \E m \in below : \A k \in below : <<k, m>> \notin R
        BY <2>1, <3>1, WFMin, Zenon
      <3>3. ASSUME NEW k \in Nat, NEW m \in Nat, <<k, m>> \notin R PROVE m <= k
        <4>1. ~(k < m)
          BY <3>3 DEF R
        <4> QED BY <4>1
      <3> QED BY <2>1, <3>2, <3>3
    <2> USE DEF below
    <2>3. PICK i \in Naming : m = Len(events) - i
      BY <2>2
    <2>4. \A j \in Naming : Len(events) - i <= Len(events) - j
      BY <2>2, <2>3
    <2> QED BY <1>1, <2>3, <2>4
  <1>3. PICK i \in Naming : Evidence = events[i].pull
    BY <1>1, <1>2 DEF Evidence
  <1>4. i \in DOMAIN events /\ events[i] \in Event
    BY <1>3 DEF Naming
  <1> QED BY <1>3, <1>4 DEF Event

LEMMA EndLeaseKeeps ==
    ASSUME LeaseInv, Leased, EndLease, UNCHANGED events
    PROVE  /\ lease' \in Lease /\ LeaseNamesClaim' /\ Status' = Status
           /\ Attempts' <= MaxAttempts
  <1>1. lease \in Lease /\ lease # NoLease
    BY DEF LeaseInv, TypeOK, Leased
  <1>2. lease' \in Lease /\ lease' # NoLease /\ lease'.owner = lease.owner
    BY <1>1, GitOpsExecutionAssumption DEF EndLease, Lease, NoLease
  <1> QED
    BY <1>1, <1>2 DEF LeaseInv, TypeOK, LeaseNamesClaim, Status, Latest, Attempts

LEMMA LeaseStep ==
    ASSUME LeaseInv, [Next]_vars
    PROVE  LeaseInv'
  <1> USE DEF LeaseInv
  <1>1. CASE Submit
    BY <1>1, QuietStep DEF Submit, TypeOK, provider
  <1>2. ASSUME NEW d \in Decisions, Review(d) PROVE LeaseInv'
    BY <1>2, QuietStep DEF Review, Undecided, TypeOK, provider
  <1>3. CASE Enqueue
    <2>1. events' \in Seq(Event) /\ Status' = "queued" /\ Attempts' = Attempts + 1
      BY <1>3, RecordFacts DEF Enqueue, Statuses, TypeOK
    <2>2. Attempts = 0 /\ Status = "none"
      BY <1>3, NothingQueued DEF Enqueue, Status
    <2> QED
      BY <1>3, <2>1, <2>2, GitOpsExecutionAssumption
      DEF Enqueue, TypeOK, LeaseNamesClaim, SyncsFollow, Changes, provider
  <1>4. CASE Retry
    <2>1. events' \in Seq(Event) /\ Status' = "queued" /\ Attempts' = Attempts + 1
      BY <1>4, RecordFacts DEF Retry, Statuses, TypeOK
    <2>2. Attempts \in Nat /\ Attempts < MaxAttempts /\ Status = "failed"
      BY <1>4, QueuedIsFinite DEF Retry, Retryable, TypeOK
    <2> QED
      BY <1>4, <2>1, <2>2, GitOpsExecutionAssumption
      DEF Retry, TypeOK, LeaseNamesClaim, SyncsFollow, Changes, provider
  <1>5. ASSUME NEW w \in Workers, NEW a \in Adapters, Claim(w, a) PROVE LeaseInv'
    <2>1. /\ events' \in Seq(Event) /\ Status' = "claimed" /\ Latest'.actor = w
          /\ Attempts' = Attempts
      BY <1>5, RecordFacts, QueuedIsFinite DEF Claim, Statuses, TypeOK
    <2>2. work' \in [Workers -> Work]
      BY <1>5, LocalTypes DEF Claim, TypeOK
    <2>3. lease' \in Lease /\ lease' # NoLease /\ lease'.owner = w
      BY <1>5, GitOpsExecutionAssumption DEF Claim, Lease, NoLease
    <2>4. UNCHANGED <<approval, sync, repo, pulls, faults, reopens>>
      BY <1>5 DEF Claim, provider
    <2>5. Status \in {"queued", "claimed"}
      BY <1>5 DEF Claim, Claimable
    <2>6. SyncsFollow'
      BY <2>4, <2>5 DEF SyncsFollow, Changes
    <2> QED BY <2>1, <2>2, <2>3, <2>4, <2>6 DEF TypeOK, LeaseNamesClaim
  <1>6. ASSUME NEW w \in Workers, Look(w) PROVE LeaseInv'
    <2>1. work' \in [Workers -> Work]
      <3>1. CASE Present(work[w].stage)
        <4>1. PICK n \in Nat : Advance(w, n)
          BY <1>6, <3>1 DEF Look, OpenPulls, TypeOK
        <4> QED BY <4>1, AdvanceType DEF TypeOK
      <3>2. CASE ~Present(work[w].stage)
        <4> DEFINE v == [work[w] EXCEPT !.at = "make"]
        <4>1. v \in Work
          BY DEF TypeOK, Work
        <4>2. work' = [work EXCEPT ![w] = v]
          BY <1>6, <3>2 DEF Look
        <4> HIDE DEF v
        <4> QED BY <4>1, <4>2 DEF TypeOK
      <3> QED BY <3>1, <3>2
    <2> QED BY <1>6, <2>1, QuietStep DEF Look, TypeOK, provider
  <1>7. ASSUME NEW w \in Workers, Make(w) PROVE LeaseInv'
    <2>1. pulls' \in Seq(PullStates) /\ repo' \subseteq {"branch", "file"}
      BY <1>7, PutType DEF Make, TypeOK, Work
    <2>2. work' \in [Workers -> Work]
      BY <1>7, <2>1, AdvanceType DEF Make, TypeOK
    <2> QED BY <1>7, <2>1, <2>2, QuietStep DEF Make, TypeOK
  <1>8. ASSUME NEW w \in Workers, Refused(w) PROVE LeaseInv'
    BY <1>8, QuietStep, GiveUpType DEF Refused, TypeOK, provider
  <1>9. ASSUME NEW w \in Workers, Report(w) PROVE LeaseInv'
    <2>1. work' \in [Workers -> Work]
      BY <1>9, LocalTypes DEF Report, TypeOK
    <2>2. CASE HoldsLease(w)
      <3> DEFINE verdict == IF work[w].ok THEN "succeeded" ELSE "failed"
      <3>1. /\ Record(verdict, w, work[w].pull) /\ lease' = NoLease
            /\ verdict \in Statuses /\ verdict \notin {"queued", "claimed"}
            /\ work[w].pull \in Nat
        BY <1>9, <2>2 DEF Report, Released, Statuses, TypeOK, Work
      <3> HIDE DEF verdict
      <3>2. events' \in Seq(Event) /\ Status' = verdict /\ Attempts' = Attempts
        BY <3>1, RecordFacts, QueuedIsFinite DEF TypeOK
      <3>3. SyncsFollow'
        BY <1>9, <2>2 DEF Report, HoldsLease, LeaseNamesClaim, SyncsFollow, Changes
      <3> QED BY <1>9, <2>1, <3>1, <3>2, <3>3 DEF Report, TypeOK, LeaseNamesClaim, provider
    <2>3. CASE ~HoldsLease(w)
      BY <1>9, <2>1, <2>3, QuietStep DEF Report, TypeOK, provider
    <2> QED BY <2>2, <2>3
  <1>10. ASSUME NEW w \in Workers, MakeUnheard(w) PROVE LeaseInv'
    <2>1. pulls' \in Seq(PullStates) /\ repo' \subseteq {"branch", "file"}
      BY <1>10, PutType DEF MakeUnheard, TypeOK, Work
    <2>2. work' \in [Workers -> Work]
      BY <1>10, GiveUpType DEF MakeUnheard, TypeOK
    <2> QED
      BY <1>10, <2>1, <2>2, QuietStep, GitOpsExecutionAssumption
      DEF MakeUnheard, Fault, TypeOK
  <1>11. ASSUME NEW w \in Workers, Unavailable(w) PROVE LeaseInv'
    BY <1>11, QuietStep, GiveUpType, GitOpsExecutionAssumption
    DEF Unavailable, Fault, TypeOK, provider
  <1>12. ASSUME NEW w \in Workers, Crash(w) PROVE LeaseInv'
    BY <1>12, QuietStep, LocalTypes, GitOpsExecutionAssumption DEF Crash, Fault, TypeOK, provider
  <1>13. CASE Expire
    BY <1>13, EndLeaseKeeps DEF Expire, provider, TypeOK, SyncsFollow
  <1>14. CASE ExpireEarly
    BY <1>14, EndLeaseKeeps, GitOpsExecutionAssumption
    DEF ExpireEarly, Fault, provider, TypeOK, SyncsFollow
  <1>15. ASSUME NEW n \in DOMAIN pulls, Reopen(n) PROVE LeaseInv'
    BY <1>15, QuietStep, GitOpsExecutionAssumption DEF Reopen, TypeOK, PullStates
  <1>16. ASSUME NEW n \in DOMAIN pulls, NEW v \in {"merged", "closed"}, Decide(n, v)
         PROVE LeaseInv'
    BY <1>16, QuietStep DEF Decide, TypeOK, PullStates
  <1>17. ASSUME NEW s \in Syncs, SyncRead(s) PROVE LeaseInv'
    <2> DEFINE v == [NoSync EXCEPT !.at = "ask", !.seen = Status, !.pull = Evidence]
    <2>1. v \in Sync /\ v.at = "ask" /\ Status \in {"succeeded"} \cup Changes
      <3>1. Evidence \in Nat
        BY <1>17, EvidenceType DEF SyncRead, TypeOK
      <3> QED BY <1>17, <3>1, LocalTypes DEF SyncRead, Followed, Statuses, Changes, Sync, NoSync
    <2>2. sync' = [sync EXCEPT ![s] = v]
      BY <1>17 DEF SyncRead
    <2> HIDE DEF v
    <2>3. sync' \in [Syncs -> Sync] /\ SyncsFollow'
      BY <1>17, <2>1, <2>2, QuietStep DEF SyncRead, SyncsFollow, TypeOK
    <2> QED BY <1>17, <2>3, QuietStep DEF SyncRead, TypeOK, provider
  <1>18. ASSUME NEW s \in Syncs, SyncAsk(s) PROVE LeaseInv'
    <2> DEFINE found == StatusOf(pulls[sync[s].pull])
               v == IF found = sync[s].seen THEN NoSync
                    ELSE [sync[s] EXCEPT !.at = "append", !.found = found]
    <2>1. found \in Changes /\ Changes \subseteq Statuses
      BY DEF StatusOf, Changes, Statuses
    <2>2. sync' = [sync EXCEPT ![s] = v]
      BY <1>18 DEF SyncAsk
    <2> HIDE DEF found
    <2>3. v \in Sync /\ (v.at = "append" => v.found \in Changes)
      BY <2>1, LocalTypes DEF TypeOK, Sync, NoSync
    <2>4. Status \in {"succeeded"} \cup Changes
      BY <1>18 DEF SyncAsk, SyncsFollow
    <2> HIDE DEF v
    <2>5. sync' \in [Syncs -> Sync] /\ SyncsFollow'
      BY <1>18, <2>2, <2>3, <2>4, QuietStep, ZenonT(30) DEF SyncAsk, SyncsFollow, TypeOK
    <2> QED BY <1>18, <2>5, QuietStep DEF SyncAsk, TypeOK, provider
  <1>19. ASSUME NEW s \in Syncs, SyncAppend(s) PROVE LeaseInv'
    <2>1. /\ sync[s].found \in Changes /\ sync[s].pull \in Nat
          /\ Status \in {"succeeded"} \cup Changes /\ Changes \subseteq Statuses
      BY <1>19 DEF SyncAppend, SyncsFollow, TypeOK, Sync, Changes, Statuses
    <2>2. /\ events' \in Seq(Event) /\ Status' = sync[s].found /\ Attempts' = Attempts
      BY <1>19, <2>1, RecordFacts DEF SyncAppend, Changes, TypeOK
    <2>3. sync' \in [Syncs -> Sync]
      BY <1>19, LocalTypes DEF SyncAppend, TypeOK
    <2>4. SyncsFollow'
      BY <1>19, <2>1, <2>2 DEF SyncAppend, SyncsFollow, TypeOK, NoSync
    <2>5. lease = NoLease /\ LeaseNamesClaim'
      BY <1>19, <2>1, <2>2 DEF SyncAppend, LeaseNamesClaim, Changes
    <2> QED BY <1>19, <2>2, <2>3, <2>4, <2>5 DEF SyncAppend, TypeOK, provider
  <1>20. ASSUME NEW s \in Syncs, SyncFails(s) PROVE LeaseInv'
    BY <1>20, QuietStep, LocalTypes, GitOpsExecutionAssumption
    DEF SyncFails, Fault, TypeOK, SyncsFollow, NoSync, provider
  <1>21. CASE UNCHANGED vars
    BY <1>21, QuietStep DEF vars, provider, TypeOK
  <1> QED
    BY <1>1, <1>2, <1>3, <1>4, <1>5, <1>6, <1>7, <1>8, <1>9, <1>10, <1>11, <1>12, <1>13,
       <1>14, <1>15, <1>16, <1>17, <1>18, <1>19, <1>20, <1>21
    DEF Next, WorkerStep, SyncStep

LEMMA LeaseInvariant == Spec => []LeaseInv
  <1>1. Init => LeaseInv
    BY InitialFacts DEF LeaseInv, SyncsFollow, Init, NoSync
  <1> QED BY <1>1, LeaseStep, PTL DEF Spec

(* A lease exists exactly while the newest event is a claim and is its       *)
(* claimant's, for any number of workers and any take-over.                  *)
THEOREM LeaseFollowsClaim == Spec => []LeaseNamesClaim
  <1>1. LeaseInv => LeaseNamesClaim
    BY DEF LeaseInv
  <1> QED BY <1>1, LeaseInvariant, PTL

(* The timeline is well formed and an execution is queued at most            *)
(* MaxAttempts times.                                                        *)
THEOREM TypeCorrect == Spec => []TypeOK
  <1>1. LeaseInv => TypeOK
    BY DEF LeaseInv
  <1> QED BY <1>1, LeaseInvariant, PTL

---------------------------------------------------------------------------
(* Work and approval.  Workers pass on what they found: a stage is begun     *)
(* only when what it needs is there, and nothing is ever removed.            *)

ApprovalInv ==
    /\ events # << >> => approval = "approved"
    /\ repo # {} \/ pulls # << >> => events # << >>
    /\ \A w \in Workers : work[w].at # "idle" => events # << >>

StageInv ==
    /\ OpenIsDelivered
    /\ \A w \in Workers : work[w].at \in {"look", "make"} =>
           /\ work[w].stage = "file" => "branch" \in repo
           /\ work[w].stage = "pull" => repo = {"branch", "file"}

WorkInv == ApprovalInv /\ StageInv

LEMMA WorkStep ==
    ASSUME LeaseInv, WorkInv, [Next]_vars
    PROVE  WorkInv'
  <1> USE DEF LeaseInv, WorkInv
  <1>0. ASSUME UNCHANGED <<approval, events, work, repo, pulls>> PROVE WorkInv'
    BY <1>0 DEF ApprovalInv, StageInv, OpenIsDelivered
  <1>a. ASSUME NEW w \in Workers, NEW v \in Work, work' = [work EXCEPT ![w] = v],
               work[w].at # "idle",
               v.at \in {"look", "make"} =>
                  /\ v.stage = "file" => "branch" \in repo'
                  /\ v.stage = "pull" => repo' = {"branch", "file"},
               repo \subseteq repo', repo' \subseteq {"branch", "file"},
               pulls' # << >> => pulls # << >> \/ repo' = {"branch", "file"},
               UNCHANGED <<approval, events>>
        PROVE  WorkInv'
    <2>1. \A u \in Workers : u # w => work'[u] = work[u]
      BY <1>a DEF TypeOK
    <2>2. work'[w] = v
      BY <1>a DEF TypeOK
    <2>3. ApprovalInv'
      BY <1>a, <2>1, <2>2 DEF ApprovalInv
    <2>4. StageInv'
      BY <1>a, <2>1, <2>2 DEF StageInv, OpenIsDelivered
    <2> QED BY <2>3, <2>4
  <1>b. ASSUME NEW w \in Workers, work[w].at \in {"look", "make"}, GiveUp(w),
               repo \subseteq repo', repo' \subseteq {"branch", "file"},
               pulls' # << >> => pulls # << >> \/ repo' = {"branch", "file"},
               UNCHANGED <<approval, events>>
        PROVE  WorkInv'
    <2> DEFINE v == Reporting(FALSE, 0)
    <2>1. v \in Work /\ v.at = "report"
      BY LocalTypes DEF Reporting, NoWork
    <2>2. work' = [work EXCEPT ![w] = v]
      BY <1>b DEF GiveUp
    <2> HIDE DEF v
    <2> QED BY <1>a, <1>b, <2>1, <2>2
  <1>c. ASSUME NEW w \in Workers, NEW n \in Nat, work[w].at \in {"look", "make"},
               Advance(w, n), work[w].stage # "pull" => work[w].stage \in repo',
               repo \subseteq repo', repo' \subseteq {"branch", "file"},
               pulls' # << >> => pulls # << >> \/ repo' = {"branch", "file"},
               UNCHANGED <<approval, events>>
        PROVE  WorkInv'
    <2> DEFINE s == work[w].stage
    <2>1. CASE s = "pull"
      <3> DEFINE v == Reporting(TRUE, n)
      <3>1. v \in Work /\ v.at = "report"
        BY LocalTypes DEF Reporting, NoWork
      <3>2. work' = [work EXCEPT ![w] = v]
        BY <1>c, <2>1 DEF Advance
      <3> HIDE DEF v
      <3> QED BY <1>a, <1>c, <3>1, <3>2
    <2>2. CASE s # "pull"
      <3> DEFINE v == [NoWork EXCEPT !.at = "look", !.stage = StageAfter(s)]
      <3>1. v \in Work /\ v.at = "look" /\ v.stage = StageAfter(s)
        BY LocalTypes DEF StageAfter, Work, Stages, NoWork
      <3>2. work' = [work EXCEPT ![w] = v]
        BY <1>c, <2>2 DEF Advance
      <3>3. /\ v.stage = "file" => "branch" \in repo'
            /\ v.stage = "pull" => repo' = {"branch", "file"}
        <4>1. s \in {"branch", "file"} /\ s \in repo' /\ (s = "file" => "branch" \in repo')
          BY <1>c, <2>2 DEF TypeOK, Work, Stages, StageInv
        <4>2. s = "file" => repo' = {"branch", "file"}
          BY <1>c, <4>1
        <4>3. v.stage = IF s = "branch" THEN "file" ELSE "pull"
          BY <3>1 DEF StageAfter
        <4> HIDE DEF v, s
        <4> QED BY <4>1, <4>2, <4>3
      <3> HIDE DEF v
      <3> QED BY <1>a, <1>c, <3>1, <3>2, <3>3
    <2> QED BY <2>1, <2>2
  <1>d. ASSUME NEW w \in Workers, work[w].at = "make", Put(work[w].stage)
        PROVE  /\ repo \subseteq repo' /\ repo' \subseteq {"branch", "file"}
               /\ work[w].stage # "pull" => work[w].stage \in repo'
               /\ pulls' # << >> => pulls # << >> \/ repo' = {"branch", "file"}
               /\ Len(pulls') \in Nat
    <2>1. work[w].stage \in Stages /\ (work[w].stage = "pull" => repo = {"branch", "file"})
      BY <1>d DEF TypeOK, Work, StageInv
    <2>2. pulls' \in Seq(PullStates)
      BY <1>d, <2>1, PutType
    <2>3. CASE work[w].stage = "pull"
      BY <1>d, <2>1, <2>2, <2>3 DEF Put, TypeOK
    <2>4. CASE work[w].stage # "pull"
      <3> DEFINE s == work[w].stage
      <3>1. repo' = repo \cup {s} /\ pulls' = pulls /\ s \in {"branch", "file"}
        BY <1>d, <2>1, <2>4 DEF Put, Stages
      <3>2. Len(pulls') \in Nat /\ repo \subseteq {"branch", "file"}
        BY <2>2 DEF TypeOK
      <3> HIDE DEF s
      <3>3. repo \subseteq repo' /\ repo' \subseteq {"branch", "file"} /\ s \in repo'
        BY <3>1, <3>2
      <3> QED BY <2>4, <3>1, <3>2, <3>3 DEF s
    <2> QED BY <2>3, <2>4
  <1>1. CASE Submit
    BY <1>1 DEF Submit, ApprovalInv, StageInv, OpenIsDelivered, provider
  <1>2. ASSUME NEW d \in Decisions, Review(d) PROVE WorkInv'
    BY <1>2 DEF Review, Undecided, ApprovalInv, StageInv, OpenIsDelivered, provider
  <1>3. ASSUME NEW st \in Statuses, NEW actor \in Workers \cup Syncs \cup {Admin}, NEW n \in Nat,
               Record(st, actor, n), approval = "approved",
               UNCHANGED <<approval, repo, pulls>>,
               \A w \in Workers : work'[w] = work[w] \/ work'[w].at \in {"idle", "report"}
                                 \/ work'[w].stage = "branch"
        PROVE  WorkInv'
    <2>1. events' # << >>
      BY <1>3, RecordFacts DEF TypeOK
    <2> QED BY <1>3, <2>1 DEF ApprovalInv, StageInv, OpenIsDelivered
  <1>4. CASE Enqueue
    BY <1>3, <1>4 DEF Enqueue, Statuses, provider
  <1>5. CASE Retry
    BY <1>3, <1>5 DEF Retry, Retryable, Status, ApprovalInv, Statuses, provider
  <1>6. ASSUME NEW w \in Workers, NEW a \in Adapters, Claim(w, a) PROVE WorkInv'
    <2>1. events # << >>
      BY <1>6 DEF Claim, Claimable, Status
    <2>2. /\ work'[w].at = "report" \/ work'[w].stage = "branch"
          /\ \A u \in Workers : u # w => work'[u] = work[u]
      BY <1>6 DEF Claim, Reporting, NoWork, TypeOK
    <2> QED
      BY <1>3, <1>6, <2>1, <2>2 DEF Claim, ApprovalInv, Statuses, provider
  <1>7. ASSUME NEW w \in Workers, Look(w) PROVE WorkInv'
    <2>1. CASE Present(work[w].stage)
      <3>1. PICK n \in Nat : Advance(w, n)
        BY <1>7, <2>1 DEF Look, OpenPulls, TypeOK
      <3>2. work[w].stage # "pull" => work[w].stage \in repo
        BY <2>1 DEF Present
      <3> QED BY <1>7, <1>c, <3>1, <3>2 DEF Look, provider, TypeOK
    <2>2. CASE ~Present(work[w].stage)
      <3> DEFINE v == [work[w] EXCEPT !.at = "make"]
      <3>1. v \in Work /\ v.stage = work[w].stage /\ work' = [work EXCEPT ![w] = v]
        BY <1>7, <2>2 DEF Look, TypeOK, Work
      <3>2. /\ v.stage = "file" => "branch" \in repo
            /\ v.stage = "pull" => repo = {"branch", "file"}
        BY <1>7, <3>1 DEF Look, StageInv
      <3> HIDE DEF v
      <3> QED BY <1>7, <1>a, <3>1, <3>2 DEF Look, provider, TypeOK
    <2> QED BY <2>1, <2>2
  <1>8. ASSUME NEW w \in Workers, Make(w) PROVE WorkInv'
    BY <1>8, <1>c, <1>d DEF Make
  <1>9. ASSUME NEW w \in Workers, Refused(w) PROVE WorkInv'
    BY <1>9, <1>b DEF Refused, provider, TypeOK
  <1>10. ASSUME NEW w \in Workers, MakeUnheard(w) PROVE WorkInv'
    BY <1>10, <1>b, <1>d DEF MakeUnheard
  <1>11. ASSUME NEW w \in Workers, Unavailable(w) PROVE WorkInv'
    BY <1>11, <1>b DEF Unavailable, provider, TypeOK
  <1>12. ASSUME NEW w \in Workers, Report(w) PROVE WorkInv'
    <2>1. events # << >> /\ approval = "approved"
      BY <1>12 DEF Report, ApprovalInv
    <2>2. \A u \in Workers : work'[u] = work[u] \/ work'[u].at = "idle"
      BY <1>12 DEF Report, TypeOK, NoWork
    <2>3. CASE HoldsLease(w)
      <3>1. (IF work[w].ok THEN "succeeded" ELSE "failed") \in Statuses /\ work[w].pull \in Nat
        BY DEF Statuses, TypeOK, Work
      <3> QED BY <1>3, <1>12, <2>1, <2>2, <2>3, <3>1 DEF Report, provider
    <2>4. CASE ~HoldsLease(w)
      BY <1>12, <2>1, <2>2, <2>4
      DEF Report, ApprovalInv, StageInv, OpenIsDelivered, provider
    <2> QED BY <2>3, <2>4
  <1>13. ASSUME NEW w \in Workers, Crash(w) PROVE WorkInv'
    <2>1. NoWork \in Work /\ NoWork.at = "idle"
      BY LocalTypes DEF NoWork
    <2> QED BY <1>13, <1>a, <2>1 DEF Crash, provider, TypeOK
  <1>14. CASE Expire
    BY <1>0, <1>14 DEF Expire, provider
  <1>15. CASE ExpireEarly
    BY <1>0, <1>15 DEF ExpireEarly, provider
  <1>16. ASSUME NEW n \in DOMAIN pulls, Reopen(n) PROVE WorkInv'
    BY <1>16 DEF Reopen, ApprovalInv, StageInv, OpenIsDelivered, TypeOK
  <1>17. ASSUME NEW n \in DOMAIN pulls, NEW v \in {"merged", "closed"}, Decide(n, v)
         PROVE WorkInv'
    BY <1>17 DEF Decide, ApprovalInv, StageInv, OpenIsDelivered, TypeOK
  <1>18. ASSUME NEW s \in Syncs, SyncRead(s) \/ SyncAsk(s) \/ SyncFails(s) PROVE WorkInv'
    BY <1>0, <1>18 DEF SyncRead, SyncAsk, SyncFails, provider
  <1>19. ASSUME NEW s \in Syncs, SyncAppend(s) PROVE WorkInv'
    <2>1. /\ sync[s].found \in Statuses /\ sync[s].pull \in Nat /\ events # << >>
      BY <1>19 DEF SyncAppend, SyncsFollow, TypeOK, Sync, Status, Changes
    <2> QED BY <1>3, <1>19, <2>1 DEF SyncAppend, ApprovalInv, provider
  <1>20. CASE UNCHANGED vars
    BY <1>0, <1>20 DEF vars, provider
  <1> QED
    BY <1>1, <1>2, <1>4, <1>5, <1>6, <1>7, <1>8, <1>9, <1>10, <1>11, <1>12, <1>13, <1>14,
       <1>15, <1>16, <1>17, <1>18, <1>19, <1>20
    DEF Next, WorkerStep, SyncStep

LEMMA WorkInvariant == Spec => []WorkInv
  <1>1. Init => WorkInv
    BY DEF Init, WorkInv, ApprovalInv, StageInv, OpenIsDelivered, NoWork
  <1>2. LeaseInv /\ WorkInv /\ [Next]_vars => WorkInv'
    BY WorkStep
  <1> QED BY <1>1, <1>2, LeaseInvariant, PTL DEF Spec

(* However many workers take over from one another, nothing is queued or put *)
(* on the provider but for a preview whose approval stands.                  *)
THEOREM ApprovalComesFirst == Spec => []WorkIsApproved
  <1>1. WorkInv => WorkIsApproved
    BY DEF WorkInv, ApprovalInv, WorkIsApproved
  <1> QED BY <1>1, WorkInvariant, PTL

(* A pull request is opened only for a branch with the approved file.        *)
THEOREM DeliveryComesFirst == Spec => []OpenIsDelivered
  <1>1. WorkInv => OpenIsDelivered
    BY DEF WorkInv, StageInv
  <1> QED BY <1>1, WorkInvariant, PTL
---------------------------------------------------------------------------
(* The timeline is true. Pull requests are never removed and a merge is      *)
(* final, so what was true when a worker or a synchroniser learnt it is true *)
(* when it is recorded.                                                      *)

PullsGrow ==
    /\ Len(pulls) \in Nat /\ Len(pulls') \in Nat /\ Len(pulls) <= Len(pulls')
    /\ \A n \in 1 .. Len(pulls) : pulls[n] = "merged" => pulls'[n] = "merged"

LocalsAreTrue ==
    /\ \A w \in Workers : work[w].pull \in 0 .. Len(pulls)
    /\ \A s \in Syncs :
          /\ sync[s].at # "idle" => sync[s].pull \in 1 .. Len(pulls)
          /\ sync[s].at = "append" /\ sync[s].found = "change_merged" =>
                pulls[sync[s].pull] = "merged"

TruthInv == TimelineIsTrue /\ LocalsAreTrue

LEMMA GrowStep ==
    ASSUME TypeOK, [Next]_vars
    PROVE  PullsGrow
  <1>0. pulls \in Seq(PullStates) /\ Len(pulls) \in Nat /\ DOMAIN pulls = 1 .. Len(pulls)
    BY DEF TypeOK
  <1>1. CASE UNCHANGED pulls
    BY <1>0, <1>1 DEF PullsGrow
  <1>2. ASSUME NEW stage \in Stages, Put(stage) PROVE PullsGrow
    <2>1. "open" \in PullStates
      BY DEF PullStates
    <2> QED BY <1>0, <1>1, <1>2, <2>1, AppendProperties DEF Put, PullsGrow
  <1>3. ASSUME NEW n \in DOMAIN pulls, NEW v, pulls[n] # "merged",
               pulls' = [pulls EXCEPT ![n] = v]
        PROVE  PullsGrow
    <2>1. Len(pulls') = Len(pulls)
      BY <1>0, <1>3
    <2> QED BY <1>0, <1>3, <2>1 DEF PullsGrow
  <1>4. ASSUME NEW w \in Workers, Make(w) \/ MakeUnheard(w) PROVE PullsGrow
    <2>1. work[w].stage \in Stages /\ Put(work[w].stage)
      BY <1>4 DEF Make, MakeUnheard, TypeOK, Work
    <2> QED BY <1>2, <2>1
  <1>5. ASSUME NEW n \in DOMAIN pulls, NEW v \in {"merged", "closed"},
               Reopen(n) \/ Decide(n, v)
        PROVE  PullsGrow
    BY <1>3, <1>5 DEF Reopen, Decide
  <1>6. ASSUME NEW n \in DOMAIN pulls, Reopen(n) PROVE PullsGrow
    BY <1>3, <1>6 DEF Reopen
  <1>7. CASE \/ Submit \/ (\E d \in Decisions : Review(d)) \/ Enqueue \/ Retry
             \/ Expire \/ ExpireEarly \/ UNCHANGED vars
    BY <1>1, <1>7
    DEF Submit, Review, Enqueue, Retry, Expire, ExpireEarly, vars, provider
  <1>8. CASE \E w \in Workers : \/ \E a \in Adapters : Claim(w, a)
                               \/ Look(w) \/ Refused(w) \/ Report(w)
                               \/ Unavailable(w) \/ Crash(w)
    BY <1>1, <1>8 DEF Claim, Look, Refused, Report, Unavailable, Crash, provider
  <1>9. CASE \E s \in Syncs : SyncStep(s) \/ SyncFails(s)
    BY <1>1, <1>9 DEF SyncStep, SyncRead, SyncAsk, SyncAppend, SyncFails, provider
  <1> QED BY <1>4, <1>5, <1>6, <1>7, <1>8, <1>9 DEF Next, WorkerStep

LEMMA TruthStep ==
    ASSUME LeaseInv, TruthInv, [Next]_vars
    PROVE  TruthInv'
  <1> USE DEF LeaseInv, TruthInv
  <1>g. PullsGrow
    BY GrowStep
  <1>e. /\ events \in Seq(Event) /\ DOMAIN events = 1 .. Len(events) /\ Len(events) \in Nat
        /\ \A i \in DOMAIN events : events[i] \in Event
    BY DEF TypeOK
  <1>t. ASSUME UNCHANGED events PROVE TimelineIsTrue'
    <2> SUFFICES ASSUME NEW i \in DOMAIN events
                 PROVE  /\ events[i].pull \in 0 .. Len(pulls')
                        /\ events[i].status \in Changes => events[i].pull # 0
                        /\ events[i].status = "change_merged" => pulls'[events[i].pull] = "merged"
      BY <1>t DEF TimelineIsTrue, Changes
    <2>1. /\ events[i].pull \in 0 .. Len(pulls)
          /\ events[i].status \in Changes => events[i].pull # 0
          /\ events[i].status = "change_merged" =>
                pulls[events[i].pull] = "merged" /\ events[i].pull # 0
      BY DEF TimelineIsTrue, Changes
    <2> QED BY <1>g, <2>1 DEF PullsGrow
  <1>r. ASSUME NEW st \in Statuses, NEW actor \in Workers \cup Syncs \cup {Admin},
               NEW n \in 0 .. Len(pulls), Record(st, actor, n), st \in Changes => n # 0,
               st = "change_merged" => pulls[n] = "merged"
        PROVE  TimelineIsTrue'
    <2>1. n \in Nat
      BY <1>g DEF PullsGrow
    <2>2. /\ DOMAIN events' = 1 .. Len(events) + 1
          /\ \A i \in DOMAIN events : events'[i] = events[i]
          /\ events'[Len(events) + 1] = [status |-> st, actor |-> actor, pull |-> n]
      BY <1>e, <1>r, <2>1, RecordFacts
    <2>3. ASSUME NEW i \in DOMAIN events'
          PROVE  /\ events'[i].pull \in 0 .. Len(pulls')
                 /\ events'[i].status \in Changes' => events'[i].pull # 0
                 /\ events'[i].status = "change_merged" => pulls'[events'[i].pull] = "merged"
      <3>1. CASE i = Len(events) + 1
        BY <1>g, <1>r, <2>2, <3>1 DEF PullsGrow, Changes
      <3>2. CASE i # Len(events) + 1
        <4>1. i \in DOMAIN events /\ events'[i] = events[i]
          BY <1>e, <2>2, <2>3, <3>2
        <4> QED BY <1>g, <4>1 DEF PullsGrow, TimelineIsTrue, Changes
      <3> QED BY <3>1, <3>2
    <2> QED BY <2>3 DEF TimelineIsTrue
  <1> DEFINE WorkTrue == \A w \in Workers : work[w].pull \in 0 .. Len(pulls)
             SyncTrue == \A s \in Syncs :
                 /\ sync[s].at # "idle" => sync[s].pull \in 1 .. Len(pulls)
                 /\ sync[s].at = "append" /\ sync[s].found = "change_merged" =>
                       pulls[sync[s].pull] = "merged"
  <1>l. WorkTrue /\ SyncTrue /\ (WorkTrue' /\ SyncTrue' => LocalsAreTrue')
    BY DEF LocalsAreTrue
  <1>v. ASSUME NEW w \in Workers, NEW v, work' = [work EXCEPT ![w] = v],
               v.pull \in 0 .. Len(pulls')
        PROVE  WorkTrue'
    <2>1. ASSUME NEW u \in Workers PROVE work'[u].pull \in 0 .. Len(pulls')
      <3>1. work'[u] = IF u = w THEN v ELSE work[u]
        BY <1>v DEF TypeOK
      <3> QED BY <1>g, <1>l, <1>v, <3>1 DEF PullsGrow
    <2> QED BY <2>1
  <1>w. ASSUME UNCHANGED work PROVE WorkTrue'
    BY <1>g, <1>l, <1>w DEF PullsGrow
  <1>u. ASSUME NEW s \in Syncs, NEW v, sync' = [sync EXCEPT ![s] = v],
               v.at # "idle" => v.pull \in 1 .. Len(pulls'),
               v.at = "append" /\ v.found = "change_merged" => pulls'[v.pull] = "merged"
        PROVE  SyncTrue'
    <2>1. ASSUME NEW u \in Syncs
          PROVE  /\ sync'[u].at # "idle" => sync'[u].pull \in 1 .. Len(pulls')
                 /\ sync'[u].at = "append" /\ sync'[u].found = "change_merged" =>
                       pulls'[sync'[u].pull] = "merged"
      <3>1. sync'[u] = IF u = s THEN v ELSE sync[u]
        BY <1>u DEF TypeOK
      <3> QED BY <1>g, <1>l, <1>u, <3>1 DEF PullsGrow
    <2> QED BY <2>1
  <1>s. ASSUME UNCHANGED sync PROVE SyncTrue'
    BY <1>g, <1>l, <1>s DEF PullsGrow
  <1>i. NoWork.pull = 0 /\ NoSync.at = "idle" /\ \A ok, n : Reporting(ok, n).pull = n
    BY DEF NoWork, NoSync, Reporting
  <1>q. ASSUME NEW w \in Workers, GiveUp(w) PROVE WorkTrue'
    <2> DEFINE v == Reporting(FALSE, 0)
    <2>1. work' = [work EXCEPT ![w] = v] /\ v.pull = 0
      BY <1>i, <1>q DEF GiveUp
    <2> HIDE DEF v
    <2>2. v.pull \in 0 .. Len(pulls')
      BY <1>g, <2>1 DEF PullsGrow
    <2> QED BY <1>v, <2>1, <2>2
  <1>a. ASSUME NEW w \in Workers, NEW n \in 0 .. Len(pulls'), Advance(w, n) PROVE WorkTrue'
    <2> DEFINE v == IF work[w].stage = "pull" THEN Reporting(TRUE, n)
                    ELSE [NoWork EXCEPT !.at = "look", !.stage = StageAfter(work[w].stage)]
    <2>1. work' = [work EXCEPT ![w] = v]
      BY <1>a DEF Advance
    <2>2. v.pull \in {0, n}
      BY <1>i DEF NoWork
    <2> HIDE DEF v
    <2>3. v.pull \in 0 .. Len(pulls')
      BY <1>a, <1>g, <2>2 DEF PullsGrow
    <2> QED BY <1>v, <2>1, <2>3
  <1> HIDE DEF WorkTrue, SyncTrue
  <1>1. CASE \/ Submit \/ (\E d \in Decisions : Review(d)) \/ Expire \/ ExpireEarly
             \/ (\E n \in DOMAIN pulls : Reopen(n) \/ \E v \in {"merged", "closed"} : Decide(n, v))
             \/ UNCHANGED vars
    BY <1>1, <1>t, <1>w, <1>s, <1>l
    DEF Submit, Review, Expire, ExpireEarly, Reopen, Decide, vars
  <1>2. CASE Enqueue \/ Retry
    <2>1. Record("queued", Admin, 0) /\ "queued" \in Statuses /\ "queued" \notin Changes
          /\ 0 \in 0 .. Len(pulls)
      BY <1>2, <1>g DEF Enqueue, Retry, Statuses, Changes, PullsGrow
    <2> QED BY <1>2, <2>1, <1>r, <1>w, <1>s, <1>l DEF Enqueue, Retry
  <1>3. ASSUME NEW w \in Workers, NEW a \in Adapters, Claim(w, a) PROVE TruthInv'
    <2> DEFINE v == IF a = "github" THEN [NoWork EXCEPT !.at = "look"] ELSE Reporting(TRUE, 0)
    <2>1. Record("claimed", w, 0) /\ "claimed" \in Statuses /\ "claimed" \notin Changes
          /\ 0 \in 0 .. Len(pulls) /\ 0 \in 0 .. Len(pulls')
      BY <1>3, <1>g DEF Claim, Statuses, Changes, PullsGrow
    <2>2. TimelineIsTrue'
      BY <2>1, <1>r
    <2>3. work' = [work EXCEPT ![w] = v] /\ v.pull = 0
      BY <1>3, <1>i DEF Claim, NoWork
    <2> HIDE DEF v
    <2>4. WorkTrue'
      BY <2>1, <2>3, <1>v
    <2> QED BY <1>3, <2>2, <2>4, <1>s, <1>l DEF Claim
  <1>4. ASSUME NEW w \in Workers, Look(w) PROVE TruthInv'
    <2>1. WorkTrue'
      <3>1. CASE Present(work[w].stage)
        <4>1. PICK n \in OpenPulls \cup {0} : Advance(w, n)
          BY <1>4, <3>1 DEF Look
        <4>2. n \in 0 .. Len(pulls')
          BY <1>g, <4>1 DEF OpenPulls, PullsGrow, TypeOK
        <4> QED BY <1>a, <4>1, <4>2
      <3>2. CASE ~Present(work[w].stage)
        <4> DEFINE v == [work[w] EXCEPT !.at = "make"]
        <4>1. work' = [work EXCEPT ![w] = v] /\ v.pull = work[w].pull
          BY <1>4, <3>2 DEF Look, TypeOK, Work
        <4>2. work[w].pull \in 0 .. Len(pulls')
          BY <1>g, <1>l DEF PullsGrow, WorkTrue
        <4> HIDE DEF v
        <4> QED BY <1>v, <4>1, <4>2
      <3> QED BY <3>1, <3>2
    <2> QED BY <1>4, <2>1, <1>t, <1>s, <1>l DEF Look
  <1>5. ASSUME NEW w \in Workers, Make(w) PROVE TruthInv'
    <2>1. Len(pulls') \in 0 .. Len(pulls') /\ Advance(w, Len(pulls'))
      BY <1>5, <1>g DEF Make, PullsGrow
    <2> QED BY <1>5, <2>1, <1>a, <1>t, <1>s, <1>l DEF Make
  <1>6. ASSUME NEW w \in Workers, Refused(w) \/ MakeUnheard(w) \/ Unavailable(w)
        PROVE TruthInv'
    BY <1>6, <1>q, <1>t, <1>s, <1>l DEF Refused, MakeUnheard, Unavailable
  <1>7. ASSUME NEW w \in Workers, Report(w) \/ Crash(w) PROVE TruthInv'
    <2>1. work' = [work EXCEPT ![w] = NoWork] /\ UNCHANGED sync /\ 0 \in 0 .. Len(pulls')
      BY <1>7, <1>g DEF Report, Crash, PullsGrow
    <2>2. WorkTrue' /\ SyncTrue'
      BY <2>1, <1>i, <1>v, <1>s
    <2>3. CASE UNCHANGED events
      BY <2>2, <2>3, <1>t, <1>l
    <2>4. CASE ~UNCHANGED events
      <3> DEFINE verdict == IF work[w].ok THEN "succeeded" ELSE "failed"
      <3>1. Record(verdict, w, work[w].pull)
        BY <1>7, <2>4 DEF Report, Crash
      <3>2. verdict \in Statuses /\ verdict \notin Changes
            /\ work[w].pull \in 0 .. Len(pulls)
        BY <1>l DEF Statuses, Changes, WorkTrue
      <3> HIDE DEF verdict
      <3>3. TimelineIsTrue'
        BY <3>1, <3>2, <1>r DEF Changes
      <3> QED BY <2>2, <3>3, <1>l
    <2> QED BY <2>3, <2>4
  <1>8. ASSUME NEW s \in Syncs, SyncRead(s) PROVE TruthInv'
    <2> DEFINE v == [NoSync EXCEPT !.at = "ask", !.seen = Status, !.pull = Evidence]
    <2>1. Evidence \in 1 .. Len(pulls')
      <3>1. PICK i \in DOMAIN events : events[i].pull = Evidence
        BY <1>8, <1>e, EvidenceType DEF SyncRead
      <3>2. Evidence \in 0 .. Len(pulls) /\ Evidence # 0
        BY <1>8, <3>1 DEF TimelineIsTrue, SyncRead
      <3> QED BY <3>2, <1>g DEF PullsGrow
    <2>2. sync' = [sync EXCEPT ![s] = v] /\ v.at = "ask" /\ v.pull = Evidence
      BY <1>8 DEF SyncRead, NoSync
    <2> HIDE DEF v
    <2>3. SyncTrue'
      BY <1>u, <2>1, <2>2
    <2> QED BY <1>8, <2>3, <1>t, <1>w, <1>l DEF SyncRead
  <1>9. ASSUME NEW s \in Syncs, SyncAsk(s) PROVE TruthInv'
    <2> DEFINE found == StatusOf(pulls[sync[s].pull])
               v == IF found = sync[s].seen THEN NoSync
                    ELSE [sync[s] EXCEPT !.at = "append", !.found = found]
    <2>1. sync[s].pull \in 1 .. Len(pulls') /\ UNCHANGED pulls
      BY <1>9, <1>l, <1>g DEF SyncAsk, SyncTrue, PullsGrow, provider
    <2>2. found = "change_merged" => pulls'[sync[s].pull] = "merged"
      BY <2>1 DEF StatusOf
    <2>3. sync' = [sync EXCEPT ![s] = v]
      BY <1>9 DEF SyncAsk
    <2> HIDE DEF found
    <2>4. v.at # "idle" => v.pull = sync[s].pull /\ v.found = found
      BY <1>i DEF TypeOK, Sync
    <2> HIDE DEF v
    <2>5. SyncTrue'
      BY <1>u, <2>1, <2>2, <2>3, <2>4
    <2> QED BY <1>9, <2>5, <1>t, <1>w, <1>l DEF SyncAsk
  <1>10. ASSUME NEW s \in Syncs, SyncAppend(s) PROVE TruthInv'
    <2>1. /\ sync[s].pull \in 1 .. Len(pulls) /\ sync[s].found \in Statuses
          /\ sync[s].found = "change_merged" => pulls[sync[s].pull] = "merged"
      BY <1>10, <1>l DEF SyncAppend, SyncTrue, TypeOK, Sync
    <2>2. sync[s].pull \in 0 .. Len(pulls) /\ sync[s].pull # 0
      BY <2>1, <1>g DEF PullsGrow
    <2>3. TimelineIsTrue'
      BY <1>10, <2>1, <2>2, <1>r DEF SyncAppend
    <2>4. SyncTrue'
      BY <1>10, <1>u, <1>i DEF SyncAppend
    <2> QED BY <1>10, <2>3, <2>4, <1>w, <1>l DEF SyncAppend
  <1>11. ASSUME NEW s \in Syncs, SyncFails(s) PROVE TruthInv'
    <2>1. SyncTrue'
      BY <1>11, <1>u, <1>i DEF SyncFails
    <2> QED BY <1>11, <2>1, <1>t, <1>w, <1>l DEF SyncFails
  <1> QED
    BY <1>1, <1>2, <1>3, <1>4, <1>5, <1>6, <1>7, <1>8, <1>9, <1>10, <1>11
    DEF Next, WorkerStep, SyncStep

LEMMA TruthInvariant == Spec => []TruthInv
  <1>1. Init => TruthInv
    BY DEF Init, TruthInv, TimelineIsTrue, LocalsAreTrue, NoWork, NoSync
  <1>2. LeaseInv /\ TruthInv /\ [Next]_vars => TruthInv'
    BY TruthStep
  <1> QED BY <1>1, <1>2, LeaseInvariant, PTL DEF Spec

(* No worker or synchroniser, however late or interrupted, records a pull    *)
(* request that does not exist or a merge that did not happen.               *)
THEOREM TimelineIsTruthful == Spec => []TimelineIsTrue
  <1>1. TruthInv => TimelineIsTrue
    BY DEF TruthInv
  <1> QED BY <1>1, TruthInvariant, PTL
---------------------------------------------------------------------------
(* The outbox keeps its promise.  What a synchroniser read is still the      *)
(* newest event when it appends only while no other one runs: the append     *)
(* does not compare the status that was read.                                *)

OneSync == \A s, t \in Syncs : s = t

SyncsFresh ==
    OneSync =>
        \A s \in Syncs :
            /\ sync[s].at # "idle" => Status = sync[s].seen /\ Status \in Followed
            /\ sync[s].at = "append" => sync[s].found \in Changes \ {sync[s].seen}

By == IF events = << >> THEN Nobody ELSE Latest.actor

LEMMA FreshStep ==
    ASSUME LeaseInv, SyncsFresh, [Next]_vars
    PROVE  SyncsFresh'
  <1> SUFFICES ASSUME OneSync PROVE SyncsFresh'
    BY DEF SyncsFresh
  <1> USE DEF LeaseInv, OneSync
  <1>1. ASSUME UNCHANGED <<events, sync>> PROVE SyncsFresh'
    BY <1>1 DEF SyncsFresh, Status, Latest, Changes, Followed
  <1>2. ASSUME Status \notin Followed, UNCHANGED sync PROVE SyncsFresh'
    BY <1>2 DEF SyncsFresh
  <1>3. ASSUME NEW s \in Syncs, sync'[s].at = "idle" PROVE SyncsFresh'
    BY <1>3 DEF SyncsFresh
  <1>4. CASE Enqueue \/ Retry
    BY <1>2, <1>4 DEF Enqueue, Retry, Retryable, Status, Followed
  <1>5. ASSUME NEW w \in Workers, NEW a \in Adapters, Claim(w, a) PROVE SyncsFresh'
    BY <1>2, <1>5 DEF Claim, Claimable, Followed
  <1>6. ASSUME NEW w \in Workers, Report(w) PROVE SyncsFresh'
    <2>1. CASE HoldsLease(w)
      <3>1. Status \notin Followed
        BY <2>1 DEF HoldsLease, LeaseNamesClaim, Followed
      <3> QED BY <1>2, <1>6, <3>1 DEF Report
    <2>2. CASE ~HoldsLease(w)
      BY <1>1, <1>6, <2>2 DEF Report
    <2> QED BY <2>1, <2>2
  <1>7. ASSUME NEW s \in Syncs, SyncRead(s) PROVE SyncsFresh'
    <2> DEFINE v == [NoSync EXCEPT !.at = "ask", !.seen = Status, !.pull = Evidence]
    <2>1. sync' = [sync EXCEPT ![s] = v] /\ v.at = "ask" /\ v.seen = Status
      BY <1>7 DEF SyncRead, NoSync
    <2>2. Status' = Status /\ Status \in Followed
      BY <1>7 DEF SyncRead, Status, Latest
    <2> HIDE DEF v
    <2>3. sync'[s] = v
      BY <2>1 DEF TypeOK
    <2> QED BY <2>1, <2>2, <2>3 DEF SyncsFresh, Followed
  <1>8. ASSUME NEW s \in Syncs, SyncAsk(s) PROVE SyncsFresh'
    <2> DEFINE found == StatusOf(pulls[sync[s].pull])
               v == IF found = sync[s].seen THEN NoSync
                    ELSE [sync[s] EXCEPT !.at = "append", !.found = found]
    <2>1. sync' = [sync EXCEPT ![s] = v]
      BY <1>8 DEF SyncAsk
    <2>2. found \in Changes
      BY DEF StatusOf, Changes
    <2>3. Status' = Status /\ Status = sync[s].seen /\ Status \in Followed
      BY <1>8 DEF SyncAsk, SyncsFresh, Status, Latest
    <2> HIDE DEF found
    <2>4. v = NoSync \/ (v.seen = sync[s].seen /\ v.found = found /\ found # v.seen)
      BY DEF TypeOK, Sync
    <2>5. NoSync.at = "idle"
      BY DEF NoSync
    <2> HIDE DEF v
    <2>6. sync'[s] = v
      BY <2>1 DEF TypeOK
    <2> QED BY <2>2, <2>3, <2>4, <2>5, <2>6 DEF SyncsFresh, Followed, Changes
  <1>9. ASSUME NEW s \in Syncs, SyncAppend(s) \/ SyncFails(s) PROVE SyncsFresh'
    BY <1>3, <1>9 DEF SyncAppend, SyncFails, TypeOK, NoSync
  <1>10. CASE \/ Submit \/ (\E d \in Decisions : Review(d)) \/ Expire \/ ExpireEarly
              \/ (\E n \in DOMAIN pulls : Reopen(n) \/ \E v \in {"merged", "closed"} : Decide(n, v))
              \/ UNCHANGED vars
    BY <1>1, <1>10 DEF Submit, Review, Expire, ExpireEarly, Reopen, Decide, vars
  <1>11. CASE \E w \in Workers : \/ Look(w) \/ Refused(w) \/ Make(w) \/ MakeUnheard(w)
                                \/ Unavailable(w) \/ Crash(w)
    BY <1>1, <1>11 DEF Look, Refused, Make, MakeUnheard, Unavailable, Crash
  <1> QED
    BY <1>4, <1>5, <1>6, <1>7, <1>8, <1>9, <1>10, <1>11 DEF Next, WorkerStep, SyncStep

LEMMA LifecycleStep ==
    ASSUME LeaseInv, SyncsFresh, [Next]_vars
    PROVE  [Lifecycle!Next]_(Lifecycle!vars)
  <1> USE DEF LeaseInv
  <1>0. Attempts \in Nat /\ events \in Seq(Event)
    BY QueuedIsFinite DEF TypeOK
  <1>1. ASSUME UNCHANGED events PROVE UNCHANGED Lifecycle!vars
    BY <1>1 DEF Lifecycle!vars, Status, Latest, Attempts
  <1>2. ASSUME NEW st \in Statuses, NEW actor \in Workers \cup Syncs \cup {Admin}, NEW n \in Nat,
               Record(st, actor, n)
        PROVE  /\ Status' = st /\ By' = actor
               /\ Attempts' = IF st = "queued" THEN Attempts + 1 ELSE Attempts
    BY <1>0, <1>2, RecordFacts DEF By
  <1>3. CASE Enqueue
    <2>1. Attempts = 0 /\ Status = "none"
      BY <1>3, NothingQueued DEF Enqueue, Status
    <2>2. Status' = "queued" /\ By' = Admin /\ Attempts' = 1
      BY <1>2, <1>3, <2>1 DEF Enqueue, Statuses
    <2> QED BY <2>1, <2>2 DEF Lifecycle!Next, Lifecycle!Enqueue, By
  <1>4. CASE Retry
    <2>1. Status' = "queued" /\ By' = Admin /\ Attempts' = Attempts + 1
      BY <1>2, <1>4 DEF Retry, Statuses
    <2> QED BY <1>4, <2>1 DEF Retry, Retryable, Lifecycle!Next, Lifecycle!Retry, By
  <1>5. ASSUME NEW w \in Workers, NEW a \in Adapters, Claim(w, a)
        PROVE  [Lifecycle!Next]_(Lifecycle!vars)
    <2>1. Record("claimed", w, 0) /\ "claimed" \in Statuses
      BY <1>5 DEF Claim, Statuses
    <2>2. Status' = "claimed" /\ By' = w /\ Attempts' = Attempts
      BY <1>2, <2>1
    <2> QED BY <1>5, <2>2 DEF Claim, Claimable, Lifecycle!Next, Lifecycle!Claim, By
  <1>6. ASSUME NEW w \in Workers, Report(w), HoldsLease(w)
        PROVE  [Lifecycle!Next]_(Lifecycle!vars)
    <2> DEFINE verdict == IF work[w].ok THEN "succeeded" ELSE "failed"
    <2>1. Record(verdict, w, work[w].pull)
      BY <1>6 DEF Report
    <2>2. verdict \in Statuses /\ verdict \in {"succeeded", "failed"} /\ work[w].pull \in Nat
      BY DEF Statuses, TypeOK, Work
    <2> HIDE DEF verdict
    <2>3. Status' = verdict /\ By' = w /\ Attempts' = Attempts
      BY <1>2, <2>1, <2>2
    <2>4. Status = "claimed" /\ By = w
      BY <1>6 DEF HoldsLease, LeaseNamesClaim, By, Status
    <2> QED BY <2>2, <2>3, <2>4 DEF Lifecycle!Next, Lifecycle!Settle, By
  <1>7. ASSUME NEW s \in Syncs, SyncAppend(s)
        PROVE  [Lifecycle!Next]_(Lifecycle!vars)
    <2>1. /\ sync[s].found \in Changes /\ Status \in {"succeeded"} \cup Changes
          /\ sync[s].found \in Statuses /\ sync[s].found # "queued" /\ sync[s].pull \in Nat
      BY <1>7 DEF SyncAppend, SyncsFollow, TypeOK, Sync, Changes, Statuses
    <2>2. Lifecycle!Alone(s) => sync[s].found # Status /\ Status \in Followed
      BY <1>7 DEF SyncAppend, SyncsFresh, OneSync, Lifecycle!Alone
    <2>3. Status' = sync[s].found /\ By' = s /\ Attempts' = Attempts
      BY <1>2, <1>7, <2>1 DEF SyncAppend
    <2> QED
      BY <2>1, <2>2, <2>3
      DEF Followed, Changes, Lifecycle!Changes, Lifecycle!Next, Lifecycle!Follow, By
  <1>8. CASE \/ Submit \/ (\E d \in Decisions : Review(d)) \/ Expire \/ ExpireEarly
             \/ (\E n \in DOMAIN pulls : Reopen(n) \/ \E v \in {"merged", "closed"} : Decide(n, v))
             \/ UNCHANGED vars
    BY <1>1, <1>8 DEF Submit, Review, Expire, ExpireEarly, Reopen, Decide, vars
  <1>9. ASSUME NEW w \in Workers,
               \/ Look(w) \/ Refused(w) \/ Make(w) \/ MakeUnheard(w)
               \/ Unavailable(w) \/ Crash(w) \/ (Report(w) /\ ~HoldsLease(w))
        PROVE  [Lifecycle!Next]_(Lifecycle!vars)
    BY <1>1, <1>9 DEF Look, Refused, Make, MakeUnheard, Unavailable, Crash, Report
  <1>10. CASE \E s \in Syncs : SyncRead(s) \/ SyncAsk(s) \/ SyncFails(s)
    BY <1>1, <1>10 DEF SyncRead, SyncAsk, SyncFails
  <1>11. ASSUME NEW w \in Workers, WorkerStep(w) PROVE [Lifecycle!Next]_(Lifecycle!vars)
    <2>1. Report(w) => [Lifecycle!Next]_(Lifecycle!vars)
      BY <1>6, <1>9
    <2> QED BY <1>5, <1>9, <1>11, <2>1, Zenon DEF WorkerStep
  <1> QED
    BY <1>3, <1>4, <1>7, <1>8, <1>9, <1>10, <1>11, Zenon DEF Next, SyncStep

(* The timeline that leases, take-overs and lost reports produce is one of   *)
(* the abstract lifecycle, whatever processes run: a claim is settled by its *)
(* claimant or taken over, after a success only its change is recorded, and  *)
(* a synchroniser that is alone follows it to its end and no further.        *)
THEOREM ImplementsLifecycle == Spec => RefinesLifecycle
  <1>1. Init => Lifecycle!Init /\ SyncsFresh
    BY NothingQueued DEF Init, Lifecycle!Init, SyncsFresh, NoSync, Status
  <1>2. LeaseInv /\ SyncsFresh /\ [Next]_vars => SyncsFresh'
    BY FreshStep
  <1>3. LeaseInv /\ SyncsFresh /\ [Next]_vars => [Lifecycle!Next]_(Lifecycle!vars)
    BY LifecycleStep
  <1> QED
    BY <1>1, <1>2, <1>3, LeaseInvariant, PTL DEF Spec, RefinesLifecycle, Lifecycle!Spec
=============================================================================
