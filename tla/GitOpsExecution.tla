--------------------------- MODULE GitOpsExecution ---------------------------
(***************************************************************************)
(* One approved GitOps preview on its way to a pull request: the approval, *)
(* the outbox with its append-only events and its lease, the workers of    *)
(* several FleetAMP processes, the Git provider, and the synchronisers     *)
(* that follow the pull request.                                           *)
(*                                                                         *)
(* Each transaction of the store is one step, and each call to the         *)
(* provider is one; nothing is locked between two of them.  A lease ends   *)
(* by the clock, which does not stop the worker that holds it.             *)
(***************************************************************************)
EXTENDS Naturals, Sequences, FiniteSets

CONSTANTS
    Workers,      \* IDs of the workers, one per process and all different
    Syncs,        \* IDs of the status synchronisers
    Admin,        \* whoever queues and retries
    Nobody,
    Adapters,     \* "github" writes; "noop" is the dry run
    MaxAttempts,  \* maxGitOpsExecutionAttempts (3)
    MaxFaults,    \* bound on failed calls, crashes and leases that end early
    MaxReopens    \* bound on pull requests opened again

ASSUME GitOpsExecutionAssumption ==
    /\ Workers \cap Syncs = {} /\ Admin \notin Workers \cup Syncs
    /\ Nobody \notin Workers \cup Syncs \cup {Admin}
    /\ Adapters \subseteq {"github", "noop"}
    /\ MaxAttempts \in Nat \ {0} /\ MaxFaults \in Nat /\ MaxReopens \in Nat

Decisions  == {"approved", "rejected", "sent_back"}
Changes    == {"change_open", "change_merged", "change_closed"}
Statuses   == {"queued", "claimed", "succeeded", "failed"} \cup Changes
PullStates == {"open", "merged", "closed"}
Stages     == {"branch", "file", "pull"}

\* An event of the timeline; pull is the pull request in its evidence, or 0.
Event == [status : Statuses, actor : Workers \cup Syncs \cup {Admin}, pull : Nat]
Lease == [owner : Workers, expired : BOOLEAN]
NoLease == [owner |-> Nobody, expired |-> FALSE]
\* A worker looks for what a stage makes, makes it, and reports in the end.
Work == [at : {"idle", "look", "make", "report"}, stage : Stages,
         ok : BOOLEAN, pull : Nat]
\* A synchroniser has read the timeline, then has the provider's answer.
Sync == [at : {"idle", "ask", "append"}, seen : Statuses, pull : Nat, found : Statuses]

VARIABLES
    approval,   \* the preview's approval
    events,     \* the timeline of the execution, empty until it is queued
    lease,
    work,       \* the locals of each worker
    sync,       \* the locals of each synchroniser
    repo,       \* what FleetAMP made at the provider besides pull requests
    pulls,      \* the pull requests of that branch, in order
    faults, reopens

provider == <<repo, pulls>>
vars == <<approval, events, lease, work, sync, provider, faults, reopens>>

Latest   == events[Len(events)]
Status   == IF events = << >> THEN "none" ELSE Latest.status
Attempts == Cardinality({i \in DOMAIN events : events[i].status = "queued"})

Record(status, actor, pull) ==
    events' = Append(events, [status |-> status, actor |-> actor, pull |-> pull])

Fault == faults < MaxFaults /\ faults' = faults + 1

---------------------------------------------------------------------------
(* The administrator's requests.                                             *)

Submit ==
    /\ approval = "none" /\ approval' = "pending"
    /\ UNCHANGED <<events, lease, work, sync, provider, faults, reopens>>

\* Mutant: the decision is written whatever was decided before.
DecideAgain == approval # "none"
Undecided == approval = "pending"

Review(decision) ==
    /\ Undecided /\ approval' = decision
    /\ UNCHANGED <<events, lease, work, sync, provider, faults, reopens>>

(* The table holds one execution per approval.                               *)
Enqueue ==
    /\ approval = "approved" /\ events = << >>
    /\ Record("queued", Admin, 0)
    /\ UNCHANGED <<approval, lease, work, sync, provider, faults, reopens>>

\* Mutant: one attempt too many.
RetryableOnce == Status = "failed" /\ Attempts <= MaxAttempts
Retryable == Status = "failed" /\ Attempts < MaxAttempts

Retry ==
    /\ Retryable
    /\ Record("queued", Admin, 0)
    /\ UNCHANGED <<approval, lease, work, sync, provider, faults, reopens>>

---------------------------------------------------------------------------
(* The worker: claim, execute, complete.                                     *)

Unleased == lease = NoLease \/ lease.expired

\* Mutant: an interrupted execution is not offered again.
QueuedOnly == Status = "queued" /\ Unleased
Claimable ==
    \/ Status = "queued" /\ Unleased
    \/ Status = "claimed" /\ lease.expired

NoWork == [at |-> "idle", stage |-> "branch", ok |-> FALSE, pull |-> 0]
Reporting(ok, pull) == [NoWork EXCEPT !.at = "report", !.ok = ok, !.pull = pull]

Claim(w, adapter) ==
    /\ work[w].at = "idle" /\ Claimable
    /\ Record("claimed", w, 0)
    /\ lease' = [owner |-> w, expired |-> FALSE]
    /\ work' = [work EXCEPT ![w] =
          IF adapter = "github" THEN [NoWork EXCEPT !.at = "look"] ELSE Reporting(TRUE, 0)]
    /\ UNCHANGED <<approval, sync, provider, faults, reopens>>

StageAfter(stage) == IF stage = "branch" THEN "file" ELSE "pull"

OpenPulls == {n \in DOMAIN pulls : pulls[n] = "open"}
Present(stage) == IF stage = "pull" THEN OpenPulls # {} ELSE stage \in repo

Advance(w, pull) ==
    work' = [work EXCEPT ![w] =
        IF @.stage = "pull" THEN Reporting(TRUE, pull)
        ELSE [NoWork EXCEPT !.at = "look", !.stage = StageAfter(work[w].stage)]]

GiveUp(w) == work' = [work EXCEPT ![w] = Reporting(FALSE, 0)]

(* ensureBranch, putFile and ensurePullRequest first read what is there.     *)
Look(w) ==
    /\ work[w].at = "look"
    /\ IF Present(work[w].stage)
       THEN \E n \in IF work[w].stage = "pull" THEN OpenPulls ELSE {0} : Advance(w, n)
       ELSE work' = [work EXCEPT ![w].at = "make"]
    /\ UNCHANGED <<approval, events, lease, sync, provider, faults, reopens>>

(* The provider makes nothing twice, and after a merge it may find no        *)
(* difference to open a pull request for.                                    *)
Refuses(stage) ==
    \/ Present(stage)
    \/ stage = "pull" /\ \E n \in DOMAIN pulls : pulls[n] = "merged"

Refused(w) ==
    /\ work[w].at = "make" /\ Refuses(work[w].stage)
    /\ GiveUp(w)
    /\ UNCHANGED <<approval, events, lease, sync, provider, faults, reopens>>

Put(stage) ==
    IF stage = "pull"
    THEN pulls' = Append(pulls, "open") /\ UNCHANGED repo
    ELSE repo' = repo \cup {stage} /\ UNCHANGED pulls

Make(w) ==
    /\ work[w].at = "make" /\ ~Present(work[w].stage)
    /\ Put(work[w].stage)
    /\ Advance(w, Len(pulls'))
    /\ UNCHANGED <<approval, events, lease, sync, faults, reopens>>

(* The provider did it and its answer is lost.                               *)
MakeUnheard(w) ==
    /\ work[w].at = "make" /\ ~Present(work[w].stage) /\ Fault
    /\ Put(work[w].stage)
    /\ GiveUp(w)
    /\ UNCHANGED <<approval, events, lease, sync, reopens>>

(* The preview, the connection or the provider cannot be read or reached.    *)
Unavailable(w) ==
    /\ work[w].at \in {"look", "make"} /\ Fault
    /\ GiveUp(w)
    /\ UNCHANGED <<approval, events, lease, sync, provider, reopens>>

\* Mutants: the owner is not compared; the lease stays.
AnyLease(w) == lease # NoLease
KeepLease == lease
HoldsLease(w) == lease # NoLease /\ lease.owner = w
Released == NoLease

(* Complete: a worker that lost its lease records nothing.                   *)
Report(w) ==
    /\ work[w].at = "report"
    /\ work' = [work EXCEPT ![w] = NoWork]
    /\ IF HoldsLease(w)
       THEN /\ Record(IF work[w].ok THEN "succeeded" ELSE "failed", w, work[w].pull)
            /\ lease' = Released
       ELSE UNCHANGED <<events, lease>>
    /\ UNCHANGED <<approval, sync, provider, faults, reopens>>

(* A store error, or the process ends: the lease stays behind.               *)
Crash(w) ==
    /\ work[w].at # "idle" /\ Fault
    /\ work' = [work EXCEPT ![w] = NoWork]
    /\ UNCHANGED <<approval, events, lease, sync, provider, reopens>>

Leased == lease # NoLease /\ ~lease.expired
EndLease == lease' = [lease EXCEPT !.expired = TRUE]

Expire ==
    /\ Leased /\ work[lease.owner].at = "idle"
    /\ EndLease
    /\ UNCHANGED <<approval, events, work, sync, provider, faults, reopens>>

(* The execution takes longer than FLEETAMP_GITOPS_LEASE_TTL.                *)
ExpireEarly ==
    /\ Leased /\ work[lease.owner].at # "idle" /\ Fault
    /\ EndLease
    /\ UNCHANGED <<approval, events, work, sync, provider, reopens>>

---------------------------------------------------------------------------
(* People at the provider.                                                   *)

Decide(n, verdict) ==
    /\ pulls[n] = "open" /\ pulls' = [pulls EXCEPT ![n] = verdict]
    /\ UNCHANGED <<approval, events, lease, work, sync, repo, faults, reopens>>

Reopen(n) ==
    /\ pulls[n] = "closed" /\ OpenPulls = {}
    /\ reopens < MaxReopens /\ reopens' = reopens + 1
    /\ pulls' = [pulls EXCEPT ![n] = "open"]
    /\ UNCHANGED <<approval, events, lease, work, sync, repo, faults>>

---------------------------------------------------------------------------
(* The status synchroniser: read the timeline, ask, append.                  *)

(* The newest evidence that names a pull request.                            *)
Naming == {i \in DOMAIN events : events[i].pull # 0}
Evidence ==
    IF Naming = {} THEN 0
    ELSE events[CHOOSE i \in Naming : \A j \in Naming : j <= i].pull

\* Mutant: an open change is not asked for again.
SucceededOnly == {"succeeded"}
Followed == {"succeeded", "change_open"}

NoSync == [at |-> "idle", seen |-> "queued", pull |-> 0, found |-> "queued"]

\* Mutant: whatever is not open counts as merged.
StatusBySHA(state) == IF state = "open" THEN "change_open" ELSE "change_merged"
StatusOf(state) ==
    IF state = "merged" THEN "change_merged"
    ELSE IF state = "closed" THEN "change_closed" ELSE "change_open"

SyncRead(s) ==
    /\ sync[s].at = "idle"
    /\ Status \in Followed /\ Evidence # 0
    /\ sync' = [sync EXCEPT ![s] =
          [NoSync EXCEPT !.at = "ask", !.seen = Status, !.pull = Evidence]]
    /\ UNCHANGED <<approval, events, lease, work, provider, faults, reopens>>

SyncAsk(s) ==
    /\ sync[s].at = "ask"
    /\ LET found == StatusOf(pulls[sync[s].pull]) IN
       sync' = [sync EXCEPT ![s] =
           IF found = @.seen THEN NoSync ELSE [@ EXCEPT !.at = "append", !.found = found]]
    /\ UNCHANGED <<approval, events, lease, work, provider, faults, reopens>>

SyncAppend(s) ==
    /\ sync[s].at = "append"
    /\ Record(sync[s].found, s, sync[s].pull)
    /\ sync' = [sync EXCEPT ![s] = NoSync]
    /\ UNCHANGED <<approval, lease, work, provider, faults, reopens>>

SyncFails(s) ==
    /\ sync[s].at # "idle" /\ Fault
    /\ sync' = [sync EXCEPT ![s] = NoSync]
    /\ UNCHANGED <<approval, events, lease, work, provider, reopens>>

---------------------------------------------------------------------------
Init ==
    /\ approval = "none" /\ events = << >> /\ lease = NoLease
    /\ work = [w \in Workers |-> NoWork] /\ sync = [s \in Syncs |-> NoSync]
    /\ repo = {} /\ pulls = << >>
    /\ faults = 0 /\ reopens = 0

WorkerStep(w) ==
    \/ \E a \in Adapters : Claim(w, a)
    \/ Look(w) \/ Make(w) \/ Refused(w) \/ Report(w)

SyncStep(s) == SyncRead(s) \/ SyncAsk(s) \/ SyncAppend(s)

Next ==
    \/ Submit \/ (\E d \in Decisions : Review(d)) \/ Enqueue \/ Retry
    \/ \E w \in Workers : WorkerStep(w) \/ MakeUnheard(w) \/ Unavailable(w) \/ Crash(w)
    \/ Expire \/ ExpireEarly
    \/ \E n \in DOMAIN pulls : Reopen(n) \/ \E v \in {"merged", "closed"} : Decide(n, v)
    \/ \E s \in Syncs : SyncStep(s) \/ SyncFails(s)

Spec == Init /\ [][Next]_vars

(* The loops of workers and synchronisers run on tickers, and time passes.   *)
(* Nobody has to review, retry or merge anything.                            *)
Fairness ==
    /\ \A w \in Workers : WF_vars(WorkerStep(w))
    /\ \A s \in Syncs : WF_vars(SyncStep(s))
    /\ WF_vars(Expire)

FairSpec == Spec /\ Fairness

---------------------------------------------------------------------------
(* The states the program can be in; an execution is queued a bounded number *)
(* of times, whatever fails.                                                 *)
TypeOK ==
    /\ approval \in {"none", "pending"} \cup Decisions
    /\ events \in Seq(Event)
    /\ lease \in Lease \cup {NoLease}
    /\ work \in [Workers -> Work]
    /\ sync \in [Syncs -> Sync]
    /\ repo \subseteq {"branch", "file"}
    /\ pulls \in Seq(PullStates)
    /\ faults \in 0 .. MaxFaults /\ reopens \in 0 .. MaxReopens
    /\ Attempts <= MaxAttempts

(* There is a lease exactly while the timeline ends with a claim, and it is  *)
(* the claimant's: no settled execution is leased, and no claimed one is     *)
(* without the lease whose end lets another worker take it.                  *)
LeaseNamesClaim ==
    /\ lease # NoLease <=> Status = "claimed"
    /\ lease # NoLease => lease.owner = Latest.actor

(* Nothing is queued, nor put on the provider, but for an approved preview,  *)
(* and that decision stands.                                                 *)
WorkIsApproved ==
    events # << >> \/ repo # {} \/ pulls # << >> => approval = "approved"

(* A pull request is opened only for a branch that has the approved file,    *)
(* whichever workers made the parts.                                         *)
OpenIsDelivered == pulls # << >> => repo = {"branch", "file"}

(* The timeline does not invent: its pull requests exist and what it says    *)
(* is merged is merged.                                                      *)
TimelineIsTrue ==
    \A i \in DOMAIN events :
        /\ events[i].pull \in 0 .. Len(pulls)
        /\ events[i].status \in Changes => events[i].pull # 0
        /\ events[i].status = "change_merged" => pulls[events[i].pull] = "merged"

(* The outbox keeps its promise.                                             *)
Lifecycle == INSTANCE GitOpsLifecycle WITH
    phase    <- Status,
    by       <- IF events = << >> THEN Nobody ELSE Latest.actor,
    attempts <- Attempts
RefinesLifecycle == Lifecycle!Spec

(* A queued or claimed execution is settled in the end, though workers stop, *)
(* their reports fail and leases end under them.                             *)
Settles == Status \in {"queued", "claimed"} ~> Status \notin {"queued", "claimed"}

(* A merge of the change that the timeline follows is recorded in the end,   *)
(* unless the change was recorded as closed before.                          *)
MergeNoticed ==
    Status \in {"succeeded", "change_open"} /\ Evidence # 0 /\ pulls[Evidence] = "merged"
        ~> Status \in {"change_merged", "change_closed"}
=============================================================================
