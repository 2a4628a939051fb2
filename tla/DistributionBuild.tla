-------------------------- MODULE DistributionBuild -------------------------
(***************************************************************************)
(* Collector distributions: a build plan is reviewed, prepared and built   *)
(* by background workers, and its artifact is promoted, reviewed and       *)
(* published to a registry by workers that hold a lease, until an          *)
(* administrator releases it.  Every row but the publication job is        *)
(* written once; builds and publications are attempted again when that is  *)
(* due or when an administrator authorises it.  The source and the built   *)
(* collector are files outside the database, named by their checksums,     *)
(* which may be damaged at any time.                                       *)
(***************************************************************************)
EXTENDS Naturals, Sequences, FiniteSets

CONSTANTS
    NumPlans,          \* build plans of one distribution are 1 .. NumPlans
    Admins,            \* administrators
    Requesters,        \* those that ask for plans and promotions: a bound
    RetryHandlers,     \* goroutines that serve the retry-build form
    Publishers,        \* publication workers, each with an ID of its own
    MaxAutomatic,      \* FLEETAMP_DISTRIBUTION_OCB_MAX_AUTOMATIC_ATTEMPTS
    MaxRetries,        \* bound on the authorised retries of each kind and plan
    MaxFaults,         \* bound on restarts, on workers that outlive a lease and
                       \* on files that are damaged
    Nobody

Plans == 1 .. NumPlans

ASSUME DistributionAssumption ==
    /\ NumPlans \in Nat /\ MaxRetries \in Nat /\ MaxFaults \in Nat
    /\ MaxAutomatic \in Nat \ {0}
    /\ Nobody \notin Admins \cup Publishers /\ Requesters \subseteq Admins

VARIABLES
    stage,       \* the newest receipt of each plan
    promotion,   \* the newest receipt of its artifact's promotion
    by,          \* who asked and who decided, for both
    attempts,    \* build attempts, by number
    requests,    \* retry requests: the number of the attempt each names
    due,         \* the time of the next automatic attempt is past
    artifact,    \* the plan's artifact exists
    builder,     \* the pass of the build worker
    form,        \* what each handler read for its retry request
    job,         \* publication jobs
    executions,  \* publication attempts, by number
    retries,     \* authorised retries: the number of the execution each names
    publisher,   \* what each publication worker is at
    releases,    \* plans with a release
    manifest,    \* what each plan asks for
    archive,     \* the file of its source
    file,        \* the file of its collector
    registry,    \* what was pushed to the registry
    faults

plans == <<stage, promotion, by, manifest>>
build == <<attempts, requests, due, artifact, builder, form>>
publication == <<job, executions, retries, publisher>>
files == <<archive, file, registry>>
distributionVars == <<plans, build, publication, releases, files, faults>>

PlanSteps == {"none", "planned", "approved", "rejected", "queued", "preflighted",
              "dry_run", "resolved", "acquired", "inspected"}
PromotionSteps == {"none", "proposed", "approved", "rejected", "queued", "preflighted"}

Manifests == {"reviewed", "unofficial source", "unknown component"}
FileStates == {"none", "whole", "damaged"}

(* retry is the index of the retry request that the attempt consumed, or 0.  *)
Attempt == [ok : BOOLEAN, retry : Nat]

Last(s) == s[Len(s)]
Fault   == faults < MaxFaults /\ faults' = faults + 1

(* The newest of the first n requests that no attempt consumed, or 0.        *)
Newest(tried, n) ==
    LET open == {i \in 1 .. n : \A k \in DOMAIN tried : tried[k].retry # i} IN
    IF open = {} THEN 0 ELSE CHOOSE i \in open : \A j \in open : j <= i

---------------------------------------------------------------------------
(* The plan: rows that need the row before them and are unique under it.     *)

NextStage(p, from, to) ==
    /\ stage[p] = from /\ stage' = [stage EXCEPT ![p] = to]
    /\ UNCHANGED <<promotion, build, publication, releases, faults, file, registry>>

CreatePlan(a, p, m) ==
    /\ a \in Requesters
    /\ NextStage(p, "none", "planned")
    /\ manifest' = [manifest EXCEPT ![p] = m]
    /\ by' = [by EXCEPT ![p].requester = a]
    /\ UNCHANGED archive

(* The requester does not review the plan.                                   *)
ReviewPlan(a, p, decision) ==
    /\ a # by[p].requester
    /\ NextStage(p, "planned", decision)
    /\ by' = [by EXCEPT ![p].reviewer = a]
    /\ UNCHANGED <<manifest, archive>>

QueueBuild(p) == NextStage(p, "approved", "queued") /\ UNCHANGED <<by, manifest, archive>>
Preflight(p)  == NextStage(p, "queued", "preflighted") /\ UNCHANGED <<by, manifest, archive>>

(* The workers that prepare a build, one row of a pass at a time.  The       *)
(* source must be an official release, the archive be as it was fetched, and *)
(* the components be in the reviewed catalog; a plan that is refused is      *)
(* looked at again in every pass.                                            *)
Official(p)  == manifest[p] # "unofficial source"
Supported(p) == manifest[p] # "unknown component"
Inspected(p) == archive[p] = "whole" /\ Supported(p)

DryRun(p)  == NextStage(p, "preflighted", "dry_run") /\ UNCHANGED <<by, manifest, archive>>
Resolve(p) ==
    Official(p) /\ NextStage(p, "dry_run", "resolved") /\ UNCHANGED <<by, manifest, archive>>

(* A download goes to a temporary file, is synced and renamed; one that was  *)
(* cut off is repeated.                                                      *)
Fetched(p) == archive' = [archive EXCEPT ![p] = "whole"]
Acquire(p) == NextStage(p, "resolved", "acquired") /\ Fetched(p) /\ UNCHANGED <<by, manifest>>
Inspect(p) ==
    Inspected(p) /\ NextStage(p, "acquired", "inspected") /\ UNCHANGED <<by, manifest, archive>>

---------------------------------------------------------------------------
(* The build worker.                                                         *)

NoPass == [at |-> "idle", todo |-> {}, seen |-> [p \in Plans |-> 0], plan |-> 0, retry |-> 0]

Automatic(p) == Cardinality({k \in DOMAIN attempts[p] : attempts[p][k].retry = 0})

(* A pass lists the inspections and the requests, and only it makes attempts. *)
List ==
    /\ builder.at = "idle"
    /\ builder' = [NoPass EXCEPT
          !.at = "pass", !.todo = {p \in Plans : stage[p] = "inspected"},
          !.seen = [p \in Plans |-> Len(requests[p])]]
    /\ UNCHANGED <<plans, attempts, requests, due, artifact, form, publication,
                  releases, faults, files>>

(* The retry to run: the newest open one, if it names the latest attempt.    *)
\* Mutant: an open request is run whichever attempt it names.
ManualOfAny(p) == Newest(attempts[p], builder.seen[p])

Manual(p) ==
    LET r == Newest(attempts[p], builder.seen[p]) IN
    IF r # 0 /\ requests[p][r] = Len(attempts[p]) THEN r ELSE 0

\* Mutant: only what is automatic is run again.
MayRunAutomatic(p) ==
    /\ ~artifact[p] /\ Automatic(p) < MaxAutomatic /\ due[p]

MayRun(p) ==
    /\ ~artifact[p]
    /\ \/ attempts[p] = <<>>
       \/ Manual(p) # 0
       \/ Last(attempts[p]).retry = 0 /\ Automatic(p) < MaxAutomatic /\ due[p]

Take(p) ==
    /\ builder.at = "pass" /\ p \in builder.todo
    /\ builder' = IF MayRun(p)
          THEN [builder EXCEPT !.at = "building", !.todo = @ \ {p}, !.plan = p,
                               !.retry = Manual(p)]
          ELSE [builder EXCEPT !.todo = @ \ {p}]
    /\ UNCHANGED <<plans, attempts, requests, due, artifact, form, publication,
                  releases, faults, files>>

\* Mutant: the worker stays at the build that ended.
GoesNowhere == [builder EXCEPT !.plan = 0, !.retry = 0]

Goes == [builder EXCEPT !.at = "pass", !.plan = 0, !.retry = 0]

Record(p, ok) ==
    attempts' = [attempts EXCEPT ![p] = Append(@, [ok |-> ok, retry |-> builder.retry])]

(* A failure of an automatic attempt sets the time of the next one, until    *)
(* there have been enough.                                                   *)
BuildFails ==
    /\ builder.at = "building"
    /\ LET p == builder.plan IN
       /\ Record(p, FALSE)
       /\ due' = [due EXCEPT ![p] = builder.retry # 0 \/ Automatic(p) + 1 >= MaxAutomatic]
    /\ builder' = Goes
    /\ UNCHANGED <<plans, requests, artifact, form, publication, releases, faults, files>>

(* The build ends with a file of its checksum.  One that is there is left as *)
(* it is, unlooked at: an earlier build wrote it, if the builds are alike.   *)
Written(p) ==
    \/ file[p] = "none" /\ file' = [file EXCEPT ![p] = "whole"]
    \/ file[p] # "none" /\ UNCHANGED file
    \/ file[p] = "damaged" /\ file' = [file EXCEPT ![p] = "whole"]

WriteFile ==
    /\ builder.at = "building" /\ Written(builder.plan)
    /\ builder' = [builder EXCEPT !.at = "written"]
    /\ UNCHANGED <<plans, attempts, requests, due, artifact, form, publication,
                   releases, faults, archive, registry>>

(* The artifact is recorded first, and then the attempt.                     *)
BuildSucceeds ==
    /\ builder.at = "written"
    /\ artifact' = [artifact EXCEPT ![builder.plan] = TRUE]
    /\ builder' = [builder EXCEPT !.at = "built"]
    /\ UNCHANGED <<plans, attempts, requests, due, form, publication, releases, faults,
                  files>>

RecordSuccess ==
    /\ builder.at = "built"
    /\ Record(builder.plan, TRUE)
    /\ builder' = Goes
    /\ UNCHANGED <<plans, requests, due, artifact, form, publication, releases, faults,
                  files>>

EndPass ==
    /\ builder.at = "pass" /\ builder.todo = {}
    /\ builder' = NoPass
    /\ UNCHANGED <<plans, attempts, requests, due, artifact, form, publication,
                  releases, faults, files>>

BackoffElapses(p) ==
    /\ ~due[p] /\ due' = [due EXCEPT ![p] = TRUE]
    /\ UNCHANGED <<plans, attempts, requests, artifact, builder, form, publication,
                  releases, faults, files>>

(* The form names an attempt; the handler finds it the latest, and failed ... *)
NoForm == [plan |-> 0, number |-> 0]

ReadLatest(h, p) ==
    /\ form[h] = NoForm /\ attempts[p] # <<>> /\ ~Last(attempts[p]).ok
    /\ Len(requests[p]) < MaxRetries
    /\ form' = [form EXCEPT ![h] = [plan |-> p, number |-> Len(attempts[p])]]
    /\ UNCHANGED <<plans, attempts, requests, due, artifact, builder, publication,
                  releases, faults, files>>

(* ... and then writes the request, which is unique for that attempt.        *)
CreateRetry(h) ==
    /\ form[h] # NoForm
    /\ LET p == form[h].plan
           n == form[h].number IN
       requests' = IF (\E i \in DOMAIN requests[p] : requests[p][i] = n)
                      \/ Len(requests[p]) >= MaxRetries
                   THEN requests
                   ELSE [requests EXCEPT ![p] = Append(@, n)]
    /\ form' = [form EXCEPT ![h] = NoForm]
    /\ UNCHANGED <<plans, attempts, due, artifact, builder, publication, releases,
                  faults, files>>

---------------------------------------------------------------------------
(* The artifact's promotion.                                                 *)

Promote(p, from, to) ==
    /\ promotion[p] = from /\ promotion' = [promotion EXCEPT ![p] = to]
    /\ UNCHANGED <<stage, build, publication, releases, faults, manifest, files>>

ProposePromotion(a, p) ==
    /\ a \in Requesters
    /\ artifact[p]
    /\ Promote(p, "none", "proposed")
    /\ by' = [by EXCEPT ![p].proposer = a]

ReviewPromotion(a, p, decision) ==
    /\ a # by[p].proposer
    /\ Promote(p, "proposed", decision)
    /\ by' = [by EXCEPT ![p].approver = a]

QueuePublication(p) == Promote(p, "approved", "queued") /\ UNCHANGED by

(* The file is hashed again before the publication may be taken up.          *)
Verified(p) == file[p] = "whole"
PreflightPublication(p) ==
    Verified(p) /\ Promote(p, "queued", "preflighted") /\ UNCHANGED by

---------------------------------------------------------------------------
(* Publication.                                                              *)

NoJob  == [status |-> "none", worker |-> Nobody, expired |-> FALSE]
NoWork == [at |-> "idle", plan |-> 0, number |-> 0, retry |-> 0]

(* A preflight is a job; a job is free if it waits or its lease is over.     *)
\* Mutant: a lease is never over.
FreeUnclaimed(p) ==
    \/ promotion[p] = "preflighted" /\ job[p].status = "none"
    \/ job[p].status = "queued"

Free(p) ==
    \/ promotion[p] = "preflighted" /\ job[p].status = "none"
    \/ job[p].status = "queued"
    \/ job[p].status = "running" /\ job[p].expired

Claim(w, p) ==
    /\ publisher[w] = NoWork /\ Free(p)
    /\ job' = [job EXCEPT ![p] = [status |-> "running", worker |-> w, expired |-> FALSE]]
    /\ publisher' = [publisher EXCEPT ![w] = [NoWork EXCEPT !.at = "claimed", !.plan = p]]
    /\ UNCHANGED <<plans, build, executions, retries, releases, faults, files>>

(* The attempt is counted after the claim is committed; a later one needs an *)
(* authorised retry.                                                         *)
Count(w) ==
    /\ publisher[w].at = "claimed"
    /\ LET p == publisher[w].plan
           r == Newest(executions[p], Len(retries[p])) IN
       publisher' = [publisher EXCEPT ![w] =
          IF executions[p] = <<>> THEN [@ EXCEPT !.at = "publishing", !.number = 1]
          ELSE IF r = 0 THEN NoWork
          ELSE [@ EXCEPT !.at = "publishing", !.number = Len(executions[p]) + 1, !.retry = r]]
    /\ UNCHANGED <<plans, build, job, executions, retries, releases, faults, files>>

(* The job belongs to the worker that claimed it last.                       *)
Owns(w, p) == job[p].status = "running" /\ job[p].worker = w

(* What is pushed is a copy of the file that was hashed on the way.          *)
\* Mutant: the copy is not compared with the evidence of the preflight.
StagedUnhashed(p) == file[p] # "none"

Staged(p) == file[p] = "whole"

Push(w) ==
    /\ publisher[w].at = "publishing"
    /\ LET p == publisher[w].plan IN
       Staged(p) /\ registry' = [registry EXCEPT ![p] = @ \cup {file[p]}]
    /\ publisher' = [publisher EXCEPT ![w].at = "pushed"]
    /\ UNCHANGED <<plans, build, job, executions, retries, releases, archive, file, faults>>

(* The registry answers, or not, and the receipt and the job's status are    *)
(* written together if the worker still owns the job.                        *)
Complete(w, ok) ==
    /\ IF ok THEN publisher[w].at = "pushed" ELSE publisher[w].at \in {"publishing", "pushed"}
    /\ LET p == publisher[w].plan
           x == [ok |-> ok, retry |-> publisher[w].retry] IN
       IF Owns(w, p) /\ publisher[w].number = Len(executions[p]) + 1
       THEN /\ executions' = [executions EXCEPT ![p] = Append(@, x)]
            /\ job' = [job EXCEPT ![p] =
                          [NoJob EXCEPT !.status = IF ok THEN "succeeded" ELSE "failed"]]
       ELSE UNCHANGED <<executions, job>>
    /\ publisher' = [publisher EXCEPT ![w] = NoWork]
    /\ UNCHANGED <<plans, build, retries, releases, faults, files>>

(* One transaction: the retry names the latest execution, which failed, and  *)
(* the job waits again.                                                      *)
\* Mutant: the job is not asked.
AuthorizeRetryOnly(p) ==
    /\ executions[p] # <<>> /\ ~Last(executions[p]).ok
    /\ Len(retries[p]) < MaxRetries
    /\ retries' = [retries EXCEPT ![p] = Append(@, Len(executions[p]))]
    /\ job' = [job EXCEPT ![p] = [NoJob EXCEPT !.status = "queued"]]
    /\ UNCHANGED <<plans, build, executions, publisher, releases, faults, files>>

AuthorizeRetry(p) ==
    /\ executions[p] # <<>> /\ ~Last(executions[p]).ok
    /\ \A i \in DOMAIN retries[p] : retries[p][i] # Len(executions[p])
    /\ job[p].status = "failed"
    /\ Len(retries[p]) < MaxRetries
    /\ retries' = [retries EXCEPT ![p] = Append(@, Len(executions[p]))]
    /\ job' = [job EXCEPT ![p] = [NoJob EXCEPT !.status = "queued"]]
    /\ UNCHANGED <<plans, build, executions, publisher, releases, faults, files>>

(* A distribution has one release.                                           *)
Succeeded(p) == \E k \in DOMAIN executions[p] : executions[p][k].ok

Release(p) ==
    /\ Succeeded(p) /\ releases = {}
    /\ releases' = {p}
    /\ UNCHANGED <<plans, build, publication, faults, files>>

---------------------------------------------------------------------------
(* Time and failure.                                                         *)

WorksOn(w, p) == publisher[w].at # "idle" /\ publisher[w].plan = p

(* The lease is longer than the time limit of a publication: it ends under a *)
(* worker that is gone, or, as a fault, under one that was suspended.        *)
LeaseExpires(p) ==
    /\ job[p].status = "running" /\ ~job[p].expired
    /\ job' = [job EXCEPT ![p].expired = TRUE]
    /\ IF WorksOn(job[p].worker, p) THEN Fault ELSE UNCHANGED faults
    /\ UNCHANGED <<plans, build, executions, retries, publisher, releases, files>>

PublisherCrashes(w) ==
    /\ publisher[w] # NoWork /\ Fault
    /\ publisher' = [publisher EXCEPT ![w] = NoWork]
    /\ UNCHANGED <<plans, build, job, executions, retries, releases, files>>

(* The builder renames its file without a sync, and files outlive the process *)
(* on disks that fail.  Once inspected, the archive is not read again.       *)
DamageArchive(p) ==
    /\ stage[p] = "acquired" /\ archive[p] = "whole" /\ Fault
    /\ archive' = [archive EXCEPT ![p] = "damaged"]
    /\ UNCHANGED <<plans, build, publication, releases, file, registry>>

DamageFile(p) ==
    /\ file[p] = "whole" /\ Fault
    /\ file' = [file EXCEPT ![p] = "damaged"]
    /\ UNCHANGED <<plans, build, publication, releases, archive, registry>>

Restart ==
    /\ Fault
    /\ builder' = NoPass /\ form' = [h \in RetryHandlers |-> NoForm]
    /\ UNCHANGED <<plans, attempts, requests, due, artifact, publication, releases, files>>

---------------------------------------------------------------------------

DistributionInit ==
    /\ stage = [p \in Plans |-> "none"] /\ promotion = [p \in Plans |-> "none"]
    /\ by = [p \in Plans |-> [requester |-> Nobody, reviewer |-> Nobody,
                              proposer |-> Nobody, approver |-> Nobody]]
    /\ attempts = [p \in Plans |-> <<>>] /\ requests = [p \in Plans |-> <<>>]
    /\ due = [p \in Plans |-> TRUE] /\ artifact = [p \in Plans |-> FALSE]
    /\ builder = NoPass /\ form = [h \in RetryHandlers |-> NoForm]
    /\ job = [p \in Plans |-> NoJob]
    /\ executions = [p \in Plans |-> <<>>] /\ retries = [p \in Plans |-> <<>>]
    /\ publisher = [w \in Publishers |-> NoWork]
    /\ manifest = [p \in Plans |-> "none"]
    /\ archive = [p \in Plans |-> "none"] /\ file = [p \in Plans |-> "none"]
    /\ registry = [p \in Plans |-> {}]
    /\ releases = {} /\ faults = 0

Decisions == {"approved", "rejected"}

Administer(a, p) ==
    \/ \E m \in Manifests : CreatePlan(a, p, m)
    \/ ProposePromotion(a, p)
    \/ \E d \in Decisions : ReviewPlan(a, p, d) \/ ReviewPromotion(a, p, d)

Prepare(p) ==
    \/ QueueBuild(p) \/ Preflight(p) \/ DryRun(p) \/ Resolve(p) \/ Acquire(p) \/ Inspect(p)

Build ==
    \/ List \/ (\E p \in Plans : Take(p)) \/ BuildFails \/ WriteFile
    \/ BuildSucceeds \/ RecordSuccess \/ EndPass

Publish(w) ==
    \/ \E p \in Plans : Claim(w, p)
    \/ Count(w) \/ Push(w)
    \/ \E ok \in BOOLEAN : Complete(w, ok)

DistributionNext ==
    \/ \E a \in Admins, p \in Plans : Administer(a, p)
    \/ \E p \in Plans : Prepare(p) \/ QueuePublication(p) \/ PreflightPublication(p)
    \/ Build
    \/ \E p \in Plans : BackoffElapses(p) \/ AuthorizeRetry(p) \/ Release(p) \/ LeaseExpires(p)
    \/ \E h \in RetryHandlers : CreateRetry(h) \/ \E p \in Plans : ReadLatest(h, p)
    \/ \E w \in Publishers : Publish(w) \/ PublisherCrashes(w)
    \/ \E p \in Plans : DamageArchive(p) \/ DamageFile(p)
    \/ Restart

(* The workers' loops tick for ever, and time passes.                        *)
Fairness ==
    /\ WF_distributionVars(Build)
    /\ \A w \in Publishers : WF_distributionVars(Publish(w))
    /\ \A p \in Plans : /\ WF_distributionVars(BackoffElapses(p))
                       /\ WF_distributionVars(LeaseExpires(p))

DistributionSpec == DistributionInit /\ [][DistributionNext]_distributionVars
DistributionFairSpec == DistributionSpec /\ Fairness

---------------------------------------------------------------------------
(* Properties.                                                               *)

(* Every variable has its type.                                              *)
TypeOK ==
    /\ stage \in [Plans -> PlanSteps] /\ promotion \in [Plans -> PromotionSteps]
    /\ by \in [Plans -> [requester : Admins \cup {Nobody}, reviewer : Admins \cup {Nobody},
                         proposer : Admins \cup {Nobody}, approver : Admins \cup {Nobody}]]
    /\ attempts \in [Plans -> Seq(Attempt)] /\ executions \in [Plans -> Seq(Attempt)]
    /\ requests \in [Plans -> Seq(Nat)] /\ retries \in [Plans -> Seq(Nat)]
    /\ due \in [Plans -> BOOLEAN] /\ artifact \in [Plans -> BOOLEAN]
    /\ manifest \in [Plans -> Manifests \cup {"none"}]
    /\ archive \in [Plans -> FileStates] /\ file \in [Plans -> FileStates]
    /\ registry \in [Plans -> SUBSET FileStates]
    /\ builder \in [at : {"idle", "pass", "building", "written", "built"}, todo : SUBSET Plans,
                    seen : [Plans -> Nat], plan : {0} \cup Plans, retry : Nat]
    /\ builder.at \in {"building", "written", "built"} => builder.plan # 0
    /\ form \in [RetryHandlers -> [plan : {0} \cup Plans, number : Nat]]
    /\ job \in [Plans -> [status : {"none", "queued", "running", "succeeded", "failed"},
                          worker : Publishers \cup {Nobody}, expired : BOOLEAN]]
    /\ publisher \in [Publishers -> [at : {"idle", "claimed", "publishing", "pushed"},
                                     plan : {0} \cup Plans, number : Nat, retry : Nat]]
    /\ \A w \in Publishers : publisher[w].at # "idle" => publisher[w].plan # 0
    /\ releases \subseteq Plans /\ faults \in Nat

(* Builds are tried again only as allowed: MaxAutomatic times by themselves, *)
(* and then once for each request, which named the attempt just before; and  *)
(* never after a success.                                                    *)
BuildsAreAuthorised ==
    \A p \in Plans :
        /\ Automatic(p) <= MaxAutomatic
        /\ \A k \in DOMAIN attempts[p] :
              /\ attempts[p][k].retry # 0 => requests[p][attempts[p][k].retry] = k - 1
              /\ attempts[p][k].ok => k = Len(attempts[p])

(* The same of publications, which are never repeated by themselves, and     *)
(* whose job agrees with the receipts, whichever workers were suspended or   *)
(* lost between the claim and the receipt.  What reaches the registry is     *)
(* what was built, whatever happened to its file since the preflight.        *)
PublicationsAreAuthorised ==
    \A p \in Plans :
        /\ \A k \in DOMAIN executions[p] :
              /\ IF k = 1 THEN executions[p][k].retry = 0
                 ELSE executions[p][k].retry # 0 /\ retries[p][executions[p][k].retry] = k - 1
              /\ executions[p][k].ok => k = Len(executions[p])
        /\ job[p].status \in {"succeeded", "failed"} =>
              /\ executions[p] # <<>>
              /\ Last(executions[p]).ok = (job[p].status = "succeeded")
        /\ job[p].status \in {"queued", "running"} => Len(executions[p]) = Len(retries[p])
        /\ registry[p] \subseteq {"whole"}

(* A request that names the latest attempt is run, unless a newer request    *)
(* comes: one that is older at heart, for an attempt that was the latest     *)
(* when its handler looked, hides it for ever.                               *)
Answered(p, r) == artifact[p] \/ (Len(requests[p]) >= r /\ Len(attempts[p]) > requests[p][r])

RetryRuns ==
    \A p \in Plans : \A r \in 1 .. MaxRetries :
        (Len(requests[p]) = r /\ requests[p][r] = Len(attempts[p]))
            ~> (Answered(p, r) \/ Len(requests[p]) > r)

(* What the page tells: "The worker will create a new attempt."              *)
EveryRetryRuns ==
    \A p \in Plans : \A r \in 1 .. MaxRetries :
        (Len(requests[p]) = r) ~> Answered(p, r)

(* A queued publication comes to an end, through crashes and lost leases.    *)
PublicationEnds ==
    \A p \in Plans : promotion[p] = "preflighted" ~> job[p].status \in {"succeeded", "failed"}
=============================================================================
