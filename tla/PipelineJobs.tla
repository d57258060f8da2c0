---------------------------- MODULE PipelineJobs ----------------------------
(***************************************************************************)
(* The job-table pipeline runner (pipeline/runner.py) for one listing: the *)
(* rows of pipeline_jobs, the listing's state column, the runs that worker *)
(* processes hold in memory, and the API handlers that act on both.        *)
(*                                                                         *)
(* Every action is one database transaction, except that a run's last      *)
(* transaction is two actions: it reads the row without a lock             *)
(* (RunJobResult) and writes it later (RunJobWrite), and READ COMMITTED    *)
(* lets other transactions commit in between.                              *)
(*                                                                         *)
(* Time is abstracted.  run_after only delays a claim; a RUNNING row may   *)
(* be found stale at any moment (its worker died, or is merely slow).      *)
(* started_at is only ever compared for equality, so a run records whether *)
(* the started_at it read is still the row's (`current').                  *)
(***************************************************************************)
EXTENDS PipelineDefinition

CONSTANTS
    Slots,      \* run slots of the worker processes (their free_slots)
    Workers,    \* worker processes
    WorkerOf,   \* WorkerOf[k]: the process a slot belongs to
    AutoApprove \* outcomes of packaging's auto-approve test, a subset of BOOLEAN

VARIABLES
    listing,    \* listings.state
    starting,   \* a start request has committed UPLOADING and not yet enqueued
    addons,     \* active add-on purchases of the listing
    status,     \* status[s]: pipeline_jobs.status of step s, or "absent"
    attempts,   \* attempts[s]: pipeline_jobs.attempts
    lockedBy,   \* lockedBy[s]: pipeline_jobs.locked_by
    run,        \* run[k]: what slot k is doing
    worker      \* worker[w]: "up", or "stopping" after a CancelledError

rows == <<status, attempts, lockedBy>>
vars == <<listing, starting, addons, status, attempts, lockedBy, run, worker>>

None == "none"          \* locked_by IS NULL
Dead == "dead"          \* the id of a process that is gone (ids are never reused)
ASSUME WorkerNames == None \notin Workers /\ Dead \notin Workers
ASSUME SlotOwners == WorkerOf \in [Slots -> Workers]
ASSUME AutoApproveType == AutoApprove \subseteq BOOLEAN /\ AutoApprove # {}

ListingStates == {"DRAFT", "NEW", "UPLOADING", "ANALYZING", "AWAITING_REVIEW",
                  "IN_REVIEW", "APPROVED", "EXPORTING", "DELIVERED",
                  "PIPELINE_TIMEOUT", "FAILED", "CANCELLED"}
JobStatus == {"queued", "waiting", "running", "done", "failed", "skipped", "cancelled"}
Phases == {"idle", "picked", "claimed", "running", "committed", "writing"}
Outcomes == {"none", "done", "requeue", "fail", "handback"}

\* `auto' is the auto_approved entry of packaging's result; `left' the attempts
\* a hand-back writes.
IdleRun == [phase |-> "idle", step |-> AwaitReview, current |-> FALSE,
            auto |-> FALSE, outcome |-> "none", left |-> 0]

NoRows == \A s \in Steps : status[s] = "absent"

-----------------------------------------------------------------------------
(* The runner's helpers.                                                   *)

\* A variant that does not tolerate the failure of an optional step.
SatisfiedIntolerant(s) == status[s] \in {"done", "skipped"}

\* is_satisfied
Satisfied(s) ==
    \/ status[s] \in {"done", "skipped"}
    \/ status[s] = "failed" /\ s \in Optional

\* The rows enqueue_pipeline leaves: existing ones as they are, one row for
\* every other step.
Enqueued(enabled) ==
    [s \in Steps |->
        IF status[s] # "absent" THEN status[s]
        ELSE IF s = AwaitReview THEN "waiting"
        ELSE IF GatedOff(s, enabled) THEN "skipped"
        ELSE "queued"]

\* A variant that leaves the lock of the rows it sets.
SetOnly(S, st) ==
    /\ status' = [s \in Steps |-> IF s \in S THEN st ELSE status[s]]
    /\ UNCHANGED lockedBy

\* The rows after setting every step of S, and releasing its lock.
Released(S, st) ==
    /\ status' = [s \in Steps |-> IF s \in S THEN st ELSE status[s]]
    /\ lockedBy' = [s \in Steps |-> IF s \in S THEN None ELSE lockedBy[s]]

\* fail_listing cancels what has not started; st is the status array it finds.
CancelPending(st) ==
    [s \in Steps |-> IF st[s] \in {"queued", "waiting"} THEN "cancelled" ELSE st[s]]

\* A variant that is off by one.
PastAttempts(s) == attempts[s] > MaxAttempts[s]

\* job.attempts >= job.max_attempts
OutOfAttempts(s) == attempts[s] >= MaxAttempts[s]

\* Variants of the zombie guard: without the status, and without both tests.
SameStart(k) == run[k].current
Unguarded(k) == run[k].phase # "idle"

\* The zombie guard of run_job and _handle_failure: the row is still RUNNING and
\* was not claimed again since this run read its started_at.
StillOwned(k) == status[run[k].step] = "running" /\ run[k].current

\* A claim that ended in a shutdown does not count as an attempt.
Decremented(n) == IF n > 0 THEN n - 1 ELSE 0

\* complete_review
ReviewCompleted(st) ==
    IF st[AwaitReview] = "waiting" THEN [st EXCEPT ![AwaitReview] = "done"] ELSE st

\* cancel_listing_jobs
CancelListingJobs ==
    Released({s \in Steps : status[s] \in {"queued", "waiting", "running"}}, "cancelled")

-----------------------------------------------------------------------------
(* The worker processes.                                                   *)

\* A variant that does not look at the siblings.
Unparked(s) ==
    status[s] = "queued" /\ ~(s \in PostReviewSteps /\ status[AwaitReview] = "waiting")

\* A queued row, not parked behind a waiting gate, with everything it requires
\* satisfied.
Claimable(s) ==
    /\ status[s] = "queued"
    /\ ~(s \in PostReviewSteps /\ status[AwaitReview] = "waiting")
    /\ \A d \in Requires[s] : Satisfied(d)

\* claim_next, the reads.
PickCandidate(k, s) ==
    /\ worker[WorkerOf[k]] = "up"
    /\ run[k].phase = "idle"
    /\ Claimable(s)
    /\ run' = [run EXCEPT ![k] = [IdleRun EXCEPT !.phase = "picked", !.step = s]]
    /\ UNCHANGED <<listing, starting, addons, rows, worker>>

\* claim_next, the compare-and-set: it wins iff the row is still queued.  A new
\* started_at makes every other run of the step a stale one.
ClaimNext(k) ==
    LET s == run[k].step IN
    /\ run[k].phase = "picked"
    /\ IF status[s] = "queued"
       THEN /\ status' = [status EXCEPT ![s] = "running"]
            /\ lockedBy' = [lockedBy EXCEPT ![s] = WorkerOf[k]]
            /\ attempts' = [attempts EXCEPT ![s] = @ + 1]
            /\ run' = [j \in Slots |->
                        IF j = k THEN [run[k] EXCEPT !.phase = "claimed"]
                        ELSE IF run[j].step = s THEN [run[j] EXCEPT !.current = FALSE]
                        ELSE run[j]]
       ELSE run' = [run EXCEPT ![k] = IdleRun] /\ UNCHANGED rows
    /\ UNCHANGED <<listing, starting, addons, worker>>

\* run_job, first transaction: read the row's started_at, whoever wrote it, and
\* call the step's agent.  The row's status is not looked at.
RunJobStart(k) ==
    /\ run[k].phase = "claimed"
    /\ run' = [run EXCEPT ![k].phase = "running", ![k].current = TRUE]
    /\ UNCHANGED <<listing, starting, addons, rows, worker>>

\* The state an agent gives the listing when its own transaction commits.
AgentStates(s) ==
    {st \in ListingStates :
        \/ s = Ingestion /\ st = "ANALYZING"
        \/ s = Packaging /\ st = "APPROVED" /\ TRUE \in AutoApprove
        \/ s = Packaging /\ st = "AWAITING_REVIEW" /\ FALSE \in AutoApprove
        \/ s = MlsExport /\ st = "EXPORTING"
        \/ s = Distribution /\ st = "DELIVERED"}

\* An agent commits.  It does not look at the state it overwrites, nor at the
\* row of the job it runs for.
AgentCommit(k) ==
    /\ run[k].phase = "running"
    /\ \E st \in AgentStates(run[k].step) :
        /\ listing' = st
        /\ run' = [run EXCEPT ![k].phase = "committed", ![k].auto = (st = "APPROVED")]
    /\ UNCHANGED <<starting, addons, rows, worker>>

\* What the agent's call can end in: its result, an error that is_retryable (a
\* time-out strikes even after the agent's commit), or one that is not.
AgentResults(k) ==
    {r \in {"ok", "retryable", "fatal"} :
        \/ run[k].phase = "committed" /\ r # "fatal"
        \/ run[k].phase = "running" /\ (r = "ok" => AgentStates(run[k].step) = {})}

\* run_job / _handle_failure, the unlocked read: a run whose row is no longer
\* RUNNING with the started_at it knows is stale and is dropped.
RunJobResult(k) ==
    LET s == run[k].step IN
    /\ \E r \in AgentResults(k) :
        LET retry   == r = "retryable" /\ ~OutOfAttempts(s)
            outcome == IF r = "ok" THEN "done" ELSE IF retry THEN "requeue" ELSE "fail"
        IN  run' = [run EXCEPT ![k] =
                      IF StillOwned(k)
                      THEN [run[k] EXCEPT !.phase = "writing", !.outcome = outcome]
                      ELSE IdleRun]
    /\ UNCHANGED <<listing, starting, addons, rows, worker>>

\* run_job / _handle_failure / _requeue, the write and commit.
RunJobWrite(k) ==
    LET s == run[k].step
        Write(st) == lockedBy' = [lockedBy EXCEPT ![s] = None] /\ status' = st
    IN
    /\ run[k].phase = "writing"
    /\ \/ /\ run[k].outcome = "done"
          /\ LET st == [status EXCEPT ![s] = "done"]
             IN  Write(IF run[k].auto THEN ReviewCompleted(st) ELSE st)
          /\ UNCHANGED <<listing, attempts>>
       \/ /\ run[k].outcome = "requeue"
          /\ Write([status EXCEPT ![s] = "queued"])
          /\ UNCHANGED <<listing, attempts>>
       \/ /\ run[k].outcome = "fail"
          /\ LET st == [status EXCEPT ![s] = "failed"]
             IN  IF s \in Optional
                 THEN Write(st) /\ UNCHANGED listing
                 ELSE Write(CancelPending(st)) /\ listing' = "FAILED"
          /\ UNCHANGED attempts
       \/ /\ run[k].outcome = "handback"
          /\ Write([status EXCEPT ![s] = "queued"])
          /\ attempts' = [attempts EXCEPT ![s] = run[k].left]
          /\ UNCHANGED listing
    /\ run' = [run EXCEPT ![k] = IdleRun]
    /\ UNCHANGED <<starting, addons, worker>>

\* run_job raises out of _run (the database was out of reach): the slot is free
\* again and the row stays RUNNING.
RunJobLost(k) ==
    /\ run[k].phase # "idle"
    /\ run' = [run EXCEPT ![k] = IdleRun]
    /\ UNCHANGED <<listing, starting, addons, rows, worker>>

\* A variant that leaves alone what has no attempt left.
StaleWithAttempts(s) == status[s] = "running" /\ ~OutOfAttempts(s)

\* reclaim_stale looks at every RUNNING row; which of them is past its cut-off is
\* left open.
MaybeStale(s) == status[s] = "running"

\* reclaim_stale on one RUNNING row: hand it back, or fail it when its attempts
\* are used up.  started_at stays, so the old run can still be current.
ReclaimStale(s) ==
    /\ MaybeStale(s)
    /\ lockedBy' = [lockedBy EXCEPT ![s] = None]
    /\ IF OutOfAttempts(s)
       THEN LET st == [status EXCEPT ![s] = "failed"]
            IN  IF s \in Optional
                THEN status' = st /\ UNCHANGED listing
                ELSE status' = CancelPending(st) /\ listing' = "FAILED"
       ELSE status' = [status EXCEPT ![s] = "queued"] /\ UNCHANGED listing
    /\ UNCHANGED <<starting, addons, attempts, run, worker>>

\* The process dies with its runs; the one that replaces it has a new id.
Crash(w) ==
    /\ run' = [k \in Slots |-> IF WorkerOf[k] = w THEN IdleRun ELSE run[k]]
    /\ lockedBy' = [s \in Steps |-> IF lockedBy[s] = w THEN Dead ELSE lockedBy[s]]
    /\ worker' = [worker EXCEPT ![w] = "up"]
    /\ UNCHANGED <<listing, starting, addons, status, attempts>>

\* worker_loop is told to stop: it claims nothing more.
Stop(w) ==
    /\ worker[w] = "up"
    /\ worker' = [worker EXCEPT ![w] = "stopping"]
    /\ UNCHANGED <<listing, starting, addons, rows, run>>

\* _requeue, the read, in the handler of a run's CancelledError.
HandBack(k) ==
    LET s == run[k].step IN
    /\ worker[WorkerOf[k]] = "stopping"
    /\ run[k].phase \notin {"idle", "picked"} /\ run[k].outcome # "handback"
    /\ run' = [run EXCEPT ![k] =
                 IF status[s] = "running" /\ lockedBy[s] = WorkerOf[k]
                 THEN [run[k] EXCEPT !.phase = "writing", !.outcome = "handback",
                                     !.left = Decremented(attempts[s])]
                 ELSE IdleRun]
    /\ UNCHANGED <<listing, starting, addons, rows, worker>>

\* requeue_owned: the last thing a stopping process does; its successor is up.
RequeueOwned(w) ==
    LET Owned == {s \in Steps : status[s] = "running" /\ lockedBy[s] = w} IN
    /\ worker[w] = "stopping"
    /\ \A k \in Slots : WorkerOf[k] = w => run[k].phase = "idle"
    /\ Released(Owned, "queued")
    /\ attempts' = [s \in Steps |-> IF s \in Owned THEN Decremented(attempts[s])
                                    ELSE attempts[s]]
    /\ worker' = [worker EXCEPT ![w] = "up"]
    /\ UNCHANGED <<listing, starting, addons, run>>

-----------------------------------------------------------------------------
(* The API handlers and the periodic sweep.  Each holds the listing's row  *)
(* lock from its check to its commit, unless its comment says otherwise.   *)

\* start_pipeline, first commit.
StartPipeline ==
    /\ listing = "DRAFT"
    /\ listing' = "UPLOADING" /\ starting' = TRUE
    /\ UNCHANGED <<addons, rows, run, worker>>

\* register_assets (no row lock), first commit.
RegisterAssets ==
    /\ listing \in {"NEW", "UPLOADING"} /\ ~starting
    /\ listing' = "UPLOADING" /\ starting' = TRUE
    /\ UNCHANGED <<addons, rows, run, worker>>

\* start_listing_pipeline, in a transaction of its own: the state is not read again.
TriggerPipeline ==
    /\ starting /\ starting' = FALSE
    /\ status' = Enqueued(addons)
    /\ UNCHANGED <<listing, addons, attempts, lockedBy, run, worker>>

\* ... it raises, or the API process dies between the two commits.
TriggerFailed ==
    /\ starting /\ starting' = FALSE
    /\ listing' \in {listing, "FAILED"}
    /\ UNCHANGED <<addons, rows, run, worker>>

StartReview ==
    /\ listing = "AWAITING_REVIEW"
    /\ listing' = "IN_REVIEW"
    /\ UNCHANGED <<starting, addons, rows, run, worker>>

\* approve_listing, bulk_approve.  A missing gate is only logged.
Approve ==
    /\ listing = "IN_REVIEW"
    /\ listing' = "APPROVED"
    /\ status' = ReviewCompleted(status)
    /\ UNCHANGED <<starting, addons, attempts, lockedBy, run, worker>>

Reject ==
    /\ listing \in {"AWAITING_REVIEW", "IN_REVIEW"}
    /\ CancelListingJobs
    /\ listing' = "FAILED"
    /\ UNCHANGED <<starting, addons, attempts, run, worker>>

Cancel ==
    /\ listing \in {"DRAFT", "NEW", "UPLOADING", "FAILED", "PIPELINE_TIMEOUT",
                    "ANALYZING", "AWAITING_REVIEW", "IN_REVIEW"}
    /\ CancelListingJobs
    /\ listing' = "CANCELLED"
    /\ UNCHANGED <<starting, addons, attempts, run, worker>>

\* A variant that starts everything afresh.
Everything == JobStatus \ {"queued", "waiting"}

\* The rows retry_listing resets.
Resettable == {"failed", "cancelled", "running"}

\* A variant that queues the gate like any other row.
AlwaysQueued(s) == "queued"

\* What retry_listing resets a row to: the gate is reopened.
ResetStatus(s) == IF s = AwaitReview THEN "waiting" ELSE "queued"

\* retry_listing: reset what failed, was cancelled or is running, and put the
\* listing back in the state its finished steps call for.
RetryListing ==
    LET Reset  == {s \in Steps : status[s] \in Resettable}
        IsDone(s) == status[s] \in {"done", "skipped"}
    IN
    /\ status' = [s \in Steps |-> IF s \in Reset THEN ResetStatus(s) ELSE status[s]]
    /\ attempts' = [s \in Steps |-> IF s \in Reset THEN 0 ELSE attempts[s]]
    /\ lockedBy' = [s \in Steps |-> IF s \in Reset THEN None ELSE lockedBy[s]]
    /\ listing' = IF ~IsDone(Ingestion) THEN "UPLOADING"
                  ELSE IF ~IsDone(Packaging) THEN "ANALYZING"
                  ELSE IF listing = "FAILED" /\ AwaitReview \in Reset THEN "AWAITING_REVIEW"
                  ELSE listing

\* retry_pipeline, admin_retry_listing
Retry ==
    /\ listing \in {"FAILED", "PIPELINE_TIMEOUT", "UPLOADING", "ANALYZING",
                    "AWAITING_REVIEW", "IN_REVIEW", "APPROVED", "EXPORTING"}
    /\ IF NoRows
       THEN /\ status' = Enqueued(addons) /\ listing' = "UPLOADING"
            /\ UNCHANGED <<attempts, lockedBy>>
       ELSE RetryListing
    /\ UNCHANGED <<starting, addons, run, worker>>

\* A variant that re-runs the gate with its neighbours.
GateToo(a) ==
    {s \in Steps \ AddonSteps[a] :
        TransitiveRequires[s] \cap AddonSteps[a] # {} /\ status[s] = "done"}

\* The steps enqueue_addon_steps resets for depending on the add-on's: the gate is
\* never one of them.  (A skipped row's payload does not name its own add-on.)
AddonDependents(a) ==
    {s \in Steps \ (AddonSteps[a] \cup {AwaitReview}) :
        /\ TransitiveRequires[s] \cap AddonSteps[a] # {}
        /\ \/ status[s] = "done"
           \/ status[s] = "skipped" /\ ~GatedOff(s, {a})}

\* enqueue_addon_steps: re-run the add-on's own steps and what depends on them.
EnqueueAddonSteps(a) ==
    LET Own == {s \in AddonSteps[a] :
                  status[s] \in {"absent", "skipped", "failed", "cancelled"}}
        Touched == IF Own = {} THEN {} ELSE Own \cup AddonDependents(a)
    IN
    /\ Released(Touched, "queued")
    /\ attempts' = [s \in Steps |-> IF s \in Touched THEN 0 ELSE attempts[s]]
    /\ listing' = IF Touched # {} /\ listing = "DELIVERED" THEN "EXPORTING" ELSE listing

\* activate_addon (no row lock)
ActivateAddon(a) ==
    /\ a \notin addons
    /\ listing \in {"DRAFT", "NEW", "UPLOADING", "AWAITING_REVIEW", "IN_REVIEW",
                    "APPROVED", "EXPORTING", "DELIVERED"}
    /\ addons' = addons \cup {a}
    /\ IF NoRows THEN UNCHANGED <<listing, rows>> ELSE EnqueueAddonSteps(a)
    /\ UNCHANGED <<starting, run, worker>>

\* A variant that forgets the export.
StuckBeforeReview == {"UPLOADING", "ANALYZING"}

\* stuck_states
StuckStates == {"UPLOADING", "ANALYZING", "EXPORTING"}

\* fail_stuck_listings (no row lock): the age test is abstracted, any quiet
\* moment may turn out to be the one max_age_hours later.
FailStuck ==
    /\ listing \in StuckStates
    /\ \A s \in Steps : status[s] # "running"
    /\ status' = CancelPending(status)
    /\ listing' = "PIPELINE_TIMEOUT"
    /\ UNCHANGED <<starting, addons, attempts, lockedBy, run, worker>>

-----------------------------------------------------------------------------
Init ==
    /\ listing \in {"DRAFT", "NEW"}
    /\ starting = FALSE
    /\ addons = {}
    /\ status = [s \in Steps |-> "absent"]
    /\ attempts = [s \in Steps |-> 0]
    /\ lockedBy = [s \in Steps |-> None]
    /\ run = [k \in Slots |-> IdleRun]
    /\ worker = [w \in Workers |-> "up"]

RunStep(k) ==
    \/ \E s \in Steps : PickCandidate(k, s)
    \/ ClaimNext(k) \/ RunJobStart(k) \/ AgentCommit(k)
    \/ RunJobResult(k) \/ RunJobWrite(k)

WorkerFault ==
    \/ \E k \in Slots : RunJobLost(k) \/ HandBack(k)
    \/ \E w \in Workers : Crash(w) \/ Stop(w) \/ RequeueOwned(w)

ApiStep ==
    \/ StartPipeline \/ RegisterAssets \/ TriggerPipeline \/ TriggerFailed
    \/ StartReview \/ Approve \/ Reject \/ Cancel \/ Retry
    \/ \E a \in Addons : ActivateAddon(a)

Next ==
    \/ \E k \in Slots : RunStep(k)
    \/ \E s \in Steps : ReclaimStale(s)
    \/ WorkerFault \/ ApiStep \/ FailStuck

Spec == Init /\ [][Next]_vars

\* The same system in which no other transaction writes a row between the two halves
\* of a run's last transaction, its unlocked read and its write: what holds of it and
\* not of Spec rests on that window being short.
Uninterrupted ==
    \A k \in Slots :
        run[k].phase = "writing" /\ run'[k].phase = "writing" =>
            LET s == run[k].step IN status'[s] = status[s] /\ attempts'[s] = attempts[s]
SerialSpec == Init /\ [][Next /\ Uninterrupted]_vars

-----------------------------------------------------------------------------
(* Properties of Spec.                                                     *)

RunType == [phase : Phases, step : Steps, current : BOOLEAN, auto : BOOLEAN,
            outcome : Outcomes, left : Nat]

\* The columns, the runs held in memory and the worker processes have their types;
\* the gate's row is never queued, run, failed or skipped ("completed by an API
\* call, never by the worker").
TypeOK ==
    /\ listing \in ListingStates
    /\ starting \in BOOLEAN
    /\ addons \in SUBSET Addons
    /\ status \in [Steps -> JobStatus \cup {"absent"}]
    /\ status[AwaitReview] \in {"absent", "waiting", "done", "cancelled"}
    /\ attempts \in [Steps -> Nat]
    /\ lockedBy \in [Steps -> Workers \cup {None, Dead}]
    /\ run \in [Slots -> RunType]
    /\ worker \in [Workers -> {"up", "stopping"}]

\* Nothing of the post-approval half of the pipeline is ever started, running or
\* finished before the review gate is done, whatever zombies, retries, crashes
\* and add-on purchases do.
ReviewedFirst ==
    status[AwaitReview] # "done" =>
        /\ \A s \in PostReviewSteps : status[s] \notin {"running", "done", "failed"}
        /\ \A k \in Slots : run[k].phase # "idle" => run[k].step \notin PostReviewSteps

\* A listing is exported or delivered only once its review gate is done.
DeliveredOnlyReviewed ==
    listing \in {"EXPORTING", "DELIVERED"} => status[AwaitReview] = "done"

\* locked_by is set exactly while a row is RUNNING: reclaim_stale, requeue_owned
\* and _requeue find every row a worker may hold by these two columns.
LockedIffRunning ==
    \A s \in Steps : lockedBy[s] # None <=> status[s] = "running"

\* An approval is never lost: the gate, once done, stays done.
ApprovalIsKept == [][status[AwaitReview] = "done" => status'[AwaitReview] = "done"]_vars

-----------------------------------------------------------------------------
(* Properties of SerialSpec.                                               *)

\* max_attempts bounds the claims of a row since it was last (re)queued by the
\* API: a queued row has an attempt left, a running one is within the limit.
AttemptsBounded ==
    \A s \in Steps :
        /\ attempts[s] <= MaxAttempts[s]
        /\ status[s] = "queued" => attempts[s] < MaxAttempts[s]

\* A cancelled row only comes back through a retry or an add-on purchase: no late
\* worker revives it.
CancelledStays ==
    [][(\E s \in Steps : status[s] = "cancelled" /\ status'[s] # "cancelled")
         => Retry \/ \E a \in Addons : ActivateAddon(a)]_vars

\* A finished step is only run again for an add-on.
DoneStays ==
    [][(\E s \in Steps : status[s] = "done" /\ status'[s] # "done")
         => \E a \in Addons : ActivateAddon(a)]_vars
-----------------------------------------------------------------------------
(* What the runner promises the reviewer: ReviewedPublishing, with a step  *)
(* published from the moment a worker picks it until it is back in queue.  *)
Published ==
    {s \in PostReviewSteps :
        \/ status[s] \in {"running", "done", "failed"}
        \/ \E k \in Slots : run[k].phase # "idle" /\ run[k].step = s}
Promise == INSTANCE ReviewedPublishing WITH
    Publishable <- PostReviewSteps,
    approved <- status[AwaitReview] = "done",
    published <- Published

\* The runner implements ReviewedPublishing.
KeepsPromise == Promise!Spec

-----------------------------------------------------------------------------
(* What holds when every add-on is bought before the start.                *)

\* "delivered -- Complete! All content is ready for download": every step that
\* leads to distribution is satisfied.  (An add-on bought while distribution is
\* RUNNING breaks it: enqueue_addon_steps leaves that row alone.)
DeliveredIsComplete ==
    listing = "DELIVERED" => \A d \in TransitiveRequires[Distribution] : Satisfied(d)

Settled ==
    /\ \A s \in Steps : Satisfied(s)
    /\ \A k \in Slots : run[k].phase = "idle"

-----------------------------------------------------------------------------
(* What the repository says and the code does not keep (see the README).   *)

\* "w1's stale completion must not have overwritten w2's ownership": a completion
\* is only written by the worker that holds the row's lock.
OwnershipKept ==
    [][\A k \in Slots :
         LET s == run[k].step IN
         run[k].phase = "writing" /\ status[s] = "running" /\ status'[s] = "done"
           => lockedBy[s] = WorkerOf[k]]_vars

\* "Complete the review gate so the worker can pick up post-approval steps -- in
\* the same transaction as the state change".
ApproveOpensGate == [][Approve => status'[AwaitReview] = "done"]_vars
=============================================================================
