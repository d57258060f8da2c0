------------------------ MODULE PipelineJobs_proofs ------------------------
(***************************************************************************)
(* Proofs about PipelineJobs, for every pipeline that satisfies the        *)
(* assumptions of PipelineDefinition and any number of workers and slots.  *)
(* The last part, that a delivered listing is complete, is the only one    *)
(* that uses the assumptions of Delivery, which its leaves name.           *)
(***************************************************************************)
EXTENDS Delivery, TLAPS, FiniteSetTheorems, WellFoundedInduction

(***************************************************************************)
(* Type correctness.  A completion writes the row its run names, so the    *)
(* gate keeps its states only because no run ever names the gate.          *)
(***************************************************************************)
RunsNotGate == \A k \in Slots : run[k].phase # "idle" => run[k].step # AwaitReview
TInv == TypeOK /\ RunsNotGate

LEMMA GateFacts ==
    /\ AwaitReview \in Steps
    /\ \A a \in Addons : AwaitReview \notin AddonSteps[a]
    /\ AwaitReview \notin Optional
BY Roles DEF RolesOK, GatedSteps

LEMMA IdleRunType == IdleRun \in RunType /\ IdleRun.phase = "idle"
BY GateFacts DEF IdleRun, RunType, Phases, Outcomes

LEMMA InitType == Init => TInv
<1> SUFFICES ASSUME Init PROVE TInv
  OBVIOUS
<1>1. run \in [Slots -> RunType] /\ RunsNotGate
  BY IdleRunType DEF Init, RunsNotGate
<1>2. status \in [Steps -> JobStatus \cup {"absent"}] /\ status[AwaitReview] = "absent"
  BY GateFacts DEF Init
<1>3. listing \in ListingStates /\ attempts \in [Steps -> Nat]
  BY DEF Init, ListingStates
<1>4. lockedBy \in [Steps -> Workers \cup {None, Dead}]
  BY DEF Init
<1> QED
  BY <1>1, <1>2, <1>3, <1>4 DEF Init, TInv, TypeOK

LEMMA EnqueuedType ==
    ASSUME TInv, NEW enabled
    PROVE  /\ Enqueued(enabled) \in [Steps -> JobStatus \cup {"absent"}]
           /\ Enqueued(enabled)[AwaitReview] \in {"waiting", "done", "cancelled"}
BY GateFacts DEF TInv, TypeOK, Enqueued, JobStatus

LEMMA CancelPendingType ==
    ASSUME NEW st \in [Steps -> JobStatus \cup {"absent"}]
    PROVE  /\ CancelPending(st) \in [Steps -> JobStatus \cup {"absent"}]
           /\ \A s \in Steps : \/ CancelPending(st)[s] = st[s]
                               \/ CancelPending(st)[s] = "cancelled" /\ st[s] \in {"queued", "waiting"}
BY DEF CancelPending, JobStatus

LEMMA ReviewCompletedType ==
    ASSUME NEW st \in [Steps -> JobStatus \cup {"absent"}]
    PROVE  /\ ReviewCompleted(st) \in [Steps -> JobStatus \cup {"absent"}]
           /\ \A s \in Steps : \/ ReviewCompleted(st)[s] = st[s]
                               \/ /\ s = AwaitReview /\ st[s] = "waiting"
                                  /\ ReviewCompleted(st)[s] = "done"
BY GateFacts DEF ReviewCompleted, JobStatus

LEMMA WorkerType ==
    ASSUME TInv,
           \/ \E k \in Slots : RunStep(k)
           \/ \E s \in Steps : ReclaimStale(s)
           \/ WorkerFault
    PROVE  TInv'
<1> USE DEF TInv
<1>1. ASSUME NEW k \in Slots, NEW s \in Steps, PickCandidate(k, s) PROVE TInv'
  BY <1>1, IdleRunType
  DEF PickCandidate, Claimable, TypeOK, RunsNotGate, RunType, Phases, IdleRun, rows
<1>2. ASSUME NEW k \in Slots, ClaimNext(k) PROVE TInv'
  <2> DEFINE s == run[k].step
  <2>1. s \in Steps /\ s # AwaitReview
    BY <1>2 DEF ClaimNext, TypeOK, RunsNotGate, RunType
  <2>2. run' \in [Slots -> RunType] /\ RunsNotGate'
    <3> DEFINE won == [run[k] EXCEPT !.phase = "claimed"]
               stale(j) == [run[j] EXCEPT !.current = FALSE]
    <3>1. won \in RunType /\ won.step = s
      BY DEF TypeOK, RunType, Phases
    <3>2. \A j \in Slots : /\ stale(j) \in RunType
                          /\ stale(j).step = run[j].step
                          /\ stale(j).phase = run[j].phase
      BY DEF TypeOK, RunType
    <3>3. \/ run' = [j \in Slots |-> IF j = k THEN won
                                    ELSE IF run[j].step = s THEN stale(j) ELSE run[j]]
          \/ run' = [run EXCEPT ![k] = IdleRun]
      BY <1>2 DEF ClaimNext
    <3> HIDE DEF won, stale
    <3>4. run' \in [Slots -> RunType]
      BY <3>1, <3>2, <3>3, IdleRunType DEF TypeOK
    <3> QED
      BY <2>1, <3>1, <3>2, <3>3, <3>4, IdleRunType DEF TypeOK, RunsNotGate
  <2>3. attempts' \in [Steps -> Nat]
    BY <1>2, <2>1 DEF ClaimNext, TypeOK, rows
  <2>4. lockedBy' \in [Steps -> Workers \cup {None, Dead}]
    BY <1>2, <2>1, SlotOwners DEF ClaimNext, TypeOK, rows
  <2>5. /\ status' \in [Steps -> JobStatus \cup {"absent"}]
        /\ status'[AwaitReview] = status[AwaitReview]
    BY <1>2, <2>1, GateFacts DEF ClaimNext, TypeOK, rows, JobStatus
  <2> QED
    BY <1>2, <2>2, <2>3, <2>4, <2>5 DEF ClaimNext, TypeOK
<1>3. ASSUME NEW k \in Slots, RunJobStart(k) PROVE TInv'
  BY <1>3 DEF RunJobStart, TypeOK, RunsNotGate, RunType, Phases, rows
<1>4. ASSUME NEW k \in Slots, AgentCommit(k) PROVE TInv'
  <2>1. PICK st \in AgentStates(run[k].step) :
          /\ listing' = st
          /\ run' = [run EXCEPT ![k].phase = "committed", ![k].auto = (st = "APPROVED")]
    BY <1>4 DEF AgentCommit
  <2>2. listing' \in ListingStates
    BY <2>1 DEF AgentStates
  <2> DEFINE after == [run[k] EXCEPT !.phase = "committed", !.auto = (st = "APPROVED")]
  <2>3. run' = [run EXCEPT ![k] = after]
    BY <2>1 DEF TypeOK, RunType
  <2>4. after \in RunType /\ after.step = run[k].step
    BY DEF TypeOK, RunType, Phases
  <2> HIDE DEF after
  <2>5. run' \in [Slots -> RunType] /\ RunsNotGate'
    BY <1>4, <2>3, <2>4 DEF AgentCommit, TypeOK, RunsNotGate
  <2> QED
    BY <1>4, <2>2, <2>5 DEF AgentCommit, TypeOK, rows
<1>5. ASSUME NEW k \in Slots, RunJobResult(k) PROVE TInv'
  <2>1. PICK o \in {"done", "requeue", "fail"} :
          run' = [run EXCEPT ![k] = IF StillOwned(k)
                    THEN [run[k] EXCEPT !.phase = "writing", !.outcome = o] ELSE IdleRun]
    BY <1>5 DEF RunJobResult
  <2>2. [run[k] EXCEPT !.phase = "writing", !.outcome = o] \in RunType
    BY DEF TypeOK, RunType, Phases, Outcomes
  <2>3. run' \in [Slots -> RunType]
    BY <2>1, <2>2, IdleRunType DEF TypeOK
  <2>4. run[k].phase # "idle"
    BY <1>5 DEF RunJobResult, AgentResults
  <2>5. RunsNotGate'
    BY <2>1, <2>4, IdleRunType DEF TypeOK, RunsNotGate, RunType
  <2> QED
    BY <1>5, <2>3, <2>5 DEF RunJobResult, TypeOK, rows
<1>6. ASSUME NEW k \in Slots, RunJobWrite(k) PROVE TInv'
  <2> DEFINE s == run[k].step
             Set(v) == [status EXCEPT ![s] = v]
  <2>1. s \in Steps /\ s # AwaitReview /\ run[k].left \in Nat
    BY <1>6 DEF RunJobWrite, TypeOK, RunsNotGate, RunType
  <2>2. run' \in [Slots -> RunType] /\ RunsNotGate'
    BY <1>6, IdleRunType DEF RunJobWrite, TypeOK, RunsNotGate
  <2>3. attempts' \in [Steps -> Nat]
    BY <1>6, <2>1 DEF RunJobWrite, TypeOK
  <2>4. lockedBy' \in [Steps -> Workers \cup {None, Dead}]
    BY <1>6, <2>1 DEF RunJobWrite, TypeOK
  <2>5. listing' \in ListingStates
    BY <1>6 DEF RunJobWrite, TypeOK, ListingStates
  <2>6. \A v \in JobStatus : /\ Set(v) \in [Steps -> JobStatus \cup {"absent"}]
                             /\ Set(v)[AwaitReview] = status[AwaitReview]
    BY <2>1, GateFacts DEF TypeOK
  <2>7. \E v \in JobStatus : status' \in {Set(v), ReviewCompleted(Set(v)), CancelPending(Set(v))}
    BY <1>6 DEF RunJobWrite, JobStatus
  <2>8. /\ status' \in [Steps -> JobStatus \cup {"absent"}]
        /\ status'[AwaitReview] \in {"absent", "waiting", "done", "cancelled"}
    <3>1. PICK v \in JobStatus :
            status' \in {Set(v), ReviewCompleted(Set(v)), CancelPending(Set(v))}
      BY <2>7
    <3>2. /\ Set(v) \in [Steps -> JobStatus \cup {"absent"}]
          /\ Set(v)[AwaitReview] \in {"absent", "waiting", "done", "cancelled"}
      BY <2>6 DEF TypeOK
    <3> HIDE DEF Set
    <3> QED
      BY <3>1, <3>2, CancelPendingType, ReviewCompletedType, GateFacts
  <2> QED
    BY <1>6, <2>2, <2>3, <2>4, <2>5, <2>8 DEF RunJobWrite, TypeOK
<1>7. ASSUME NEW k \in Slots, RunJobLost(k) PROVE TInv'
  BY <1>7, IdleRunType DEF RunJobLost, TypeOK, RunsNotGate, rows
<1>8. ASSUME NEW k \in Slots, HandBack(k) PROVE TInv'
  <2> DEFINE s == run[k].step
             back == [run[k] EXCEPT !.phase = "writing", !.outcome = "handback",
                                    !.left = Decremented(attempts[s])]
  <2>1. s \in Steps /\ s # AwaitReview
    BY <1>8 DEF HandBack, TypeOK, RunsNotGate, RunType
  <2>2. Decremented(attempts[s]) \in Nat
    BY <2>1 DEF Decremented, TypeOK
  <2>3. back \in RunType /\ back.step = s
    BY <2>2 DEF TypeOK, RunType, Phases, Outcomes
  <2>4. run' = [run EXCEPT ![k] = back] \/ run' = [run EXCEPT ![k] = IdleRun]
    BY <1>8 DEF HandBack
  <2>5. run' \in [Slots -> RunType] /\ RunsNotGate'
    BY <2>1, <2>3, <2>4, IdleRunType DEF TypeOK, RunsNotGate
  <2> QED
    BY <1>8, <2>5 DEF HandBack, TypeOK, rows
<1>9. ASSUME NEW s \in Steps, ReclaimStale(s) PROVE TInv'
  <2> DEFINE failed == [status EXCEPT ![s] = "failed"]
             queued == [status EXCEPT ![s] = "queued"]
  <2>1. s # AwaitReview
    BY <1>9 DEF ReclaimStale, MaybeStale, TypeOK
  <2>2. /\ failed \in [Steps -> JobStatus \cup {"absent"}]
        /\ queued \in [Steps -> JobStatus \cup {"absent"}]
        /\ failed[AwaitReview] = status[AwaitReview]
        /\ queued[AwaitReview] = status[AwaitReview]
    BY <2>1, GateFacts DEF TypeOK, JobStatus
  <2>3. status' \in {failed, queued, CancelPending(failed)}
    BY <1>9 DEF ReclaimStale
  <2>4. /\ status' \in [Steps -> JobStatus \cup {"absent"}]
        /\ status'[AwaitReview] \in {"absent", "waiting", "done", "cancelled"}
    <3> HIDE DEF failed, queued
    <3> QED
      BY <2>2, <2>3, CancelPendingType, GateFacts DEF TypeOK
  <2>5. listing' \in ListingStates
    BY <1>9 DEF ReclaimStale, TypeOK, ListingStates
  <2>6. lockedBy' \in [Steps -> Workers \cup {None, Dead}]
    BY <1>9 DEF ReclaimStale, TypeOK
  <2> QED
    BY <1>9, <2>4, <2>5, <2>6 DEF ReclaimStale, TypeOK, RunsNotGate
<1>10. ASSUME NEW w \in Workers, Crash(w) PROVE TInv'
  BY <1>10, IdleRunType DEF Crash, TypeOK, RunsNotGate
<1>11. ASSUME NEW w \in Workers, Stop(w) PROVE TInv'
  BY <1>11 DEF Stop, TypeOK, RunsNotGate, rows
<1>12. ASSUME NEW w \in Workers, RequeueOwned(w) PROVE TInv'
  <2>1. attempts' \in [Steps -> Nat]
    BY <1>12 DEF RequeueOwned, Decremented, TypeOK
  <2>2. /\ status' \in [Steps -> JobStatus \cup {"absent"}]
        /\ status'[AwaitReview] = status[AwaitReview]
    BY <1>12, GateFacts DEF RequeueOwned, Released, TypeOK, JobStatus
  <2>3. lockedBy' \in [Steps -> Workers \cup {None, Dead}]
    BY <1>12 DEF RequeueOwned, Released, TypeOK
  <2>4. worker' \in [Workers -> {"up", "stopping"}]
    BY <1>12 DEF RequeueOwned, TypeOK
  <2> QED
    BY <1>12, <2>1, <2>2, <2>3, <2>4 DEF RequeueOwned, TypeOK, RunsNotGate
<1> QED
  BY <1>1, <1>2, <1>3, <1>4, <1>5, <1>6, <1>7, <1>8, <1>9, <1>10, <1>11, <1>12
  DEF RunStep, WorkerFault

\* The steps of a listing's own transactions leave the runs alone: only the rows
\* and the columns they write can lose their type.
LEMMA ReleasedType ==
    ASSUME TInv, NEW S, NEW st \in JobStatus, Released(S, st)
    PROVE  /\ status' \in [Steps -> JobStatus \cup {"absent"}]
           /\ lockedBy' \in [Steps -> Workers \cup {None, Dead}]
           /\ status'[AwaitReview] = IF AwaitReview \in S THEN st ELSE status[AwaitReview]
BY GateFacts DEF TInv, TypeOK, Released

LEMMA RetryListingType ==
    ASSUME TInv, RetryListing
    PROVE  /\ status' \in [Steps -> JobStatus \cup {"absent"}]
           /\ status'[AwaitReview] \in {"absent", "waiting", "done", "cancelled"}
           /\ attempts' \in [Steps -> Nat]
           /\ lockedBy' \in [Steps -> Workers \cup {None, Dead}]
           /\ listing' \in ListingStates
<1> USE DEF TInv
<1>1. /\ status' \in [Steps -> JobStatus \cup {"absent"}]
      /\ status'[AwaitReview] \in {"absent", "waiting", "done", "cancelled"}
  BY GateFacts DEF RetryListing, TypeOK, JobStatus, ResetStatus
<1>2. attempts' \in [Steps -> Nat] /\ lockedBy' \in [Steps -> Workers \cup {None, Dead}]
  BY DEF RetryListing, TypeOK
<1>3. listing' \in ListingStates
  BY DEF RetryListing, TypeOK, ListingStates
<1> QED
  BY <1>1, <1>2, <1>3

\* The gate has no add-on's label, and enqueue_addon_steps excludes it from the
\* dependents.
LEMMA AddonLeavesGate ==
    ASSUME NEW a \in Addons
    PROVE  AwaitReview \notin AddonSteps[a] /\ AwaitReview \notin AddonDependents(a)
BY GateFacts DEF AddonDependents

LEMMA EnqueueAddonStepsType ==
    ASSUME TInv, NEW a \in Addons, EnqueueAddonSteps(a)
    PROVE  /\ status' \in [Steps -> JobStatus \cup {"absent"}]
           /\ status'[AwaitReview] = status[AwaitReview]
           /\ attempts' \in [Steps -> Nat]
           /\ lockedBy' \in [Steps -> Workers \cup {None, Dead}]
           /\ listing' \in ListingStates
<1> USE DEF TInv
<1>1. PICK S \in SUBSET Steps :
        /\ AwaitReview \notin S
        /\ Released(S, "queued")
        /\ attempts' = [s \in Steps |-> IF s \in S THEN 0 ELSE attempts[s]]
  <2> DEFINE Own == {s \in AddonSteps[a] :
                       status[s] \in {"absent", "skipped", "failed", "cancelled"}}
             Touched == IF Own = {} THEN {} ELSE Own \cup AddonDependents(a)
  <2>1. Touched \in SUBSET Steps /\ AwaitReview \notin Touched
    BY AddonLeavesGate, DefinitionTypes DEF AddonDependents
  <2>2. /\ Released(Touched, "queued")
        /\ attempts' = [s \in Steps |-> IF s \in Touched THEN 0 ELSE attempts[s]]
    BY DEF EnqueueAddonSteps
  <2> QED
    BY <2>1, <2>2
<1>2. "queued" \in JobStatus
  BY DEF JobStatus
<1>3. attempts' \in [Steps -> Nat]
  BY <1>1 DEF TypeOK
<1>4. listing' \in ListingStates
  BY DEF EnqueueAddonSteps, TypeOK, ListingStates
<1> QED
  BY <1>1, <1>2, <1>3, <1>4, ReleasedType

LEMMA ApiType ==
    ASSUME TInv, ApiStep \/ FailStuck
    PROVE  TInv'
<1> USE DEF TInv
<1> DEFINE Gate == {"absent", "waiting", "done", "cancelled"}
<1>0. "cancelled" \in JobStatus
  BY DEF JobStatus
<1>1. CASE StartPipeline
  BY <1>1 DEF StartPipeline, TypeOK, RunsNotGate, rows, ListingStates
<1>2. CASE RegisterAssets
  BY <1>2 DEF RegisterAssets, TypeOK, RunsNotGate, rows, ListingStates
<1>3. CASE TriggerPipeline
  BY <1>3, EnqueuedType DEF TriggerPipeline, TypeOK, RunsNotGate
<1>4. CASE TriggerFailed
  BY <1>4 DEF TriggerFailed, TypeOK, RunsNotGate, rows, ListingStates
<1>5. CASE StartReview
  BY <1>5 DEF StartReview, TypeOK, RunsNotGate, rows, ListingStates
<1>6. CASE Approve
  <2>1. status' \in [Steps -> JobStatus \cup {"absent"}] /\ status'[AwaitReview] \in Gate
    BY <1>6, ReviewCompletedType, GateFacts DEF Approve, TypeOK
  <2> QED
    BY <1>6, <2>1 DEF Approve, TypeOK, RunsNotGate, ListingStates
<1>7. CASE Reject \/ Cancel
  <2>1. /\ status' \in [Steps -> JobStatus \cup {"absent"}] /\ status'[AwaitReview] \in Gate
        /\ lockedBy' \in [Steps -> Workers \cup {None, Dead}]
    BY <1>0, <1>7, ReleasedType DEF Reject, Cancel, CancelListingJobs, TypeOK
  <2> QED
    BY <1>7, <2>1 DEF Reject, Cancel, TypeOK, RunsNotGate, ListingStates
<1>8. CASE Retry
  <2>1. CASE NoRows
    <3>1. status' = Enqueued(addons) /\ listing' = "UPLOADING" /\ UNCHANGED <<attempts, lockedBy>>
      BY <1>8, <2>1 DEF Retry
    <3>2. status' \in [Steps -> JobStatus \cup {"absent"}] /\ status'[AwaitReview] \in Gate
      BY <3>1, EnqueuedType
    <3> QED
      BY <1>8, <3>1, <3>2 DEF Retry, TypeOK, RunsNotGate, ListingStates
  <2>2. CASE ~NoRows
    BY <1>8, <2>2, RetryListingType DEF Retry, TypeOK, RunsNotGate
  <2> QED
    BY <2>1, <2>2
<1>9. ASSUME NEW a \in Addons, ActivateAddon(a) PROVE TInv'
  <2>1. addons' \in SUBSET Addons
    BY <1>9 DEF ActivateAddon, TypeOK
  <2>2. CASE NoRows
    BY <1>9, <2>1, <2>2 DEF ActivateAddon, TypeOK, RunsNotGate, rows
  <2>3. CASE ~NoRows
    BY <1>9, <2>1, <2>3, EnqueueAddonStepsType DEF ActivateAddon, TypeOK, RunsNotGate
  <2> QED
    BY <2>2, <2>3
<1>10. CASE FailStuck
  <2>1. status' \in [Steps -> JobStatus \cup {"absent"}] /\ status'[AwaitReview] \in Gate
    BY <1>10, CancelPendingType, GateFacts DEF FailStuck, TypeOK
  <2> QED
    BY <1>10, <2>1 DEF FailStuck, TypeOK, RunsNotGate, ListingStates
<1> QED
  BY <1>1, <1>2, <1>3, <1>4, <1>5, <1>6, <1>7, <1>8, <1>9, <1>10 DEF ApiStep

LEMMA TInvStep == TInv /\ [Next]_vars => TInv'
<1> SUFFICES ASSUME TInv, [Next]_vars PROVE TInv'
  OBVIOUS
<1>1. CASE Next
  BY <1>1, WorkerType, ApiType DEF Next
<1>2. CASE UNCHANGED vars
  BY <1>2 DEF vars, TInv, TypeOK, RunsNotGate
<1> QED
  BY <1>1, <1>2

\* Every column, run and worker keeps its type, and the gate's row is never
\* queued, run, failed or skipped: of claim_next, fail_listing, retry_listing and
\* enqueue_addon_steps, none treats it as a step a worker may execute.
THEOREM TypeCorrect == Spec => []TypeOK
<1>1. Spec => []TInv
  BY InitType, TInvStep, PTL DEF Spec
<1>2. TInv => TypeOK
  BY DEF TInv
<1> QED
  BY <1>1, <1>2, PTL

(***************************************************************************)
(* The review gate.  Every step of the system is one of few moves:         *)
(*   - the gate, once done, stays done;                                    *)
(*   - a row becomes skipped only at enqueue time, behind its gate;        *)
(*   - a row becomes running, done or failed only through a run that was   *)
(*     held in memory before the step (or is the gate itself);             *)
(*   - a run is only taken up for a claimable row;                         *)
(*   - the listing is only moved to EXPORTING or DELIVERED by a run of     *)
(*     mls_export or distribution.                                         *)
(* Everything about the gate follows from these and from GateGuards.       *)
(***************************************************************************)
Begun == {"running", "done", "failed"}
Out == {"EXPORTING", "DELIVERED"}
Held(s) == \E k \in Slots : run[k].phase # "idle" /\ run[k].step = s

GateMoves == status[AwaitReview] = "done" => status'[AwaitReview] = "done"
RowsMove ==
    \A s \in Steps :
        /\ status'[s] = "skipped" => status[s] = "skipped" \/ s \in GatedSteps
        /\ status'[s] \in Begun => status[s] \in Begun \/ s = AwaitReview \/ Held(s)
RunsMove == \A s \in Steps : Held(s)' => Held(s) \/ Claimable(s)
ListingMoves == listing' \in Out => listing \in Out \/ Held(MlsExport) \/ Held(Distribution)
Moves == GateMoves /\ RowsMove /\ RunsMove /\ ListingMoves

SkippedIsGated == \A s \in Steps : status[s] = "skipped" => s \in GatedSteps
GInv == SkippedIsGated /\ ReviewedFirst /\ DeliveredOnlyReviewed

\* The heart of the matter: what claim_next may take up is reviewed.  A post-review
\* step waits for the gate, which is never skipped, or for a post-review step that
\* is never skipped either.
LEMMA ClaimableIsReviewed ==
    ASSUME TInv, GInv, NEW s \in PostReviewSteps, Claimable(s)
    PROVE  status[AwaitReview] = "done"
<1>1. s \in Steps
  BY DEF PostReviewSteps
<1>2. CASE AwaitReview \in Requires[s]
  <2>1. Satisfied(AwaitReview)
    BY <1>1, <1>2 DEF Claimable
  <2> QED
    BY <2>1, GateFacts DEF Satisfied, TInv, TypeOK
<1>3. ASSUME NEW r \in Requires[s], r \in PostReviewSteps, r \notin GatedSteps
      PROVE  status[AwaitReview] = "done"
  <2>1. Satisfied(r) /\ r \in Steps
    BY <1>1, <1>3 DEF Claimable, PostReviewSteps
  <2>2. status[r] \in {"done", "failed"}
    BY <1>3, <2>1 DEF Satisfied, GInv, SkippedIsGated
  <2> QED
    BY <1>3, <2>2 DEF GInv, ReviewedFirst
<1> QED
  BY <1>2, <1>3, Guards DEF GateGuards

LEMMA GInvInit == Init => GInv
BY GateFacts, IdleRunType DEF Init, GInv, SkippedIsGated, ReviewedFirst, DeliveredOnlyReviewed,
   PostReviewSteps

LEMMA GInvMoves ==
    ASSUME TInv, GInv, Moves, TInv'
    PROVE  GInv'
<1>1. SkippedIsGated'
  BY DEF GInv, Moves, RowsMove, SkippedIsGated
<1>2. \A s \in PostReviewSteps : s \in Steps /\ s # AwaitReview
  BY Publishing DEF PublishingIsPostReview, PostReviewSteps
<1>3. \A s \in PostReviewSteps : Held(s) => status[AwaitReview] = "done"
  BY DEF GInv, ReviewedFirst, Held
<1>4. ReviewedFirst'
  <2> SUFFICES ASSUME status'[AwaitReview] # "done", NEW s \in PostReviewSteps
               PROVE  status'[s] \notin Begun /\ ~Held(s)'
    BY DEF ReviewedFirst, Held, Begun
  <2>1. status[AwaitReview] # "done"
    BY DEF Moves, GateMoves
  <2>2. status'[s] \notin Begun
    BY <1>2, <1>3, <2>1 DEF Moves, RowsMove, GInv, ReviewedFirst, Begun
  <2>3. ~Held(s)'
    BY <1>2, <1>3, <2>1, ClaimableIsReviewed DEF Moves, RunsMove
  <2> QED
    BY <2>2, <2>3
<1>5. DeliveredOnlyReviewed'
  <2> SUFFICES ASSUME listing' \in Out PROVE status'[AwaitReview] = "done"
    BY DEF DeliveredOnlyReviewed, Out
  <2>1. status[AwaitReview] = "done"
    BY <1>3, Publishing
    DEF Moves, ListingMoves, PublishingIsPostReview, GInv, DeliveredOnlyReviewed, Out
  <2> QED
    BY <2>1 DEF Moves, GateMoves
<1> QED
  BY <1>1, <1>4, <1>5 DEF GInv

\* A step that leaves the rows, or the runs, or the listing alone.
LEMMA NothingMoves ==
    ASSUME TInv
    PROVE  /\ UNCHANGED status => GateMoves /\ RowsMove
           /\ UNCHANGED run => RunsMove
           /\ UNCHANGED listing => ListingMoves
BY DEF GateMoves, RowsMove, RunsMove, ListingMoves, Held

\* A step in which each run goes on with the step it had, or ends.
LEMMA RunsGoOn ==
    ASSUME TInv,
           \A k \in Slots : run'[k].phase # "idle" =>
                run[k].phase # "idle" /\ run'[k].step = run[k].step
    PROVE  RunsMove
BY DEF RunsMove, Held

LEMMA WorkerMoves ==
    ASSUME TInv,
           \/ \E k \in Slots : RunStep(k)
           \/ \E s \in Steps : ReclaimStale(s)
           \/ WorkerFault
    PROVE  Moves
<1> USE DEF TInv, Moves
<1>1. ASSUME NEW k \in Slots, NEW s \in Steps, PickCandidate(k, s) PROVE Moves
  <2> DEFINE picked == [IdleRun EXCEPT !.phase = "picked", !.step = s]
  <2>1. picked.step = s
    BY DEF IdleRun
  <2>2. run' = [run EXCEPT ![k] = picked]
    BY <1>1 DEF PickCandidate
  <2> HIDE DEF picked
  <2>3. RunsMove
    BY <1>1, <2>1, <2>2 DEF PickCandidate, TypeOK, RunsMove, Held
  <2> QED
    BY <1>1, <2>3, NothingMoves DEF PickCandidate, rows
<1>2. ASSUME NEW k \in Slots, ClaimNext(k) PROVE Moves
  <2> DEFINE s == run[k].step
  <2>1. s \in Steps /\ s # AwaitReview /\ Held(s)
    BY <1>2 DEF ClaimNext, TypeOK, RunsNotGate, RunType, Held
  <2>2. status' = [status EXCEPT ![s] = "running"] \/ UNCHANGED status
    BY <1>2 DEF ClaimNext, rows
  <2>3. GateMoves /\ RowsMove
    BY <2>1, <2>2, GateFacts DEF TypeOK, GateMoves, RowsMove, Begun
  <2>4. \A j \in Slots : run'[j].phase # "idle" =>
                run[j].phase # "idle" /\ run'[j].step = run[j].step
    <3>1. CASE status[s] = "queued"
      <4>1. run' = [j \in Slots |->
                      IF j = k THEN [run[k] EXCEPT !.phase = "claimed"]
                      ELSE IF run[j].step = s THEN [run[j] EXCEPT !.current = FALSE]
                      ELSE run[j]]
        BY <1>2, <3>1 DEF ClaimNext
      <4>2. run[k].phase = "picked"
        BY <1>2 DEF ClaimNext
      <4> QED
        BY <4>1, <4>2 DEF TypeOK, RunType
    <3>2. CASE status[s] # "queued"
      BY <1>2, <3>2, IdleRunType DEF ClaimNext, TypeOK
    <3> QED
      BY <3>1, <3>2
  <2> QED
    BY <1>2, <2>3, <2>4, RunsGoOn, NothingMoves DEF ClaimNext
<1>3. ASSUME NEW k \in Slots, RunJobStart(k) PROVE Moves
  <2>1. RunsMove
    BY <1>3, RunsGoOn DEF RunJobStart, TypeOK, RunType
  <2> QED
    BY <1>3, <2>1, NothingMoves DEF RunJobStart, rows
<1>4. ASSUME NEW k \in Slots, AgentCommit(k) PROVE Moves
  <2>1. PICK st \in AgentStates(run[k].step) :
          /\ listing' = st
          /\ run' = [run EXCEPT ![k].phase = "committed", ![k].auto = (st = "APPROVED")]
    BY <1>4 DEF AgentCommit
  <2>2. RunsMove
    <3> DEFINE after == [run[k] EXCEPT !.phase = "committed", !.auto = (st = "APPROVED")]
    <3>1. run' = [run EXCEPT ![k] = after] /\ after.step = run[k].step
      BY <2>1 DEF TypeOK, RunType
    <3>2. run[k].phase # "idle"
      BY <1>4 DEF AgentCommit
    <3> HIDE DEF after
    <3> QED
      BY <3>1, <3>2, RunsGoOn DEF TypeOK
  <2>3. Held(run[k].step)
    BY <1>4 DEF AgentCommit, Held
  <2>4. ListingMoves
    BY <2>1, <2>3 DEF ListingMoves, AgentStates, Out
  <2> QED
    BY <1>4, <2>2, <2>4, NothingMoves DEF AgentCommit, rows
<1>5. ASSUME NEW k \in Slots, RunJobResult(k) PROVE Moves
  <2>1. run[k].phase # "idle"
    BY <1>5 DEF RunJobResult, AgentResults
  <2>2. PICK o : run' = [run EXCEPT ![k] = IF StillOwned(k)
                    THEN [run[k] EXCEPT !.phase = "writing", !.outcome = o] ELSE IdleRun]
    BY <1>5 DEF RunJobResult
  <2>3. [run[k] EXCEPT !.phase = "writing", !.outcome = o].step = run[k].step
    BY DEF TypeOK, RunType
  <2>4. RunsMove
    BY <2>1, <2>2, <2>3, IdleRunType, RunsGoOn DEF TypeOK
  <2> QED
    BY <1>5, <2>4, NothingMoves DEF RunJobResult, rows
<1>6. ASSUME NEW k \in Slots, RunJobWrite(k) PROVE Moves
  <2> DEFINE s == run[k].step
             Set(v) == [status EXCEPT ![s] = v]
  <2>1. s \in Steps /\ s # AwaitReview /\ Held(s)
    BY <1>6 DEF RunJobWrite, TypeOK, RunsNotGate, RunType, Held
  <2>2. RunsMove
    BY <1>6, IdleRunType, RunsGoOn DEF RunJobWrite, TypeOK
  <2>3. ListingMoves
    BY <1>6 DEF RunJobWrite, ListingMoves, Out
  <2>4. \E v \in {"done", "queued", "failed"} :
           status' \in {Set(v), ReviewCompleted(Set(v)), CancelPending(Set(v))}
    BY <1>6 DEF RunJobWrite
  <2>5. GateMoves /\ RowsMove
    <3>1. PICK v \in {"done", "queued", "failed"} :
            status' \in {Set(v), ReviewCompleted(Set(v)), CancelPending(Set(v))}
      BY <2>4
    <3>2. /\ Set(v) \in [Steps -> JobStatus \cup {"absent"}]
          /\ Set(v)[AwaitReview] = status[AwaitReview]
          /\ \A d \in Steps : (d = s /\ Set(v)[d] # "skipped") \/ Set(v)[d] = status[d]
      BY <2>1, GateFacts DEF TypeOK, JobStatus
    <3> HIDE DEF Set
    <3>3. \A d \in Steps :
            \/ status'[d] = Set(v)[d]
            \/ status'[d] = "cancelled" /\ Set(v)[d] \in {"queued", "waiting"}
            \/ status'[d] = "done" /\ d = AwaitReview
      BY <3>1, <3>2, CancelPendingType, ReviewCompletedType
    <3> QED
      BY <2>1, <3>2, <3>3, GateFacts DEF GateMoves, RowsMove, Begun
  <2> QED
    BY <2>2, <2>3, <2>5
<1>7. ASSUME NEW k \in Slots, RunJobLost(k) PROVE Moves
  <2>1. RunsMove
    BY <1>7, IdleRunType, RunsGoOn DEF RunJobLost, TypeOK
  <2> QED
    BY <1>7, <2>1, NothingMoves DEF RunJobLost, rows
<1>8. ASSUME NEW k \in Slots, HandBack(k) PROVE Moves
  <2> DEFINE back == [run[k] EXCEPT !.phase = "writing", !.outcome = "handback",
                                    !.left = Decremented(attempts[run[k].step])]
  <2>1. run' = [run EXCEPT ![k] = back] \/ run' = [run EXCEPT ![k] = IdleRun]
    BY <1>8 DEF HandBack
  <2>2. back.step = run[k].step /\ run[k].phase # "idle"
    BY <1>8 DEF HandBack, TypeOK, RunType
  <2> HIDE DEF back
  <2>3. RunsMove
    BY <2>1, <2>2, IdleRunType, RunsGoOn DEF TypeOK
  <2> QED
    BY <1>8, <2>3, NothingMoves DEF HandBack, rows
<1>9. ASSUME NEW s \in Steps, ReclaimStale(s) PROVE Moves
  <2> DEFINE Set(v) == [status EXCEPT ![s] = v]
  <2>1. s # AwaitReview /\ status[s] = "running"
    BY <1>9 DEF ReclaimStale, MaybeStale, TypeOK
  <2>2. PICK v \in {"failed", "queued"} : status' \in {Set(v), CancelPending(Set(v))}
    BY <1>9 DEF ReclaimStale
  <2>3. /\ Set(v) \in [Steps -> JobStatus \cup {"absent"}]
        /\ Set(v)[AwaitReview] = status[AwaitReview]
        /\ \A d \in Steps : (d = s /\ Set(v)[d] # "skipped") \/ Set(v)[d] = status[d]
    BY <2>1, GateFacts DEF TypeOK, JobStatus
  <2>4. GateMoves /\ RowsMove
    <3> HIDE DEF Set
    <3>1. \A d \in Steps :
            \/ status'[d] = Set(v)[d]
            \/ status'[d] = "cancelled" /\ Set(v)[d] \in {"queued", "waiting"}
      BY <2>2, <2>3, CancelPendingType
    <3> QED
      BY <2>1, <2>3, <3>1, GateFacts DEF GateMoves, RowsMove, Begun
  <2>5. RunsMove
    BY <1>9, NothingMoves DEF ReclaimStale
  <2>6. ListingMoves
    BY <1>9 DEF ReclaimStale, ListingMoves, Out
  <2> QED
    BY <2>4, <2>5, <2>6
<1>10. ASSUME NEW w \in Workers, Crash(w) PROVE Moves
  <2>1. RunsMove
    BY <1>10, IdleRunType, RunsGoOn DEF Crash, TypeOK
  <2> QED
    BY <1>10, <2>1, NothingMoves DEF Crash
<1>11. ASSUME NEW w \in Workers, Stop(w) PROVE Moves
  BY <1>11, NothingMoves DEF Stop, rows
<1>12. ASSUME NEW w \in Workers, RequeueOwned(w) PROVE Moves
  <2>1. GateMoves /\ RowsMove
    BY <1>12, GateFacts DEF RequeueOwned, Released, TypeOK, GateMoves, RowsMove, Begun
  <2> QED
    BY <1>12, <2>1, NothingMoves DEF RequeueOwned
<1> QED
  BY <1>1, <1>2, <1>3, <1>4, <1>5, <1>6, <1>7, <1>8, <1>9, <1>10, <1>11, <1>12
  DEF RunStep, WorkerFault

\* Setting rows to "queued" or "cancelled" moves none of them forward; the gate
\* may be among them only if it is not done.
LEMMA ReleasedMoves ==
    ASSUME TInv, NEW S, NEW st \in {"queued", "cancelled"}, Released(S, st),
           AwaitReview \in S => status[AwaitReview] # "done"
    PROVE  GateMoves /\ RowsMove
BY GateFacts DEF TInv, TypeOK, Released, GateMoves, RowsMove, Begun

LEMMA EnqueuedMoves ==
    ASSUME TInv, NEW enabled \in SUBSET Addons, status' = Enqueued(enabled)
    PROVE  GateMoves /\ RowsMove
<1>1. GateMoves
  BY GateFacts DEF TInv, TypeOK, Enqueued, GateMoves
<1>2. \A s \in Steps : GatedOff(s, enabled) => s \in GatedSteps
  BY DEF GatedOff, GatedSteps
<1> QED
  BY <1>1, <1>2 DEF TInv, TypeOK, Enqueued, RowsMove, Begun

LEMMA EnqueueAddonStepsMoves ==
    ASSUME TInv, NEW a \in Addons, EnqueueAddonSteps(a)
    PROVE  GateMoves /\ RowsMove /\ ListingMoves
<1> DEFINE Own == {s \in AddonSteps[a] :
                     status[s] \in {"absent", "skipped", "failed", "cancelled"}}
           Touched == IF Own = {} THEN {} ELSE Own \cup AddonDependents(a)
<1>1. AwaitReview \notin Touched
  BY AddonLeavesGate
<1>2. Released(Touched, "queued")
  BY DEF EnqueueAddonSteps
<1>3. GateMoves /\ RowsMove
  BY <1>1, <1>2, ReleasedMoves
<1>4. ListingMoves
  BY DEF EnqueueAddonSteps, ListingMoves, Out
<1> QED
  BY <1>3, <1>4

LEMMA ApiMoves ==
    ASSUME TInv, ApiStep \/ FailStuck
    PROVE  Moves
<1> USE DEF TInv, Moves
<1>1. UNCHANGED run
  BY DEF ApiStep, FailStuck, StartPipeline, RegisterAssets, TriggerPipeline, TriggerFailed,
         StartReview, Approve, Reject, Cancel, Retry, ActivateAddon
<1>2. CASE StartPipeline \/ RegisterAssets \/ TriggerFailed \/ StartReview
  <2>1. UNCHANGED status
    BY <1>2 DEF StartPipeline, RegisterAssets, TriggerFailed, StartReview, rows
  <2>2. ListingMoves
    BY <1>2 DEF StartPipeline, RegisterAssets, TriggerFailed, StartReview, ListingMoves, Out
  <2> QED
    BY <1>1, <2>1, <2>2, NothingMoves
<1>3. CASE TriggerPipeline
  <2>1. addons \in SUBSET Addons
    BY DEF TypeOK
  <2> QED
    BY <1>1, <1>3, <2>1, EnqueuedMoves, NothingMoves DEF TriggerPipeline
<1>4. CASE Approve
  <2>1. GateMoves /\ RowsMove
    BY <1>4, ReviewCompletedType, GateFacts DEF Approve, TypeOK, GateMoves, RowsMove, Begun
  <2>2. ListingMoves
    BY <1>4 DEF Approve, ListingMoves, Out
  <2> QED
    BY <1>1, <2>1, <2>2, NothingMoves
<1>5. CASE Reject \/ Cancel
  <2>1. GateMoves /\ RowsMove
    BY <1>5, ReleasedMoves DEF Reject, Cancel, CancelListingJobs
  <2>2. ListingMoves
    BY <1>5 DEF Reject, Cancel, ListingMoves, Out
  <2> QED
    BY <1>1, <2>1, <2>2, NothingMoves
<1>6. CASE Retry
  <2>1. CASE NoRows
    <3>1. status' = Enqueued(addons) /\ listing' = "UPLOADING" /\ addons \in SUBSET Addons
      BY <1>6, <2>1 DEF Retry, TypeOK
    <3> QED
      BY <1>1, <3>1, EnqueuedMoves, NothingMoves DEF ListingMoves, Out
  <2>2. CASE ~NoRows
    <3>1. RetryListing
      BY <1>6, <2>2 DEF Retry
    <3>2. GateMoves /\ RowsMove
      BY <3>1, GateFacts
      DEF RetryListing, TypeOK, Resettable, ResetStatus, GateMoves, RowsMove, Begun
    <3>3. ListingMoves
      BY <3>1 DEF RetryListing, ListingMoves, Out
    <3> QED
      BY <1>1, <3>2, <3>3, NothingMoves
  <2> QED
    BY <2>1, <2>2
<1>7. ASSUME NEW a \in Addons, ActivateAddon(a) PROVE Moves
  BY <1>1, <1>7, EnqueueAddonStepsMoves, NothingMoves DEF ActivateAddon, rows
<1>8. CASE FailStuck
  <2>1. GateMoves /\ RowsMove
    BY <1>8, CancelPendingType, GateFacts DEF FailStuck, TypeOK, GateMoves, RowsMove, Begun
  <2>2. ListingMoves
    BY <1>8 DEF FailStuck, ListingMoves, Out
  <2> QED
    BY <1>1, <2>1, <2>2, NothingMoves
<1> QED
  BY <1>2, <1>3, <1>4, <1>5, <1>6, <1>7, <1>8 DEF ApiStep

LEMMA StepMoves == TInv /\ [Next]_vars => Moves
<1> SUFFICES ASSUME TInv, [Next]_vars PROVE Moves
  OBVIOUS
<1>1. CASE Next
  BY <1>1, WorkerMoves, ApiMoves DEF Next
<1>2. CASE UNCHANGED vars
  BY <1>2, NothingMoves DEF vars, Moves
<1> QED
  BY <1>1, <1>2

LEMMA GateInvariant == Spec => [](TInv /\ GInv)
<1>1. Init => TInv /\ GInv
  BY InitType, GInvInit
<1>2. TInv /\ GInv /\ [Next]_vars => (TInv /\ GInv)'
  BY TInvStep, StepMoves, GInvMoves
<1> QED
  BY <1>1, <1>2, PTL DEF Spec

\* No step behind the review is taken up, run or finished before the gate is done,
\* whatever pipeline is declared (within GateGuards), however many workers run and
\* whatever retries, crashes, cancellations, reclaims and add-ons occur.
THEOREM ReviewComesFirst == Spec => []ReviewedFirst
<1>1. GInv => ReviewedFirst
  BY DEF GInv
<1> QED
  BY <1>1, GateInvariant, PTL

\* A listing is exported or delivered only behind a completed review: neither a
\* stale agent's commit nor an add-on's re-run gets it there otherwise.
THEOREM DeliveryIsReviewed == Spec => []DeliveredOnlyReviewed
<1>1. GInv => DeliveredOnlyReviewed
  BY DEF GInv
<1> QED
  BY <1>1, GateInvariant, PTL

\* A completed review is never undone: not by retry_listing, not by a cancellation,
\* not by the re-run of an add-on.
THEOREM ApprovalLasts == Spec => ApprovalIsKept
<1>1. TInv /\ [Next]_vars => [GateMoves]_vars
  BY StepMoves DEF Moves
<1>2. [GateMoves]_vars => [status[AwaitReview] = "done" => status'[AwaitReview] = "done"]_vars
  BY DEF GateMoves
<1> QED
  BY <1>1, <1>2, GateInvariant, PTL DEF Spec, ApprovalIsKept

\* The runner implements ReviewedPublishing: of its steps, those that complete the
\* gate are approvals and publish nothing; those that publish come after it.
THEOREM RunnerKeepsPromise == Spec => KeepsPromise
<1>1. Init => Promise!Init
  BY GateFacts, IdleRunType, Publishing
  DEF Init, Promise!Init, Published, PostReviewSteps
<1>2. TInv /\ GInv /\ [Next]_vars /\ (TInv /\ GInv)'
        => [Promise!Next]_<<status[AwaitReview] = "done", Published>>
  <2> SUFFICES ASSUME TInv, GInv, [Next]_vars, GInv'
               PROVE  [Promise!Next]_<<status[AwaitReview] = "done", Published>>
    OBVIOUS
  <2> DEFINE approved == status[AwaitReview] = "done"
  <2>1. Moves
    BY StepMoves
  <2>2. ~approved => Published = {}
    BY DEF GInv, ReviewedFirst, Published
  <2>3. ~approved => Published' = {}
    <3> SUFFICES ASSUME ~approved, NEW s \in PostReviewSteps
                 PROVE  status'[s] \notin Begun /\ ~Held(s)'
      BY DEF Published, Begun, Held
    <3>1. s \in Steps /\ s # AwaitReview
      BY Publishing DEF PublishingIsPostReview, PostReviewSteps
    <3>2. status[s] \notin Begun /\ ~Held(s)
      BY DEF GInv, ReviewedFirst, Begun, Held
    <3>3. ~Claimable(s)
      BY ClaimableIsReviewed
    <3> QED
      BY <2>1, <3>1, <3>2, <3>3 DEF Moves, RowsMove, RunsMove
  <2>4. Published' \in SUBSET PostReviewSteps
    BY DEF Published
  <2>5. CASE approved
    BY <2>1, <2>4, <2>5 DEF Moves, GateMoves, Promise!Next, Promise!Publish
  <2>6. CASE ~approved
    BY <2>2, <2>3, <2>6 DEF Promise!Next, Promise!Approve
  <2> QED
    BY <2>5, <2>6
<1> QED
  BY <1>1, <1>2, GateInvariant, PTL DEF Spec, KeepsPromise, Promise!Spec

(***************************************************************************)
(* locked_by and status move together.                                     *)
(***************************************************************************)
LEMMA ReleasedLocks ==
    ASSUME TInv, LockedIffRunning, NEW S, NEW st \in JobStatus \ {"running"}, Released(S, st)
    PROVE  LockedIffRunning'
BY DEF TInv, TypeOK, Released, LockedIffRunning

\* Releasing the lock of one row and setting its status, with or without a
\* completed review or cancelled siblings.
LEMMA WriteLocks ==
    ASSUME TInv, LockedIffRunning,
           NEW s \in Steps, NEW v \in {"done", "queued", "failed"},
           lockedBy' = [lockedBy EXCEPT ![s] = None],
           LET st == [status EXCEPT ![s] = v]
           IN  status' \in {st, ReviewCompleted(st), CancelPending(st)}
    PROVE  LockedIffRunning'
<1> DEFINE st == [status EXCEPT ![s] = v]
<1>1. /\ st \in [Steps -> JobStatus \cup {"absent"}]
      /\ \A d \in Steps : st[d] = IF d = s THEN v ELSE status[d]
  BY DEF TInv, TypeOK, JobStatus
<1> HIDE DEF st
<1>2. \A d \in Steps : status'[d] = "running" <=> st[d] = "running"
  <2>1. status' \in {st, ReviewCompleted(st), CancelPending(st)}
    BY DEF st
  <2> QED
    BY <1>1, <2>1, CancelPendingType, ReviewCompletedType
<1>3. \A d \in Steps : lockedBy'[d] = IF d = s THEN None ELSE lockedBy[d]
  BY DEF TInv, TypeOK
<1> QED
  BY <1>1, <1>2, <1>3 DEF LockedIffRunning

LEMMA RowsUnlocked ==
    ASSUME TInv, LockedIffRunning, UNCHANGED lockedBy,
           \A s \in Steps : status'[s] = "running" <=> status[s] = "running"
    PROVE  LockedIffRunning'
BY DEF LockedIffRunning

LEMMA LockInit == Init => LockedIffRunning
BY DEF Init, LockedIffRunning

LEMMA LockStep == TInv /\ LockedIffRunning /\ [Next]_vars => LockedIffRunning'
<1> SUFFICES ASSUME TInv, LockedIffRunning, [Next]_vars PROVE LockedIffRunning'
  OBVIOUS
<1> USE DEF TInv
<1>1. ASSUME UNCHANGED <<status, lockedBy>> PROVE LockedIffRunning'
  BY <1>1 DEF LockedIffRunning
<1>2. ASSUME NEW k \in Slots, RunStep(k) PROVE LockedIffRunning'
  <2>1. CASE ClaimNext(k)
    <3>1. run[k].step \in Steps /\ WorkerOf[k] # None
      BY SlotOwners, WorkerNames DEF TypeOK, RunType
    <3> QED
      BY <1>1, <2>1, <3>1 DEF ClaimNext, TypeOK, LockedIffRunning, rows
  <2>2. CASE RunJobWrite(k)
    <3>1. run[k].step \in Steps
      BY DEF TypeOK, RunType
    <3>2. PICK v \in {"done", "queued", "failed"} :
            LET st == [status EXCEPT ![run[k].step] = v]
            IN  status' \in {st, ReviewCompleted(st), CancelPending(st)}
      BY <2>2 DEF RunJobWrite
    <3>3. lockedBy' = [lockedBy EXCEPT ![run[k].step] = None]
      BY <2>2 DEF RunJobWrite
    <3> QED
      BY <3>1, <3>2, <3>3, WriteLocks
  <2>3. CASE RunJobStart(k) \/ AgentCommit(k) \/ RunJobResult(k)
             \/ \E s \in Steps : PickCandidate(k, s)
    BY <1>1, <2>3 DEF RunJobStart, AgentCommit, RunJobResult, PickCandidate, rows
  <2> QED
    BY <1>2, <2>1, <2>2, <2>3 DEF RunStep
<1>3. ASSUME NEW s \in Steps, ReclaimStale(s) PROVE LockedIffRunning'
  <2>1. PICK v \in {"done", "queued", "failed"} :
          LET st == [status EXCEPT ![s] = v]
          IN  status' \in {st, ReviewCompleted(st), CancelPending(st)}
    BY <1>3 DEF ReclaimStale
  <2>2. lockedBy' = [lockedBy EXCEPT ![s] = None]
    BY <1>3 DEF ReclaimStale
  <2> QED
    BY <2>1, <2>2, WriteLocks
<1>4. CASE WorkerFault
  <2>1. ASSUME NEW w \in Workers, Crash(w) PROVE LockedIffRunning'
    BY <2>1, WorkerNames DEF Crash, TypeOK, LockedIffRunning, None, Dead
  <2>2. ASSUME NEW w \in Workers, RequeueOwned(w) PROVE LockedIffRunning'
    <3>1. PICK S : Released(S, "queued")
      BY <2>2 DEF RequeueOwned
    <3>2. "queued" \in JobStatus \ {"running"}
      BY DEF JobStatus
    <3> QED
      BY <3>1, <3>2, ReleasedLocks
  <2>3. ASSUME NEW w \in Workers, Stop(w) PROVE LockedIffRunning'
    BY <1>1, <2>3 DEF Stop, rows
  <2>4. ASSUME NEW k \in Slots, RunJobLost(k) \/ HandBack(k) PROVE LockedIffRunning'
    BY <1>1, <2>4 DEF RunJobLost, HandBack, rows
  <2> QED
    BY <1>4, <2>1, <2>2, <2>3, <2>4 DEF WorkerFault
<1>5. ASSUME NEW enabled, status' = Enqueued(enabled), UNCHANGED lockedBy
      PROVE  LockedIffRunning'
  BY <1>5, RowsUnlocked DEF Enqueued, TypeOK
<1>6. CASE ApiStep
  <2>1. CASE StartPipeline \/ RegisterAssets \/ TriggerFailed \/ StartReview
    BY <1>1, <2>1 DEF StartPipeline, RegisterAssets, TriggerFailed, StartReview, rows
  <2>2. CASE TriggerPipeline
    BY <1>5, <2>2 DEF TriggerPipeline
  <2>3. CASE Approve
    BY <2>3, RowsUnlocked, ReviewCompletedType DEF Approve, TypeOK
  <2>4. CASE Reject \/ Cancel
    <3>1. "cancelled" \in JobStatus \ {"running"}
      BY DEF JobStatus
    <3> QED
      BY <2>4, <3>1, ReleasedLocks DEF Reject, Cancel, CancelListingJobs
  <2>5. CASE Retry
    <3>1. CASE NoRows
      BY <1>5, <2>5, <3>1 DEF Retry
    <3>2. CASE ~NoRows
      BY <2>5, <3>2
      DEF Retry, RetryListing, Resettable, ResetStatus, TypeOK, LockedIffRunning
    <3> QED
      BY <3>1, <3>2
  <2>6. ASSUME NEW a \in Addons, ActivateAddon(a) PROVE LockedIffRunning'
    <3>1. CASE NoRows
      BY <1>1, <2>6, <3>1 DEF ActivateAddon, rows
    <3>2. CASE ~NoRows
      <4>1. PICK S : Released(S, "queued")
        BY <2>6, <3>2 DEF ActivateAddon, EnqueueAddonSteps
      <4>2. "queued" \in JobStatus \ {"running"}
        BY DEF JobStatus
      <4> QED
        BY <4>1, <4>2, ReleasedLocks
    <3> QED
      BY <3>1, <3>2
  <2> QED
    BY <1>6, <2>1, <2>2, <2>3, <2>4, <2>5, <2>6 DEF ApiStep
<1>7. CASE FailStuck
  BY <1>7, RowsUnlocked, CancelPendingType DEF FailStuck, TypeOK
<1>8. CASE UNCHANGED vars
  BY <1>1, <1>8 DEF vars, rows
<1> QED
  BY <1>2, <1>3, <1>4, <1>6, <1>7, <1>8 DEF Next

\* A row is locked exactly while it is RUNNING, so that reclaim_stale (by status),
\* requeue_owned and _requeue (by status and locked_by) see every row a worker has
\* taken, and no other.
THEOREM LocksMarkRunning == Spec => []LockedIffRunning
<1>1. TInv /\ LockedIffRunning /\ [Next]_vars => (TInv /\ LockedIffRunning)'
  BY TInvStep, LockStep
<1>2. Init => TInv /\ LockedIffRunning
  BY InitType, LockInit
<1> QED
  BY <1>1, <1>2, PTL DEF Spec

-----------------------------------------------------------------------------
(***************************************************************************)
(* What PipelineJobs keeps as long as no transaction commits between the   *)
(* unlocked read of a run's last transaction and its write (SerialSpec).   *)
(***************************************************************************)

(***************************************************************************)
(* The inductive invariant.  Without interruption, what a run read before  *)
(* its write still holds when it writes: the row is RUNNING, it has an     *)
(* attempt left if it is to be retried, and a hand-back writes one attempt *)
(* less than the row has now.                                              *)
(***************************************************************************)
Prepared(r) ==
    /\ status[r.step] = "running"
    /\ r.outcome = "requeue" => attempts[r.step] < MaxAttempts[r.step]
    /\ r.outcome = "handback" => r.left = Decremented(attempts[r.step])
WritesPrepared == \A k \in Slots : run[k].phase = "writing" => Prepared(run[k])

\* The attempts of a row, which a row that does not exist yet has none of.
Budget ==
    \A s \in Steps :
        /\ attempts[s] <= MaxAttempts[s]
        /\ status[s] = "queued" => attempts[s] < MaxAttempts[s]
        /\ status[s] = "absent" => attempts[s] = 0

\* A run that is at its write after a step was there before it, or has just read the
\* row that it will write.
LEMMA WritingRuns ==
    ASSUME TInv, [Next]_vars, NEW k \in Slots, run'[k].phase = "writing"
    PROVE  /\ run'[k].step = run[k].step
           /\ \/ /\ run[k].phase = "writing"
                 /\ run'[k].outcome = run[k].outcome /\ run'[k].left = run[k].left
              \/ /\ UNCHANGED rows /\ status[run[k].step] = "running"
                 /\ \/ /\ run'[k].outcome # "handback"
                       /\ run'[k].outcome = "requeue" => ~OutOfAttempts(run[k].step)
                    \/ /\ run'[k].outcome = "handback"
                       /\ run'[k].left = Decremented(attempts[run[k].step])
<1> USE DEF TInv
<1> DEFINE Still == /\ run'[k].step = run[k].step /\ run[k].phase = "writing"
                    /\ run'[k].outcome = run[k].outcome /\ run'[k].left = run[k].left
           Read  == /\ run'[k].step = run[k].step
                    /\ UNCHANGED rows /\ status[run[k].step] = "running"
                    /\ \/ /\ run'[k].outcome # "handback"
                          /\ run'[k].outcome = "requeue" => ~OutOfAttempts(run[k].step)
                       \/ /\ run'[k].outcome = "handback"
                          /\ run'[k].left = Decremented(attempts[run[k].step])
<1> SUFFICES Still \/ Read
  OBVIOUS
<1>1. run'[k] # IdleRun
  BY IdleRunType
<1>2. ASSUME UNCHANGED run PROVE Still
  BY <1>2
<1>3. ASSUME NEW j \in Slots, RunStep(j) PROVE Still \/ Read
  <2>1. CASE RunJobResult(j)
    <3>1. PICK res \in AgentResults(j) :
            LET s == run[j].step
                outcome == IF res = "ok" THEN "done"
                           ELSE IF res = "retryable" /\ ~OutOfAttempts(s) THEN "requeue"
                           ELSE "fail"
            IN run' = [run EXCEPT ![j] =
                  IF StillOwned(j)
                  THEN [run[j] EXCEPT !.phase = "writing", !.outcome = outcome]
                  ELSE IdleRun]
      BY <2>1 DEF RunJobResult
    <3>2. CASE j # k
      BY <3>1, <3>2 DEF TypeOK
    <3>3. CASE j = k
      <4>1. StillOwned(k)
        BY <1>1, <3>1, <3>3 DEF TypeOK
      <4>2. /\ run'[k].step = run[k].step
            /\ run'[k].outcome # "handback"
            /\ run'[k].outcome = "requeue" => ~OutOfAttempts(run[k].step)
        BY <3>1, <3>3, <4>1 DEF TypeOK, RunType
      <4> QED
        BY <2>1, <4>1, <4>2 DEF RunJobResult, StillOwned
    <3> QED
      BY <3>2, <3>3
  <2>2. CASE ClaimNext(j)
    BY <1>1, <2>2 DEF ClaimNext, TypeOK, RunType
  <2>3. CASE AgentCommit(j)
    BY <2>3 DEF AgentCommit, TypeOK, RunType
  <2>4. CASE RunJobStart(j)
    BY <2>4 DEF RunJobStart, TypeOK, RunType
  <2>5. CASE RunJobWrite(j)
    BY <1>1, <2>5 DEF RunJobWrite, TypeOK
  <2>6. ASSUME NEW s \in Steps, PickCandidate(j, s) PROVE Still
    <3> DEFINE picked == [IdleRun EXCEPT !.phase = "picked", !.step = s]
    <3>1. run' = [run EXCEPT ![j] = picked]
      BY <2>6 DEF PickCandidate
    <3>2. picked.phase # "writing"
      BY DEF IdleRun
    <3> HIDE DEF picked
    <3> QED
      BY <3>1, <3>2 DEF TypeOK
  <2> QED
    BY <1>3, <2>1, <2>2, <2>3, <2>4, <2>5, <2>6 DEF RunStep
<1>4. CASE WorkerFault
  <2>1. ASSUME NEW j \in Slots, HandBack(j) PROVE Still \/ Read
    <3> DEFINE back == [run[j] EXCEPT !.phase = "writing", !.outcome = "handback",
                                      !.left = Decremented(attempts[run[j].step])]
    <3>1. CASE j # k
      BY <2>1, <3>1 DEF HandBack, TypeOK
    <3>2. CASE j = k
      <4>1. run'[k] = back /\ status[run[k].step] = "running"
        BY <1>1, <2>1, <3>2 DEF HandBack, TypeOK
      <4>2. /\ run'[k].step = run[k].step /\ run'[k].outcome = "handback"
            /\ run'[k].left = Decremented(attempts[run[k].step])
        BY <3>2, <4>1 DEF TypeOK, RunType
      <4> QED
        BY <2>1, <4>1, <4>2 DEF HandBack
    <3> QED
      BY <3>1, <3>2
  <2>2. ASSUME NEW j \in Slots, RunJobLost(j) PROVE Still
    BY <1>1, <2>2 DEF RunJobLost, TypeOK
  <2>3. ASSUME NEW w \in Workers, Crash(w) \/ Stop(w) \/ RequeueOwned(w) PROVE Still
    BY <1>1, <2>3 DEF Crash, Stop, RequeueOwned
  <2> QED
    BY <1>4, <2>1, <2>2, <2>3 DEF WorkerFault
<1>5. ASSUME NEW s \in Steps, ReclaimStale(s) PROVE UNCHANGED run
  BY <1>5 DEF ReclaimStale
<1>6. CASE ApiStep \/ FailStuck
  BY <1>2, <1>6
  DEF ApiStep, FailStuck, StartPipeline, RegisterAssets, TriggerPipeline, TriggerFailed,
      StartReview, Approve, Reject, Cancel, Retry, ActivateAddon
<1>7. CASE UNCHANGED vars
  BY <1>2, <1>7 DEF vars
<1> QED
  BY <1>2, <1>3, <1>4, <1>5, <1>6, <1>7 DEF Next

LEMMA PreparedStep ==
    ASSUME TInv, [Next /\ Uninterrupted]_vars, WritesPrepared
    PROVE  WritesPrepared'
<1> SUFFICES ASSUME NEW k \in Slots, run'[k].phase = "writing"
             PROVE  Prepared(run[k])'
  BY DEF WritesPrepared
<1> DEFINE s == run[k].step
<1>1. s \in Steps /\ attempts[s] \in Nat /\ MaxAttempts[s] \in Nat
  BY DefinitionTypes DEF TInv, TypeOK, RunType
<1>2. run'[k].step = s
  BY WritingRuns
<1>3. CASE /\ run[k].phase = "writing"
           /\ run'[k].outcome = run[k].outcome /\ run'[k].left = run[k].left
  <2>1. status'[s] = status[s] /\ attempts'[s] = attempts[s]
    BY <1>3 DEF Uninterrupted, vars, rows
  <2> QED
    BY <1>2, <1>3, <2>1 DEF WritesPrepared, Prepared, Decremented
<1>4. CASE /\ UNCHANGED rows /\ status[s] = "running"
           /\ \/ run'[k].outcome # "handback" /\ (run'[k].outcome = "requeue" => ~OutOfAttempts(s))
              \/ run'[k].outcome = "handback" /\ run'[k].left = Decremented(attempts[s])
  BY <1>1, <1>2, <1>4 DEF Prepared, OutOfAttempts, Decremented, rows
<1> QED
  BY <1>3, <1>4, WritingRuns

(***************************************************************************)
(* The life of a row: what one step may do to its status and attempts.     *)
(***************************************************************************)
Stays(s)    == status'[s] = status[s] /\ attempts'[s] = attempts[s]
Created(s)  == /\ status[s] = "absent" /\ status'[s] \in {"queued", "waiting", "skipped"}
               /\ attempts'[s] = attempts[s]
Claimed(s)  == /\ status[s] = "queued" /\ status'[s] = "running"
               /\ attempts'[s] = attempts[s] + 1
Finished(s) == /\ \/ status[s] = "running" /\ status'[s] \in {"done", "failed"}
                  \/ status[s] = "waiting" /\ status'[s] = "done"
               /\ attempts'[s] = attempts[s]
Requeued(s) == /\ status[s] = "running" /\ status'[s] = "queued"
               /\ \/ attempts'[s] = attempts[s] /\ attempts[s] < MaxAttempts[s]
                  \/ attempts'[s] = Decremented(attempts[s])
Dropped(s)  == /\ status[s] \in {"queued", "waiting", "running"} /\ status'[s] = "cancelled"
               /\ attempts'[s] = attempts[s]
Renewed(s)  == /\ status'[s] \in {"queued", "waiting"} /\ attempts'[s] = 0
               /\ \/ Retry /\ status[s] # "done"
                  \/ \E a \in Addons : ActivateAddon(a)
RowMove(s) ==
    \/ Stays(s) \/ Created(s) \/ Claimed(s) \/ Finished(s)
    \/ Requeued(s) \/ Dropped(s) \/ Renewed(s)

\* One row is written, perhaps with a completed review or cancelled siblings.
LEMMA SiblingsMove ==
    ASSUME TInv, NEW s \in Steps, NEW v \in {"done", "queued", "failed"},
           LET st == [status EXCEPT ![s] = v]
           IN  \/ status' \in {st, ReviewCompleted(st)}
               \/ v = "failed" /\ status' = CancelPending(st),
           NEW d \in Steps, d # s, attempts'[d] = attempts[d]
    PROVE  RowMove(d) /\ status'[s] = v
<1> DEFINE st == [status EXCEPT ![s] = v]
<1>1. /\ st \in [Steps -> JobStatus \cup {"absent"}]
      /\ st[d] = status[d] /\ st[s] = v
  BY DEF TInv, TypeOK, JobStatus
<1>2. \/ status' \in {st, ReviewCompleted(st)}
      \/ v = "failed" /\ status' = CancelPending(st)
  OBVIOUS
<1> HIDE DEF st
<1>3. /\ \/ status'[d] = st[d]
         \/ st[d] = "waiting" /\ status'[d] = "done"
         \/ st[d] \in {"queued", "waiting"} /\ status'[d] = "cancelled"
      /\ status'[s] = v
  BY <1>1, <1>2, CancelPendingType, ReviewCompletedType
<1> QED
  BY <1>1, <1>3 DEF RowMove, Stays, Finished, Dropped

LEMMA EnqueuedRows ==
    ASSUME TInv, NEW enabled, status' = Enqueued(enabled), UNCHANGED attempts, NEW s \in Steps
    PROVE  RowMove(s)
BY DEF Enqueued, RowMove, Stays, Created

LEMMA RowMoves ==
    ASSUME TInv, WritesPrepared, [Next]_vars, NEW s \in Steps
    PROVE  RowMove(s)
<1> USE DEF TInv
<1>1. ASSUME UNCHANGED <<status, attempts>> PROVE RowMove(s)
  BY <1>1 DEF RowMove, Stays
<1>2. ASSUME NEW k \in Slots, RunStep(k) PROVE RowMove(s)
  <2> DEFINE own == run[k].step
  <2>1. own \in Steps
    BY DEF TypeOK, RunType
  <2>2. CASE ClaimNext(k)
    BY <1>1, <2>1, <2>2 DEF ClaimNext, TypeOK, RowMove, Stays, Claimed, rows
  <2>3. CASE RunJobWrite(k)
    <3>1. Prepared(run[k])
      BY <2>3 DEF RunJobWrite, WritesPrepared
    <3>2. PICK v \in {"done", "queued", "failed"} :
            /\ LET st == [status EXCEPT ![own] = v]
               IN  \/ status' \in {st, ReviewCompleted(st)}
                   \/ v = "failed" /\ status' = CancelPending(st)
            /\ \/ v # "queued" /\ UNCHANGED attempts
               \/ v = "queued" /\ run[k].outcome = "requeue" /\ UNCHANGED attempts
               \/ /\ v = "queued" /\ run[k].outcome = "handback"
                  /\ attempts' = [attempts EXCEPT ![own] = run[k].left]
      BY <2>3 DEF RunJobWrite
    <3>3. \A d \in Steps : d # own => attempts'[d] = attempts[d]
      BY <2>1, <3>2 DEF TypeOK
    <3>4. CASE s # own
      BY <2>1, <3>2, <3>3, <3>4, SiblingsMove
    <3>5. CASE s = own
      <4>1. status'[own] = v
        <5> DEFINE st == [status EXCEPT ![own] = v]
        <5>1. st \in [Steps -> JobStatus \cup {"absent"}] /\ st[own] = v
          BY <2>1 DEF TypeOK, JobStatus
        <5>2. \/ status' \in {st, ReviewCompleted(st)}
              \/ v = "failed" /\ status' = CancelPending(st)
          BY <3>2
        <5> HIDE DEF st
        <5> QED
          BY <2>1, <5>1, <5>2, CancelPendingType, ReviewCompletedType
      <4>2. CASE v # "queued"
        BY <3>1, <3>2, <3>5, <4>1, <4>2 DEF Prepared, RowMove, Finished
      <4>3. CASE v = "queued"
        BY <2>1, <3>1, <3>2, <3>5, <4>1, <4>3 DEF Prepared, RowMove, Requeued, TypeOK
      <4> QED
        BY <4>2, <4>3
    <3> QED
      BY <3>4, <3>5
  <2>4. CASE RunJobStart(k) \/ AgentCommit(k) \/ RunJobResult(k)
             \/ \E d \in Steps : PickCandidate(k, d)
    BY <1>1, <2>4 DEF RunJobStart, AgentCommit, RunJobResult, PickCandidate, rows
  <2> QED
    BY <1>2, <2>2, <2>3, <2>4 DEF RunStep
<1>3. ASSUME NEW d \in Steps, ReclaimStale(d) PROVE RowMove(s)
  <2>1. PICK v \in {"queued", "failed"} :
          /\ LET st == [status EXCEPT ![d] = v]
             IN  \/ status' = st
                 \/ v = "failed" /\ status' = CancelPending(st)
          /\ v = "queued" => ~OutOfAttempts(d)
    BY <1>3 DEF ReclaimStale
  <2>2. status[d] = "running" /\ UNCHANGED attempts
    BY <1>3 DEF ReclaimStale, MaybeStale
  <2>3. CASE s # d
    BY <2>1, <2>2, <2>3, SiblingsMove
  <2>4. CASE s = d
    <3>1. status'[d] = v
      <4> DEFINE st == [status EXCEPT ![d] = v]
      <4>1. st \in [Steps -> JobStatus \cup {"absent"}] /\ st[d] = v
        BY DEF TypeOK, JobStatus
      <4>2. \/ status' = st
            \/ v = "failed" /\ status' = CancelPending(st)
        BY <2>1
      <4> HIDE DEF st
      <4> QED
        BY <4>1, <4>2, CancelPendingType
    <3> QED
      BY <2>1, <2>2, <2>4, <3>1, DefinitionTypes
      DEF RowMove, Finished, Requeued, OutOfAttempts, TypeOK
  <2> QED
    BY <2>3, <2>4
<1>4. CASE WorkerFault
  <2>1. ASSUME NEW w \in Workers, RequeueOwned(w) PROVE RowMove(s)
    BY <2>1 DEF RequeueOwned, Released, TypeOK, RowMove, Stays, Requeued
  <2>2. ASSUME NEW w \in Workers, Crash(w) \/ Stop(w) PROVE RowMove(s)
    BY <1>1, <2>2 DEF Crash, Stop, rows
  <2>3. ASSUME NEW k \in Slots, RunJobLost(k) \/ HandBack(k) PROVE RowMove(s)
    BY <1>1, <2>3 DEF RunJobLost, HandBack, rows
  <2> QED
    BY <1>4, <2>1, <2>2, <2>3 DEF WorkerFault
<1>5. CASE ApiStep
  <2>1. CASE StartPipeline \/ RegisterAssets \/ TriggerFailed \/ StartReview
    BY <1>1, <2>1 DEF StartPipeline, RegisterAssets, TriggerFailed, StartReview, rows
  <2>2. CASE TriggerPipeline
    BY <2>2, EnqueuedRows DEF TriggerPipeline
  <2>3. CASE Approve
    BY <2>3, ReviewCompletedType DEF Approve, TypeOK, RowMove, Stays, Finished
  <2>4. CASE Reject \/ Cancel
    BY <2>4 DEF Reject, Cancel, CancelListingJobs, Released, TypeOK, RowMove, Stays, Dropped
  <2>5. CASE Retry
    <3>1. CASE NoRows
      BY <2>5, <3>1, EnqueuedRows DEF Retry
    <3>2. CASE ~NoRows
      <4>1. RetryListing
        BY <2>5, <3>2 DEF Retry
      <4>2. \/ status'[s] = status[s] /\ attempts'[s] = attempts[s]
            \/ /\ status[s] \in Resettable
               /\ status'[s] \in {"queued", "waiting"} /\ attempts'[s] = 0
        BY <4>1 DEF RetryListing, ResetStatus
      <4> QED
        BY <2>5, <4>2 DEF Resettable, RowMove, Stays, Renewed
    <3> QED
      BY <3>1, <3>2
  <2>6. ASSUME NEW a \in Addons, ActivateAddon(a) PROVE RowMove(s)
    <3>1. CASE NoRows
      BY <1>1, <2>6, <3>1 DEF ActivateAddon, rows
    <3>2. CASE ~NoRows
      <4>1. PICK S : /\ Released(S, "queued")
                     /\ attempts' = [d \in Steps |-> IF d \in S THEN 0 ELSE attempts[d]]
        BY <2>6, <3>2 DEF ActivateAddon, EnqueueAddonSteps
      <4>2. \/ Stays(s)
            \/ status'[s] = "queued" /\ attempts'[s] = 0
        BY <4>1 DEF Released, Stays
      <4> QED
        BY <2>6, <4>2 DEF RowMove, Renewed
    <3> QED
      BY <3>1, <3>2
  <2> QED
    BY <1>5, <2>1, <2>2, <2>3, <2>4, <2>5, <2>6 DEF ApiStep
<1>6. CASE FailStuck
  BY <1>6, CancelPendingType DEF FailStuck, TypeOK, RowMove, Stays, Dropped
<1>7. CASE UNCHANGED vars
  BY <1>1, <1>7 DEF vars, rows
<1> QED
  BY <1>2, <1>3, <1>4, <1>5, <1>6, <1>7 DEF Next

(***************************************************************************)
(* The theorems.                                                           *)
(***************************************************************************)
LEMMA BudgetStep ==
    ASSUME TInv, Budget, \A s \in Steps : RowMove(s)
    PROVE  Budget'
<1> SUFFICES ASSUME NEW s \in Steps
             PROVE  /\ attempts'[s] <= MaxAttempts[s]
                    /\ status'[s] = "queued" => attempts'[s] < MaxAttempts[s]
                    /\ status'[s] = "absent" => attempts'[s] = 0
  BY DEF Budget
<1>1. attempts[s] \in Nat /\ MaxAttempts[s] \in Nat \ {0}
  BY DefinitionTypes DEF TInv, TypeOK
<1>2. /\ attempts[s] <= MaxAttempts[s]
      /\ status[s] = "queued" => attempts[s] < MaxAttempts[s]
      /\ status[s] = "absent" => attempts[s] = 0
  BY DEF Budget
<1>3. RowMove(s)
  OBVIOUS
<1> QED
  BY <1>1, <1>2, <1>3
  DEF RowMove, Stays, Created, Claimed, Finished, Requeued, Dropped, Renewed, Decremented

LEMMA SerialInvariant == SerialSpec => [](TInv /\ WritesPrepared /\ Budget)
<1> DEFINE Inv == TInv /\ WritesPrepared /\ Budget
<1>1. Init => Inv
  <2> SUFFICES ASSUME Init PROVE Inv
    OBVIOUS
  <2>1. WritesPrepared
    BY IdleRunType DEF Init, WritesPrepared
  <2>2. Budget
    BY DefinitionTypes DEF Init, Budget
  <2> QED
    BY <2>1, <2>2, InitType
<1>2. Inv /\ [Next /\ Uninterrupted]_vars => Inv'
  <2> SUFFICES ASSUME Inv, [Next /\ Uninterrupted]_vars PROVE Inv'
    OBVIOUS
  <2>1. [Next]_vars
    OBVIOUS
  <2>2. \A s \in Steps : RowMove(s)
    BY <2>1, RowMoves
  <2> QED
    BY <2>1, <2>2, TInvStep, PreparedStep, BudgetStep
<1> QED
  BY <1>1, <1>2, PTL DEF SerialSpec

\* max_attempts bounds the claims of a row since it was last renewed, however often
\* it is reclaimed, handed back at a shutdown or retried: the row a run writes is
\* the one whose attempts it compared.
THEOREM ClaimsAreBounded == SerialSpec => []AttemptsBounded
<1>1. Budget => AttemptsBounded
  BY DEF Budget, AttemptsBounded
<1> QED
  BY <1>1, SerialInvariant, PTL

\* No late worker revives a cancelled row: only a retry or an add-on purchase does.
THEOREM CancelledStaysCancelled == SerialSpec => CancelledStays
<1>1. ASSUME TInv, WritesPrepared, [Next]_vars
      PROVE  (\E s \in Steps : status[s] = "cancelled" /\ status'[s] # "cancelled")
               => Retry \/ \E a \in Addons : ActivateAddon(a)
  BY <1>1, RowMoves
  DEF RowMove, Stays, Created, Claimed, Finished, Requeued, Dropped, Renewed
<1>2. TInv /\ WritesPrepared /\ [Next /\ Uninterrupted]_vars
        => [(\E s \in Steps : status[s] = "cancelled" /\ status'[s] # "cancelled")
              => Retry \/ \E a \in Addons : ActivateAddon(a)]_vars
  BY <1>1
<1> QED
  BY <1>2, SerialInvariant, PTL DEF SerialSpec, CancelledStays

\* A finished step is only run again for an add-on: a retry leaves it, and no
\* completion, hand-back or sweep finds its row RUNNING.
THEOREM DoneStaysDone == SerialSpec => DoneStays
<1>1. ASSUME TInv, WritesPrepared, [Next]_vars
      PROVE  (\E s \in Steps : status[s] = "done" /\ status'[s] # "done")
               => \E a \in Addons : ActivateAddon(a)
  BY <1>1, RowMoves
  DEF RowMove, Stays, Created, Claimed, Finished, Requeued, Dropped, Renewed
<1>2. TInv /\ WritesPrepared /\ [Next /\ Uninterrupted]_vars
        => [(\E s \in Steps : status[s] = "done" /\ status'[s] # "done")
              => \E a \in Addons : ActivateAddon(a)]_vars
  BY <1>1
<1> QED
  BY <1>2, SerialInvariant, PTL DEF SerialSpec, DoneStays

-----------------------------------------------------------------------------
(***************************************************************************)
(* A delivered listing is complete, for every pipeline that satisfies the  *)
(* assumptions of Delivery too.                                            *)
(***************************************************************************)

(***************************************************************************)
(* Induction on natural numbers, for a set in place of a predicate, and    *)
(* what it gives for functions defined by iteration.                       *)
(***************************************************************************)
LEMMA LeastNatural ==
    ASSUME NEW T \in SUBSET Nat, T # {}
    PROVE  \E x \in T : \A y \in T : x <= y
<1> DEFINE Below == {0..n : n \in T}
           R == StrictSubsetOrdering(Nat)
           S == FiniteSubsetsOf(Nat)
<1>1. \A n \in T : 0..n \in S
  BY FS_Interval DEF FiniteSubsetsOf
<1>2. Below \subseteq S /\ Below # {}
  BY <1>1
<1>3. IsWellFoundedOn(R, S)
  BY FS_StrictSubsetOrderingWellFounded
<1>4. \A x, y \in T : y < x => <<0..y, 0..x>> \in R
  BY DEF StrictSubsetOrdering
<1> HIDE DEF R, S
<1>5. PICK B \in Below : \A C \in Below : <<C, B>> \notin R
  <2> HIDE DEF Below
  <2> QED
    BY <1>2, <1>3, WFMin
<1>6. PICK x \in T : B = 0..x
  BY <1>5
<1>7. \A y \in T : 0..y \in Below
  OBVIOUS
<1>8. \A y \in T : <<0..y, 0..x>> \notin R
  BY <1>5, <1>6, <1>7
<1>9. \A y \in T : x <= y
  <2> TAKE y \in T
  <2>1. ~ (y < x)
    BY <1>4, <1>8
  <2>2. x \in Nat /\ y \in Nat
    OBVIOUS
  <2> QED
    BY <2>1, <2>2
<1> QED
  BY <1>9

LEMMA Induction ==
    ASSUME NEW T \in SUBSET Nat, 0 \in T, \A n \in T : n + 1 \in T
    PROVE  T = Nat
<1> SUFFICES ASSUME Nat \ T # {} PROVE FALSE
  OBVIOUS
<1>1. PICK m \in Nat \ T : \A y \in Nat \ T : m <= y
  BY LeastNatural
<1>2. m # 0 /\ m - 1 \in Nat /\ m - 1 \notin Nat \ T
  BY <1>1
<1> QED
  BY <1>1, <1>2

\* The iterates of a function exist: what a recursive definition needs before
\* anything can be said of it.
LEMMA IterationExists ==
    ASSUME NEW D, NEW A \in D, NEW G \in [D -> D]
    PROVE  \E f \in [Nat -> D] : f[0] = A /\ \A n \in Nat : f[n + 1] = G[f[n]]
<1> DEFINE Partial(k) == {g \in [0..k -> D] :
                            g[0] = A /\ \A i \in 0..(k - 1) : g[i + 1] = G[g[i]]}
<1>1. \A k \in Nat : Partial(k) # {}
  <2> DEFINE T == {k \in Nat : Partial(k) # {}}
  <2>1. 0 \in T
    <3>1. [i \in 0..0 |-> A] \in Partial(0)
      OBVIOUS
    <3> QED
      BY <3>1
  <2>2. ASSUME NEW k \in T PROVE k + 1 \in T
    <3>1. PICK g \in Partial(k) : TRUE
      BY <2>2
    <3> DEFINE h == [i \in 0..(k + 1) |-> IF i <= k THEN g[i] ELSE G[g[k]]]
    <3>2. h \in [0..(k + 1) -> D]
      BY <2>2, <3>1
    <3>3. h[0] = A /\ \A i \in 0..k : h[i + 1] = G[h[i]]
      BY <2>2, <3>1
    <3>4. h \in Partial(k + 1)
      BY <2>2, <3>2, <3>3
    <3> HIDE DEF h, Partial
    <3> QED
      BY <3>4
  <2>3. T \in SUBSET Nat
    OBVIOUS
  <2> HIDE DEF T
  <2>4. T = Nat
    BY <2>1, <2>2, <2>3, Induction
  <2> QED
    BY <2>4 DEF T
<1>2. ASSUME NEW k \in Nat, NEW m \in Nat, NEW g \in Partial(k), NEW h \in Partial(m)
      PROVE  \A i \in Nat : i <= k /\ i <= m => g[i] = h[i]
  <2> DEFINE T == {i \in Nat : i <= k /\ i <= m => g[i] = h[i]}
  <2>1. 0 \in T
    OBVIOUS
  <2>2. ASSUME NEW i \in T PROVE i + 1 \in T
    <3> SUFFICES ASSUME i + 1 <= k, i + 1 <= m PROVE g[i + 1] = h[i + 1]
      BY <2>2
    <3>1. i \in Nat /\ i \in 0..(k - 1) /\ i \in 0..(m - 1)
      BY <2>2
    <3>2. g[i] = h[i]
      BY <2>2, <3>1
    <3>3. g[i + 1] = G[g[i]] /\ h[i + 1] = G[h[i]]
      BY <3>1
    <3> QED
      BY <3>2, <3>3
  <2>3. T \in SUBSET Nat
    OBVIOUS
  <2> HIDE DEF T
  <2>4. T = Nat
    BY <2>1, <2>2, <2>3, Induction
  <2> QED
    BY <2>4 DEF T
<1> DEFINE c(k) == CHOOSE g : g \in Partial(k)
           f == [n \in Nat |-> c(n)[n]]
<1>3. \A k \in Nat : c(k) \in Partial(k)
  BY <1>1
<1>4. ASSUME NEW n \in Nat PROVE f[n] \in D /\ f[n + 1] = G[f[n]]
  <2>1. c(n) \in Partial(n) /\ c(n + 1) \in Partial(n + 1)
    <3> HIDE DEF Partial, c
    <3> QED
      BY <1>3
  <2>2. c(n)[n] = c(n + 1)[n]
    <3>1. \A i \in Nat : i <= n /\ i <= n + 1 => c(n)[i] = c(n + 1)[i]
      <4> HIDE DEF Partial, c
      <4> QED
        BY <1>2, <2>1
    <3> HIDE DEF c
    <3> QED
      BY <3>1
  <2> HIDE DEF c
  <2>3. c(n)[n] \in D /\ c(n + 1)[n + 1] = G[c(n + 1)[n]]
    BY <2>1
  <2> QED
    BY <2>2, <2>3
<1>5. f[0] = A
  <2>1. c(0) \in Partial(0)
    BY <1>3
  <2> HIDE DEF c
  <2> QED
    BY <2>1
<1>6. f \in [Nat -> D]
  BY <1>4
<1> HIDE DEF f
<1> QED
  BY <1>4, <1>5, <1>6

(***************************************************************************)
(* Reach, and with it transitive_requires, gives the least set that holds  *)
(* S and is closed under `up'.                                             *)
(***************************************************************************)
Round(up, Y) == Y \cup UNION {up[d] : d \in Y}

LEMMA ReachIterates ==
    ASSUME NEW up, \A s \in Steps : up[s] \in SUBSET Steps, NEW S \in SUBSET Steps
    PROVE  \E f \in [Nat -> SUBSET Steps] :
              /\ f[0] = S
              /\ \A n \in Nat : f[n + 1] = Round(up, f[n])
              /\ Reach(up, S) = f[Cardinality(Steps)]
<1> DEFINE G == [Y \in SUBSET Steps |-> Round(up, Y)]
           Body(f, n) == IF n = 0 THEN S
                         ELSE f[n-1] \cup UNION {up[d] : d \in f[n-1]}
<1>1. G \in [SUBSET Steps -> SUBSET Steps]
  BY DEF Round
<1>2. PICK f \in [Nat -> SUBSET Steps] : f[0] = S /\ \A n \in Nat : f[n + 1] = G[f[n]]
  <2> DEFINE D == SUBSET Steps
  <2>1. S \in D /\ G \in [D -> D]
    BY <1>1
  <2> HIDE DEF G, D
  <2>2. \E f \in [Nat -> D] : f[0] = S /\ \A n \in Nat : f[n + 1] = G[f[n]]
    BY <2>1, IterationExists
  <2> QED
    BY <2>2 DEF D
<1>3. \A n \in Nat : f[n + 1] = Round(up, f[n])
  BY <1>2
<1>4. \A n \in Nat : f[n] = Body(f, n)
  <2> TAKE n \in Nat
  <2>1. CASE n = 0
    BY <1>2, <2>1
  <2>2. CASE n # 0
    <3>1. n - 1 \in Nat /\ n = (n - 1) + 1
      BY <2>2
    <3>2. f[n] = Round(up, f[n - 1])
      BY <1>3, <3>1
    <3> QED
      BY <2>2, <3>2 DEF Round
  <2> QED
    BY <2>1, <2>2
<1>5. f = [n \in Nat |-> Body(f, n)]
  BY <1>4
<1> DEFINE IsUp(g) == g = [n \in Nat |-> Body(g, n)]
<1>6. \A g : IsUp(g) => g = f
  <2> TAKE g
  <2> HAVE IsUp(g)
  <2> DEFINE T == {n \in Nat : g[n] = f[n]}
  <2>1. 0 \in T
    BY <1>2
  <2>2. ASSUME NEW n \in T PROVE n + 1 \in T
    <3>1. n \in Nat /\ g[n + 1] = g[n] \cup UNION {up[d] : d \in g[n]}
      OBVIOUS
    <3>2. g[n] = f[n]
      BY <2>2
    <3>3. f[n + 1] = f[n] \cup UNION {up[d] : d \in f[n]}
      BY <1>3, <3>1 DEF Round
    <3>4. g[n + 1] = f[n + 1]
      <4> HIDE DEF IsUp
      <4> QED
        BY <3>1, <3>2, <3>3
    <3> QED
      BY <3>1, <3>4
  <2>3. T \in SUBSET Nat
    OBVIOUS
  <2> HIDE DEF T
  <2>4. T = Nat
    BY <2>1, <2>2, <2>3, Induction
  <2>5. \A n \in Nat : g[n] = f[n]
    BY <2>4 DEF T
  <2> QED
    BY <1>2, <2>5
<1>7. Reach(up, S) = f[Cardinality(Steps)]
  <2> DEFINE Up == CHOOSE g : IsUp(g)
  <2>1. IsUp(Up)
    BY <1>5
  <2>2. Up = f
    <3> HIDE DEF IsUp, Up
    <3> QED
      BY <1>6, <2>1
  <2>3. Reach(up, S) = Up[Cardinality(Steps)]
    BY DEF Reach
  <2> QED
    BY <2>2, <2>3
<1> QED
  BY <1>2, <1>3, <1>7

\* A round that adds nothing is the last; one that adds something makes the set larger,
\* so as many rounds as there are steps are enough.
LEMMA ReachIsClosure ==
    ASSUME NEW up, \A s \in Steps : up[s] \in SUBSET Steps, NEW S \in SUBSET Steps
    PROVE  /\ Reach(up, S) \in SUBSET Steps /\ S \subseteq Reach(up, S)
           /\ \A d \in Reach(up, S) : up[d] \subseteq Reach(up, S)
           /\ \A C \in SUBSET Steps :
                 S \subseteq C /\ (\A d \in C : up[d] \subseteq C) => Reach(up, S) \subseteq C
<1> DEFINE N == Cardinality(Steps)
<1>1. PICK f : /\ f \in [Nat -> SUBSET Steps]
               /\ f[0] = S
               /\ \A n \in Nat : f[n + 1] = Round(up, f[n])
               /\ Reach(up, S) = f[N]
  BY ReachIterates
<1>2. N \in Nat
  BY StepsFinite, FS_CardinalityType
<1>3. \A n \in Nat : f[n] \in SUBSET Steps /\ f[n] \subseteq f[n + 1]
  BY <1>1 DEF Round
<1>4. \A n \in Nat : IsFiniteSet(f[n]) /\ Cardinality(f[n]) \in Nat /\ Cardinality(f[n]) <= N
  BY <1>3, StepsFinite, FS_Subset, FS_CardinalityType
<1> HIDE DEF N
<1>5. S \subseteq f[N]
  <2> DEFINE T == {n \in Nat : S \subseteq f[n]}
  <2>1. 0 \in T /\ T \in SUBSET Nat
    BY <1>1
  <2>2. \A n \in T : n + 1 \in T
    BY <1>3
  <2> HIDE DEF T
  <2>3. T = Nat
    BY <2>1, <2>2, Induction
  <2> QED
    BY <1>2, <2>3 DEF T
<1>6. f[N + 1] = f[N]
  <2> DEFINE T == {n \in Nat : f[n + 1] = f[n] \/ n < Cardinality(f[n])}
  <2>1. 0 \in T
    <3>1. CASE f[0] = {}
      <4>1. f[0 + 1] = Round(up, f[0])
        BY <1>1
      <4> QED
        BY <3>1, <4>1 DEF Round
    <3>2. CASE f[0] # {}
      <4>1. Cardinality(f[0]) # 0 /\ Cardinality(f[0]) \in Nat
        BY <1>4, <3>2, FS_EmptySet
      <4> QED
        BY <4>1
    <3> QED
      BY <3>1, <3>2
  <2>2. ASSUME NEW n \in T PROVE n + 1 \in T
    <3>0. n \in Nat /\ n + 1 \in Nat
      OBVIOUS
    <3>1. CASE f[n + 1] = f[n]
      <4>1. f[n + 1] = Round(up, f[n]) /\ f[(n + 1) + 1] = Round(up, f[n + 1])
        BY <1>1, <3>0
      <4> QED
        BY <3>0, <3>1, <4>1
    <3>2. CASE f[n + 1] # f[n]
      <4>1. Cardinality(f[n]) <= Cardinality(f[n + 1]) /\ Cardinality(f[n]) # Cardinality(f[n + 1])
        BY <1>3, <1>4, <3>0, <3>2, FS_Subset
      <4>2. n < Cardinality(f[n])
        BY <2>2, <3>2
      <4>3. n + 1 < Cardinality(f[n + 1])
        BY <1>4, <3>0, <4>1, <4>2
      <4> QED
        BY <3>0, <4>3
    <3> QED
      BY <3>1, <3>2
  <2>3. T \in SUBSET Nat
    OBVIOUS
  <2> HIDE DEF T
  <2>4. T = Nat
    BY <2>1, <2>2, <2>3, Induction
  <2>5. f[N + 1] = f[N] \/ N < Cardinality(f[N])
    BY <1>2, <2>4 DEF T
  <2> QED
    BY <1>2, <1>4, <2>5
<1>7. \A d \in f[N] : up[d] \subseteq f[N]
  <2>1. f[N] = Round(up, f[N])
    BY <1>1, <1>2, <1>6
  <2> QED
    BY <2>1 DEF Round
<1>8. ASSUME NEW C \in SUBSET Steps, S \subseteq C, \A d \in C : up[d] \subseteq C
      PROVE  f[N] \subseteq C
  <2> DEFINE T == {n \in Nat : f[n] \subseteq C}
  <2>1. 0 \in T /\ T \in SUBSET Nat
    BY <1>1, <1>8
  <2>2. ASSUME NEW n \in T PROVE n + 1 \in T
    BY <1>1, <1>8 DEF Round
  <2> HIDE DEF T
  <2>3. T = Nat
    BY <2>1, <2>2, Induction
  <2> QED
    BY <1>2, <2>3 DEF T
<1> QED
  BY <1>1, <1>2, <1>3, <1>5, <1>7, <1>8

LEMMA StepRequires == \A s \in Steps : Requires[s] \in SUBSET Steps
BY DefinitionTypes

\* transitive_requires(s) is the least set that holds what s requires and what its own
\* members require, for every pipeline, cyclic ones included.
THEOREM TransitiveRequiresIsClosure ==
    \A s \in Steps :
        /\ TransitiveRequires[s] \in SUBSET Steps /\ Requires[s] \subseteq TransitiveRequires[s]
        /\ \A d \in TransitiveRequires[s] : Requires[d] \subseteq TransitiveRequires[s]
        /\ \A C \in SUBSET Steps :
              Requires[s] \subseteq C /\ (\A d \in C : Requires[d] \subseteq C)
                => TransitiveRequires[s] \subseteq C
<1> TAKE s \in Steps
<1>1. TransitiveRequires[s] = Reach(Requires, Requires[s])
  BY DEF TransitiveRequires, Reach
<1> QED
  BY <1>1, StepRequires, ReachIsClosure

LEMMA Covers ==
    ASSUME NEW C \in SUBSET Steps, Requires[Distribution] \subseteq C,
           \A d \in C \ Passable : Requires[d] \subseteq C
    PROVE  SureRequires \subseteq C
<1>1. \A s \in Steps : RanRequires[s] \in SUBSET Steps
  BY StepRequires DEF RanRequires
<1>2. \A d \in C : RanRequires[d] \subseteq C
  BY DEF RanRequires
<1>3. Requires[Distribution] \in SUBSET Steps
  BY Roles, StepRequires DEF RolesOK
<1> QED
  BY <1>1, <1>2, <1>3, ReachIsClosure DEF SureRequires

(***************************************************************************)
(* The invariant: what has begun had all it requires, and still has it.    *)
(***************************************************************************)
DeliveredIsSure == listing = "DELIVERED" => \A d \in SureRequires : Satisfied(d)
DInv == SkippedIsGated /\ BeganIsReady /\ DeliveredIsSure

\* The ways to distribution that cannot be passed are finished when distribution may
\* begin.
LEMMA ReadyIsSure ==
    ASSUME SkippedIsGated, BeganIsReady, \A d \in Requires[Distribution] : Satisfied(d)
    PROVE  \A d \in SureRequires : Satisfied(d)
<1> DEFINE C == {d \in Steps : Satisfied(d)}
<1>1. Requires[Distribution] \subseteq C
  BY Roles, StepRequires DEF RolesOK
<1>2. ASSUME NEW d \in C, d \notin Passable PROVE Requires[d] \subseteq C
  <2>1. d # AwaitReview /\ status[d] # "skipped"
    BY <1>2 DEF Passable, SkippedIsGated
  <2>2. Began(d)
    BY <1>2, <2>1 DEF Satisfied, Began
  <2>3. \A r \in Requires[d] : Satisfied(r)
    BY <1>2, <2>1, <2>2 DEF BeganIsReady
  <2> QED
    BY <1>2, <2>3, StepRequires
<1>3. C \in SUBSET Steps
  OBVIOUS
<1> HIDE DEF C
<1>4. SureRequires \subseteq C
  BY <1>1, <1>2, <1>3, Covers
<1> QED
  BY <1>4 DEF C

\* Without retries and late add-ons, what is satisfied stays satisfied.
LEMMA SatisfiedStays ==
    ASSUME NEW s \in Steps, RowMove(s), Undisturbed, Satisfied(s)
    PROVE  Satisfied(s)'
<1>1. status[s] \in {"done", "skipped", "failed"}
  BY DEF Satisfied
<1>2. ~NoRows
  BY <1>1 DEF NoRows
<1>3. ~Renewed(s)
  BY <1>2 DEF Renewed, Undisturbed
<1>4. status'[s] = status[s]
  BY <1>1, <1>3
  DEF RowMove, Stays, Created, Claimed, Finished, Requeued, Dropped
<1> QED
  BY <1>4 DEF Satisfied

\* Only a run of distribution delivers.
LEMMA DeliveredMoves ==
    ASSUME TInv, [Next]_vars, listing' = "DELIVERED"
    PROVE  listing = "DELIVERED" \/ Held(Distribution)
<1> USE DEF TInv
<1>1. ASSUME NEW k \in Slots, RunStep(k) PROVE listing = "DELIVERED" \/ Held(Distribution)
  <2>1. CASE AgentCommit(k)
    <3>1. "DELIVERED" \in AgentStates(run[k].step) /\ run[k].phase # "idle"
      BY <2>1 DEF AgentCommit
    <3>2. run[k].step = Distribution
      BY <3>1 DEF AgentStates
    <3> QED
      BY <3>1, <3>2 DEF Held
  <2>2. CASE RunJobWrite(k)
    BY SMTT(30), <2>2 DEF RunJobWrite
  <2>3. CASE ClaimNext(k) \/ RunJobStart(k) \/ RunJobResult(k)
             \/ \E s \in Steps : PickCandidate(k, s)
    BY ZenonT(40), <2>3 DEF ClaimNext, RunJobStart, RunJobResult, PickCandidate
  <2> QED
    BY <1>1, <2>1, <2>2, <2>3 DEF RunStep
<1>2. CASE (\E s \in Steps : ReclaimStale(s)) \/ WorkerFault
  BY <1>2 DEF ReclaimStale, WorkerFault, RunJobLost, HandBack, Crash, Stop, RequeueOwned
<1>3. CASE ApiStep \/ FailStuck
  <2>1. CASE Retry \/ \E a \in Addons : ActivateAddon(a)
    BY <2>1 DEF Retry, RetryListing, ActivateAddon, EnqueueAddonSteps
  <2> QED
    BY <1>3, <2>1
    DEF ApiStep, FailStuck, StartPipeline, RegisterAssets, TriggerPipeline, TriggerFailed,
        StartReview, Approve, Reject, Cancel
<1>4. CASE UNCHANGED vars
  BY <1>4 DEF vars
<1> QED
  BY <1>1, <1>2, <1>3, <1>4 DEF Next

LEMMA DInvStep ==
    ASSUME TInv, DInv, Moves, \A s \in Steps : Satisfied(s) => Satisfied(s)',
           listing' = "DELIVERED" => listing = "DELIVERED" \/ Held(Distribution)
    PROVE  DInv'
<1>1. SkippedIsGated'
  BY DEF DInv, Moves, RowsMove, SkippedIsGated
<1>2. BeganIsReady'
  <2> SUFFICES ASSUME NEW s \in Steps, s # AwaitReview, Began(s)', NEW d \in Requires[s]
               PROVE  Satisfied(d)'
    BY DEF BeganIsReady
  <2>1. Began(s) \/ Claimable(s)
    BY DEF Began, Held, Begun, Moves, RowsMove, RunsMove
  <2>2. Satisfied(d)
    BY <2>1 DEF Claimable, DInv, BeganIsReady
  <2> QED
    BY <2>2, StepRequires
<1>3. DeliveredIsSure'
  <2> SUFFICES ASSUME listing' = "DELIVERED", NEW d \in SureRequires
               PROVE  Satisfied(d)'
    BY DEF DeliveredIsSure
  <2>1. SureRequires \subseteq Steps
    BY Covers, Roles, StepRequires DEF RolesOK
  <2>2. ASSUME Held(Distribution) PROVE \A r \in Requires[Distribution] : Satisfied(r)
    <3>1. Began(Distribution) /\ Distribution \in Steps /\ Distribution # AwaitReview
      BY <2>2, Roles DEF Held, Began, RolesOK
    <3> QED
      BY <3>1 DEF DInv, BeganIsReady
  <2>3. Satisfied(d)
    BY <2>2, ReadyIsSure DEF DInv, DeliveredIsSure
  <2> QED
    BY <2>1, <2>3
<1> QED
  BY <1>1, <1>2, <1>3 DEF DInv

\* "delivered -- Complete!": as long as nobody retries the listing or buys an add-on
\* once its rows exist, a delivered listing has every step behind distribution done,
\* skipped by its gate or failed where that is tolerated, whatever workers crash, are
\* reclaimed or are stopped.
THEOREM DeliveryIsComplete == UndisturbedSpec => []DeliveredIsComplete
<1> DEFINE Inv == TInv /\ WritesPrepared /\ DInv
<1>1. Init => Inv
  <2> SUFFICES ASSUME Init PROVE Inv
    OBVIOUS
  <2>1. WritesPrepared
    BY IdleRunType DEF Init, WritesPrepared
  <2>2. DInv
    BY IdleRunType DEF Init, DInv, SkippedIsGated, BeganIsReady, Began, DeliveredIsSure
  <2> QED
    BY <2>1, <2>2, InitType
<1>2. Inv /\ [Next /\ Uninterrupted /\ Undisturbed]_vars => Inv'
  <2> SUFFICES ASSUME Inv, [Next /\ Uninterrupted /\ Undisturbed]_vars PROVE Inv'
    OBVIOUS
  <2>1. [Next]_vars /\ [Next /\ Uninterrupted]_vars
    OBVIOUS
  <2>2. \A s \in Steps : Satisfied(s) => Satisfied(s)'
    <3>1. CASE UNCHANGED vars
      BY <3>1 DEF vars, rows, Satisfied
    <3>2. CASE Undisturbed
      BY <2>1, <3>2, RowMoves, SatisfiedStays
    <3> QED
      BY <3>1, <3>2
  <2>3. DInv'
    BY <2>1, <2>2, StepMoves, DeliveredMoves, DInvStep
  <2> QED
    BY <2>1, <2>3, TInvStep, PreparedStep
<1>3. Inv => DeliveredIsComplete
  BY DeliveryIsCovered DEF DInv, DeliveredIsSure, DeliveredIsComplete
<1> QED
  BY <1>1, <1>2, <1>3, PTL DEF UndisturbedSpec
=============================================================================
