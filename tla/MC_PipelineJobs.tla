-------------------------- MODULE MC_PipelineJobs --------------------------
(* A contraction of PIPELINE (pipeline/definition.py:22-50) for TLC.       *)
EXTENDS PipelineJobs, TLC

(***************************************************************************)
(* The runs bound the disturbances of a behaviour: what workers, agents,   *)
(* users and the sweep may do to a listing beyond its undisturbed course.  *)
(***************************************************************************)
CONSTANT MaxDisturbances
VARIABLE disturbances
mcvars == <<vars, disturbances>>

Failing(k) == RunJobResult(k) /\ run'[k].outcome \in {"requeue", "fail"}

\* A row whose run is gone, a listing nothing will move: the recoveries that are
\* part of the course.
Orphan(s) == \A k \in Slots : run[k].step = s => ~run[k].current /\ run[k].phase # "claimed"
Quiet ==
    /\ ~starting
    /\ \A k \in Slots : run[k].phase = "idle"
    /\ \A s \in Steps : ~Claimable(s)

Disturbance ==
    \/ \E s \in Steps : ReclaimStale(s) /\ ~Orphan(s)
    \/ \E k \in Slots : RunJobLost(k) \/ Failing(k)
    \/ \E w \in Workers : Crash(w) \/ Stop(w)
    \/ TriggerFailed \/ Reject \/ Cancel \/ Retry
    \/ FailStuck /\ ~Quiet
    \/ RegisterAssets /\ listing = "UPLOADING"
    \/ \E a \in Addons : ActivateAddon(a)

Working(k) == (RunStep(k) /\ ~Failing(k)) \/ HandBack(k)
ReclaimOrphan(s) == ReclaimStale(s) /\ Orphan(s)
Sweep == FailStuck /\ Quiet

Course ==
    \/ \E k \in Slots : Working(k)
    \/ \E s \in Steps : ReclaimOrphan(s)
    \/ \E w \in Workers : RequeueOwned(w)
    \/ StartPipeline \/ TriggerPipeline \/ StartReview \/ Approve \/ Sweep
    \/ RegisterAssets /\ listing = "NEW"

MCNext ==
    \/ Course /\ UNCHANGED disturbances
    \/ /\ disturbances < MaxDisturbances
       /\ Disturbance
       /\ disturbances' = disturbances + 1
MCInit == Init /\ disturbances = 0
MCSpec == MCInit /\ [][MCNext]_mcvars
MCSerialSpec == MCInit /\ [][MCNext /\ Uninterrupted]_mcvars

(***************************************************************************)
(* The fairness of the code's scheduling: worker_loop polls and its tasks  *)
(* go on (a step ends within its time-out), reclaim_stale runs at every    *)
(* tick, the sweep every hour, and an API process that has committed       *)
(* UPLOADING goes on to enqueue.  Nobody is obliged to review a listing.   *)
(***************************************************************************)
MCFairness ==
    /\ \A k \in Slots : WF_mcvars(Working(k) /\ UNCHANGED disturbances)
    /\ \A s \in Steps : WF_mcvars(ReclaimOrphan(s) /\ UNCHANGED disturbances)
    /\ \A w \in Workers : WF_mcvars(RequeueOwned(w) /\ UNCHANGED disturbances)
    /\ WF_mcvars(TriggerPipeline /\ UNCHANGED disturbances)
    /\ WF_mcvars(Sweep /\ UNCHANGED disturbances)
MCFairSpec == MCSpec /\ MCFairness

\* Whatever happens to its worker, a RUNNING row ends up done, failed, cancelled
\* or back in the queue.
RunningEnds == \A s \in Steps : status[s] = "running" ~> status[s] # "running"

\* A listing does not stay in a processing state: it comes to a human, to its
\* end, or is failed or timed out.
ProcessingEnds ==
    listing \in {"UPLOADING", "ANALYZING", "EXPORTING"}
        ~> listing \notin {"UPLOADING", "ANALYZING", "EXPORTING"}

\* The spine: analysis, the gate, export, delivery.
SpineSteps == {"ingestion", "packaging", "await_review", "mls_export", "distribution"}
SpineRequires ==
    [s \in SpineSteps |->
        CASE s = "ingestion"    -> {}
          [] s = "packaging"    -> {"ingestion"}
          [] s = "await_review" -> {"packaging"}
          [] s = "mls_export"   -> {"await_review"}
          [] s = "distribution" -> {"mls_export"}]
SpineAttempts == [s \in SpineSteps |-> 2]
Symmetry == Permutations(Workers)

\* The spine with an add-on step before packaging and the video branch, whose
\* optional steps join it again at distribution.
AddonSteps8 == SpineSteps \cup {"virtual_staging", "video_baseline", "social_cuts"}
AddonRequires ==
    [s \in AddonSteps8 |->
        CASE s = "virtual_staging" -> {"ingestion"}
          [] s = "packaging"       -> {"ingestion", "virtual_staging"}
          [] s = "video_baseline"  -> {"packaging"}
          [] s = "social_cuts"     -> {"video_baseline", "await_review"}
          [] s = "distribution"    -> {"mls_export", "social_cuts"}
          [] OTHER                 -> SpineRequires[s]]
AddonAttempts == [s \in AddonSteps8 |-> IF s \in {"packaging", "mls_export"} THEN 2 ELSE 1]
StagingAddon == [a \in {"staging"} |-> {"virtual_staging"}]

NoAddons == [a \in {} |-> {}]
OneEach == [k \in Slots |-> k]
=============================================================================
