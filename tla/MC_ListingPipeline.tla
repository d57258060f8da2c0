------------------------- MODULE MC_ListingPipeline -------------------------
(***************************************************************************)
(* PipelineJobs with the real PIPELINE, add-ons bought before the start,   *)
(* and no fault but failing steps.                                         *)
(***************************************************************************)
EXTENDS MC_PipelineJobs, ListingPipeline, Delivery

FailuresNext ==
    \/ Course /\ UNCHANGED disturbances
    \/ NoRows /\ ~starting /\ (\E a \in Addons : ActivateAddon(a)) /\ UNCHANGED disturbances
    \/ /\ disturbances < MaxDisturbances
       /\ \E k \in Slots : Failing(k)
       /\ disturbances' = disturbances + 1
PipelineSpec ==
    /\ MCInit /\ [][FailuresNext]_mcvars /\ MCFairness

\* A reviewer who takes up what waits for review and approves it.
WillingReviewer ==
    /\ WF_mcvars(StartReview /\ UNCHANGED disturbances)
    /\ WF_mcvars(Approve /\ UNCHANGED disturbances)

\* With a willing reviewer, a listing that starts is delivered with every row
\* satisfied and nothing running, or is FAILED: no declared dependency, gate or
\* tolerated failure leaves it waiting for something that will not come.
CompletesOrFails ==
    WillingReviewer =>
        (listing = "UPLOADING" ~> (listing = "DELIVERED" /\ Settled) \/ listing = "FAILED")
=============================================================================
