------------------------- MODULE PipelineDefinition -------------------------
(***************************************************************************)
(* The declarative listing pipeline (pipeline/definition.py): a set of     *)
(* named steps, each with the steps it requires, whether its failure is    *)
(* tolerated, and the gate that decides at enqueue time whether it runs.   *)
(* Time-outs and the text of a step are left out; the order of the list is *)
(* kept only through `Requires'.                                           *)
(***************************************************************************)
EXTENDS Naturals, FiniteSets

CONSTANTS
    Steps,          \* names of the pipeline's steps
    Requires,       \* Requires[s]: the steps s waits for
    Optional,       \* steps whose failure does not fail the listing
    MaxAttempts,    \* MaxAttempts[s]: how often s may be claimed
    Addons,         \* add-on slugs
    AddonSteps,     \* AddonSteps[a]: the steps with gate "addon:a"
    DisabledSteps,  \* steps with gate "feature:f" where f is switched off
    AwaitReview,    \* the one step with gate "review"
    Ingestion, Packaging, MlsExport, Distribution
                    \* the steps whose agents write listing.state

GatedSteps == DisabledSteps \cup UNION {AddonSteps[a] : a \in Addons}

\* _gated_off: the step's gate is closed for a listing with these add-ons.
GatedOff(s, enabled) ==
    \/ s \in DisabledSteps
    \/ \E a \in Addons \ enabled : s \in AddonSteps[a]

\* transitive_requires: every step reachable from s along `requires' edges.
TransitiveRequires ==
    [s \in Steps |->
        LET Up[n \in Nat] ==
              IF n = 0 THEN Requires[s]
              ELSE LET found == Up[n-1]
                   IN  found \cup UNION {Requires[d] : d \in found}
        IN  Up[Cardinality(Steps)]]

\* post_review_steps: the steps that may only run once a human has approved.
PostReviewSteps == {s \in Steps : AwaitReview \in TransitiveRequires[s]}

(***************************************************************************)
(* What validate_pipeline and the shape of PIPELINE give.  GateGuards is   *)
(* the structural fact the review gate rests on: every post-review step    *)
(* waits for the gate itself or for a post-review step that is never       *)
(* skipped at enqueue time, because a skipped step counts as satisfied.    *)
(***************************************************************************)
RolesOK ==
    /\ {AwaitReview, Ingestion, Packaging, MlsExport, Distribution} \subseteq Steps
    /\ AwaitReview \notin {Ingestion, Packaging, MlsExport, Distribution}
    /\ Cardinality({Ingestion, Packaging, MlsExport, Distribution}) = 4
    /\ AwaitReview \notin Optional \cup GatedSteps

GateGuards ==
    \A s \in PostReviewSteps :
        \/ AwaitReview \in Requires[s]
        \/ \E r \in Requires[s] : r \in PostReviewSteps /\ r \notin GatedSteps

PublishingIsPostReview ==
    /\ {MlsExport, Distribution} \subseteq PostReviewSteps
    /\ {AwaitReview, Ingestion, Packaging} \cap PostReviewSteps = {}

ASSUME DefinitionTypes ==
    /\ Requires \in [Steps -> SUBSET Steps]
    /\ Optional \subseteq Steps
    /\ DisabledSteps \subseteq Steps
    /\ AddonSteps \in [Addons -> SUBSET Steps]
    /\ MaxAttempts \in [Steps -> Nat \ {0}]
ASSUME Roles == RolesOK
ASSUME Guards == GateGuards
ASSUME Publishing == PublishingIsPostReview
=============================================================================
