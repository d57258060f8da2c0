-------------------------- MODULE ListingPipeline --------------------------
(***************************************************************************)
(* PIPELINE (pipeline/definition.py): the pipeline every listing goes      *)
(* through, and validate_pipeline.                                         *)
(***************************************************************************)
EXTENDS Naturals, FiniteSets

\* requires, per step
PIPELINE ==
    [ingestion                |-> {},
     photo_analysis           |-> {"ingestion"},
     property_verification    |-> {"ingestion"},
     coverage                 |-> {"photo_analysis"},
     virtual_staging          |-> {"coverage"},
     floorplan                |-> {"coverage", "virtual_staging"},
     dollhouse_render         |-> {"floorplan"},
     packaging                |-> {"floorplan", "dollhouse_render", "property_verification"},
     video_baseline           |-> {"packaging"},
     video_ai                 |-> {"packaging", "await_review"},
     await_review             |-> {"packaging"},
     content_social           |-> {"await_review"},
     brand                    |-> {"content_social"},
     social_cuts              |-> {"video_baseline", "video_ai", "await_review"},
     mls_export               |-> {"content_social", "brand"},
     distribution             |-> {"mls_export", "social_cuts"},
     microsite                |-> {"distribution"},
     learning                 |-> {"distribution"},
     social_event             |-> {"distribution"},
     health_score             |-> {"distribution"},
     performance_intelligence |-> {"distribution"}]

PipelineSteps == DOMAIN PIPELINE

\* optional=True
OptionalSteps ==
    {"property_verification", "virtual_staging", "dollhouse_render", "video_baseline",
     "video_ai", "brand", "social_cuts", "microsite", "learning", "social_event",
     "health_score", "performance_intelligence"}

\* max_attempts
DefaultAttempts == [s \in PipelineSteps |-> 3]

\* gate="addon:..."
AddonGates == [virtual_staging |-> {"virtual_staging"}, ai_video_tour |-> {"video_ai"}]

\* gate="feature:..."
FeatureGates == {"microsite", "learning", "health_score", "performance_intelligence"}

(***************************************************************************)
(* topological_order: layer n + 1 holds the steps whose requirements are   *)
(* all in the layers before; it raises when a layer comes out empty.       *)
(***************************************************************************)
LayersOf(requires) ==
    LET Placed[n \in 0..Cardinality(DOMAIN requires)] ==
          IF n = 0 THEN {}
          ELSE LET before == Placed[n-1]
               IN  {s \in DOMAIN requires : requires[s] \subseteq before}
    IN  Placed

ValidPipeline(requires) ==
    /\ \A s \in DOMAIN requires : requires[s] \subseteq DOMAIN requires
    /\ LayersOf(requires)[Cardinality(DOMAIN requires)] = DOMAIN requires

ASSUME Validated == ValidPipeline(PIPELINE)
=============================================================================
