SPECIFICATION PipelineSpec
CONSTANTS
    MaxDisturbances = 1
    Steps <- PipelineSteps
    Requires <- PIPELINE
    Optional <- OptionalSteps
    MaxAttempts <- DefaultAttempts
    Addons = {"virtual_staging", "ai_video_tour"}
    AddonSteps <- AddonGates
    DisabledSteps <- FeatureGates
    AwaitReview = "await_review"
    Ingestion = "ingestion"
    Packaging = "packaging"
    MlsExport = "mls_export"
    Distribution = "distribution"
    Workers = {w1, w2}
    Slots = {w1, w2}
    WorkerOf <- OneEach
    AutoApprove = {FALSE, TRUE}
INVARIANTS DeliveredIsComplete
PROPERTIES CompletesOrFails
CHECK_DEADLOCK FALSE
