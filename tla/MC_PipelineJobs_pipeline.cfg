SPECIFICATION MCSpec
CONSTANTS
    MaxDisturbances = 2
    Steps <- AddonSteps8
    Requires <- AddonRequires
    Optional = {"virtual_staging", "video_baseline", "social_cuts"}
    MaxAttempts <- AddonAttempts
    Addons = {"staging"}
    AddonSteps <- StagingAddon
    DisabledSteps = {}
    AwaitReview = "await_review"
    Ingestion = "ingestion"
    Packaging = "packaging"
    MlsExport = "mls_export"
    Distribution = "distribution"
    Workers = {w1, w2}
    Slots = {w1, w2}
    WorkerOf <- OneEach
    AutoApprove = {FALSE, TRUE}
INVARIANTS TypeOK ReviewedFirst DeliveredOnlyReviewed LockedIffRunning
PROPERTIES ApprovalIsKept KeepsPromise
SYMMETRY Symmetry
CHECK_DEADLOCK FALSE
