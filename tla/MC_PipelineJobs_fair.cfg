SPECIFICATION MCFairSpec
CONSTANTS
    MaxDisturbances = 3
    Steps <- SpineSteps
    Requires <- SpineRequires
    Optional = {}
    MaxAttempts <- SpineAttempts
    Addons = {}
    AddonSteps <- NoAddons
    DisabledSteps = {}
    AwaitReview = "await_review"
    Ingestion = "ingestion"
    Packaging = "packaging"
    MlsExport = "mls_export"
    Distribution = "distribution"
    Workers = {w1}
    Slots = {w1}
    WorkerOf <- OneEach
    AutoApprove = {FALSE, TRUE}
PROPERTIES RunningEnds ProcessingEnds
CHECK_DEADLOCK FALSE
