SPECIFICATION MCSerialSpec
CONSTANTS
    MaxDisturbances = 2
    Steps <- SpineSteps
    Requires <- SpineRequires
    Optional = {}
    MaxAttempts <- SpineAttempts
    Addons = {}
    AddonSteps <- NoAddons
    DisabledSteps = {}
    AwaitReview = "await_review"
    Ingestion = "ingestion"
    Packaging = "packaging"
    MlsExport = "mls_export"
    Distribution = "distribution"
    Workers = {w1, w2}
    Slots = {w1, w2}
    WorkerOf <- OneEach
    AutoApprove = {FALSE, TRUE}
PROPERTIES OwnershipKept
CHECK_DEADLOCK FALSE
