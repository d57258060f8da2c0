SPECIFICATION MCSerialSpec
CONSTANTS
    MaxDisturbances = 3
    Steps <- SpineSteps
    Requires <- SpineRequires
    Optional = {}
    MaxAttempts <- SpineAttempts
    Addons = {}
    AddonSteps <- NoAddons
    DisabledSteps = {}
    AwaitReview = "await_review"
    Ingestion = "ingestion"
    Packaging = "packaging"
    MlsExport = "mls_export"
    Distribution = "distribution"
    Workers = {w1, w2}
    Slots = {w1, w2}
    WorkerOf <- OneEach
    AutoApprove = {FALSE, TRUE}
INVARIANTS AttemptsBounded
PROPERTIES CancelledStays DoneStays
SYMMETRY Symmetry
CHECK_DEADLOCK FALSE
