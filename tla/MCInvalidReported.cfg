SPECIFICATION Spec
CONSTANTS
    Statuses <- FixedMaxStatuses
    FailureKinds = {"connection"}
    Buttons = {}
    ScanInterval = 2
    RequestTimeout = 1
    TOLERATED_FAILURE_SECONDS = 2
    MaxAge = 2
    None = None
INVARIANTS
    InvalidIsReported
