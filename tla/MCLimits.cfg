SPECIFICATION Spec
CONSTANTS
    Statuses <- VaryingStatuses
    FailureKinds = {"connection", "modbus", "other"}
    Buttons = {}
    ScanInterval = 2
    RequestTimeout = 1
    TOLERATED_FAILURE_SECONDS = 2
    MaxAge = 2
    None = None
INVARIANTS
    RestoreReadsBack
    OutOfRangeIsAttempted
    ErrorsAreSplit
PROPERTIES
    FallbackRepairSpec
    CurrentRepairSpec
