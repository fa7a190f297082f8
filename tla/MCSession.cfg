SPECIFICATION HSpec
CONSTANTS
    Statuses <- MCStatuses
    FailureKinds = {"modbus"}
    Buttons = {"start", "stop"}
    ScanInterval = 1
    RequestTimeout = 1
    TOLERATED_FAILURE_SECONDS = 1
    MaxAge = 1
    MaxLog = 4
    None = None
INVARIANTS
    PausedByCommandIsEarned
    PausedByCurrentIsEarned
    ActiveIsEarned
    StartIsRemembered
    ShownAreOptions
    EntitiesAgree
