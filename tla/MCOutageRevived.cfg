SPECIFICATION ASpec
CONSTANTS
    Statuses <- MCStatuses
    FailureKinds = {"connection", "modbus"}
    Buttons = {}
    ScanInterval = 5
    RequestTimeout = 1
    TOLERATED_FAILURE_SECONDS = 30
    MaxAge = 38
    None = None
PROPERTIES
    OutageEndsWithGoodPoll
