SPECIFICATION ISpec
CONSTANTS
    Statuses <- GoodOrReset
    FailureKinds = {"modbus"}
    Buttons = {"start", "stop"}
    ScanInterval = 1
    RequestTimeout = 1
    TOLERATED_FAILURE_SECONDS = 1
    MaxAge = 1
    None = None
    Tasks = {t1}
    Calls <- LimitOnly
INVARIANTS
    IssueGoesWithEntry
