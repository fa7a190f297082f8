SPECIFICATION LSpec
CONSTANTS
    Statuses <- WaitingOrCharging
    FailureKinds = {"connection"}
    Buttons = {"start", "stop"}
    ScanInterval = 1
    RequestTimeout = 1
    TOLERATED_FAILURE_SECONDS = 1
    MaxAge = 1
    None = None
    Tasks = {t1, t2}
    Calls <- StartStop
INVARIANTS
    RefreshesAreExclusive
    StartIsLastIssued
    AvailabilityAgrees
PROPERTIES
    EveryCallReturns
    ShownConverges
    OutageEndsWithGoodPoll
