SPECIFICATION ASpec
CONSTANTS
    Statuses <- MCStatuses
    FailureKinds = {"connection"}
    Buttons = {"start"}
    ScanInterval = 5
    RequestTimeout = 1
    TOLERATED_FAILURE_SECONDS = 30
    MaxAge = 38
    None = None
INVARIANTS
    TypeOK
    FreshWhenAvailable
    AvailabilityAgrees
    RestoreWithinMax
PROPERTIES
    OutageEndsWithGoodPoll
    KeptOnlyWithinTolerance
    SilenceGoesUnavailable
    StuckStateFiveSurfaces
