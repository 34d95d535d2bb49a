CONSTANTS
    Flows = {f1, f2}
    MaxInFlight = 1
    MaxBytes = 1
    CallerCloses = TRUE
SPECIFICATION FairSpec
CHECK_DEADLOCK FALSE
INVARIANT ClosedOnce
INVARIANT FailedReleases
INVARIANT OnlyOwnProxy
INVARIANT CountsSettle
PROPERTY BridgeEnds
