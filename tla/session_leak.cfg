CONSTANTS
    Flows = {f1}
    MaxInFlight = 1
    MaxBytes = 0
    CallerCloses = FALSE
SPECIFICATION FairSpec
CHECK_DEADLOCK FALSE
PROPERTY FdReleased
