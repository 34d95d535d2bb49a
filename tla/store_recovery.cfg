CONSTANTS
    d1 = d1
    d2 = d2
    c1 = c1
    c2 = c2
    NoFile = NoFile
    Torn = Torn
    NoDevice = NoDevice
    Devices = {d1, d2}
    Names <- SuffixedNames
    Stem <- SuffixedStem
    ImportNames = {3}
    BundleName <- SuffixedAlias
    Callers = {c1}
    Serial = TRUE
    FaultKinds = {"crash", "json"}
    MaxFaults = 2
    MaxRev = 1
SPECIFICATION Spec
INVARIANT OneMarked
PROPERTY SyncInstalls
PROPERTY ImplementsAccountStore
