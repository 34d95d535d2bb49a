CONSTANTS
    d1 = d1
    d2 = d2
    c1 = c1
    c2 = c2
    NoFile = NoFile
    Torn = Torn
    NoDevice = NoDevice
    Devices = {d1}
    Names <- SmallNames
    Stem <- SmallStem
    ImportNames = {2}
    BundleName <- OneName
    Callers = {c1, c2}
    Serial = FALSE
    FaultKinds = {"crash", "write", "remove", "json"}
    MaxFaults = 2
    MaxRev = 0
SPECIFICATION Spec
INVARIANT ImportsListedLocal
PROPERTY ImportsKept
