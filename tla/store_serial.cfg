CONSTANTS
    d1 = d1
    d2 = d2
    c1 = c1
    c2 = c2
    NoFile = NoFile
    Torn = Torn
    NoDevice = NoDevice
    Devices = {d1, d2}
    Names <- PlainNames
    Stem <- PlainStem
    ImportNames = {3}
    BundleName <- TwoNames
    Callers = {c1}
    Serial = TRUE
    FaultKinds = {}
    MaxFaults = 0
    MaxRev = 2
SPECIFICATION Spec
INVARIANT TypeOK
INVARIANT SessionIntact
INVARIANT ListingTruthful
PROPERTY ReplacesCloudSet
PROPERTY LogoutForgets
