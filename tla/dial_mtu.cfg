CONSTANTS
    Stored <- MCStored
    Synced <- MCSynced
    Secrets <- MCSecrets
    Refs = {Empty, "home", "p2", "zz"}
    Prefs = {"auto", "xray"}
    Ids = {Empty, "b", "zz"}
    DefaultClientPort = 4
    MaxPort = 8
    DefaultMTU = 10
    Empty = Empty
    None = None
SPECIFICATION Spec
INVARIANT TunnelHasProfileMTU
