CONSTANTS
    net = net
    lan = lan
    wide = wide
    Cidrs = {net, lan, wide}
    Covering = {wide}
    Half = "high"
    AllowedLists <- Lists
    Gateways = {"home", "work"}
    Preset = {"pin", "high", lan, wide}
SPECIFICATION Spec
INVARIANT NoRecursion
INVARIANT UpIsWhole
PROPERTY ClosesClean
