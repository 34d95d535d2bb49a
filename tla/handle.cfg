CONSTANTS
    Callers = {c1, c2, c3}
    NoCaller = NoCaller
SPECIFICATION FairSpec
INVARIANT ClosedOnce
INVARIANT NilAfterClose
PROPERTY NoRacingWrite
PROPERTY CloseReturns
PROPERTY StatsReturns
PROPERTY WaitEnds
