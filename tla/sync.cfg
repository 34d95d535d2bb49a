CONSTANTS
    a = a
    b = b
    x = x
    y = y
    j = j
    right = right
    wrong = wrong
    None = None
    Devices = {a, b, x, y, j}
    Legacy = {a, b, x, y}
    EmailLogin = {a, y}
    Typed <- TypedOn
    Pass = right
    MaxAttempts <- Retries
SPECIFICATION Spec
CHECK_DEADLOCK FALSE
INVARIANT RightPassphraseOpens
INVARIANT JoinedIndependent
