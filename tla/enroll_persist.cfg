SPECIFICATION Spec
CONSTANTS
    Devices = {p, q}
    Tickets = {t1, t2}
    MaxAttempts = 2
    None = None
PROPERTIES
    IdentityPersisted
