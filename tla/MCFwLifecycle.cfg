CONSTANTS
    None = None
    Damaged = Damaged
    MAX_BACKOFF = 3
    MAX_FAILURES = 2
    MAX_OUTAGES = 1
SPECIFICATION Spec
INVARIANTS
    IdentityKept
    SettingsKept
PROPERTY Recovers
