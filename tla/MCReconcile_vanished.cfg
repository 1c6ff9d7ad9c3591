CONSTANTS
    a = a
    b = b
    s = s
    NoMail = NoMail
    Keys <- MCReal1
    RealKeys <- MCReal1
    UIDs <- MCUIDs2
    MaxUID = 2
    MaxValidity = 1
    UIDBatch = 2
    DestGuard = TRUE
    SeedMode = "empty"
    AppendRing = 2
    RecordFlushSize = 2
    MaxCopies = 2
    Imported <- MCReal1
    Poison = {}
    LateAppends = FALSE
    Faults = {}
SPECIFICATION Spec
INVARIANT NothingLeftBehind
