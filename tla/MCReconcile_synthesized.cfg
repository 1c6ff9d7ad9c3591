CONSTANTS
    a = a
    b = b
    s = s
    NoMail = NoMail
    Keys <- MCKeys2
    RealKeys <- MCReal1
    UIDs <- MCUIDs2
    MaxUID = 2
    MaxValidity = 1
    UIDBatch = 1
    DestGuard = TRUE
    SeedMode = "empty"
    AppendRing = 2
    RecordFlushSize = 2
    MaxCopies = 2
    Imported = {}
    Poison = {}
    LateAppends = FALSE
    Faults = {}
SPECIFICATION Spec
INVARIANT NeverDuplicates
