CONSTANTS
    a = a
    b = b
    s = s
    NoMail = NoMail
    Keys <- MCKeys2
    RealKeys <- MCReal1
    UIDs <- MCUIDs2
    MaxUID = 2
    MaxValidity = 2
    UIDBatch = 2
    DestGuard = FALSE
    SeedMode = "always"
    AppendRing = 2
    RecordFlushSize = 2
    MaxCopies = 2
    Imported <- MCKeys2
    Poison = {}
    LateAppends = FALSE
    Faults = {"lose", "power"}
SPECIFICATION LiveSpec
INVARIANT NoDuplicates
INVARIANT MirroredBelowMark
PROPERTY EventuallyMirrored
