CONSTANTS
    a = a
    b = b
    s = s
    NoMail = NoMail
    Keys <- MCKeys3
    RealKeys <- MCReal2
    UIDs <- MCUIDs3
    MaxUID = 3
    MaxValidity = 2
    UIDBatch = 2
    DestGuard = TRUE
    SeedMode = "empty"
    AppendRing = 2
    RecordFlushSize = 2
    MaxCopies = 2
    Imported <- MCKeys3
    Poison = {b}
    LateAppends = FALSE
    Faults = {"lose"}
SPECIFICATION Spec
INVARIANT TypeOK
INVARIANT NoDuplicates
INVARIANT NeverAhead
INVARIANT MirroredBelowMark
