CONSTANTS
    Modulus = 10
    UIDBatch = 4
    MayWrap = FALSE
    Buckets <- MCBuckets
    GuardChunk = 4
    Synth = {2}
    Longer <- MCLonger
SPECIFICATION GuardLiveSpec
INVARIANT GuardTypeOK
INVARIANT ScannedUpToMark
INVARIANT GuardMissesNone
INVARIANT GuardInventsNone
PROPERTY PassEnds
