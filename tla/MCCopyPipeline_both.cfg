CONSTANTS
    a = a
    b = b
    c = c
    d = d
    Keys <- MCKeys4
    UIDs <- MCUIDs4
    Window <- MCWindow4
    SyncLabels = TRUE
    Labelled <- MCLabelled
    AppendRing = 2
    RecordFlushSize = 2
    MaxCopies = 2
    PipelineDepth = 1
SPECIFICATION LiveSpec
INVARIANT TypeOK
INVARIANT StoredAtMostOnce
INVARIANT CrashWindow
INVARIANT OkMeansRecorded
PROPERTY ImplementsWindowCopy
PROPERTY Returns
