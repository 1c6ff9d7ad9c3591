CONSTANTS
    p1 = p1
    p2 = p2
    NoProc = NoProc
    Procs <- MCProcs
    RawConfigs <- MCRawConfigs
    Files <- MCFiles
    Labels <- MCLabels
    RealUID = 7
    MaxCopies = 2
    ToLower <- MCToLower
    NameRe <- MCNameRe
    KeywordChars <- MCKeywordChars
SPECIFICATION LiveSpec
INVARIANT TypeOK
INVARIANT OneWriter
INVARIANT NoDoubleAppend
INVARIANT SchemaMatchesTables
PROPERTY SchemaOnlyRises
PROPERTY LabelsSurvive
PROPERTY FailureSeen
