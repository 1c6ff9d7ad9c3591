CONSTANTS
    a = a
    b = b
    L = L
    Inbox = Inbox
    Sent = Sent
    Keys <- MCKeys1
    RealKeys <- MCKeys1
    Labels <- MCLabels
    SourceInbox = Inbox
    SentSrcFolder = Sent
    DestFolder = Dest
    SentFolder = SentCopies
    ArchiveFolder = Archive
    KeywordOf <- MCKeywordOf
    Longer = {}
    NoMail = NoMail
    NoPrint = NoPrint
    Configs <- ArchiveAndLabels
    UIDBatch = 1
    PageSize = 2
    MaxUID = 2
    MaxValidity = 2
    MaxPending = 2
    Room <- R110
    Resets <- R000
SPECIFICATION Spec
INVARIANT LabelsFollow
