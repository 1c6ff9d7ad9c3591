CONSTANTS
    a = a
    b = b
    L = L
    Inbox = Inbox
    Sent = Sent
    Keys <- MCKeys1
    RealKeys <- MCKeys1
    Labels <- MCLabels
    SourceInbox = Inbox
    SentSrcFolder = Sent
    DestFolder = Dest
    SentFolder = SentCopies
    ArchiveFolder = Archive
    KeywordOf <- MCKeywordOf
    Longer = {}
    NoMail = NoMail
    NoPrint = NoPrint
    Configs <- TwoConfigs
    UIDBatch = 1
    PageSize = 2
    MaxUID = 2
    MaxValidity = 2
    MaxPending = 1
    Room <- R120
    Resets <- R000
SPECIFICATION LiveSpec
INVARIANT TypeOK
INVARIANT MembersTracked
INVARIANT PlacedOrOwed
INVARIANT TaggedOrOwed
PROPERTY EventuallyFollows
