CONSTANTS
    a = a
    b = b
    L = L
    Inbox = Inbox
    Sent = Sent
    Keys <- MCKeys2
    RealKeys <- MCKeys2
    Labels <- MCLabels
    SourceInbox = Inbox
    SentSrcFolder = Sent
    DestFolder = Dest
    SentFolder = SentCopies
    ArchiveFolder = Archive
    KeywordOf <- MCKeywordOf
    Longer = {}
    NoMail = NoMail
    NoPrint = NoPrint
    Configs <- Everything
    UIDBatch = 1
    PageSize = 2
    MaxUID = 2
    MaxValidity = 2
    MaxPending = 1
    Room <- R011
    Resets <- R010
SPECIFICATION Spec
SYMMETRY MCSymmetry
INVARIANT MembersTracked
INVARIANT PlacedOrOwed
INVARIANT TaggedOrOwed
