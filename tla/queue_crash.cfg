SPECIFICATION FairSpec
CONSTANTS
    Messages = {m1, m2}
    RawTexts = {}
    NoText = none
    QueueLimit = 2
    ReceiptLimit = 1
    RetryMax = 1
    FaultKinds = {"transient"}
    WriteResults = {TRUE, FALSE}
    MaxLives = 2
INVARIANTS
    TypeOK
    ActiveIsOwned
    AcceptedIsDurable
    QueuedNeverRan
    OneLifePerMessage
    RefusedNeverRuns
    NothingLostSilently
    SavedIsVisible
PROPERTIES
    LineSpec
    SavedMovesOrPauses
