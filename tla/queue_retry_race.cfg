SPECIFICATION Spec
CONSTANTS
    Messages = {m1, m2}
    RawTexts = {}
    NoText = none
    QueueLimit = 2
    ReceiptLimit = 1
    RetryMax = 1
    FaultKinds = {"transient"}
    WriteResults = {TRUE}
    MaxLives = 1
PROPERTY
    AnsweredNeverRunAgain
