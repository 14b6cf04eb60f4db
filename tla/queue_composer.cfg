SPECIFICATION Spec
CONSTANTS
    Messages = {m1, m2}
    RawTexts = {y}
    NoText = none
    QueueLimit = 2
    ReceiptLimit = 1
    RetryMax = 1
    FaultKinds = {"terminal"}
    WriteResults = {TRUE, FALSE}
    MaxLives = 1
SYMMETRY Symmetry
INVARIANTS
    FailedInputPausesQueue
    NoStrandedMessage
