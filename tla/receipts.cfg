SPECIFICATION FairSpec
CONSTANTS
    Operations = {a, b}
    NoOperation = none
    LateLimit = 1
    WriteResults = {TRUE, FALSE}
INVARIANTS
    TypeOK
    RetryIsSafe
    AtMostOneRun
    AcceptedWasTaken
    NoAcceptanceForgotten
PROPERTIES
    PromiseSpec
    EverySubmitIsAnswered
