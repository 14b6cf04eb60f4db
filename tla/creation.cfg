SPECIFICATION FairSpec
CONSTANTS
    c1 = c1
    c2 = c2
    opA = opA
    w1 = w1
    w2 = w2
    Callers = {c1, c2}
    Operations = {opA}
    Works = {w1, w2}
    Requests <- SentRequests
    MarkReads = {TRUE, FALSE}
    Nothing = Nothing
    MaxLanes = 2
    MaxRows = 2
    MaxAsked = 2
INVARIANTS
    TypeOK
    LookupIsCurrent
    AnswersAreTrue
    LaunchUnderWayIsSaid
PROPERTIES
    CreationPromise
    WaitersMoveOn
