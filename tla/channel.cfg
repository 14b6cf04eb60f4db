SPECIFICATION FairSpec
CONSTANTS
    MaxOutputs = 3
    MaxDials = 3
    Outbox = 2
    Slots = 3
INVARIANTS
    TypeOK
    EndIsTold
    NoSilentHole
PROPERTY
    EndedRunnerLeaves
CHECK_DEADLOCK FALSE
