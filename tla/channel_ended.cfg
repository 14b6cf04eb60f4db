SPECIFICATION Spec
CONSTANTS
    MaxOutputs = 2
    MaxDials = 2
    Outbox = 2
    Slots = 2
INVARIANT
    EndedRunnerReplays
CHECK_DEADLOCK FALSE
