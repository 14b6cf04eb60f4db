SPECIFICATION Spec
CONSTANTS
    Operations = {a, b}
    NoOperation = none
    LateLimit = 1
    WriteResults = {TRUE, FALSE}
PROPERTY
    ExitedTargetIsRefused
