SPECIFICATION Spec
CONSTANTS
    Conns = {c1, c2}
    NoConn = none
    MaxStarts = 2
    MaxBoots = 2
    MaxDaemons = 2
    Pinned = FALSE
    KillsAgain = FALSE
    ReapResults = {TRUE}
SYMMETRY Symmetry
INVARIANTS
    TypeOK
    LaunchNotLost
    LossIsNotAnExit
    TombstoneBeforeKill
    RestartIsAskedFor
PROPERTY
    EntryPromise
