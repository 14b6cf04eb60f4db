SPECIFICATION Spec
CONSTANTS
    Conns = {c1, c2}
    NoConn = none
    MaxStarts = 2
    MaxBoots = 1
    MaxDaemons = 1
    Pinned = FALSE
    KillsAgain = FALSE
    ReapResults = {TRUE, FALSE}
PROPERTY
    EndedStaysEnded
