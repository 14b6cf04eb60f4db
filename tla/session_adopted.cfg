SPECIFICATION FairSpec
CONSTANTS
    Conns = {c1, c2}
    NoConn = none
    MaxStarts = 2
    MaxBoots = 1
    MaxDaemons = 2
    Pinned = FALSE
    KillsAgain = FALSE
    ReapResults = {TRUE}
PROPERTY
    ServingIsAdopted
