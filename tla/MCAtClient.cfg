SPECIFICATION FairSpec
CONSTANTS
    Tasks = {a, b}
    Nobody = nobody
    Indexes = {"ok"}
    BufLens = {0, 1}
    FrameLens = {2}
    SempLimit = 1
    MaxCalls = 2
    MaxReplies = 2
    MaxUrcs = 1
CHECK_DEADLOCK FALSE
INVARIANTS TypeOK OneCommand  
 
