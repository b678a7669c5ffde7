SPECIFICATION FairSpec
CONSTANTS
    Timers = {t1, t2}
    NoItem = null
    Cycles = {1, 2}
    WaitMax = 3
    MaxTime = 2
CHECK_DEADLOCK FALSE
INVARIANTS ListSound QuietWhenStopped NeverOversleep
PROPERTIES ScanComplete DueIsServed
