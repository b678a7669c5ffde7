SPECIFICATION FairSpec
CONSTANTS
    Tasks = {t1, t2, t3}
    Data = {d1, d2}
    NULL = NULL
    NoTask = NoTask
    BufLen = 2

INVARIANTS TypeOK TokensMatch TokenIsPromise NoLeak
PROPERTIES  NoLostWakeup
