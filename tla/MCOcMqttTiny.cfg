SPECIFICATION Spec
CONSTANTS
    Apps = {a, b}
    QueueLen = 1
    b1 = b1
    b2 = b2
    Builtin <- OneBuiltin
    UserTopics = {t, u}
    Qos = {0}
    Modes = {TRUE, FALSE}
    Dealers = {TRUE}
    MaxOutage = 2
    DefaultTopic = default
    BsTopic = bs
    None = none
SYMMETRY Alike
INVARIANTS CommandAlive NothingLeftBehind AddressKnown TopicStaysSubscribed OutageReportedOnce
