SPECIFICATION FairSpec
CONSTANTS
    Apps = {a, b}
    QueueLen = 1
    b1 = b1
    b2 = b2
    Builtin <- OneBuiltin
    UserTopics = {}
    Qos = {0}
    Modes = {TRUE, FALSE}
    Dealers = {TRUE}
    MaxOutage = 1
    DefaultTopic = default
    BsTopic = bs
    None = none
PROPERTIES CommandAnswered 
