SPECIFICATION FairSpec
CONSTANTS
    Consumers = {c1, c2}
    MaxPushes = 2
    MaxEnds = 3
    QSize = 1
    StreamSize = 1
    MsgQSize = 1
    None = None
INVARIANTS TypeOK OnceInOrder LosesOneAtMost
PROPERTIES StopCompletes QueueDrains ReceivedIsHandled
CHECK_DEADLOCK FALSE
