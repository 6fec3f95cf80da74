SPECIFICATION FairSpec
CONSTANTS
    p1 = p1
    p2 = p2
    c1 = c1
    c2 = c2
    k = k
    a = a
    b = b
    Threads = {p1, p2, c1, c2}
    Calls <- TwoOfEach
    Items = {a}
    MaxQueueSize = 2
    PushBlocking = TRUE
    None = None
    Terminated = Terminated
    NoThread = NoThread
INVARIANTS
    NoStrandedConsumer
    NoStrandedProducer
PROPERTIES
    SleepersAreReleased
    ItemsAreConsumed
