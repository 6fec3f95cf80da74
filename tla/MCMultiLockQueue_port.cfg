SPECIFICATION FairSpec
CONSTANTS
    p = p
    q = q
    c = c
    d = d
    k1 = k1
    k2 = k2
    a = a
    b = b
    Threads = {p, q, c}
    Calls <- OneConsumer
    Keys = {k1, k2}
    Items = {a}
    MaxQueueSize = 2
    None = None
    Terminated = Terminated
    NoThread = NoThread
INVARIANT
    NoStrandedWaiter
PROPERTIES
    SleepersAreReleased
    AllReadyIsNoticed
