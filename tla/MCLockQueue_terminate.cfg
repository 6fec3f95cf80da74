SPECIFICATION Spec
CONSTANTS
    p1 = p1
    p2 = p2
    c1 = c1
    c2 = c2
    k = k
    a = a
    b = b
    Threads = {p1, c1, k}
    Calls <- OneOfEach
    Items = {a}
    MaxQueueSize = 1
    PushBlocking = TRUE
    None = None
    Terminated = Terminated
    NoThread = NoThread
INVARIANT TerminateReleasesWaiters
