SPECIFICATION Spec
CONSTANTS
    p = p
    q = q
    c = c
    d = d
    k1 = k1
    k2 = k2
    a = a
    b = b
    Threads = {p, c, d}
    Calls <- TwoConsumers
    Keys = {k1, k2}
    Items = {a}
    MaxQueueSize = 1
    None = None
    Terminated = Terminated
    NoThread = NoThread
INVARIANT NoStrandedWaiter
