SPECIFICATION Spec
CONSTANTS
    p1 = p1
    p2 = p2
    c1 = c1
    c2 = c2
    k = k
    a = a
    b = b
    Threads = {p1, c1, c2, k}
    Calls <- EveryOperation
    Items = {a, b}
    MaxQueueSize = 2
    PushBlocking = FALSE
    None = None
    Terminated = Terminated
    NoThread = NoThread
SYMMETRY Symmetry
INVARIANTS
    LockQueueInv
    AdmittedOperationIsPossible
PROPERTY Refinement
