SPECIFICATION FairSpec
CONSTANTS
    p1 = p1
    p2 = p2
    pOdd = pOdd
    s = s
    m = m
    n = n
    r1 = r1
    r2 = r2
    q1 = q1
    q2 = q2
    a = a
    b = b
    h1 = h1
    h2 = h2
    c1 = c1
    c2 = c2
    None = None
    Ports = {p1, p2, s, m, r1, r2, q1, a, b, h1, h2, c1, c2, n, pOdd}
    Kind <- Kinds_
    Type <- Types
    Calls <- CallsInFamilies
ACTION_CONSTRAINT OneFamilyAtATime
INVARIANTS
    PortConnectionsInv
    Symmetric
    FailedConnectLeavesAtMostARefusal
    DisconnectIsolates
    QueuesMatchConnections
    ConnectedIsServed
    LocalInv
    ConnectLeavesOthersAlone
    DisconnectLeavesOthersAlone
PROPERTY
    CallsReturn
    Refinement
