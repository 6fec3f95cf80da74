SPECIFICATION Spec
CONSTANTS
    User = User
    r1 = r1
    r2 = r2
    Runner = r1
    Worker = r1
    Runners = {r1, r2}
    NoThread = NoThread
    Signals = {int}
    Listens <- EverySignal
    MaxSignals = 2
INVARIANTS
    CallbacksInTime
    NothingIsSwallowed
PROPERTIES
    LatestIsDelivered
    SleepersAreWoken
\* Destroyed objects and threads that have ended do nothing any more.
CHECK_DEADLOCK FALSE
