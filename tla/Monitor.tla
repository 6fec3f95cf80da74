------------------------------ MODULE Monitor -------------------------------
(***************************************************************************)
(* A std::mutex and the std::condition_variables used with it, as the      *)
(* classes of superflow use them.  A module that models such a class       *)
(* instantiates this one and builds its actions from these operators.      *)
(***************************************************************************)
CONSTANTS
    Threads,        \* the threads that share the object
    Conditions,     \* its condition variables
    NoThread        \* the owner of an unlocked mutex

VARIABLES
    mutex,          \* the thread that holds the mutex
    waiters,        \* waiters[c]: the threads registered with c
    pc              \* pc[t]: the next step of t

MonitorTypeOK(Stages) ==
    /\ mutex \in Threads \cup {NoThread}
    /\ waiters \in [Conditions -> SUBSET Threads]
    /\ pc \in [Threads -> Stages]

MonitorInit ==
    /\ mutex = NoThread
    /\ waiters = [c \in Conditions |-> {}]
    /\ pc = [t \in Threads |-> "idle"]

\* t goes on from one stage of its call to another.
Goto(t, from, to) ==
    /\ pc[t] = from
    /\ pc' = [pc EXCEPT ![t] = to]

Acquires(t) == mutex = NoThread /\ mutex' = t

Releases == mutex' = NoThread

Registered(t) == \E c \in Conditions : t \in waiters[c]

\* wait() registers the thread and unlocks the mutex in one step.
WaitsFor(t, c) ==
    /\ waiters' = [waiters EXCEPT ![c] = @ \cup {t}]
    /\ Releases

\* One waiter of c, any, is no longer registered; nothing if c has none.
NotifyOne(c) ==
    \/ waiters[c] = {} /\ UNCHANGED waiters
    \/ \E w \in waiters[c] : waiters' = [waiters EXCEPT ![c] = @ \ {w}]

NotifyAll(c) == waiters' = [waiters EXCEPT ![c] = {}]

\* A wait may end without a notification.
WakesSpuriously(t) ==
    /\ Registered(t)
    /\ waiters' = [c \in Conditions |-> waiters[c] \ {t}]
=============================================================================
