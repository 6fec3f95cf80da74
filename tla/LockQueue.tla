----------------------------- MODULE LockQueue ------------------------------
(***************************************************************************)
(* flow::LockQueue<T, L> (core/include/superflow/utils/lock_queue.h): a    *)
(* queue of at most MaxQueueSize items behind one mutex, with a condition  *)
(* variable for the threads that wait for an item (consumer_) and one for  *)
(* the threads that wait for room (producer_).                             *)
(*                                                                         *)
(* A step is what one thread does between two points at which another      *)
(* thread can change what it sees.  The queue itself is only touched with  *)
(* the mutex held; terminated_ is a plain bool that is read with the mutex *)
(* and written without it, and so are the notifications made without it:   *)
(* these are the steps of their own here.  Calling wait() and being        *)
(* registered as a waiter are two steps, as they are in the program.       *)
(***************************************************************************)
EXTENDS Integers, Sequences, FiniteSets

CONSTANTS
    Threads,        \* the threads that share the queue
    Calls,          \* Calls[t]: the operations t calls, in any order
    Items,          \* what is pushed
    MaxQueueSize,   \* max_queue_size_
    PushBlocking,   \* L == LeakPolicy::PushBlocking
    None,           \* the result of a call that returns nothing
    Terminated,     \* the result of a call that throws TerminatedException
    NoThread        \* the owner of an unlocked mutex

Waiting == {"push", "pop", "front"}
Ops == Waiting \cup {"clearQueue", "getQueueSize", "terminate"}

ASSUME LockQueueAssumption ==
    /\ MaxQueueSize \in Nat \ {0}
    /\ PushBlocking \in BOOLEAN
    /\ Calls \in [Threads -> SUBSET Ops]
    /\ NoThread \notin Threads

VARIABLES
    queue,          \* queue_, the oldest item first
    terminated,     \* terminated_, as the other threads see it
    storing,        \* threads whose store to terminated_ no other thread sees yet
    mutex,          \* the thread that holds mutex_
    waiters,        \* the threads registered with consumer_ and with producer_
    pc,             \* pc[t]: the next step of t
    op,             \* op[t]: the operation of its last call
    arg,            \* arg[t]: the item that call pushes
    result          \* result[t]: what that call returned or threw

INSTANCE Monitor WITH Conditions <- {"consumer", "producer"}

data == <<queue, terminated, storing>>
monitor == <<mutex, waiters>>
call == <<op, arg, result>>
vars == <<data, monitor, pc, call>>

Stages == {"idle", "lock", "test", "wait", "asleep", "check", "body",
           "notifyProducer", "notifyConsumer",
           "mark", "notifyProducers", "notifyConsumers"}

TypeOK ==
    /\ queue \in Seq(Items) /\ Len(queue) <= MaxQueueSize
    /\ terminated \in BOOLEAN
    /\ storing \subseteq Threads
    /\ MonitorTypeOK(Stages)
    /\ op \in [Threads -> Ops \cup {"none"}]
    /\ arg \in [Threads -> Items \cup {None}]
    /\ \A t \in Threads : op[t] = "push" => arg[t] \in Items
    /\ result \in [Threads -> Items \cup {None, Terminated} \cup 0..MaxQueueSize]

\* The constructors: an empty queue, or an initializer list that fits.
Init ==
    /\ \E n \in 0..MaxQueueSize : queue \in [1..n -> Items]
    /\ terminated = FALSE
    /\ storing = {}
    /\ MonitorInit
    /\ op = [t \in Threads |-> "none"]
    /\ arg = [t \in Threads |-> None]
    /\ result = [t \in Threads |-> None]

-----------------------------------------------------------------------------
HasItem == queue # <<>>
HasRoom == Len(queue) < MaxQueueSize

\* What a call waits for; a push to a leaky queue does not wait.
Predicate(t) ==
    \/ terminated
    \/ op[t] \in {"pop", "front"} /\ HasItem
    \/ op[t] = "push" /\ (HasRoom \/ ~PushBlocking)

Condition(t) == IF op[t] = "push" THEN "producer" ELSE "consumer"

-----------------------------------------------------------------------------
\* A call, up to the mutex.  The store of a terminate() is visible before its
\* thread calls again.

Call(t) ==
    /\ t \notin storing
    /\ \E o \in Calls[t] :
        /\ Goto(t, "idle", IF o = "terminate" THEN "mark" ELSE "lock")
        /\ op' = [op EXCEPT ![t] = o]
        /\ \E i \in Items \cup {None} :
            /\ i \in Items <=> o = "push"
            /\ arg' = [arg EXCEPT ![t] = i]
    /\ result' = [result EXCEPT ![t] = None]
    /\ UNCHANGED <<data, monitor>>

\* clearQueue() and getQueueSize() do not wait.
Lock(t) ==
    /\ Goto(t, "lock", IF op[t] \in Waiting THEN "test" ELSE "body")
    /\ Acquires(t)
    /\ UNCHANGED <<data, waiters, call>>

-----------------------------------------------------------------------------
\* consumerWait() and producerWait(): wait(mlock, predicate), then the check.

Test(t) ==
    /\ Goto(t, "test", IF Predicate(t) THEN "check" ELSE "wait")
    /\ UNCHANGED <<data, monitor, call>>

Wait(t) ==
    /\ Goto(t, "wait", "asleep")
    /\ WaitsFor(t, Condition(t))
    /\ UNCHANGED <<data, call>>

\* Mutation: "if" where the code has the "while" inside wait().
WakeWithoutTest(t) ==
    /\ Goto(t, "asleep", "check")
    /\ ~Registered(t) /\ Acquires(t)
    /\ UNCHANGED <<data, waiters, call>>

Wake(t) ==
    /\ Goto(t, "asleep", "test")
    /\ ~Registered(t) /\ Acquires(t)
    /\ UNCHANGED <<data, waiters, call>>

SpuriousWakeup(t) ==
    /\ WakesSpuriously(t)
    /\ UNCHANGED <<data, mutex, pc, call>>

\* throw TerminatedException() releases the mutex on its way out.
Throw(t) ==
    /\ terminated
    /\ Goto(t, "check", "idle")
    /\ Releases
    /\ result' = [result EXCEPT ![t] = Terminated]
    /\ UNCHANGED <<data, waiters, op, arg>>

\* Mutation: the check after the wait is forgotten.
ProceedUnchecked(t) ==
    /\ Goto(t, "check", "body")
    /\ UNCHANGED <<data, monitor, call>>

Proceed(t) ==
    /\ ~terminated
    /\ Goto(t, "check", "body")
    /\ UNCHANGED <<data, monitor, call>>

-----------------------------------------------------------------------------
\* What a call does with the mutex held, up to its unlock.

Body(t, o, next) ==
    /\ op[t] = o
    /\ Goto(t, "body", next)
    /\ Releases
    /\ UNCHANGED <<terminated, storing, waiters, op, arg>>

\* Mutations: the newest item is lost; no item is; nobody is told.
PushDropsNewest(t) ==
    /\ Body(t, "push", "notifyConsumer")
    /\ queue' = IF HasRoom THEN Append(queue, arg[t]) ELSE queue
    /\ UNCHANGED result

PushWithoutLimit(t) ==
    /\ Body(t, "push", "notifyConsumer")
    /\ queue' = Append(queue, arg[t])
    /\ UNCHANGED result

PushSilently(t) ==
    /\ Body(t, "push", "idle")
    /\ queue' = Append(IF HasRoom THEN queue ELSE Tail(queue), arg[t])
    /\ UNCHANGED result

\* A full queue loses its oldest item, whatever the policy.
Push(t) ==
    /\ Body(t, "push", "notifyConsumer")
    /\ queue' = Append(IF HasRoom THEN queue ELSE Tail(queue), arg[t])
    /\ UNCHANGED result

\* Mutation: only the consumers are told.
PopForgetsProducers(t) ==
    /\ Body(t, "pop", "notifyConsumer")
    /\ queue' = Tail(queue)
    /\ result' = [result EXCEPT ![t] = Head(queue)]

Pop(t) ==
    /\ Body(t, "pop", IF PushBlocking THEN "notifyProducer" ELSE "notifyConsumer")
    /\ queue' = Tail(queue)
    /\ result' = [result EXCEPT ![t] = Head(queue)]

\* front() and clearQueue() return without a notification.
Front(t) ==
    /\ Body(t, "front", "idle")
    /\ result' = [result EXCEPT ![t] = Head(queue)]
    /\ UNCHANGED queue

ClearQueue(t) ==
    /\ Body(t, "clearQueue", "idle")
    /\ queue' = <<>>
    /\ UNCHANGED result

GetQueueSize(t) ==
    /\ Body(t, "getQueueSize", "idle")
    /\ result' = [result EXCEPT ![t] = Len(queue)]
    /\ UNCHANGED queue

-----------------------------------------------------------------------------
\* consumerSatisfied() and producerSatisfied(), after the unlock.

NotifyProducer(t) ==
    /\ Goto(t, "notifyProducer", "notifyConsumer")
    /\ NotifyOne("producer")
    /\ UNCHANGED <<data, mutex, call>>

NotifyConsumer(t) ==
    /\ Goto(t, "notifyConsumer", "idle")
    /\ NotifyOne("consumer")
    /\ UNCHANGED <<data, mutex, call>>

-----------------------------------------------------------------------------
\* terminate(): without the mutex, the flag and then both broadcasts.

Mark(t) ==
    /\ Goto(t, "mark", IF terminated THEN "idle" ELSE "notifyProducers")
    /\ storing' = IF terminated THEN storing ELSE storing \cup {t}
    /\ UNCHANGED <<queue, terminated, monitor, call>>

StoreVisible(t) ==
    /\ t \in storing
    /\ storing' = storing \ {t}
    /\ terminated' = TRUE
    /\ UNCHANGED <<queue, monitor, pc, call>>

\* A broadcast that finds a waiter synchronises memory, one that finds none does not.
Broadcast(t, c) ==
    /\ waiters[c] = {} \/ t \notin storing
    /\ NotifyAll(c)
    /\ UNCHANGED <<data, mutex, call>>

NotifyProducers(t) ==
    /\ Goto(t, "notifyProducers", "notifyConsumers")
    /\ Broadcast(t, "producer")

\* Mutation: terminate() forgets consumer_.
NotifyNoConsumers(t) ==
    /\ Goto(t, "notifyConsumers", "idle")
    /\ UNCHANGED <<data, monitor, call>>

NotifyConsumers(t) ==
    /\ Goto(t, "notifyConsumers", "idle")
    /\ Broadcast(t, "consumer")

-----------------------------------------------------------------------------
\* The steps a thread takes by itself once it has made a call.
Work(t) ==
    \/ Test(t) \/ Wait(t) \/ Throw(t) \/ Proceed(t)
    \/ Push(t) \/ Pop(t) \/ Front(t) \/ ClearQueue(t) \/ GetQueueSize(t)
    \/ NotifyProducer(t) \/ NotifyConsumer(t)
    \/ Mark(t) \/ StoreVisible(t) \/ NotifyProducers(t) \/ NotifyConsumers(t)

Acquire(t) == Lock(t) \/ Wake(t)

Next == \E t \in Threads : Call(t) \/ Acquire(t) \/ Work(t) \/ SpuriousWakeup(t)

Spec == Init /\ [][Next]_vars

\* A running thread goes on, and a thread that keeps finding the mutex free gets
\* it in the end.  Nothing makes a thread start a call, or wake up by itself.
Fairness == \A t \in Threads : WF_vars(Work(t)) /\ SF_vars(Acquire(t))

FairSpec == Spec /\ Fairness

-----------------------------------------------------------------------------
(***************************************************************************)
(* Properties.                                                             *)
(***************************************************************************)

\* Where t holds the mutex.
Holds(t) == pc[t] \in {"test", "wait", "check", "body"}

\* t has made a call and is not waiting to be notified.
Awake(t) == pc[t] # "idle" /\ ~Registered(t)

\* The mutex is held by the thread that is between its lock and its unlock, and
\* by no other: the queue has one reader or writer at a time.
MutualExclusion == \A t \in Threads : Holds(t) <=> mutex = t

\* The operation of a call fits the stage it has reached, and a call has no
\* result before it has taken effect.
StageFitsOperation ==
    \A t \in Threads :
        /\ pc[t] \in {"test", "wait", "asleep", "check"} => op[t] \in Waiting
        /\ pc[t] \in {"lock", "body"} => op[t] \in Ops \ {"terminate"}
        /\ pc[t] = "mark" \/ t \in storing => op[t] = "terminate"
        /\ pc[t] \in {"wait", "asleep"} /\ op[t] = "push" => PushBlocking
        /\ pc[t] \in {"lock", "test", "wait", "asleep", "check", "body", "mark"}
            => result[t] = None

\* What a thread has found its predicate to be still holds when it acts on it:
\* nothing but the flag changes between the test and the registration.
PredicateIsCurrent ==
    \A t \in Threads :
        /\ pc[t] = "check" => Predicate(t)
        /\ pc[t] = "wait" => IF op[t] = "push" THEN ~HasRoom ELSE ~HasItem

\* The condition a waiting call was admitted for still holds when it uses the
\* queue: pop() and front() never read an empty queue (undefined behaviour of
\* std::queue), and a blocking push never drops an item or exceeds the bound.
AdmittedOperationIsPossible ==
    \A t \in Threads : pc[t] = "body" =>
        /\ op[t] \in {"pop", "front"} => HasItem
        /\ op[t] = "push" /\ PushBlocking => HasRoom

\* A thread is registered with the condition variable of its operation, and
\* only inside wait(): a notification for an item never goes to a producer.
WaitersAreRegisteredOnce ==
    /\ \A t \in waiters["consumer"] : pc[t] = "asleep" /\ op[t] \in {"pop", "front"}
    /\ \A t \in waiters["producer"] : pc[t] = "asleep" /\ op[t] = "push" /\ PushBlocking

\* The inductive invariant of the safety proofs.
LockQueueInv ==
    /\ TypeOK
    /\ MutualExclusion
    /\ StageFitsOperation
    /\ PredicateIsCurrent
    /\ AdmittedOperationIsPossible
    /\ WaitersAreRegisteredOnce

\* A thread that will take an item, or see to it that another one does.
ConsumerHelper(t) ==
    \/ pc[t] \in {"notifyProducer", "notifyConsumer"}
    \/ op[t] \in {"pop", "front"} /\ Awake(t)

\* consumer_ is notified often enough (lock_queue.h, consumerSatisfied and
\* producerSatisfied): while there is an item and a thread waits for one, some
\* thread is on its way to take it or to notify.
NoStrandedConsumer ==
    ~terminated /\ HasItem /\ waiters["consumer"] # {} => \E t \in Threads : ConsumerHelper(t)

\* A thread that will use a free place, or see to it that another one does.
ProducerHelper(t) ==
    \/ pc[t] = "notifyProducer"
    \/ op[t] = "push" /\ pc[t] \in {"lock", "test", "check", "body", "asleep"} /\ Awake(t)

\* producer_ is notified often enough (lock_queue.h, consumerSatisfied): while a
\* thread waits for room, as many threads are on their way to use a place, or
\* to notify, as there are free places.
NoStrandedProducer ==
    ~terminated /\ waiters["producer"] # {}
        => MaxQueueSize - Len(queue) <= Cardinality({t \in Threads : ProducerHelper(t)})

\* terminate() ends every wait (policy.h, GetMode::Blocking): once the queue is
\* terminated and every thread has come to rest, no thread is left waiting.
TerminateReleasesWaiters ==
    terminated /\ (\E t \in Threads : Registered(t)) => \E t \in Threads : Awake(t)

\* The queue does what BoundedQueue promises.
StageOf(step, o) ==
    IF step = "body" /\ o \in Waiting THEN "admitted"
    ELSE IF step \in {"lock", "test", "wait", "asleep", "check", "body", "mark"} THEN "pending"
    ELSE "done"

stage == [t \in Threads |-> StageOf(pc[t], op[t])]

Abstract == INSTANCE BoundedQueue WITH closed <- terminated
Refinement == Abstract!Spec

\* A thread that is registered when terminate() has set the flag and is about to
\* notify is released by it: its call ends (lock_queue.h, terminate).
SleepersAreReleased ==
    \A t \in Threads :
        terminated /\ Registered(t) /\ (\E s \in Threads : pc[s] = "notifyProducers")
            ~> pc[t] = "idle"

\* An item does not lie in the queue while a thread sleeps for one: the thread is
\* notified, or another takes the items (lock_queue.h, producerSatisfied).
ItemsAreConsumed ==
    \A t \in Threads : t \in waiters["consumer"] /\ HasItem ~> ~HasItem \/ t \notin waiters["consumer"]
=============================================================================
