--------------------------- MODULE MultiLockQueue ---------------------------
(***************************************************************************)
(* flow::MultiLockQueue<K, T> (core/include/superflow/utils/               *)
(* multi_lock_queue.h): one bounded queue per key, behind one mutex and    *)
(* one condition variable, on which calls with different predicates wait   *)
(* side by side.  The grain is that of LockQueue: what another thread can  *)
(* see or change in between is a step of its own.                          *)
(***************************************************************************)
EXTENDS Integers, Sequences, FiniteSets

CONSTANTS
    Threads,        \* the threads that share the object
    Calls,          \* Calls[t]: the operations t calls, in any order
    Keys,           \* the keys a queue may have
    Items,          \* what is pushed
    MaxQueueSize,   \* max_queue_size_
    None,           \* the result of a call that returns nothing
    Terminated,     \* the result of a call that throws TerminatedException
    NoThread        \* the owner of an unlocked mutex

ReadyOps == {"peekReady", "popReady"}
AnyOps == {"peekAtLeastOne", "popAtLeastOne"}
AllOps == {"peekAll", "popAll"}
Pops == {"popReady", "popAtLeastOne", "popAll"}
KeyOps == {"addQueue", "removeQueue"}
Ops == ReadyOps \cup AnyOps \cup AllOps \cup KeyOps
        \cup {"push", "clear", "removeAllQueues", "hasAny", "hasAll", "getNumQueues", "terminate"}

\* The constructor takes any size; push() on a size of zero would pop an empty
\* std::queue.  The ports that own a MultiLockQueue default to one.
ASSUME MultiLockQueueAssumption ==
    /\ MaxQueueSize \in Nat \ {0}
    /\ Calls \in [Threads -> SUBSET Ops]
    /\ NoThread \notin Threads
    /\ IsFiniteSet(Keys)

VARIABLES
    queues,         \* queues_: a queue for some of the keys
    terminated,     \* terminated_, as the other threads see it
    storing,        \* threads whose store to terminated_ no other thread sees yet
    mutex,          \* the thread that holds mutex_
    waiters,        \* the threads registered with cond_
    pc,             \* pc[t]: the next step of t
    op,             \* op[t]: the operation of its last call
    arg,            \* arg[t]: the key, or the key and the item, of that call
    result          \* result[t]: what that call returned or threw

INSTANCE Monitor WITH Conditions <- {"cond"}

data == <<queues, terminated, storing>>
monitor == <<mutex, waiters>>
call == <<op, arg, result>>
vars == <<data, monitor, pc, call>>

Stages == {"idle", "glance", "lock", "test", "wait", "asleep", "check", "body",
           "notify", "mark", "notifyAll"}

Maps == UNION {[ks -> Items] : ks \in SUBSET Keys}

Arguments(o) ==
    IF o = "push" THEN Keys \X Items ELSE IF o \in KeyOps THEN Keys ELSE {None}

Results(o) == {None, Terminated} \cup
    IF o \in {"hasAny", "hasAll"} THEN BOOLEAN
    ELSE IF o = "getNumQueues" THEN 0..Cardinality(Keys) ELSE Maps

QueuesTyped ==
    /\ DOMAIN queues \subseteq Keys
    /\ queues \in [DOMAIN queues -> Seq(Items)]
    /\ \A k \in DOMAIN queues : Len(queues[k]) <= MaxQueueSize

CallsTyped ==
    /\ op \in [Threads -> Ops \cup {"none"}]
    /\ arg = [t \in Threads |-> arg[t]] /\ result = [t \in Threads |-> result[t]]
    /\ \A t \in Threads : arg[t] \in Arguments(op[t]) /\ result[t] \in Results(op[t])

TypeOK ==
    /\ QueuesTyped
    /\ terminated \in BOOLEAN
    /\ storing \subseteq Threads
    /\ MonitorTypeOK(Stages)
    /\ CallsTyped

\* The constructors: no queue, or an empty one for each of some keys.
Init ==
    /\ \E ks \in SUBSET Keys : queues = [k \in ks |-> <<>>]
    /\ terminated = FALSE
    /\ storing = {}
    /\ MonitorInit
    /\ op = [t \in Threads |-> "none"]
    /\ arg = [t \in Threads |-> None]
    /\ result = [t \in Threads |-> None]

-----------------------------------------------------------------------------
Ready == {k \in DOMAIN queues : queues[k] # <<>>}
HasAny == Ready # {}
HasAll == Ready = DOMAIN queues

Predicate(t) ==
    \/ terminated
    \/ op[t] \in AnyOps /\ HasAny
    \/ op[t] \in AllOps /\ HasAll

\* The local map that peekReady(lock) and popReady(lock) fill.
Fronts == [k \in Ready |-> Head(queues[k])]

-----------------------------------------------------------------------------
\* peekReady() and popReady() look at terminated_ before they lock, the calls
\* that wait look at it after they have waited, the others do not look at it.
Call(t) ==
    /\ t \notin storing
    /\ \E o \in Calls[t] :
        /\ Goto(t, "idle", IF o = "terminate" THEN "mark"
                           ELSE IF o \in ReadyOps THEN "glance" ELSE "lock")
        /\ op' = [op EXCEPT ![t] = o]
        /\ \E x \in Arguments(o) : arg' = [arg EXCEPT ![t] = x]
    /\ result' = [result EXCEPT ![t] = None]
    /\ UNCHANGED <<data, monitor>>

Glance(t) ==
    /\ ~terminated
    /\ Goto(t, "glance", "lock")
    /\ UNCHANGED <<data, monitor, call>>

ThrowAtOnce(t) ==
    /\ terminated
    /\ Goto(t, "glance", "idle")
    /\ result' = [result EXCEPT ![t] = Terminated]
    /\ UNCHANGED <<data, monitor, op, arg>>

Lock(t) ==
    /\ Goto(t, "lock", IF op[t] \in AnyOps \cup AllOps THEN "test" ELSE "body")
    /\ Acquires(t)
    /\ UNCHANGED <<data, waiters, call>>

-----------------------------------------------------------------------------
\* waitAny() and waitAll().

Test(t) ==
    /\ Goto(t, "test", IF Predicate(t) THEN "check" ELSE "wait")
    /\ UNCHANGED <<data, monitor, call>>

Wait(t) ==
    /\ Goto(t, "wait", "asleep")
    /\ WaitsFor(t, "cond")
    /\ UNCHANGED <<data, call>>

\* Mutation: "if" where the code has the "while" inside wait().
WakeWithoutTest(t) ==
    /\ Goto(t, "asleep", "check")
    /\ ~Registered(t) /\ Acquires(t)
    /\ UNCHANGED <<data, waiters, call>>

Wake(t) ==
    /\ Goto(t, "asleep", "test")
    /\ ~Registered(t) /\ Acquires(t)
    /\ UNCHANGED <<data, waiters, call>>

SpuriousWakeup(t) ==
    /\ WakesSpuriously(t)
    /\ UNCHANGED <<data, mutex, pc, call>>

Throw(t) ==
    /\ terminated
    /\ Goto(t, "check", "idle")
    /\ Releases
    /\ result' = [result EXCEPT ![t] = Terminated]
    /\ UNCHANGED <<data, waiters, op, arg>>

Proceed(t) ==
    /\ ~terminated
    /\ Goto(t, "check", "body")
    /\ UNCHANGED <<data, monitor, call>>

-----------------------------------------------------------------------------
\* What a call does with the mutex held, up to its unlock.

Body(t, os, next) ==
    /\ op[t] \in os
    /\ Goto(t, "body", next)
    /\ Releases
    /\ UNCHANGED <<terminated, storing, waiters, op, arg>>

Returns(t, r) == result' = [result EXCEPT ![t] = r]

\* Mutations: a full queue keeps its items; nobody is told.
PushWithoutLimit(t) ==
    LET key == arg[t][1]
        old == IF key \in DOMAIN queues THEN queues[key] ELSE <<>>
    IN  /\ Body(t, {"push"}, "notify")
        /\ queues' = [k \in DOMAIN queues \cup {key} |->
                IF k = key THEN Append(old, arg[t][2]) ELSE queues[k]]
        /\ UNCHANGED result

NotifyNobody(t) ==
    /\ Goto(t, "notify", "idle")
    /\ UNCHANGED <<data, monitor, call>>

\* queues_[key] adds a queue for a key that has none.
Push(t) ==
    LET key == arg[t][1]
        old == IF key \in DOMAIN queues THEN queues[key] ELSE <<>>
        new == Append(IF Len(old) >= MaxQueueSize THEN Tail(old) ELSE old, arg[t][2])
    IN  /\ Body(t, {"push"}, "notify")
        /\ queues' = [k \in DOMAIN queues \cup {key} |-> IF k = key THEN new ELSE queues[k]]
        /\ UNCHANGED result

Peek(t) ==
    /\ Body(t, (ReadyOps \cup AnyOps \cup AllOps) \ Pops, "idle")
    /\ Returns(t, Fronts)
    /\ UNCHANGED queues

\* Mutation: every queue loses its first item, only the first one is returned.
PopReturnsOne(t) ==
    /\ Body(t, Pops, "idle")
    /\ \E ks \in SUBSET Ready :
        /\ Cardinality(ks) <= 1 /\ (ks = {} => Ready = {})
        /\ Returns(t, [k \in ks |-> Head(queues[k])])
    /\ queues' = [k \in DOMAIN queues |-> IF k \in Ready THEN Tail(queues[k]) ELSE queues[k]]

Pop(t) ==
    /\ Body(t, Pops, "idle")
    /\ Returns(t, Fronts)
    /\ queues' = [k \in DOMAIN queues |-> IF k \in Ready THEN Tail(queues[k]) ELSE queues[k]]

Clear(t) ==
    /\ Body(t, {"clear"}, "idle")
    /\ queues' = [k \in DOMAIN queues |-> <<>>]
    /\ UNCHANGED result

AddQueue(t) ==
    /\ Body(t, {"addQueue"}, "idle")
    /\ queues' = [k \in DOMAIN queues \cup {arg[t]} |->
            IF k \in DOMAIN queues THEN queues[k] ELSE <<>>]
    /\ UNCHANGED result

RemoveQueue(t) ==
    /\ Body(t, {"removeQueue"}, "idle")
    /\ queues' = [k \in DOMAIN queues \ {arg[t]} |-> queues[k]]
    /\ UNCHANGED result

RemoveAllQueues(t) ==
    /\ Body(t, {"removeAllQueues"}, "idle")
    /\ queues' = [k \in {} |-> <<>>]
    /\ UNCHANGED result

Query(t) ==
    /\ Body(t, {"hasAny", "hasAll", "getNumQueues"}, "idle")
    /\ Returns(t, IF op[t] = "hasAny" THEN HasAny
                  ELSE IF op[t] = "hasAll" THEN HasAll ELSE Cardinality(DOMAIN queues))
    /\ UNCHANGED queues

Notify(t) ==
    /\ Goto(t, "notify", "idle")
    /\ NotifyOne("cond")
    /\ UNCHANGED <<data, mutex, call>>

-----------------------------------------------------------------------------
\* terminate(), without the mutex.

Mark(t) ==
    /\ Goto(t, "mark", IF terminated THEN "idle" ELSE "notifyAll")
    /\ storing' = IF terminated THEN storing ELSE storing \cup {t}
    /\ UNCHANGED <<queues, terminated, monitor, call>>

StoreVisible(t) ==
    /\ t \in storing
    /\ storing' = storing \ {t}
    /\ terminated' = TRUE
    /\ UNCHANGED <<queues, monitor, pc, call>>

\* Mutation: terminate() tells nobody.
BroadcastToNobody(t) ==
    /\ Goto(t, "notifyAll", "idle")
    /\ UNCHANGED <<data, monitor, call>>

\* A broadcast that finds a waiter synchronises memory, one that finds none does not.
Broadcast(t) ==
    /\ waiters["cond"] = {} \/ t \notin storing
    /\ Goto(t, "notifyAll", "idle")
    /\ NotifyAll("cond")
    /\ UNCHANGED <<data, mutex, call>>

-----------------------------------------------------------------------------
Work(t) ==
    \/ Glance(t) \/ ThrowAtOnce(t) \/ Test(t) \/ Wait(t) \/ Throw(t) \/ Proceed(t)
    \/ Push(t) \/ Peek(t) \/ Pop(t) \/ Clear(t) \/ AddQueue(t) \/ RemoveQueue(t)
    \/ RemoveAllQueues(t) \/ Query(t) \/ Notify(t)
    \/ Mark(t) \/ StoreVisible(t) \/ Broadcast(t)

Acquire(t) == Lock(t) \/ Wake(t)

Next == \E t \in Threads : Call(t) \/ Acquire(t) \/ Work(t) \/ SpuriousWakeup(t)

Spec == Init /\ [][Next]_vars

\* As in LockQueue: a running thread goes on, and gets the mutex in the end.
FairSpec == Spec /\ \A t \in Threads : WF_vars(Work(t)) /\ SF_vars(Acquire(t))

-----------------------------------------------------------------------------
(***************************************************************************)
(* Properties.                                                             *)
(***************************************************************************)

Holds(t) == pc[t] \in {"test", "wait", "check", "body"}

\* The mutex is held by the thread between its lock and its unlock, by no other.
MutualExclusion == \A t \in Threads : Holds(t) <=> mutex = t

\* The operation of a call fits the stage it has reached, and a call has no
\* result before it has taken effect.
StageFitsOperation ==
    \A t \in Threads :
        /\ pc[t] \in {"test", "wait", "asleep", "check"} => op[t] \in AnyOps \cup AllOps
        /\ pc[t] \in {"lock", "body"} => op[t] \in Ops \ {"terminate"}
        /\ pc[t] = "glance" => op[t] \in ReadyOps
        /\ pc[t] = "mark" \/ t \in storing => op[t] = "terminate"
        /\ pc[t] \in Stages \ {"idle", "notify", "notifyAll"} => result[t] = None

\* What a thread has found its predicate to be still holds when it acts on it.
PredicateIsCurrent ==
    \A t \in Threads :
        /\ pc[t] = "check" => Predicate(t)
        /\ pc[t] = "wait" => IF op[t] \in AnyOps THEN ~HasAny ELSE ~HasAll

\* popAll() and peekAll() return an element of every queue, popAtLeastOne() and
\* peekAtLeastOne() at least one element (multi_lock_queue.h, their comments).
PromiseHolds ==
    \A t \in Threads : pc[t] = "body" =>
        /\ op[t] \in AnyOps => HasAny
        /\ op[t] \in AllOps => HasAll

OnlySleepersAreRegistered == \A t \in waiters["cond"] : pc[t] = "asleep"

\* The inductive invariant of the safety proofs.
MultiLockQueueInv ==
    /\ TypeOK
    /\ MutualExclusion
    /\ StageFitsOperation
    /\ PredicateIsCurrent
    /\ PromiseHolds
    /\ OnlySleepersAreRegistered

\* A thread that is about to notify, or to test its predicate.
Helper(t) ==
    \/ pc[t] = "notify"
    \/ op[t] \in AnyOps \cup AllOps /\ pc[t] # "idle" /\ ~Registered(t)

\* A call that waits does so only "until at least one of the queues has an
\* element", or "until all queues have an element" (multi_lock_queue.h): while
\* it could go on, somebody is about to notify, or to take the items.
NoStrandedWaiter ==
    ~terminated /\ (\E t \in waiters["cond"] : Predicate(t)) => \E s \in Threads : Helper(s)

\* The queues do what KeyedQueues promises.
StageOf(step, o) ==
    IF \/ step = "body" /\ o \in ReadyOps \cup AnyOps \cup AllOps
       \/ step = "lock" /\ o \in ReadyOps
    THEN "admitted"
    ELSE IF step \in {"idle", "notify", "notifyAll"} THEN "done" ELSE "pending"

stage == [t \in Threads |-> StageOf(pc[t], op[t])]

Abstract == INSTANCE KeyedQueues WITH closed <- terminated
Refinement == Abstract!Spec

\* A thread that is registered when terminate() has set the flag and is about to
\* notify is released by it: its call ends.
SleepersAreReleased ==
    \A t \in Threads :
        terminated /\ Registered(t) /\ (\E s \in Threads : pc[s] = "notifyAll")
            ~> pc[t] = "idle"

\* A lone consumer that waits for all producers gets its items: when every queue
\* has one, it stops waiting (multi_lock_queue.h, "Blocks until all queues have
\* an element").
AllReadyIsNoticed ==
    \A t \in Threads :
        Registered(t) /\ op[t] \in AllOps /\ HasAll ~> ~Registered(t) \/ ~HasAll
=============================================================================
