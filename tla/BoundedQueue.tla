---------------------------- MODULE BoundedQueue ----------------------------
(***************************************************************************)
(* What flow::LockQueue promises the threads that share it, without any    *)
(* mutex, condition variable or wake-up: a bounded FIFO queue on which     *)
(* every call takes effect at one instant between its start and its end.   *)
(*                                                                         *)
(* A call that waits (push, pop, front) must be admitted before it takes   *)
(* effect, and nothing is admitted once the queue is closed.  A call that  *)
(* starts after the close can therefore only fail, while one that was      *)
(* admitted before the close may still complete after it.                  *)
(***************************************************************************)
EXTENDS Naturals, Sequences

CONSTANTS
    Threads,        \* the threads that share the queue
    Items,          \* what is pushed
    MaxQueueSize,   \* capacity of the queue
    PushBlocking,   \* TRUE: a push waits for room; FALSE: it drops the oldest item
    None,           \* the result of a call that returns nothing
    Terminated      \* the result of a call that fails with TerminatedException

VARIABLES
    queue,      \* the items, the oldest first
    closed,     \* terminate() has taken effect
    stage,      \* stage[t]: the call of t is "pending", "admitted" or "done"
    op,         \* op[t]: the operation of the last call of t, "none" before the first
    arg,        \* arg[t]: the item that call pushes, if it pushes one
    result      \* result[t]: what that call has returned

vars == <<queue, closed, stage, op, arg, result>>

Waiting == {"push", "pop", "front"}
Immediate == {"clearQueue", "getQueueSize", "terminate"}
Ops == Waiting \cup Immediate

Init ==
    /\ \E n \in 0..MaxQueueSize : queue \in [1..n -> Items]
    /\ closed = FALSE
    /\ stage = [t \in Threads |-> "done"]
    /\ op = [t \in Threads |-> "none"]
    /\ arg = [t \in Threads |-> None]
    /\ result = [t \in Threads |-> None]

Begin(t) ==
    /\ stage[t] = "done"
    /\ \E o \in Ops : op' = [op EXCEPT ![t] = o]
    /\ \E i \in Items \cup {None} : arg' = [arg EXCEPT ![t] = i]
    /\ stage' = [stage EXCEPT ![t] = "pending"]
    /\ result' = [result EXCEPT ![t] = None]
    /\ UNCHANGED <<queue, closed>>

Admit(t) ==
    /\ stage[t] = "pending" /\ op[t] \in Waiting
    /\ ~closed
    /\ stage' = [stage EXCEPT ![t] = "admitted"]
    /\ UNCHANGED <<queue, closed, op, arg, result>>

\* The call of t takes effect and has r as its result.
TakesEffect(t, from, o, r) ==
    /\ stage[t] = from /\ op[t] = o
    /\ stage' = [stage EXCEPT ![t] = "done"]
    /\ result' = [result EXCEPT ![t] = r]
    /\ UNCHANGED <<op, arg>>

Push(t) ==
    /\ TakesEffect(t, "admitted", "push", None)
    /\ \/ Len(queue) < MaxQueueSize /\ queue' = Append(queue, arg[t])
       \/ /\ ~PushBlocking /\ Len(queue) = MaxQueueSize
          /\ queue' = Append(Tail(queue), arg[t])
    /\ UNCHANGED closed

Pop(t) ==
    /\ queue # <<>>
    /\ TakesEffect(t, "admitted", "pop", Head(queue))
    /\ queue' = Tail(queue)
    /\ UNCHANGED closed

Front(t) ==
    /\ queue # <<>>
    /\ TakesEffect(t, "admitted", "front", Head(queue))
    /\ UNCHANGED <<queue, closed>>

Fail(t) ==
    /\ closed
    /\ \E o \in Waiting : TakesEffect(t, "pending", o, Terminated)
    /\ UNCHANGED <<queue, closed>>

Clear(t) ==
    /\ TakesEffect(t, "pending", "clearQueue", None)
    /\ queue' = <<>>
    /\ UNCHANGED closed

Size(t) ==
    /\ TakesEffect(t, "pending", "getQueueSize", Len(queue))
    /\ UNCHANGED <<queue, closed>>

\* terminate() returns; the close itself may become visible before or after.
Terminate(t) ==
    /\ TakesEffect(t, "pending", "terminate", None)
    /\ UNCHANGED <<queue, closed>>

Close ==
    /\ ~closed /\ closed' = TRUE
    /\ \E t \in Threads : op[t] = "terminate"
    /\ UNCHANGED <<queue, stage, op, arg, result>>

Next ==
    \/ Close
    \/ \E t \in Threads :
        \/ Begin(t) \/ Admit(t) \/ Fail(t)
        \/ Push(t) \/ Pop(t) \/ Front(t) \/ Clear(t) \/ Size(t) \/ Terminate(t)

Spec == Init /\ [][Next]_vars
=============================================================================
