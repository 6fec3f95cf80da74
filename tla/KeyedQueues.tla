----------------------------- MODULE KeyedQueues ----------------------------
(***************************************************************************)
(* What flow::MultiLockQueue promises the threads that share it: a set of  *)
(* keys, each with a bounded FIFO queue that drops its oldest item when it *)
(* is full, and calls that read or take the first item of several queues   *)
(* at one instant.  As in BoundedQueue, a call that must be admitted can   *)
(* only fail once the queues are closed.                                   *)
(***************************************************************************)
EXTENDS Naturals, Sequences, FiniteSets

CONSTANTS Threads, Keys, Items, MaxQueueSize, None, Terminated

VARIABLES
    queues,     \* queues[k]: the items of k, for the keys that have a queue
    closed,     \* terminate() has taken effect
    stage,      \* stage[t]: the call of t is "pending", "admitted" or "done"
    op, arg,    \* the operation of the last call of t, and its arguments
    result      \* what that call has returned

vars == <<queues, closed, stage, op, arg, result>>

Peeks == {"peekReady", "peekAtLeastOne", "peekAll"}
Pops == {"popReady", "popAtLeastOne", "popAll"}

Ready == {k \in DOMAIN queues : queues[k] # <<>>}

Promised(o) ==
    /\ o \in {"peekAtLeastOne", "popAtLeastOne"} => Ready # {}
    /\ o \in {"peekAll", "popAll"} => Ready = DOMAIN queues

Init ==
    /\ \E ks \in SUBSET Keys : queues = [k \in ks |-> <<>>]
    /\ closed = FALSE
    /\ stage = [t \in Threads |-> "done"]
    /\ op = [t \in Threads |-> "none"]
    /\ arg = [t \in Threads |-> None]
    /\ result = [t \in Threads |-> None]

Begin(t) ==
    /\ stage[t] = "done"
    /\ stage' = [stage EXCEPT ![t] = "pending"]
    /\ \E o \in Peeks \cup Pops \cup {"push", "clear", "addQueue", "removeQueue",
                "removeAllQueues", "hasAny", "hasAll", "getNumQueues", "terminate"} :
        op' = [op EXCEPT ![t] = o]
    /\ \E x \in {None} \cup Keys \cup Keys \X Items : arg' = [arg EXCEPT ![t] = x]
    /\ result' = [result EXCEPT ![t] = None]
    /\ UNCHANGED <<queues, closed>>

Admit(t) ==
    /\ stage[t] = "pending" /\ op[t] \in Peeks \cup Pops
    /\ ~closed
    /\ stage' = [stage EXCEPT ![t] = "admitted"]
    /\ UNCHANGED <<queues, closed, op, arg, result>>

TakesEffect(t, from, os, r) ==
    /\ stage[t] = from /\ op[t] \in os
    /\ stage' = [stage EXCEPT ![t] = "done"]
    /\ result' = [result EXCEPT ![t] = r]
    /\ UNCHANGED <<closed, op, arg>>

Fail(t) ==
    /\ closed
    /\ TakesEffect(t, "pending", Peeks \cup Pops, Terminated)
    /\ UNCHANGED queues

Fronts == [k \in Ready |-> Head(queues[k])]

Peek(t) ==
    /\ Promised(op[t])
    /\ TakesEffect(t, "admitted", Peeks, Fronts)
    /\ UNCHANGED queues

Pop(t) ==
    /\ Promised(op[t])
    /\ TakesEffect(t, "admitted", Pops, Fronts)
    /\ queues' = [k \in DOMAIN queues |-> IF k \in Ready THEN Tail(queues[k]) ELSE <<>>]

Push(t) ==
    /\ TakesEffect(t, "pending", {"push"}, None)
    /\ \E k \in Keys, i \in Items :
        LET old == IF k \in DOMAIN queues THEN queues[k] ELSE <<>> IN
        /\ arg[t] = <<k, i>>
        /\ queues' = [l \in DOMAIN queues \cup {k} |->
                IF l # k THEN queues[l]
                ELSE Append(IF Len(old) < MaxQueueSize THEN old ELSE Tail(old), i)]

AddQueue(t) ==
    /\ TakesEffect(t, "pending", {"addQueue"}, None)
    /\ queues' = [k \in DOMAIN queues \cup {arg[t]} |->
            IF k \in DOMAIN queues THEN queues[k] ELSE <<>>]

RemoveQueues(t) ==
    /\ TakesEffect(t, "pending", {"removeQueue", "removeAllQueues"}, None)
    /\ queues' = [k \in {l \in DOMAIN queues : op[t] = "removeQueue" /\ l # arg[t]} |-> queues[k]]

Clear(t) ==
    /\ TakesEffect(t, "pending", {"clear"}, None)
    /\ queues' = [k \in DOMAIN queues |-> <<>>]

Query(t) ==
    /\ \/ TakesEffect(t, "pending", {"hasAny"}, Ready # {})
       \/ TakesEffect(t, "pending", {"hasAll"}, Ready = DOMAIN queues)
       \/ TakesEffect(t, "pending", {"getNumQueues"}, Cardinality(DOMAIN queues))
       \/ TakesEffect(t, "pending", {"terminate"}, None)
    /\ UNCHANGED queues

Close ==
    /\ ~closed /\ closed' = TRUE
    /\ \E t \in Threads : op[t] = "terminate"
    /\ UNCHANGED <<queues, stage, op, arg, result>>

Next ==
    \/ Close
    \/ \E t \in Threads :
        \/ Begin(t) \/ Admit(t) \/ Fail(t) \/ Peek(t) \/ Pop(t) \/ Push(t)
        \/ AddQueue(t) \/ RemoveQueues(t) \/ Clear(t) \/ Query(t)

Spec == Init /\ [][Next]_vars
=============================================================================
