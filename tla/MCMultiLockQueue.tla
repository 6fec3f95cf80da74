-------------------------- MODULE MCMultiLockQueue --------------------------
(***************************************************************************)
(* Instances of MultiLockQueue for TLC.  Threads call their operations     *)
(* without end; the queues are bounded by their capacity, Keys and Items   *)
(* are finite, so no other bound is needed.                                *)
(***************************************************************************)
EXTENDS MultiLockQueue, TLC

CONSTANTS p, q, c, d, k1, k2, a, b

\* Every call of the consumer side, against a producer and the owner's calls.
EveryOperation ==
    (p :> {"push"}) @@ (c :> ReadyOps \cup AnyOps \cup AllOps)
        @@ (d :> KeyOps \cup {"clear", "removeAllQueues", "hasAny", "hasAll", "getNumQueues", "terminate"})

\* What a MultiConsumerPort does with it: two producers, one of which also
\* deactivates the port, and one consumer.
OneConsumer == (p :> {"push"}) @@ (q :> {"push", "terminate"}) @@ (c :> {"popAll", "popAtLeastOne"})

\* Two consumers that wait for different things.
TwoConsumers == (p :> {"push"}) @@ (c :> {"popAll"}) @@ (d :> {"popAtLeastOne"})

Symmetry == Permutations({k1, k2}) \cup Permutations({a, b})
=============================================================================
