---------------------------- MODULE MCLockQueue -----------------------------
(***************************************************************************)
(* Instances of LockQueue for TLC.  Threads call their operations without  *)
(* end; the queue is bounded by its capacity and Items is finite, so no    *)
(* other bound is needed.                                                  *)
(***************************************************************************)
EXTENDS LockQueue, TLC

CONSTANTS p1, p2, c1, c2, k, a, b

\* Every operation of the class, by four threads.
EveryOperation ==
    (p1 :> {"push"}) @@ (c1 :> {"pop"}) @@ (c2 :> {"front", "getQueueSize"})
        @@ (k :> {"clearQueue", "terminate"})

\* Two producers and two consumers, one of which also stops the other three.
TwoOfEach ==
    (p1 :> {"push"}) @@ (p2 :> {"push"}) @@ (c1 :> {"pop"}) @@ (c2 :> {"pop", "terminate"})

\* One of each, and the thread that stops the graph.
OneOfEach == (p1 :> {"push"}) @@ (c1 :> {"pop"}) @@ (k :> {"terminate"})

Symmetry == Permutations({a, b})
=============================================================================
