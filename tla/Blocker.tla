------------------------------ MODULE Blocker ------------------------------
(***************************************************************************)
(* flow::Blocker (utils/blocker.h): threads call block(), and wait until   *)
(* another thread, the user, calls release(), or exits after               *)
(* unblockOnThreadExit().  rearm() takes the release back.                 *)
(***************************************************************************)
EXTENDS Workers

BlockerInit ==
    Created([class |-> "Blocker",
             released |-> FALSE,    \* is_released_
             atExit |-> FALSE,      \* the user's thread has an Unblocker
             missed |-> {}],        \* the threads that did not hear release()
            "idle")

\* The object is a blocker.
IsBlocker == obj.class = "Blocker"

-----------------------------------------------------------------------------
\* block()

\* Released already: returns false, and has not waited.
Block(t) ==
    /\ IsBlocker /\ Goes(t, "idle", IF obj.released THEN "idle" ELSE "lock")
    /\ obj' = [obj EXCEPT !.missed = @ \ {t}]

BlockLocks(t) == IsBlocker /\ Locks(t, "lock", "test") /\ UNCHANGED obj

BlockTests(t) == IsBlocker /\ ~obj.released /\ Goes(t, "test", "wait") /\ UNCHANGED obj

BlockReturns(t) == IsBlocker /\ obj.released /\ Unlocks(t, "test", "idle") /\ UNCHANGED obj

-----------------------------------------------------------------------------
\* release(), rearm() and the end of the user's thread.

Release ==
    /\ IsBlocker /\ Goes(User, "idle", "notify")
    /\ obj' = [obj EXCEPT !.released = TRUE]

UnblockOnThreadExit ==
    /\ IsBlocker /\ Goes(User, "idle", "idle")
    /\ obj' = [obj EXCEPT !.atExit = TRUE]

Exit ==
    /\ IsBlocker /\ Goes(User, "idle", IF obj.atExit THEN "notifyLast" ELSE "gone")
    /\ obj' = [obj EXCEPT !.released = @ \/ obj.atExit]

\* Mutation: one thread is notified.
NotifyOneOfTheBlocked(from, to) ==
    /\ IsBlocker /\ Goto(User, from, to)
    /\ \E t \in Runners : NotifyAll(t)
    /\ UNCHANGED <<mutex, obj>>

\* notify_all(): the runners share one condition variable.
NotifyBlocked(from, to) ==
    /\ IsBlocker /\ Goto(User, from, to)
    /\ waiters' = [c \in Conditions |-> {}]
    /\ obj' = [obj EXCEPT !.missed = {t \in Runners : AboutToSleep(t)}]
    /\ UNCHANGED mutex

Rearm ==
    /\ IsBlocker /\ Goes(User, "idle", "idle")
    /\ obj' = [obj EXCEPT !.released = FALSE]

-----------------------------------------------------------------------------
BlockSleeps(t) == IsBlocker /\ Sleeps(t)
BlockWakes(t) == IsBlocker /\ Wakes(t)
BlockWakesSpuriously(t) == IsBlocker /\ SpuriousWakeup(t)

\* What a thread does on its own.
BlockerSteps(t) ==
    \/ t \in Runners /\ (BlockLocks(t) \/ BlockTests(t) \/ BlockReturns(t))
    \/ t \in Runners /\ (BlockSleeps(t) \/ BlockWakes(t))
    \/ t = User /\ NotifyBlocked("notify", "idle")
    \/ t = User /\ NotifyBlocked("notifyLast", "gone")

BlockerNext ==
    \/ \E t \in Threads : BlockerSteps(t)
    \/ \E t \in Runners : Block(t) \/ BlockWakesSpuriously(t)
    \/ Release \/ Rearm \/ UnblockOnThreadExit \/ Exit

-----------------------------------------------------------------------------
\* What the proofs about the four classes need of this one: it stays a blocker.
BlockerInv == obj \in [class : {"Blocker"}, released : BOOLEAN, atExit : BOOLEAN, missed : SUBSET Runners]

\* release() unblocks every thread that is in block() (blocker.h, release),
\* unless rearm() comes first or the thread was between its test and its
\* registration.
BlockEnding(t) == IsBlocker /\ t \in Runners /\ obj.released /\ pc[t] # "idle"
BlockEnded(t) == IsBlocker /\ (pc[t] = "idle" \/ ~obj.released \/ t \in obj.missed)
=============================================================================
