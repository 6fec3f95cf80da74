------------------------------ MODULE Workers ------------------------------
(***************************************************************************)
(* What Throttle, Metronome, SignalWaiter and Blocker have in common: one  *)
(* object, threads that sleep on its condition variable until a flag is    *)
(* set, and a thread of its own, made by std::async, whose future the      *)
(* object keeps.  Each of the classes is a module that extends this one;   *)
(* the members of the object are the fields of obj.                        *)
(*                                                                         *)
(* A flag that is set without the mutex becomes visible at some point      *)
(* between its store and the registration of the thread that tests it; as  *)
(* only that thread can tell, the store is one step.                       *)
(***************************************************************************)
EXTENDS Naturals

CONSTANTS
    User,           \* the thread that owns the object and calls it
    Runners,        \* the threads that sleep on a condition variable
    NoThread        \* the owner of an unlocked mutex

ASSUME WorkersAssumption == User \notin Runners /\ NoThread \notin Runners \cup {User}

VARIABLES mutex, waiters, pc, obj

vars == <<mutex, waiters, pc, obj>>

Threads == Runners \cup {User}

\* Each runner sleeps on a condition of its own name.
Conditions == Runners

INSTANCE Monitor

\* The object is new, and its runners are where at says.
Created(members, at) ==
    /\ mutex = NoThread
    /\ waiters = [c \in Conditions |-> {}]
    /\ pc = [t \in Threads |-> IF t \in Runners THEN at ELSE "idle"]
    /\ obj = members

\* t locks the mutex, unlocks it, or does neither.
Locks(t, from, to) == Goto(t, from, to) /\ Acquires(t) /\ UNCHANGED waiters
Unlocks(t, from, to) == Goto(t, from, to) /\ Releases /\ UNCHANGED waiters
Goes(t, from, to) == Goto(t, from, to) /\ UNCHANGED <<mutex, waiters>>

\* wait(lock, predicate) and wait_for(lock, delay, predicate) between two tests
\* of the predicate: nothing is sure when they return.
Sleeps(t) == Goto(t, "wait", "asleep") /\ WaitsFor(t, t) /\ UNCHANGED obj
Wakes(t) == ~Registered(t) /\ Locks(t, "asleep", "test") /\ UNCHANGED obj

\* A nap is a wait with a deadline; due says that it has passed.
NapsUnless(due, t) ==
    /\ ~due
    /\ Goto(t, "rest", "napping") /\ WaitsFor(t, t) /\ UNCHANGED obj

NapEnds(due, t) ==
    /\ Goto(t, "napping", "rest") /\ Acquires(t)
    /\ waiters' = [waiters EXCEPT ![t] = {}]
    /\ due \/ ~Registered(t)
    /\ UNCHANGED obj

SpuriousWakeup(t) ==
    /\ WakesSpuriously(t)
    /\ UNCHANGED <<mutex, pc, obj>>

\* A thread that sleeps without a deadline, or is about to: it has found its
\* predicate false, and only a notification that is still to come wakes it.
AboutToSleep(t) == pc[t] = "wait"
=============================================================================
