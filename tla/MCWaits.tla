------------------------------ MODULE MCWaits ------------------------------
(***************************************************************************)
(* One object that threads sleep on, of any of the four classes: which one *)
(* is chosen in the initial state.  The objects share nothing, so this     *)
(* says as much as four runs would.                                        *)
(***************************************************************************)
EXTENDS Throttle, Metronome, SignalWaiter, Blocker

CONSTANTS r1, r2

\* Both waiters listen to every signal.
EverySignal == [w \in Runners |-> Signals]

Init == ThrottleInit \/ MetronomeInit \/ SignalWaiterInit \/ BlockerInit

Steps(t) == ThrottleSteps(t) \/ MetronomeSteps(t) \/ SignalWaiterSteps(t) \/ BlockerSteps(t)

TimePasses == DelayElapses \/ PeriodElapses

Next == ThrottleNext \/ MetronomeNext \/ SignalWaiterNext \/ BlockerNext

\* A thread that can go on again and again does, and time passes.
Fairness == WF_vars(TimePasses) /\ \A t \in Threads : SF_vars(Steps(t))

Spec == Init /\ [][Next]_vars /\ Fairness

-----------------------------------------------------------------------------
\* No callback runs before its time, nor after the end of what it belongs to:
\* a nap is not cut short by a push(), func() is called once more at most after
\* stop(), and nothing is called of an object that has been destroyed.
CallbacksInTime == RateIsKept /\ PeriodIsKept /\ StopIsHeeded /\ NoHandlerOfTheDead

\* What is asked for is not dropped in silence: an exception of the callback
\* reaches the next push() or check(), a signal the waiters that listen for it.
NothingIsSwallowed == PushSurfacesFailure /\ CheckSurfacesFailure /\ ListenersAreRegistered

\* The inductive invariant of the proofs.
WaitsInv == ThrottleInv \/ MetronomeInv \/ SignalWaiterInv \/ BlockerInv

\* A thread that sleeps is woken when it should be: destructors, futures and
\* block() end, but for the notifications that are known to be missed.
Awaited(t) == ThrottleEnding(t) \/ MetronomeEnding(t) \/ WaiterEnding(t) \/ BlockEnding(t)
Awake(t) == ThrottleEnded(t) \/ MetronomeEnded(t) \/ WaiterEnded(t) \/ BlockEnded(t)

SleepersAreWoken == \A t \in Threads : Awaited(t) ~> Awake(t)
=============================================================================
