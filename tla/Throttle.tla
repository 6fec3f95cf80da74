----------------------------- MODULE Throttle ------------------------------
(***************************************************************************)
(* flow::Throttle (utils/throttle.h): push() leaves the latest data for a  *)
(* thread of the throttle, which hands it to a callback and then naps for  *)
(* delay_.  The callback runs with the mutex locked.  One thread pushes,   *)
(* and destroys the throttle.                                              *)
(***************************************************************************)
EXTENDS Workers

CONSTANT Runner     \* the thread of runner_

ASSUME ThrottleAssumption == Runner \in Runners

ThrottleInit ==
    Created([class |-> "Throttle",
             stopped |-> FALSE,         \* stopped_
             newData |-> FALSE,         \* new_data_
             due |-> TRUE,              \* no delay is running
             future |-> "pending",      \* runner_
             result |-> "none",         \* how the last push() ended
             unread |-> FALSE,          \* data was pushed and not handed on
             late |-> FALSE,            \* the last push() began after a callback threw
             missed |-> FALSE],         \* the runner did not hear the destructor
            "loop")

\* The object is a throttle.
IsThrottle == obj.class = "Throttle"

-----------------------------------------------------------------------------
\* run()

RunnerLoops ==
    /\ IsThrottle /\ pc[Runner] = "loop"
    /\ IF obj.stopped
       THEN /\ Goes(Runner, "loop", "end")
            /\ obj' = [obj EXCEPT !.future = "value"]
       ELSE Locks(Runner, "loop", "test") /\ UNCHANGED obj

RunnerTests ==
    /\ IsThrottle /\ Goes(Runner, "test", IF obj.stopped \/ obj.newData THEN "check" ELSE "wait")
    /\ UNCHANGED obj

RunnerBreaks ==
    /\ IsThrottle /\ obj.stopped
    /\ Unlocks(Runner, "check", "end")
    /\ obj' = [obj EXCEPT !.future = "value"]

RunnerCalls ==
    /\ IsThrottle /\ ~obj.stopped
    /\ Goes(Runner, "check", "called")
    /\ obj' = [obj EXCEPT !.unread = FALSE]

\* Mutation: the runner ends, and the throttle is not stopped.
CallbackThrowsUnseen ==
    /\ IsThrottle /\ Unlocks(Runner, "called", "end")
    /\ obj' = [obj EXCEPT !.future = "exception"]

CallbackThrows ==
    /\ IsThrottle /\ Unlocks(Runner, "called", "end")
    /\ obj' = [obj EXCEPT !.stopped = TRUE, !.future = "exception"]

\* The callback returns, and the delay begins.
CallbackReturns ==
    /\ IsThrottle /\ Goes(Runner, "called", "rest")
    /\ obj' = [obj EXCEPT !.newData = FALSE, !.due = FALSE]

\* wait_for(): stopped_ ends the nap, and so does the deadline.
RunnerNaps == IsThrottle /\ ~obj.stopped /\ NapsUnless(obj.due, Runner)

\* Mutations: the flag is reset after the nap; the nap has no predicate.
RestAndReset ==
    /\ IsThrottle
    /\ obj.stopped \/ obj.due
    /\ Unlocks(Runner, "rest", "loop")
    /\ obj' = [obj EXCEPT !.newData = FALSE]

RunnerEndsNapForGood ==
    /\ IsThrottle /\ Goto(Runner, "napping", "loop")
    /\ obj.due \/ ~Registered(Runner)
    /\ waiters' = [waiters EXCEPT ![Runner] = {}]
    /\ UNCHANGED <<mutex, obj>>

RunnerEndsNap == IsThrottle /\ NapEnds(obj.due, Runner)

RunnerRested ==
    /\ IsThrottle
    /\ obj.stopped \/ obj.due
    /\ Unlocks(Runner, "rest", "loop")
    /\ UNCHANGED obj

DelayElapses ==
    /\ IsThrottle /\ ~obj.due
    /\ obj' = [obj EXCEPT !.due = TRUE]
    /\ UNCHANGED <<mutex, waiters, pc>>

-----------------------------------------------------------------------------
\* push()

Push ==
    /\ IsThrottle /\ Goes(User, "idle", IF obj.stopped THEN "get" ELSE "store")
    /\ obj' = [obj EXCEPT !.late = (obj.future = "exception"), !.result = "none"]

\* runner_.get() waits for the runner, and takes its exception; a second get()
\* has no state to wait for, which is undefined.
GetRunner ==
    /\ IsThrottle /\ obj.future # "pending"
    /\ Goes(User, "get", "idle")
    /\ obj' = [obj EXCEPT
                !.result = IF obj.future = "exception" THEN "exception" ELSE "undefined",
                !.future = "taken"]

StoreData ==
    /\ IsThrottle /\ mutex = NoThread
    /\ Goes(User, "store", "notify")
    /\ obj' = [obj EXCEPT !.newData = TRUE, !.unread = TRUE]

NotifyRunner ==
    /\ IsThrottle /\ Goto(User, "notify", "idle")
    /\ NotifyOne(Runner)
    /\ obj' = [obj EXCEPT !.result = "ok"]
    /\ UNCHANGED mutex

-----------------------------------------------------------------------------
\* ~Throttle(): the flag and the broadcast, without the mutex; then runner_,
\* the last member and so the first to be destroyed, waits for its thread.

DestroyThrottle ==
    /\ IsThrottle /\ Goes(User, "idle", "broadcast")
    /\ obj' = [obj EXCEPT !.stopped = TRUE]

\* Mutation: nobody is notified.
BroadcastToNobody ==
    /\ IsThrottle /\ Goes(User, "broadcast", "join")
    /\ UNCHANGED obj

BroadcastEnd ==
    /\ IsThrottle /\ Goto(User, "broadcast", "join")
    /\ NotifyAll(Runner)
    /\ obj' = [obj EXCEPT !.missed = AboutToSleep(Runner)]
    /\ UNCHANGED mutex

JoinRunner ==
    /\ IsThrottle /\ obj.future # "pending"
    /\ Goes(User, "join", "gone")
    /\ UNCHANGED obj

-----------------------------------------------------------------------------
RunnerSleeps == IsThrottle /\ Sleeps(Runner)
RunnerWakes == IsThrottle /\ Wakes(Runner)
RunnerWakesSpuriously == IsThrottle /\ SpuriousWakeup(Runner)

\* What a thread does on its own: the callback ends some day, and a push() or a
\* destructor that has begun goes on.
ThrottleSteps(t) ==
    \/ t = Runner /\ (RunnerLoops \/ RunnerTests \/ RunnerSleeps \/ RunnerWakes)
    \/ t = Runner /\ (RunnerBreaks \/ RunnerCalls \/ CallbackThrows \/ CallbackReturns)
    \/ t = Runner /\ (RunnerNaps \/ RunnerEndsNap \/ RunnerRested)
    \/ t = User /\ (StoreData \/ NotifyRunner \/ GetRunner \/ BroadcastEnd \/ JoinRunner)

ThrottleNext ==
    \/ \E t \in Threads : ThrottleSteps(t)
    \/ Push \/ DestroyThrottle
    \/ DelayElapses \/ RunnerWakesSpuriously

-----------------------------------------------------------------------------
(***************************************************************************)
(* Properties.                                                             *)
(***************************************************************************)

\* The latest data is handed on, also when it was pushed during the delay or
\* during the callback; unless the throttle stops first.
LatestIsDelivered == (IsThrottle /\ obj.unread) ~> (~IsThrottle \/ ~obj.unread \/ obj.stopped)

\* Between two callbacks there is a delay: no push shortens it.
RateIsKept == IsThrottle /\ pc[Runner] = "called" => obj.due

\* After a callback has thrown, no push() returns as if the data could still be
\* handed on, until one has thrown the exception.
PushSurfacesFailure == IsThrottle /\ obj.late => obj.result # "ok"

\* The inductive invariant of the proofs.  The delay runs only while the runner
\* rests, or the throttle has been stopped and no callback follows; and where a
\* callback has thrown, push() finds the throttle stopped.
ThrottleInv ==
    /\ obj \in [class : {"Throttle"},
               stopped : BOOLEAN, newData : BOOLEAN, due : BOOLEAN,
               future : {"pending", "value", "exception", "taken"},
               result : {"none", "ok", "exception", "undefined"},
               unread : BOOLEAN, late : BOOLEAN, missed : BOOLEAN]
    /\ pc \in [Threads -> {"loop", "test", "wait", "asleep", "check", "called", "rest", "napping", "end",
                           "idle", "get", "store", "notify", "broadcast", "join", "gone"}]
    /\ pc[Runner] \in {"loop", "test", "wait", "asleep", "check"} => obj.due \/ obj.stopped
    /\ RateIsKept
    /\ obj.future = "exception" => obj.stopped
    /\ pc[User] \in {"store", "notify"} => ~obj.late
    /\ PushSurfacesFailure

\* The destructor returns, unless the runner was between its test and its
\* registration when the destructor notified.
ThrottleEnding(t) == IsThrottle /\ t = User /\ pc[t] = "join"
ThrottleEnded(t) == IsThrottle /\ (pc[User] = "gone" \/ obj.missed)
=============================================================================
