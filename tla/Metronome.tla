----------------------------- MODULE Metronome -----------------------------
(***************************************************************************)
(* flow::Metronome (core/src/metronome.cpp): a worker calls func at every  *)
(* period, until stop() or the destructor, or until func throws.  One      *)
(* thread, the user, calls the metronome.                                  *)
(***************************************************************************)
EXTENDS Workers

CONSTANT Worker     \* the thread of worker_

ASSUME MetronomeAssumption == Worker \in Runners

MetronomeInit ==
    Created([class |-> "Metronome",
             stopped |-> FALSE,         \* has_stopped_
             due |-> FALSE,             \* time_point has passed
             future |-> "pending",      \* worker_
             result |-> "none",         \* how the last get() or check() ended
             late |-> FALSE,            \* it began after func had thrown
             calls |-> 0],              \* calls of func begun since the flag was set
            "loop")

\* The object is a metronome.
IsMetronome == obj.class = "Metronome"

-----------------------------------------------------------------------------
\* The worker.

\* while (!has_stopped_), and the next time point.
WorkerLoops ==
    /\ IsMetronome /\ pc[Worker] = "loop"
    /\ IF obj.stopped
       THEN /\ Goes(Worker, "loop", "end")
            /\ obj' = [obj EXCEPT !.future = "value"]
       ELSE /\ Locks(Worker, "loop", "rest")
            /\ obj' = [obj EXCEPT !.due = FALSE]

\* wait_until(): has_stopped_ ends the nap, and so does the deadline.
WorkerNaps == IsMetronome /\ ~obj.stopped /\ NapsUnless(obj.due, Worker)

\* Mutation: a notification, or nothing, is taken for the deadline.
WorkerEndsNapForGood ==
    /\ IsMetronome /\ Goto(Worker, "napping", "ready")
    /\ obj.due \/ ~Registered(Worker)
    /\ waiters' = [waiters EXCEPT ![Worker] = {}]
    /\ UNCHANGED <<mutex, obj>>

WorkerEndsNap == IsMetronome /\ NapEnds(obj.due, Worker)

WorkerBreaks ==
    /\ IsMetronome /\ obj.stopped
    /\ Unlocks(Worker, "rest", "end")
    /\ obj' = [obj EXCEPT !.future = "value"]

WorkerRested ==
    /\ IsMetronome /\ ~obj.stopped /\ obj.due
    /\ Unlocks(Worker, "rest", "ready")
    /\ UNCHANGED obj

\* func() runs without the mutex: stop() may have returned in the meantime.
WorkerCalls ==
    /\ IsMetronome /\ Goes(Worker, "ready", "called")
    /\ obj' = [obj EXCEPT !.calls = IF obj.stopped THEN @ + 1 ELSE @]

FuncReturns == IsMetronome /\ Goes(Worker, "called", "loop") /\ UNCHANGED obj

FuncThrows ==
    /\ IsMetronome /\ Goes(Worker, "called", "end")
    /\ obj' = [obj EXCEPT !.future = "exception"]

PeriodElapses ==
    /\ IsMetronome /\ ~obj.due
    /\ obj' = [obj EXCEPT !.due = TRUE]
    /\ UNCHANGED <<mutex, waiters, pc>>

-----------------------------------------------------------------------------
\* The user: stop(), the destructor, which is stop() and then the destructor of
\* worker_, check() and get().

CallMetronome(call) == IsMetronome /\ Goes(User, "idle", call) /\ UNCHANGED obj

\* Mutation: the destructor does not stop the worker.
LeaveUnstopped(from, flagged, done) ==
    /\ IsMetronome /\ mutex = NoThread
    /\ Goes(User, from, done)
    /\ obj' = [obj EXCEPT !.stopped = (from = "stop") \/ @]

SetsFlag(from, flagged, done) ==
    /\ IsMetronome /\ mutex = NoThread
    /\ Goes(User, from, IF obj.stopped THEN done ELSE flagged)
    /\ obj' = [obj EXCEPT !.stopped = TRUE]

Notifies(from, done) ==
    /\ IsMetronome /\ Goto(User, from, done)
    /\ NotifyOne(Worker)
    /\ UNCHANGED <<mutex, obj>>

StopWorker == SetsFlag("stop", "notify", "idle")
NotifyWorker == Notifies("notify", "idle")
DestroyMetronome == SetsFlag("destroy", "notifyLast", "join")
NotifyWorkerLast == Notifies("notifyLast", "join")

\* Mutation: the worker is not waited for.
DetachWorker == IsMetronome /\ Goes(User, "join", "gone") /\ UNCHANGED obj

JoinWorker ==
    /\ IsMetronome /\ obj.future # "pending"
    /\ Goes(User, "join", "gone")
    /\ UNCHANGED obj

\* wait_for(0) of a future without a state is undefined.
CheckWorker ==
    /\ IsMetronome /\ Goes(User, "idle", IF obj.future \in {"value", "exception"} THEN "get" ELSE "idle")
    /\ obj' = [obj EXCEPT !.late = (obj.future = "exception"),
                          !.result = IF obj.future = "taken" THEN "undefined" ELSE "ok"]

\* Mutation: the exception stays where it is.
GetNothingFromWorker ==
    /\ IsMetronome /\ obj.future # "pending"
    /\ Goes(User, "get", "idle")
    /\ obj' = [obj EXCEPT !.result = "ok", !.future = "taken"]

\* get() hands on what the worker has thrown, once; after that it throws itself.
GetWorker ==
    /\ IsMetronome /\ obj.future # "pending"
    /\ Goes(User, "get", "idle")
    /\ obj' = [obj EXCEPT
                !.result = CASE obj.future = "value" -> "ok"
                             [] obj.future = "exception" -> "exception"
                             [] OTHER -> "invalid",
                !.future = "taken"]

-----------------------------------------------------------------------------
WorkerWakesSpuriously == IsMetronome /\ SpuriousWakeup(Worker)

\* What a thread does on its own: func() returns or throws, and a call of the user
\* that has begun goes on.
MetronomeSteps(t) ==
    \/ t = Worker /\ (WorkerLoops \/ WorkerNaps \/ WorkerEndsNap \/ WorkerBreaks \/ WorkerRested)
    \/ t = Worker /\ (WorkerCalls \/ FuncReturns \/ FuncThrows)
    \/ t = User /\ (StopWorker \/ NotifyWorker \/ GetWorker)
    \/ t = User /\ (DestroyMetronome \/ NotifyWorkerLast \/ JoinWorker)

MetronomeNext ==
    \/ \E t \in Threads : MetronomeSteps(t)
    \/ \E call \in {"stop", "destroy", "get"} : CallMetronome(call)
    \/ CheckWorker
    \/ PeriodElapses \/ WorkerWakesSpuriously

-----------------------------------------------------------------------------
(***************************************************************************)
(* Properties.                                                             *)
(***************************************************************************)

\* func() is not called before its time ("omitting the first call",
\* metronome.h), whatever wakes the worker up.
PeriodIsKept == IsMetronome /\ pc[Worker] = "called" => obj.due

\* After stop() func() is called once more at most, and never once the
\* destructor has returned.
StopIsHeeded == IsMetronome => obj.calls <= 1 /\ (pc[User] = "gone" => pc[Worker] = "end")

\* A check() that begins after func() has thrown does not return quietly.
CheckSurfacesFailure == IsMetronome /\ obj.late /\ pc[User] = "idle" => obj.result # "ok"

\* The inductive invariant of the proofs.  Once it has been called after stop(),
\* func() is not about to be called again; the future has an outcome only when
\* the worker has ended; and a check() that began late still has it to get, or
\* has said so.
MetronomeInv ==
    /\ obj \in [class : {"Metronome"}, stopped : BOOLEAN, due : BOOLEAN,
               future : {"pending", "value", "exception", "taken"},
               result : {"none", "ok", "exception", "invalid", "undefined"},
               late : BOOLEAN, calls : 0..1]
    /\ pc \in [Threads -> {"loop", "rest", "napping", "ready", "called", "end", "idle", "stop", "notify",
                           "destroy", "notifyLast", "join", "gone", "get"}]
    /\ pc[Worker] \in {"ready", "called"} => obj.due
    /\ obj.calls = 1 => obj.stopped /\ pc[Worker] \in {"called", "loop", "end"}
    /\ obj.future # "pending" => pc[Worker] = "end"
    /\ pc[User] = "gone" => obj.future # "pending"
    /\ obj.late => obj.future \in {"exception", "taken"}
    /\ obj.late /\ obj.result = "ok" => pc[User] = "get" /\ obj.future = "exception"

\* The destructor returns, whenever it is called: as has_stopped_ is set with the
\* mutex locked, the worker cannot miss it.
MetronomeEnding(t) == IsMetronome /\ t = User /\ pc[t] = "destroy"
MetronomeEnded(t) == IsMetronome /\ pc[User] = "gone"
=============================================================================
