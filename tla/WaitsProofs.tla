---------------------------- MODULE WaitsProofs -----------------------------
(***************************************************************************)
(* Theorems about the four classes that threads sleep on, for every set of *)
(* threads and of signals, whatever wakes the sleepers up and wherever a   *)
(* signal interrupts them.                                                 *)
(***************************************************************************)
EXTENDS MCWaits, TLAPS

-----------------------------------------------------------------------------
(* Throttle.                                                               *)

\* A new throttle satisfies its invariant: no delay runs.
LEMMA ThrottleStarts == ThrottleInit => ThrottleInv
BY WorkersAssumption, ThrottleAssumption
   DEF ThrottleInit, ThrottleInv, Created, RateIsKept, PushSurfacesFailure, IsThrottle, Threads

\* The steps of the thread of a throttle keep it: the delay begins when the
\* callback has returned, and the runner goes back to its loop when it is over.
LEMMA RunnerKeepsThrottle ==
    ASSUME ThrottleInv,
           \/ RunnerLoops \/ RunnerTests \/ RunnerSleeps \/ RunnerWakes
           \/ RunnerBreaks \/ RunnerCalls \/ CallbackThrows \/ CallbackReturns
           \/ RunnerNaps \/ RunnerEndsNap \/ RunnerRested
    PROVE  ThrottleInv'
<1> USE WorkersAssumption, ThrottleAssumption
    DEF ThrottleInv, RateIsKept, PushSurfacesFailure, IsThrottle, Threads, Goes, Locks, Unlocks, Goto
<1>1. CASE RunnerLoops
  BY <1>1 DEF RunnerLoops
<1>2. CASE RunnerTests
  BY <1>2 DEF RunnerTests
<1>3. CASE RunnerSleeps
  BY <1>3 DEF RunnerSleeps, Sleeps
<1>4. CASE RunnerWakes
  BY <1>4 DEF RunnerWakes, Wakes
<1>5. CASE RunnerBreaks
  BY <1>5 DEF RunnerBreaks
<1>6. CASE RunnerCalls
  BY <1>6 DEF RunnerCalls
<1>7. CASE CallbackThrows
  BY <1>7 DEF CallbackThrows
<1>8. CASE CallbackReturns
  BY <1>8 DEF CallbackReturns
<1>9. CASE RunnerNaps
  BY <1>9 DEF RunnerNaps, NapsUnless
<1>10. CASE RunnerEndsNap
  BY <1>10 DEF RunnerEndsNap, NapEnds
<1>11. CASE RunnerRested
  BY <1>11 DEF RunnerRested
<1> QED
  BY <1>1, <1>2, <1>3, <1>4, <1>5, <1>6, <1>7, <1>8, <1>9, <1>10, <1>11

\* So do the user's, the clock and a wakeup for no reason: push() never comes to
\* its notification after it has found the throttle stopped.
LEMMA UserKeepsThrottle ==
    ASSUME ThrottleInv,
           \/ Push \/ GetRunner \/ StoreData \/ NotifyRunner
           \/ DestroyThrottle \/ BroadcastEnd \/ JoinRunner
           \/ DelayElapses \/ RunnerWakesSpuriously
    PROVE  ThrottleInv'
<1> USE WorkersAssumption, ThrottleAssumption
    DEF ThrottleInv, RateIsKept, PushSurfacesFailure, IsThrottle, Threads, Goes, Locks, Unlocks, Goto
<1>1. CASE Push
  BY <1>1 DEF Push
<1>2. CASE GetRunner
  BY <1>2 DEF GetRunner
<1>3. CASE StoreData
  BY <1>3 DEF StoreData
<1>4. CASE NotifyRunner
  BY <1>4 DEF NotifyRunner
<1>5. CASE DestroyThrottle
  BY <1>5 DEF DestroyThrottle
<1>6. CASE BroadcastEnd
  BY <1>6 DEF BroadcastEnd, AboutToSleep
<1>7. CASE JoinRunner
  BY <1>7 DEF JoinRunner
<1>8. CASE DelayElapses
  BY <1>8 DEF DelayElapses
<1>9. CASE RunnerWakesSpuriously
  BY <1>9 DEF RunnerWakesSpuriously, SpuriousWakeup
<1> QED
  BY <1>1, <1>2, <1>3, <1>4, <1>5, <1>6, <1>7, <1>8, <1>9

-----------------------------------------------------------------------------
(* Metronome.                                                              *)

\* A new metronome satisfies its invariant: func() has not been called.
LEMMA MetronomeStarts == MetronomeInit => MetronomeInv
BY WorkersAssumption, MetronomeAssumption DEF MetronomeInit, MetronomeInv, Created, Threads

\* The steps of the worker keep it: after stop() the loop is left before func()
\* is called a second time.
LEMMA WorkerKeepsMetronome ==
    ASSUME MetronomeInv,
           \/ WorkerLoops \/ WorkerNaps \/ WorkerEndsNap \/ WorkerBreaks \/ WorkerRested
           \/ WorkerCalls \/ FuncReturns \/ FuncThrows
    PROVE  MetronomeInv'
<1> USE WorkersAssumption, MetronomeAssumption
    DEF MetronomeInv, IsMetronome, Threads, Goes, Locks, Unlocks, Goto
<1>1. CASE WorkerLoops
  <2>1. CASE obj.stopped
    BY <1>1, <2>1 DEF WorkerLoops
  <2>2. CASE ~obj.stopped
    <3>1. pc[Worker] = "loop" /\ pc' = [pc EXCEPT ![Worker] = "rest"] /\ obj' = [obj EXCEPT !.due = FALSE]
      BY <1>1, <2>2 DEF WorkerLoops
    <3> QED
      BY <2>2, <3>1
  <2> QED
    BY <2>1, <2>2
<1>2. CASE WorkerNaps
  BY <1>2 DEF WorkerNaps, NapsUnless
<1>3. CASE WorkerEndsNap
  BY <1>3 DEF WorkerEndsNap, NapEnds
<1>4. CASE WorkerBreaks
  BY <1>4 DEF WorkerBreaks
<1>5. CASE WorkerRested
  BY <1>5 DEF WorkerRested
<1>6. CASE WorkerCalls
  BY <1>6 DEF WorkerCalls
<1>7. CASE FuncReturns
  BY <1>7 DEF FuncReturns
<1>8. CASE FuncThrows
  BY <1>8 DEF FuncThrows
<1> QED
  BY <1>1, <1>2, <1>3, <1>4, <1>5, <1>6, <1>7, <1>8

\* So do the user's, the clock and a wakeup for no reason: the destructor goes on
\* when the worker has ended, and get() takes what check() has found.
LEMMA UserKeepsMetronome ==
    ASSUME MetronomeInv,
           \/ \E call \in {"stop", "destroy", "get"} : CallMetronome(call)
           \/ StopWorker \/ NotifyWorker \/ GetWorker \/ CheckWorker
           \/ DestroyMetronome \/ NotifyWorkerLast \/ JoinWorker
           \/ PeriodElapses \/ WorkerWakesSpuriously
    PROVE  MetronomeInv'
<1> USE WorkersAssumption, MetronomeAssumption
    DEF MetronomeInv, IsMetronome, Threads, Goes, Locks, Unlocks, Goto
<1>1. ASSUME NEW call \in {"stop", "destroy", "get"}, CallMetronome(call) PROVE MetronomeInv'
  BY <1>1 DEF CallMetronome
<1>2. CASE StopWorker
  BY <1>2 DEF StopWorker, SetsFlag
<1>3. CASE NotifyWorker
  BY <1>3 DEF NotifyWorker, Notifies
<1>4. CASE GetWorker
  BY <1>4 DEF GetWorker
<1>5. CASE CheckWorker
  BY <1>5 DEF CheckWorker
<1>6. CASE DestroyMetronome
  BY <1>6 DEF DestroyMetronome, SetsFlag
<1>7. CASE NotifyWorkerLast
  BY <1>7 DEF NotifyWorkerLast, Notifies
<1>8. CASE JoinWorker
  BY <1>8 DEF JoinWorker
<1>9. CASE PeriodElapses
  BY <1>9 DEF PeriodElapses
<1>10. CASE WorkerWakesSpuriously
  BY <1>10 DEF WorkerWakesSpuriously, SpuriousWakeup
<1> QED
  BY <1>1, <1>2, <1>3, <1>4, <1>5, <1>6, <1>7, <1>8, <1>9, <1>10

-----------------------------------------------------------------------------
(* SignalWaiter.                                                           *)

\* A table without waiters satisfies the invariant.
LEMMA TableStarts == SignalWaiterInit => SignalWaiterInv
<1> SUFFICES ASSUME SignalWaiterInit PROVE SignalWaiterInv
  OBVIOUS
<1>1. TableTypeOK
  <2>1. pc = [t \in Threads |-> IF t \in Runners THEN "unborn" ELSE "idle"]
    BY DEF SignalWaiterInit, Created
  <2>2. obj \in Tables
    BY SignalWaiterAssumption
       DEF SignalWaiterInit, Created, Tables, Threads, Positions, UserStages, AwaitStages
  <2> QED
    BY <2>1, <2>2 DEF TableTypeOK, Positions, UserStages, AwaitStages, InHandler
<1>2. /\ pc[User] = "idle" /\ \A w \in Runners : pc[w] = "unborn"
      /\ obj.gone = {} /\ obj.ours = {} /\ obj.live = {} /\ obj.class = "SignalWaiter"
      /\ \A s \in Signals : obj.handlers[s] = {}
      /\ \A t \in Threads : obj.todo[t] = {}
  BY WorkersAssumption DEF SignalWaiterInit, Created, Threads
<1> QED
  BY <1>1, <1>2 DEF SignalWaiterInv, Threads, InHandler, At, MakingInv, LeavingInv, ListenersAreRegistered,
     NoHandlerOfTheDead, IsSignalWaiter

\* The user's steps keep the invariant: the thread of a waiter is made when the
\* waiter is in the table for all its signals, and the destructor returns when it
\* is in it for none.
LEMMA UserKeepsTable ==
    ASSUME SignalWaiterInv,
           \/ \E w \in Runners : Construct(w) \/ DestroyWaiter(w)
           \/ BeginRegister \/ Register \/ StartThread \/ NotifyWaiter \/ JoinWaiter
    PROVE  SignalWaiterInv'
<1> USE WorkersAssumption, SignalWaiterAssumption
    DEF SignalWaiterInv, Threads, TableTypeOK, Tables, Positions, UserStages, AwaitStages, InHandler, At,
       MakingInv, LeavingInv, ListenersAreRegistered, NoHandlerOfTheDead, IsSignalWaiter,
       Goes, Locks, Unlocks, Goto, LockTable
<1>1. ASSUME NEW w \in Runners, Construct(w) PROVE SignalWaiterInv'
  <2>1. /\ pc[User] = "idle" /\ pc[w] = "unborn" /\ pc' = [pc EXCEPT ![User] = "register"]
        /\ obj' = [obj EXCEPT !.making = w, !.live = @ \cup {w}, !.todo[w] = Listens[w]]
    BY <1>1 DEF Construct
  <2>2. TableTypeOK'
    <3>1. Listens[w] \in SUBSET Signals
      OBVIOUS
    <3>0. TableTypeOK
      OBVIOUS
    <3> HIDE DEF SignalWaiterInv
    <3>2. obj' \in Tables
      BY <2>1, <3>1, <3>0
    <3> QED
      BY <2>1, <3>2, <3>0
  <2>3. /\ obj'.making = w /\ obj'.live = obj.live \cup {w}
        /\ \A u \in Threads \ {w} : obj'.todo[u] = obj.todo[u]
        /\ obj'.todo[w] = Listens[w]
        /\ obj'.handlers = obj.handlers /\ obj'.ours = obj.ours /\ obj'.got = obj.got
        /\ obj'.gone = obj.gone /\ obj'.class = obj.class
        /\ obj'.resume = obj.resume
    BY <2>1
  <2>4. \A u \in Runners : At(u)' = At(u) /\ pc'[u] = pc[u]
    BY <2>1, <2>3
  <2> HIDE DEF At, TableTypeOK, InHandler
  <2>5. At(w) = "unborn"
    BY <2>1 DEF At, InHandler
  <2>6. MakingInv'
    BY <2>1, <2>3, <2>4
  <2>7. LeavingInv'
    BY <2>3, <2>4, <2>5
  <2>8. ListenersAreRegistered'
    BY <2>3, <2>4, <2>5 DEF TableTypeOK
  <2>11. NoHandlerOfTheDead'
    BY <2>3
  <2>9. \A s \in Signals, u \in Runners : u \in obj'.handlers[s] \/ s \in obj'.todo[u] => s \in Listens[u]
    BY <2>3
  <2>10. \A u \in obj'.gone : pc'[u] = "end"
    BY <2>3, <2>4 DEF TableTypeOK
  <2> QED
    BY <2>2, <2>6, <2>7, <2>8, <2>9, <2>10, <2>11
<1>2. ASSUME NEW w \in Runners, DestroyWaiter(w) PROVE SignalWaiterInv'
  <2>1. /\ pc[User] = "idle" /\ pc' = [pc EXCEPT ![User] = "notify"]
        /\ obj' = [obj EXCEPT !.making = w, !.live = @ \ {w}]
    BY <1>2 DEF DestroyWaiter
  <2>2. TableTypeOK'
    BY <2>1
  <2>3. /\ obj'.making = w /\ obj'.live = obj.live \ {w} /\ obj'.todo = obj.todo
        /\ obj'.handlers = obj.handlers /\ obj'.ours = obj.ours /\ obj'.got = obj.got
        /\ obj'.gone = obj.gone /\ obj'.class = obj.class
        /\ obj'.resume = obj.resume
    BY <2>1
  <2>4. \A u \in Runners : At(u)' = At(u) /\ pc'[u] = pc[u]
    BY <2>1, <2>3
  <2>5. At(User)' = "notify"
    BY <2>1, <2>3
  <2> HIDE DEF At, TableTypeOK, InHandler
  <2>6. MakingInv' /\ LeavingInv'
    BY <2>3, <2>4, <2>5
  <2>7. ListenersAreRegistered'
    BY <2>3, <2>4 DEF TableTypeOK
  <2>8. NoHandlerOfTheDead'
    BY <2>3
  <2> QED
    BY <2>2, <2>3, <2>4, <2>6, <2>7, <2>8 DEF TableTypeOK
<1>3. CASE BeginRegister
  BY <1>3 DEF BeginRegister
<1>4. CASE Register
  <2> DEFINE w == obj.making
  <2>1. PICK s \in obj.todo[w] :
            obj' = [obj EXCEPT !.handlers[s] = @ \cup {w}, !.ours = @ \cup {s}, !.todo[w] = @ \ {s}]
    BY <1>4 DEF Register
  <2>2. pc[User] = "registering" /\ pc' = [pc EXCEPT ![User] = "register"]
    BY <1>4 DEF Register
  <2>3. /\ w \in Runners /\ pc[w] = "unborn" /\ s \in Signals
        /\ \A r \in Listens[w] \ obj.todo[w] : w \in obj.handlers[r] /\ r \in obj.ours
    BY <2>1, <2>2
  <2>4. TableTypeOK'
    <3>0. TableTypeOK
      OBVIOUS
    <3> HIDE DEF SignalWaiterInv
    <3> HIDE DEF w
    <3>1. /\ [obj.handlers EXCEPT ![s] = @ \cup {w}] \in [Signals -> SUBSET Runners]
          /\ [obj.todo EXCEPT ![w] = @ \ {s}] \in [Threads -> SUBSET Signals]
          /\ obj.ours \cup {s} \in SUBSET Signals
      BY <2>3, <3>0
    <3>2. obj' = [obj EXCEPT !.handlers = [obj.handlers EXCEPT ![s] = @ \cup {w}],
                             !.ours = obj.ours \cup {s},
                             !.todo = [obj.todo EXCEPT ![w] = @ \ {s}]]
      BY <2>1
    <3>3. obj' \in Tables
      BY <3>0, <3>1, <3>2
    <3> QED
      BY <2>2, <3>0, <3>2, <3>3
  <2>5. /\ obj'.making = w /\ obj'.live = obj.live /\ obj'.ours = obj.ours \cup {s} /\ obj'.got = obj.got
        /\ obj'.todo[w] = obj.todo[w] \ {s} /\ \A u \in Threads \ {w} : obj'.todo[u] = obj.todo[u]
        /\ obj'.handlers[s] = obj.handlers[s] \cup {w}
        /\ \A r \in Signals \ {s} : obj'.handlers[r] = obj.handlers[r]
        /\ obj'.gone = obj.gone /\ obj'.class = obj.class /\ obj'.resume = obj.resume
    BY <2>1, <2>3
  <2>6. \A u \in Runners : At(u)' = At(u) /\ pc'[u] = pc[u]
    BY <2>2, <2>5
  <2>7. At(w) = "unborn"
    BY <2>3
  <2> HIDE DEF At, TableTypeOK, InHandler, w
  <2>8. MakingInv'
    BY <2>3, <2>5, <2>6
  <2>9. LeavingInv'
    BY <2>3, <2>5, <2>6, <2>7
  <2>10. ListenersAreRegistered'
    BY <2>3, <2>5, <2>6, <2>7 DEF TableTypeOK
  <2>11. obj.gone \subseteq Runners /\ w \notin obj.gone
    BY <2>3 DEF TableTypeOK
  <2>12. NoHandlerOfTheDead'
    BY <2>3, <2>5, <2>11
  <2>13. \A r \in Signals, u \in Runners : u \in obj'.handlers[r] \/ r \in obj'.todo[u] => r \in Listens[u]
    BY <2>1, <2>3, <2>5
  <2> QED
    BY <2>4, <2>5, <2>6, <2>8, <2>9, <2>10, <2>11, <2>12, <2>13
<1>5. CASE StartThread
  BY <1>5 DEF StartThread
<1>6. CASE NotifyWaiter
  BY <1>6 DEF NotifyWaiter, Deaf
<1>7. CASE JoinWaiter
  <2> DEFINE w == obj.making
  <2>1. /\ pc[w] = "end" /\ pc[User] = "join" /\ pc' = [pc EXCEPT ![User] = "idle"]
        /\ obj' = [obj EXCEPT !.gone = @ \cup {w}, !.making = User]
    BY <1>7 DEF JoinWaiter
  <2>2. w \in Runners /\ At(w) = "end"
    BY <2>1
  <2>3. TableTypeOK'
    <3>0. TableTypeOK
      OBVIOUS
    <3> HIDE DEF SignalWaiterInv
    <3>1. obj' \in Tables
      BY <2>1, <2>2, <3>0
    <3> QED
      BY <2>1, <3>1, <3>0
  <2>4. /\ obj'.making = User /\ obj'.live = obj.live /\ obj'.ours = obj.ours /\ obj'.got = obj.got
        /\ obj'.todo = obj.todo /\ obj'.handlers = obj.handlers /\ obj'.gone = obj.gone \cup {w}
        /\ obj'.class = obj.class /\ obj'.resume = obj.resume
    BY <2>1
  <2>5. \A u \in Runners : At(u)' = At(u) /\ pc'[u] = pc[u]
    BY <2>1, <2>4
  <2>6. At(User)' = "idle"
    BY <2>1, <2>4
  <2>7. obj.gone \subseteq Runners
    OBVIOUS
  <2> HIDE DEF At, TableTypeOK, InHandler, w
  <2>8. MakingInv' /\ LeavingInv'
    BY <2>4, <2>5, <2>6
  <2>11. ListenersAreRegistered'
    BY <2>4, <2>5 DEF TableTypeOK
  <2>9. \A s \in Signals : w \notin obj.handlers[s]
    BY <2>2
  <2>10. NoHandlerOfTheDead'
    BY <2>4, <2>9
  <2> QED
    BY <2>1, <2>2, <2>3, <2>4, <2>5, <2>7, <2>8, <2>10, <2>11
<1> QED
  BY <1>1, <1>2, <1>3, <1>4, <1>5, <1>6, <1>7

\* The steps of a waiter's own thread keep it: it leaves the default action to a
\* signal only when it was the last in the table.
LEMMA AwaitKeepsTable ==
    ASSUME SignalWaiterInv, NEW w \in Runners,
           \/ AwaitTests(w) \/ AwaitSleeps(w) \/ AwaitWakes(w) \/ AwaitWakesSpuriously(w)
           \/ BeginUnregister(w) \/ Unregister(w) \/ Finish(w)
    PROVE  SignalWaiterInv'
<1> USE WorkersAssumption, SignalWaiterAssumption
    DEF SignalWaiterInv, Threads, TableTypeOK, Tables, Positions, UserStages, AwaitStages, InHandler, At,
       MakingInv, LeavingInv, ListenersAreRegistered, NoHandlerOfTheDead, IsSignalWaiter,
       Goes, Locks, Unlocks, Goto, LockTable
<1>1. CASE AwaitTests(w)
  <2> DEFINE done == w \notin obj.live \/ w \in obj.got
  <2>1. /\ pc[w] = "test" /\ pc' = [pc EXCEPT ![w] = IF done THEN "unregister" ELSE "wait"]
        /\ obj' = [obj EXCEPT !.todo[w] = IF done THEN Listens[w] ELSE {}]
    BY <1>1 DEF AwaitTests
  <2>2. TableTypeOK'
    <3>1. (IF done THEN Listens[w] ELSE {}) \in SUBSET Signals
      OBVIOUS
    <3>2. obj' \in Tables
      BY <2>1, <3>1
    <3> QED
      BY <2>1, <3>2
  <2>3. /\ obj'.making = obj.making /\ obj'.live = obj.live /\ obj'.ours = obj.ours /\ obj'.got = obj.got
        /\ obj'.todo[w] = (IF done THEN Listens[w] ELSE {})
        /\ \A u \in Threads \ {w} : obj'.todo[u] = obj.todo[u]
        /\ obj'.handlers = obj.handlers /\ obj'.gone = obj.gone
        /\ obj'.class = obj.class /\ obj'.resume = obj.resume
    BY <2>1
  <2>4. \A u \in Threads \ {w} : At(u)' = At(u) /\ pc'[u] = pc[u]
    BY <2>1, <2>3
  <2>5. At(w) = "test" /\ At(w)' = IF done THEN "unregister" ELSE "wait"
    BY <2>1, <2>3
  <2> HIDE DEF At, TableTypeOK, InHandler
  <2>6. MakingInv'
    BY <2>1, <2>3, <2>4
  <2>7. LeavingInv'
    BY <2>3, <2>4, <2>5
  <2>8. ListenersAreRegistered'
    BY <2>3, <2>4, <2>5 DEF TableTypeOK
  <2>11. NoHandlerOfTheDead'
    BY <2>3
  <2>9. \A u \in obj'.gone : pc'[u] = "end"
    BY <2>1, <2>3, <2>4 DEF TableTypeOK
  <2>10. \A s \in Signals, u \in Runners : u \in obj'.handlers[s] \/ s \in obj'.todo[u] => s \in Listens[u]
    BY <2>3
  <2> QED
    BY <2>2, <2>6, <2>7, <2>8, <2>9, <2>10, <2>11
<1>2. CASE AwaitSleeps(w)
  BY <1>2 DEF AwaitSleeps
<1>3. CASE AwaitWakes(w)
  BY <1>3 DEF AwaitWakes
<1>4. CASE AwaitWakesSpuriously(w)
  BY <1>4 DEF AwaitWakesSpuriously, SpuriousWakeup
<1>5. CASE BeginUnregister(w)
  BY <1>5 DEF BeginUnregister
<1>6. CASE Unregister(w)
  <2>1. PICK s \in obj.todo[w] :
            obj' = [obj EXCEPT !.handlers[s] = @ \ {w},
                               !.ours = IF obj.handlers[s] \subseteq {w} THEN @ \ {s} ELSE @,
                               !.todo[w] = @ \ {s}]
    BY <1>6 DEF Unregister
  <2>2. pc[w] = "unregistering" /\ pc' = [pc EXCEPT ![w] = "unregister"] /\ s \in Signals
    BY <1>6 DEF Unregister
  <2>3. TableTypeOK'
    BY <2>1, <2>2
  <2>4. /\ obj'.making = obj.making /\ obj'.live = obj.live /\ obj'.got = obj.got
        /\ obj'.ours = (IF obj.handlers[s] \subseteq {w} THEN obj.ours \ {s} ELSE obj.ours)
        /\ obj'.todo[w] = obj.todo[w] \ {s} /\ \A u \in Threads \ {w} : obj'.todo[u] = obj.todo[u]
        /\ obj'.handlers[s] = obj.handlers[s] \ {w}
        /\ \A r \in Signals \ {s} : obj'.handlers[r] = obj.handlers[r]
        /\ obj'.gone = obj.gone /\ obj'.class = obj.class /\ obj'.resume = obj.resume
    BY <2>1, <2>2
  <2>5. \A u \in Threads \ {w} : At(u)' = At(u) /\ pc'[u] = pc[u]
    BY <2>2, <2>4
  <2>6. At(w) = "unregistering" /\ At(w)' = "unregister"
    BY <2>2, <2>4
  <2> HIDE DEF At, TableTypeOK, InHandler
  <2>7. w \notin obj.live \ obj.got
    BY <2>6
  <2>8. \A u \in Runners \ {w}, r \in Signals :
            u \in obj.handlers[r] => u \in obj'.handlers[r] /\ (r \in obj.ours => r \in obj'.ours)
    BY <2>2, <2>4
  <2>9. MakingInv'
    BY <2>2, <2>4, <2>5, <2>8
  <2>10. LeavingInv'
    BY <2>2, <2>4, <2>5, <2>6, <2>7
  <2>11. ListenersAreRegistered'
    BY <2>4, <2>5, <2>7, <2>8 DEF TableTypeOK
  <2>12. NoHandlerOfTheDead'
    BY <2>2, <2>4
  <2>13. \A u \in obj'.gone : pc'[u] = "end"
    BY <2>2, <2>4, <2>5 DEF TableTypeOK
  <2>14. \A r \in Signals, u \in Runners : u \in obj'.handlers[r] \/ r \in obj'.todo[u] => r \in Listens[u]
    BY <2>2, <2>4
  <2> QED
    BY <2>3, <2>9, <2>10, <2>11, <2>12, <2>13, <2>14
<1>7. CASE Finish(w)
  BY <1>7 DEF Finish
<1> QED
  BY <1>1, <1>2, <1>3, <1>4, <1>5, <1>6, <1>7

\* A handler keeps it, whichever thread it has interrupted: when it returns, that
\* thread is where it was.
LEMMA HandlerKeepsTable ==
    ASSUME SignalWaiterInv, NEW t \in Threads,
           \/ \E s \in Signals : Interrupt(t, s)
           \/ LockInHandler(t) \/ Handle(t)
    PROVE  SignalWaiterInv'
<1> USE WorkersAssumption, SignalWaiterAssumption
    DEF SignalWaiterInv, Threads, TableTypeOK, Tables, Positions, UserStages, AwaitStages, InHandler, At,
       MakingInv, LeavingInv, ListenersAreRegistered, NoHandlerOfTheDead, IsSignalWaiter,
       Goes, Locks, Unlocks, Goto, LockTable
<1>1. ASSUME NEW s \in Signals, Interrupt(t, s) PROVE SignalWaiterInv'
  <2>1. /\ ~InHandler(t) /\ pc[t] \notin {"unborn", "end"} /\ obj.signals < MaxSignals
        /\ pc' = [pc EXCEPT ![t] = "handler"]
        /\ obj' = [obj EXCEPT !.signals = @ + 1, !.resume[t] = pc[t], !.signal[t] = s]
    BY <1>1 DEF Interrupt
  <2>2. TableTypeOK'
    <3>1. pc[t] \in Positions /\ obj.signals + 1 \in 0..MaxSignals
      BY <2>1
    <3>2. obj' \in Tables
      BY <2>1, <3>1
    <3> QED
      BY <2>1, <3>2
  <2>3. /\ obj'.making = obj.making /\ obj'.live = obj.live /\ obj'.ours = obj.ours /\ obj'.got = obj.got
        /\ obj'.todo = obj.todo /\ obj'.handlers = obj.handlers /\ obj'.gone = obj.gone
        /\ obj'.class = obj.class
        /\ obj'.resume = [obj.resume EXCEPT ![t] = pc[t]]
    BY <2>1
  <2>4. \A u \in Threads : At(u)' = At(u) /\ (pc[u] \in {"unborn", "end"} => pc'[u] = pc[u])
    BY <2>1, <2>3
  <2> HIDE DEF At, TableTypeOK, InHandler
  <2>5. MakingInv'
    BY <2>3, <2>4
  <2>6. LeavingInv'
    BY <2>3, <2>4
  <2>7. ListenersAreRegistered'
    BY <2>3, <2>4 DEF TableTypeOK
  <2>8. NoHandlerOfTheDead'
    BY <2>3
  <2> QED
    BY <2>2, <2>3, <2>4, <2>5, <2>6, <2>7, <2>8 DEF TableTypeOK
<1>2. CASE LockInHandler(t)
  BY <1>2 DEF LockInHandler
<1>3. CASE Handle(t)
  <2> DEFINE heard == obj.handlers[obj.signal[t]]
  <2>1. /\ pc[t] = "handling" /\ pc' = [pc EXCEPT ![t] = obj.resume[t]]
        /\ obj' = [obj EXCEPT !.got = @ \cup heard, !.missed = @ \cup Deaf(heard),
                              !.resume[t] = "idle", !.signal[t] = User]
    BY <1>3 DEF Handle
  <2>2. heard \subseteq Runners /\ Deaf(heard) \subseteq Runners
    BY <2>1 DEF Deaf
  <2>3. TableTypeOK'
    BY <2>1, <2>2
  <2>4. /\ obj'.making = obj.making /\ obj'.live = obj.live /\ obj'.ours = obj.ours
        /\ obj'.got = obj.got \cup heard
        /\ obj'.todo = obj.todo /\ obj'.handlers = obj.handlers /\ obj'.gone = obj.gone
        /\ obj'.class = obj.class
        /\ obj'.resume = [obj.resume EXCEPT ![t] = "idle"]
    BY <2>1
  <2>5. \A u \in Threads : At(u)' = At(u) /\ (pc[u] \in {"unborn", "end"} => pc'[u] = pc[u])
    BY <2>1, <2>4
  <2> HIDE DEF At, TableTypeOK, InHandler, heard
  <2>6. MakingInv'
    BY <2>4, <2>5
  <2>7. LeavingInv'
    BY <2>4, <2>5
  <2>8. ListenersAreRegistered'
    BY <2>4, <2>5 DEF TableTypeOK
  <2>9. NoHandlerOfTheDead'
    BY <2>4
  <2> QED
    BY <2>3, <2>4, <2>5, <2>6, <2>7, <2>8, <2>9 DEF TableTypeOK
<1> QED
  BY <1>1, <1>2, <1>3

-----------------------------------------------------------------------------
(* All four.                                                               *)

\* A blocker stays one.
LEMMA BlockerStays == BlockerInv /\ BlockerNext => BlockerInv'
<1> SUFFICES ASSUME BlockerInv, BlockerNext PROVE BlockerInv'
  OBVIOUS
<1> QED
  BY DEF BlockerInv, BlockerNext, BlockerSteps, Block, BlockLocks, BlockTests, BlockReturns, Release,
     UnblockOnThreadExit, Exit, NotifyBlocked, Rearm, BlockSleeps, BlockWakes, BlockWakesSpuriously,
     Locks, Unlocks, Goes, Sleeps, Wakes, SpuriousWakeup, AboutToSleep

\* The object that was chosen satisfies the invariant of its class.
LEMMA WaitsStart == Init => WaitsInv
<1>1. BlockerInit => BlockerInv
  BY DEF BlockerInit, BlockerInv, Created
<1> QED
  BY <1>1, ThrottleStarts, MetronomeStarts, TableStarts DEF Init, WaitsInv

\* Every step is one of the class of the object.
LEMMA WaitsGoOn == WaitsInv /\ [Next]_vars => WaitsInv'
<1> SUFFICES ASSUME WaitsInv, [Next]_vars PROVE WaitsInv'
  OBVIOUS
<1>1. CASE UNCHANGED vars
  BY <1>1 DEF vars, WaitsInv, ThrottleInv, RateIsKept, PushSurfacesFailure, IsThrottle, MetronomeInv, IsMetronome,
     SignalWaiterInv, TableTypeOK, MakingInv, LeavingInv, ListenersAreRegistered, NoHandlerOfTheDead,
     IsSignalWaiter, At, InHandler, BlockerInv
<1>2. CASE ThrottleNext
  <2>1. IsThrottle
    BY <1>2 DEF ThrottleNext, ThrottleSteps, RunnerLoops, RunnerTests, RunnerSleeps, RunnerWakes, RunnerBreaks,
       RunnerCalls, CallbackThrows, CallbackReturns, RunnerNaps, RunnerEndsNap, RunnerRested, Push, GetRunner,
       StoreData, NotifyRunner, DestroyThrottle, BroadcastEnd, JoinRunner, DelayElapses, RunnerWakesSpuriously
  <2>2. ThrottleInv
    BY <2>1 DEF WaitsInv, IsThrottle, MetronomeInv, SignalWaiterInv, TableTypeOK, Tables, BlockerInv
  <2> QED
    BY <1>2, <2>2, RunnerKeepsThrottle, UserKeepsThrottle DEF ThrottleNext, ThrottleSteps, WaitsInv
<1>3. CASE MetronomeNext
  <2>1. IsMetronome
    BY <1>3 DEF MetronomeNext, MetronomeSteps, WorkerLoops, WorkerNaps, WorkerEndsNap, WorkerBreaks, WorkerRested,
       WorkerCalls, FuncReturns, FuncThrows, CallMetronome, StopWorker, NotifyWorker, GetWorker, CheckWorker,
       DestroyMetronome, NotifyWorkerLast, JoinWorker, PeriodElapses, WorkerWakesSpuriously, SetsFlag, Notifies
  <2>2. MetronomeInv
    BY <2>1 DEF WaitsInv, IsMetronome, ThrottleInv, SignalWaiterInv, TableTypeOK, Tables, BlockerInv
  <2> QED
    BY <1>3, <2>2, WorkerKeepsMetronome, UserKeepsMetronome DEF MetronomeNext, MetronomeSteps, WaitsInv
<1>4. CASE SignalWaiterNext
  <2>1. IsSignalWaiter
    BY <1>4 DEF SignalWaiterNext, SignalWaiterSteps, Construct, LockTable, BeginRegister, Register, StartThread,
       AwaitTests, AwaitSleeps, AwaitWakes, BeginUnregister, Unregister, Finish, DestroyWaiter, NotifyWaiter,
       JoinWaiter, Interrupt, LockInHandler, Handle, AwaitWakesSpuriously
  <2>2. SignalWaiterInv
    BY <2>1 DEF WaitsInv, IsSignalWaiter, ThrottleInv, MetronomeInv, BlockerInv
  <2> QED
    BY <1>4, <2>2, UserKeepsTable, AwaitKeepsTable, HandlerKeepsTable
       DEF SignalWaiterNext, SignalWaiterSteps, WaitsInv, Threads
<1>5. CASE BlockerNext
  <2>1. IsBlocker
    BY <1>5 DEF BlockerNext, BlockerSteps, Block, BlockLocks, BlockTests, BlockReturns, Release,
       UnblockOnThreadExit, Exit, NotifyBlocked, Rearm, BlockSleeps, BlockWakes, BlockWakesSpuriously
  <2>2. BlockerInv
    BY <2>1 DEF WaitsInv, IsBlocker, ThrottleInv, MetronomeInv, SignalWaiterInv, TableTypeOK, Tables
  <2> QED
    BY <1>5, <2>2, BlockerStays DEF WaitsInv
<1> QED
  BY <1>1, <1>2, <1>3, <1>4, <1>5 DEF Next

\* The object satisfies the invariant of its class throughout.
THEOREM WaitsSafety == Spec => []WaitsInv
BY WaitsStart, WaitsGoOn, PTL DEF Spec

\* A throttle does not call its callback before the delay is over, a metronome not
\* before the period, nor more than once after stop(), and nothing is called of an
\* object that has been destroyed: spurious wakeups and notifications do not matter.
THEOREM CallbacksComeInTime == Spec => []CallbacksInTime
<1>1. WaitsInv => CallbacksInTime
  <2>1. ThrottleInv => CallbacksInTime
    BY DEF ThrottleInv, CallbacksInTime, RateIsKept, PeriodIsKept, StopIsHeeded, NoHandlerOfTheDead,
       IsThrottle, IsMetronome, IsSignalWaiter
  <2>2. MetronomeInv => CallbacksInTime
    BY DEF MetronomeInv, CallbacksInTime, RateIsKept, PeriodIsKept, StopIsHeeded, NoHandlerOfTheDead,
       IsThrottle, IsMetronome, IsSignalWaiter
  <2>3. SignalWaiterInv => CallbacksInTime
    BY DEF SignalWaiterInv, TableTypeOK, Tables, CallbacksInTime, RateIsKept, PeriodIsKept, StopIsHeeded,
       IsThrottle, IsMetronome
  <2>4. BlockerInv => CallbacksInTime
    BY DEF BlockerInv, CallbacksInTime, RateIsKept, PeriodIsKept, StopIsHeeded, NoHandlerOfTheDead,
       IsThrottle, IsMetronome, IsSignalWaiter
  <2> QED
    BY <2>1, <2>2, <2>3, <2>4 DEF WaitsInv
<1> QED
  BY <1>1, WaitsSafety, PTL

\* The exception of a callback comes out of the next push() or check(), and a
\* signal finds every waiter that listens for it in the table.
THEOREM NothingAskedForIsSwallowed == Spec => []NothingIsSwallowed
<1>1. WaitsInv => NothingIsSwallowed
  <2>1. ThrottleInv => NothingIsSwallowed
    BY DEF ThrottleInv, NothingIsSwallowed, CheckSurfacesFailure, ListenersAreRegistered,
       IsThrottle, IsMetronome, IsSignalWaiter
  <2>2. MetronomeInv => NothingIsSwallowed
    BY DEF MetronomeInv, NothingIsSwallowed, PushSurfacesFailure, CheckSurfacesFailure, ListenersAreRegistered,
       IsThrottle, IsMetronome, IsSignalWaiter
  <2>3. SignalWaiterInv => NothingIsSwallowed
    BY DEF SignalWaiterInv, TableTypeOK, Tables, NothingIsSwallowed, PushSurfacesFailure, CheckSurfacesFailure,
       IsThrottle, IsMetronome
  <2>4. BlockerInv => NothingIsSwallowed
    BY DEF BlockerInv, NothingIsSwallowed, PushSurfacesFailure, CheckSurfacesFailure, ListenersAreRegistered,
       IsThrottle, IsMetronome, IsSignalWaiter
  <2> QED
    BY <2>1, <2>2, <2>3, <2>4 DEF WaitsInv
<1> QED
  BY <1>1, WaitsSafety, PTL
=============================================================================
