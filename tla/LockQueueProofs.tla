-------------------------- MODULE LockQueueProofs ---------------------------
(***************************************************************************)
(* Theorems about LockQueue, for every set of threads, every assignment of *)
(* operations to them, every capacity and both leak policies.  The         *)
(* inductive invariant is LockQueueInv: the two facts a caller relies on,  *)
(* TypeOK and AdmittedOperationIsPossible, hold because the mutex is held  *)
(* from the test of a predicate to its use (MutualExclusion,               *)
(* PredicateIsCurrent).  The rest follows from it: that LockQueue          *)
(* implements BoundedQueue, and, with one more operation excluded each,    *)
(* that neither consumers nor producers are stranded.                      *)
(***************************************************************************)
EXTENDS LockQueue, SequenceTheorems, FiniteSetTheorems, TLAPS

-----------------------------------------------------------------------------
\* A queue as the constructors leave it, empty or filled from a list that fits,
\* satisfies the invariant.

\* The invariant holds before any call.
LEMMA InitInv == Init => LockQueueInv
<1> SUFFICES ASSUME Init PROVE LockQueueInv
  OBVIOUS
<1>1. queue \in Seq(Items) /\ Len(queue) <= MaxQueueSize
  <2>1. PICK n \in 0..MaxQueueSize : queue \in [1..n -> Items]
    BY DEF Init
  <2>2. n \in Nat
    BY <2>1, LockQueueAssumption
  <2>3. queue \in Seq(Items)
    BY <2>1, <2>2, SeqDef
  <2>4. 1..n = 1..Len(queue)
    BY <2>1, <2>3, LenProperties
  <2> QED
    BY <2>1, <2>2, <2>3, <2>4, LenProperties, LockQueueAssumption
<1>2. TypeOK
  BY <1>1, LockQueueAssumption DEF Init, TypeOK, MonitorInit, MonitorTypeOK, Stages, Ops, Waiting
<1>3. /\ MutualExclusion /\ StageFitsOperation /\ PredicateIsCurrent
      /\ AdmittedOperationIsPossible /\ WaitersAreRegisteredOnce
  BY LockQueueAssumption DEF Init, MonitorInit, MutualExclusion, Holds, StageFitsOperation,
     PredicateIsCurrent, AdmittedOperationIsPossible, WaitersAreRegisteredOnce
<1> QED
  BY <1>2, <1>3 DEF LockQueueInv

\* No step of any thread breaks the invariant.
LEMMA NextInv == LockQueueInv /\ [Next]_vars => LockQueueInv'
<1> SUFFICES ASSUME LockQueueInv, [Next]_vars PROVE LockQueueInv'
  OBVIOUS
<1> USE LockQueueAssumption DEF LockQueueInv, TypeOK, MutualExclusion, StageFitsOperation,
   PredicateIsCurrent, AdmittedOperationIsPossible, WaitersAreRegisteredOnce, Holds,
   MonitorTypeOK, Stages, Ops, Waiting, Goto, Acquires, Releases, Predicate, Condition, HasItem, HasRoom, data, monitor, call, Registered
<1>1. ASSUME NEW t \in Threads, Call(t) PROVE LockQueueInv'
  BY <1>1, SMTT(20) DEF Call
<1>2. ASSUME NEW t \in Threads, Lock(t) PROVE LockQueueInv'
  BY <1>2, SMTT(20) DEF Lock
<1>3. ASSUME NEW t \in Threads, Test(t) PROVE LockQueueInv'
  BY <1>3, SMTT(20) DEF Test
<1>4. ASSUME NEW t \in Threads, Wait(t) PROVE LockQueueInv'
  BY <1>4, SMTT(20) DEF Wait, WaitsFor
<1>5. ASSUME NEW t \in Threads, Wake(t) PROVE LockQueueInv'
  BY <1>5, SMTT(20) DEF Wake
<1>6. ASSUME NEW t \in Threads, SpuriousWakeup(t) PROVE LockQueueInv'
  BY <1>6, SMTT(20) DEF SpuriousWakeup, WakesSpuriously
<1>7. ASSUME NEW t \in Threads, Throw(t) PROVE LockQueueInv'
  BY <1>7, SMTT(20) DEF Throw
<1>8. ASSUME NEW t \in Threads, Proceed(t) PROVE LockQueueInv'
  BY <1>8, SMTT(20) DEF Proceed
<1>9. ASSUME NEW t \in Threads, Push(t) PROVE LockQueueInv'
  BY <1>9, SMTT(20) DEF Push, Body
<1>10. ASSUME NEW t \in Threads, Pop(t) PROVE LockQueueInv'
  BY <1>10, SMTT(20) DEF Pop, Body
<1>11. ASSUME NEW t \in Threads, Front(t) PROVE LockQueueInv'
  BY <1>11, SMTT(20) DEF Front, Body
<1>12. ASSUME NEW t \in Threads, ClearQueue(t) PROVE LockQueueInv'
  BY <1>12, SMTT(20) DEF ClearQueue, Body
<1>13. ASSUME NEW t \in Threads, GetQueueSize(t) PROVE LockQueueInv'
  BY <1>13, SMTT(20) DEF GetQueueSize, Body
<1>14. ASSUME NEW t \in Threads, NotifyProducer(t) PROVE LockQueueInv'
  BY <1>14, SMTT(20) DEF NotifyProducer, NotifyOne
<1>15. ASSUME NEW t \in Threads, NotifyConsumer(t) PROVE LockQueueInv'
  BY <1>15, SMTT(20) DEF NotifyConsumer, NotifyOne
<1>16. ASSUME NEW t \in Threads, Mark(t) PROVE LockQueueInv'
  BY <1>16, SMTT(20) DEF Mark
<1>17. ASSUME NEW t \in Threads, StoreVisible(t) PROVE LockQueueInv'
  BY <1>17, SMTT(20) DEF StoreVisible
<1>18. ASSUME NEW t \in Threads, NotifyProducers(t) PROVE LockQueueInv'
  BY <1>18, SMTT(20) DEF NotifyProducers, Broadcast, NotifyAll
<1>19. ASSUME NEW t \in Threads, NotifyConsumers(t) PROVE LockQueueInv'
  BY <1>19, SMTT(20) DEF NotifyConsumers, Broadcast, NotifyAll
<1>20. CASE UNCHANGED vars
  BY <1>20 DEF vars
<1>21. QED
  BY <1>1, <1>2, <1>3, <1>4, <1>5, <1>6, <1>7, <1>8, <1>9, <1>10, <1>11, <1>12, <1>13, <1>14, <1>15, <1>16, <1>17, <1>18, <1>19, <1>20 DEF Next, Work, Acquire

\* The invariant holds throughout, for every set of threads and every capacity.
THEOREM Safety == Spec => []LockQueueInv
<1>1. Init => LockQueueInv
  BY InitInv
<1>2. LockQueueInv /\ [Next]_vars => LockQueueInv'
  BY NextInv
<1> QED
  BY <1>1, <1>2, PTL DEF Spec

\* The queue never holds more than max_queue_size_ items, and every variable
\* keeps its type.
THEOREM TypeCorrect == Spec => []TypeOK
<1>1. LockQueueInv => TypeOK
  BY DEF LockQueueInv
<1> QED
  BY <1>1, Safety, PTL

\* pop() and front() never read an empty queue, and a push that blocks never
\* finds the queue full when it uses it.
THEOREM AdmittedIsPossible == Spec => []AdmittedOperationIsPossible
<1>1. LockQueueInv => AdmittedOperationIsPossible
  BY DEF LockQueueInv
<1> QED
  BY <1>1, Safety, PTL

-----------------------------------------------------------------------------
\* A new queue is one that BoundedQueue starts from.
LEMMA InitRefines == Init => Abstract!Init
<1> SUFFICES ASSUME Init PROVE Abstract!Init
  OBVIOUS
<1>1. stage = [t \in Threads |-> "done"]
  BY DEF Init, MonitorInit, stage, StageOf
<1> QED
  BY <1>1 DEF Init, Abstract!Init

\* A step of one thread within its call moves its stage, or leaves it.
LEMMA StageMoves ==
    ASSUME NEW t \in Threads, NEW from, NEW to,
           LockQueueInv, Goto(t, from, to), op' = op
    PROVE  /\ stage[t] = StageOf(from, op[t])
           /\ stage' = [stage EXCEPT ![t] = StageOf(to, op[t])]
           /\ StageOf(from, op[t]) = StageOf(to, op[t]) => stage' = stage
BY DEF LockQueueInv, TypeOK, MonitorTypeOK, Goto, stage

\* Every step of a thread is a step of BoundedQueue or is invisible to it: a
\* waiting call takes effect when its predicate has been checked, the others
\* when they hold the mutex, and terminate() when its store becomes visible.
LEMMA NextRefines == LockQueueInv /\ [Next]_vars => [Abstract!Next]_(Abstract!vars)
<1> SUFFICES ASSUME LockQueueInv, [Next]_vars PROVE [Abstract!Next]_(Abstract!vars)
  OBVIOUS
<1> USE DEF data, monitor, call, Abstract!vars
<1>1. ASSUME NEW t \in Threads, Call(t) PROVE Abstract!Begin(t)
  <2>1. PICK o \in Calls[t] : /\ Goto(t, "idle", IF o = "terminate" THEN "mark" ELSE "lock")
                              /\ op' = [op EXCEPT ![t] = o]
    BY <1>1 DEF Call
  <2>2. stage[t] = "done"
    BY <2>1 DEF Goto, stage, StageOf
  <2>3. pc'[t] \in {"mark", "lock"} /\ \A s \in Threads \ {t} : pc'[s] = pc[s] /\ op'[s] = op[s]
    BY <2>1 DEF Goto, LockQueueInv, TypeOK, MonitorTypeOK
  <2>4. stage' = [s \in Threads |-> IF s = t THEN "pending" ELSE stage[s]]
    BY <2>3 DEF stage, StageOf
  <2>5. stage' = [stage EXCEPT ![t] = "pending"]
    BY <2>4 DEF stage
  <2> QED
    BY <1>1, <2>2, <2>5, LockQueueAssumption DEF Call, Abstract!Begin, Ops, Waiting, Abstract!Ops, Abstract!Waiting, Abstract!Immediate
<1>2. ASSUME NEW t \in Threads, Lock(t) PROVE UNCHANGED Abstract!vars
  BY <1>2, StageMoves DEF Lock, StageOf, LockQueueInv, StageFitsOperation, Ops, Waiting, Goto
<1>3. ASSUME NEW t \in Threads, Test(t) PROVE UNCHANGED Abstract!vars
  BY <1>3, StageMoves DEF Test, StageOf, LockQueueInv, StageFitsOperation, Waiting, Goto
<1>4. ASSUME NEW t \in Threads, Wait(t) PROVE UNCHANGED Abstract!vars
  BY <1>4, StageMoves DEF Wait, StageOf, LockQueueInv, StageFitsOperation, Waiting, Goto
<1>5. ASSUME NEW t \in Threads, Wake(t) PROVE UNCHANGED Abstract!vars
  BY <1>5, StageMoves DEF Wake, StageOf, LockQueueInv, StageFitsOperation, Waiting, Goto
<1>6. ASSUME NEW t \in Threads, SpuriousWakeup(t) PROVE UNCHANGED Abstract!vars
  BY <1>6 DEF SpuriousWakeup, stage
<1>7. ASSUME NEW t \in Threads, Throw(t) PROVE Abstract!Fail(t)
  <2>1. stage[t] = "pending" /\ stage' = [stage EXCEPT ![t] = "done"]
    BY <1>7, StageMoves DEF Throw, StageOf, Waiting
  <2> QED
    BY <1>7, <2>1 DEF Throw, Goto, LockQueueInv, StageFitsOperation, Waiting, Abstract!Fail, Abstract!TakesEffect, Abstract!Waiting
<1>8. ASSUME NEW t \in Threads, Proceed(t) PROVE Abstract!Admit(t)
  <2>1. stage[t] = "pending" /\ stage' = [stage EXCEPT ![t] = "admitted"]
    <3>1. op[t] \in Waiting
      BY <1>8 DEF Proceed, Goto, LockQueueInv, StageFitsOperation
    <3> QED
      BY <1>8, <3>1, StageMoves DEF Proceed, StageOf
  <2> QED
    BY <1>8, <2>1 DEF Proceed, Goto, LockQueueInv, StageFitsOperation, Waiting, Abstract!Admit, Abstract!Waiting
<1>9. ASSUME NEW t \in Threads, Push(t) PROVE Abstract!Push(t)
  <2>1. stage[t] = "admitted" /\ stage' = [stage EXCEPT ![t] = "done"]
    BY <1>9, StageMoves DEF Push, Body, StageOf, Waiting
  <2> QED
    BY <1>9, <2>1, LockQueueAssumption DEF Push, Body, Goto, HasRoom, LockQueueInv, TypeOK, StageFitsOperation, AdmittedOperationIsPossible, Abstract!Push, Abstract!TakesEffect
<1>10. ASSUME NEW t \in Threads, Pop(t) PROVE Abstract!Pop(t)
  <2>1. stage[t] = "admitted" /\ stage' = [stage EXCEPT ![t] = "done"]
    BY <1>10, StageMoves DEF Pop, Body, StageOf, Waiting
  <2> QED
    BY <1>10, <2>1 DEF Pop, Body, Goto, HasItem, LockQueueInv, AdmittedOperationIsPossible, Abstract!Pop, Abstract!TakesEffect
<1>11. ASSUME NEW t \in Threads, Front(t) PROVE Abstract!Front(t)
  <2>1. stage[t] = "admitted" /\ stage' = [stage EXCEPT ![t] = "done"]
    BY <1>11, StageMoves DEF Front, Body, StageOf, Waiting
  <2> QED
    BY <1>11, <2>1 DEF Front, Body, Goto, HasItem, LockQueueInv, AdmittedOperationIsPossible, Abstract!Front, Abstract!TakesEffect
<1>12. ASSUME NEW t \in Threads, ClearQueue(t) PROVE Abstract!Clear(t)
  <2>1. stage[t] = "pending" /\ stage' = [stage EXCEPT ![t] = "done"]
    BY <1>12, StageMoves DEF ClearQueue, Body, StageOf, Waiting
  <2> QED
    BY <1>12, <2>1 DEF ClearQueue, Body, Goto, LockQueueInv, TypeOK, StageFitsOperation, Abstract!Clear, Abstract!TakesEffect
<1>13. ASSUME NEW t \in Threads, GetQueueSize(t) PROVE Abstract!Size(t)
  <2>1. stage[t] = "pending" /\ stage' = [stage EXCEPT ![t] = "done"]
    BY <1>13, StageMoves DEF GetQueueSize, Body, StageOf, Waiting
  <2> QED
    BY <1>13, <2>1 DEF GetQueueSize, Body, Abstract!Size, Abstract!TakesEffect
<1>14. ASSUME NEW t \in Threads, NotifyProducer(t) PROVE UNCHANGED Abstract!vars
  BY <1>14, StageMoves DEF NotifyProducer, StageOf, Waiting
<1>15. ASSUME NEW t \in Threads, NotifyConsumer(t) PROVE UNCHANGED Abstract!vars
  BY <1>15, StageMoves DEF NotifyConsumer, StageOf, Waiting
<1>16. ASSUME NEW t \in Threads, Mark(t) PROVE Abstract!Terminate(t)
  <2>1. stage[t] = "pending" /\ stage' = [stage EXCEPT ![t] = "done"]
    BY <1>16, StageMoves DEF Mark, StageOf, Waiting
  <2> QED
    BY <1>16, <2>1 DEF Mark, Goto, LockQueueInv, TypeOK, StageFitsOperation, Abstract!Terminate, Abstract!TakesEffect
<1>17. ASSUME NEW t \in Threads, StoreVisible(t) PROVE Abstract!Close \/ UNCHANGED Abstract!vars
  <2>1. op[t] = "terminate"
    BY <1>17 DEF StoreVisible, LockQueueInv, StageFitsOperation
  <2> QED
    BY <1>17, <2>1 DEF StoreVisible, stage, Abstract!Close, LockQueueInv, TypeOK
<1>18. ASSUME NEW t \in Threads, NotifyProducers(t) PROVE UNCHANGED Abstract!vars
  BY <1>18, StageMoves DEF NotifyProducers, StageOf, Waiting, Broadcast
<1>19. ASSUME NEW t \in Threads, NotifyConsumers(t) PROVE UNCHANGED Abstract!vars
  BY <1>19, StageMoves DEF NotifyConsumers, StageOf, Waiting, Broadcast
<1>20. CASE UNCHANGED vars
  BY <1>20 DEF vars, stage
<1>21. QED
  BY <1>1, <1>2, <1>3, <1>4, <1>5, <1>6, <1>7, <1>8, <1>9, <1>10, <1>11, <1>12, <1>13, <1>14, <1>15, <1>16, <1>17, <1>18, <1>19, <1>20 DEF Next, Work, Acquire, Abstract!Next

\* Every behaviour of the program is one that BoundedQueue allows.
THEOREM LockQueueRefinesBoundedQueue == Spec => Refinement
<1>1. Init => Abstract!Init
  BY InitRefines
<1>2. LockQueueInv /\ [Next]_vars => [Abstract!Next]_(Abstract!vars)
  BY NextRefines
<1> QED
  BY <1>1, <1>2, Safety, PTL DEF Spec, Refinement, Abstract!Spec

-----------------------------------------------------------------------------
\* Nobody calls front(), which takes a notification and passes none on.
NobodyPeeks == \A t \in Threads : op[t] # "front"

\* If no thread has front() among its calls, nobody is in it.
LEMMA NobodyPeeksInv ==
    ASSUME \A t \in Threads : "front" \notin Calls[t]
    PROVE  Spec => []NobodyPeeks
<1>1. Init => NobodyPeeks
  BY DEF Init, NobodyPeeks
<1>2. TypeOK /\ NobodyPeeks /\ [Next]_vars => NobodyPeeks'
  <2> SUFFICES ASSUME TypeOK, NobodyPeeks, [Next]_vars PROVE NobodyPeeks'
    OBVIOUS
  <2>1. CASE UNCHANGED op
    BY <2>1 DEF NobodyPeeks
  <2>2. ASSUME NEW t \in Threads, Call(t) PROVE NobodyPeeks'
    BY <2>2 DEF Call, NobodyPeeks, TypeOK
  <2> QED
    BY <2>1, <2>2 DEF Next, Acquire, Work, vars, call, Lock, Test, Wait, Wake, SpuriousWakeup,
       Throw, Proceed, Push, Pop, Front, ClearQueue, GetQueueSize, Body, NotifyProducer,
       NotifyConsumer, Mark, StoreVisible, NotifyProducers, NotifyConsumers, Broadcast
<1> QED
  BY <1>1, <1>2, TypeCorrect, PTL DEF Spec

\* Without front(), every step leaves an item that someone sleeps for with a
\* thread that is on its way to it.
LEMMA NextNoStrandedConsumer ==
    LockQueueInv /\ NobodyPeeks /\ NoStrandedConsumer /\ [Next]_vars => NoStrandedConsumer'
<1> SUFFICES ASSUME LockQueueInv, NobodyPeeks, NoStrandedConsumer, [Next]_vars,
                    (~terminated /\ HasItem /\ waiters["consumer"] # {})'
             PROVE  (\E t \in Threads : ConsumerHelper(t))'
  BY DEF NoStrandedConsumer
<1> USE DEF LockQueueInv, TypeOK, MonitorTypeOK, NoStrandedConsumer, ConsumerHelper, Awake,
   Registered, Goto, HasItem, data, monitor, call
<1>1. ASSUME NEW t \in Threads, Call(t) PROVE (\E s \in Threads : ConsumerHelper(s))'
  BY <1>1 DEF Call
<1>2. ASSUME NEW t \in Threads, Lock(t) PROVE (\E s \in Threads : ConsumerHelper(s))'
  BY <1>2 DEF Lock
<1>3. ASSUME NEW t \in Threads, Test(t) PROVE (\E s \in Threads : ConsumerHelper(s))'
  BY <1>3 DEF Test
<1>4. ASSUME NEW t \in Threads, Wait(t) PROVE (\E s \in Threads : ConsumerHelper(s))'
  BY <1>4 DEF Wait, WaitsFor, Condition, PredicateIsCurrent
<1>5. ASSUME NEW t \in Threads, Wake(t) PROVE (\E s \in Threads : ConsumerHelper(s))'
  BY <1>5 DEF Wake
<1>6. ASSUME NEW t \in Threads, SpuriousWakeup(t) PROVE (\E s \in Threads : ConsumerHelper(s))'
  BY <1>6 DEF SpuriousWakeup, WakesSpuriously
<1>7. ASSUME NEW t \in Threads, Throw(t) PROVE (\E s \in Threads : ConsumerHelper(s))'
  BY <1>7 DEF Throw
<1>8. ASSUME NEW t \in Threads, Proceed(t) PROVE (\E s \in Threads : ConsumerHelper(s))'
  BY <1>8 DEF Proceed
<1>9. ASSUME NEW t \in Threads, Push(t) PROVE (\E s \in Threads : ConsumerHelper(s))'
  BY <1>9 DEF Push, Body
<1>10. ASSUME NEW t \in Threads, Pop(t) PROVE (\E s \in Threads : ConsumerHelper(s))'
  BY <1>10 DEF Pop, Body
<1>11. ASSUME NEW t \in Threads, Front(t) PROVE (\E s \in Threads : ConsumerHelper(s))'
  BY <1>11 DEF Front, Body, NobodyPeeks
<1>12. ASSUME NEW t \in Threads, ClearQueue(t) PROVE (\E s \in Threads : ConsumerHelper(s))'
  BY <1>12 DEF ClearQueue, Body
<1>13. ASSUME NEW t \in Threads, GetQueueSize(t) PROVE (\E s \in Threads : ConsumerHelper(s))'
  BY <1>13 DEF GetQueueSize, Body
<1>14. ASSUME NEW t \in Threads, NotifyProducer(t) PROVE (\E s \in Threads : ConsumerHelper(s))'
  BY <1>14 DEF NotifyProducer, NotifyOne
<1>15. ASSUME NEW t \in Threads, NotifyConsumer(t) PROVE (\E s \in Threads : ConsumerHelper(s))'
  BY <1>15 DEF NotifyConsumer, NotifyOne, WaitersAreRegisteredOnce
<1>16. ASSUME NEW t \in Threads, Mark(t) PROVE (\E s \in Threads : ConsumerHelper(s))'
  BY <1>16 DEF Mark
<1>17. ASSUME NEW t \in Threads, StoreVisible(t) PROVE (\E s \in Threads : ConsumerHelper(s))'
  BY <1>17 DEF StoreVisible
<1>18. ASSUME NEW t \in Threads, NotifyProducers(t) PROVE (\E s \in Threads : ConsumerHelper(s))'
  BY <1>18 DEF NotifyProducers, Broadcast, NotifyAll
<1>19. ASSUME NEW t \in Threads, NotifyConsumers(t) PROVE (\E s \in Threads : ConsumerHelper(s))'
  BY <1>19 DEF NotifyConsumers, Broadcast, NotifyAll
<1>20. CASE UNCHANGED vars
  BY <1>20 DEF vars
<1>21. QED
  BY <1>1, <1>2, <1>3, <1>4, <1>5, <1>6, <1>7, <1>8, <1>9, <1>10, <1>11, <1>12, <1>13, <1>14, <1>15, <1>16, <1>17, <1>18, <1>19, <1>20 DEF Next, Work, Acquire

\* Without front(), no thread is left waiting for an item that is there.
THEOREM ConsumersAreNotStranded ==
    ASSUME \A t \in Threads : "front" \notin Calls[t]
    PROVE  Spec => []NoStrandedConsumer
<1>1. Init => NoStrandedConsumer
  BY DEF Init, MonitorInit, NoStrandedConsumer
<1> QED
  BY <1>1, NextNoStrandedConsumer, NobodyPeeksInv, Safety, PTL DEF Spec

-----------------------------------------------------------------------------
\* Nobody calls clearQueue(), which makes room and notifies nobody.
NobodyClears == \A t \in Threads : op[t] # "clearQueue"

\* If no thread has clearQueue() among its calls, nobody is in it.
LEMMA NobodyClearsInv ==
    ASSUME \A t \in Threads : "clearQueue" \notin Calls[t]
    PROVE  Spec => []NobodyClears
<1>1. Init => NobodyClears
  BY DEF Init, NobodyClears
<1>2. TypeOK /\ NobodyClears /\ [Next]_vars => NobodyClears'
  <2> SUFFICES ASSUME TypeOK, NobodyClears, [Next]_vars PROVE NobodyClears'
    OBVIOUS
  <2>1. CASE UNCHANGED op
    BY <2>1 DEF NobodyClears
  <2>2. ASSUME NEW t \in Threads, Call(t) PROVE NobodyClears'
    BY <2>2 DEF Call, NobodyClears, TypeOK
  <2> QED
    BY <2>1, <2>2 DEF Next, Acquire, Work, vars, call, Lock, Test, Wait, Wake, SpuriousWakeup,
       Throw, Proceed, Push, Pop, Front, ClearQueue, GetQueueSize, Body, NotifyProducer,
       NotifyConsumer, Mark, StoreVisible, NotifyProducers, NotifyConsumers, Broadcast
<1> QED
  BY <1>1, <1>2, TypeCorrect, PTL DEF Spec

\* The threads that NoStrandedProducer counts.
Helpers == {t \in Threads : ProducerHelper(t)}

\* Without clearQueue(), a step that frees a place adds a helper, and one that
\* takes a helper away takes a place too, or leaves no producer asleep.
LEMMA NextNoStrandedProducer ==
    ASSUME IsFiniteSet(Threads)
    PROVE  LockQueueInv /\ LockQueueInv' /\ NobodyClears /\ NoStrandedProducer /\ [Next]_vars
               => NoStrandedProducer'
<1> SUFFICES ASSUME LockQueueInv, LockQueueInv', NobodyClears, NoStrandedProducer, [Next]_vars,
                    (~terminated /\ waiters["producer"] # {})'
             PROVE  MaxQueueSize - Len(queue') <= Cardinality(Helpers')
  BY DEF NoStrandedProducer, Helpers
<1> DEFINE Free == MaxQueueSize - Len(queue)
<1>a. /\ IsFiniteSet(Helpers) /\ Cardinality(Helpers) \in Nat
      /\ IsFiniteSet(Helpers') /\ Cardinality(Helpers') \in Nat
  <2>1. Helpers \subseteq Threads /\ Helpers' \subseteq Threads
    BY DEF Helpers
  <2> QED
    BY <2>1, FS_Subset, FS_CardinalityType
<1>b. /\ Len(queue) \in Nat /\ Len(queue') \in Nat /\ MaxQueueSize \in Nat
      /\ Len(queue) <= MaxQueueSize
  BY LockQueueAssumption DEF LockQueueInv, TypeOK
<1>c. waiters["producer"] # {} /\ ~terminated => Free <= Cardinality(Helpers)
  BY DEF NoStrandedProducer, Helpers
\* A step that makes no room, adds no waiter and keeps the helpers.
<1>d. ASSUME queue' = queue, waiters["producer"] # {}, ~terminated, Helpers \subseteq Helpers'
      PROVE  MaxQueueSize - Len(queue') <= Cardinality(Helpers')
  <2>1. Cardinality(Helpers) <= Cardinality(Helpers')
    BY <1>a, <1>d, FS_Subset
  <2> QED
    BY <2>1, <1>a, <1>b, <1>c, <1>d
\* A full queue has no free place to account for.
<1>e. ASSUME ~HasRoom, queue' = queue
      PROVE  MaxQueueSize - Len(queue') <= Cardinality(Helpers')
  BY <1>a, <1>b, <1>e DEF HasRoom
<1> USE DEF data, monitor, call
<1>1. ASSUME NEW t \in Threads, Call(t)
      PROVE  MaxQueueSize - Len(queue') <= Cardinality(Helpers')
  <2>1. Helpers \subseteq Helpers' /\ (waiters'["producer"] # {} => waiters["producer"] # {})
    BY <1>1 DEF Call, Helpers, ProducerHelper, Awake, Registered, Goto, LockQueueInv, TypeOK, MonitorTypeOK, StageFitsOperation, WaitersAreRegisteredOnce
  <2> QED
    BY <1>1, <2>1, <1>d DEF Call
<1>2. ASSUME NEW t \in Threads, Lock(t)
      PROVE  MaxQueueSize - Len(queue') <= Cardinality(Helpers')
  <2>1. Helpers \subseteq Helpers' /\ (waiters'["producer"] # {} => waiters["producer"] # {})
    BY <1>2 DEF Lock, Helpers, ProducerHelper, Awake, Registered, Goto, LockQueueInv, TypeOK, MonitorTypeOK, StageFitsOperation, WaitersAreRegisteredOnce
  <2> QED
    BY <1>2, <2>1, <1>d DEF Lock
<1>3. ASSUME NEW t \in Threads, Test(t)
      PROVE  MaxQueueSize - Len(queue') <= Cardinality(Helpers')
  <2>1. CASE Predicate(t)
    <3>1. Helpers \subseteq Helpers'
      BY <1>3, <2>1 DEF Test, Helpers, ProducerHelper, Awake, Registered, Goto, LockQueueInv, TypeOK, MonitorTypeOK, StageFitsOperation, WaitersAreRegisteredOnce
    <3> QED
      BY <1>3, <3>1, <1>d DEF Test
  <2>2. CASE ~Predicate(t) /\ op[t] = "push"
    BY <1>3, <2>2, <1>e DEF Test, Predicate
  <2>3. CASE op[t] # "push"
    <3>1. Helpers \subseteq Helpers'
      BY <1>3, <2>3 DEF Test, Helpers, ProducerHelper, Awake, Registered, Goto, LockQueueInv, TypeOK, MonitorTypeOK, StageFitsOperation, WaitersAreRegisteredOnce
    <3> QED
      BY <1>3, <3>1, <1>d DEF Test
  <2> QED
    BY <2>1, <2>2, <2>3
<1>4. ASSUME NEW t \in Threads, Wait(t)
      PROVE  MaxQueueSize - Len(queue') <= Cardinality(Helpers')
  <2>1. CASE op[t] = "push"
    BY <1>4, <2>1, <1>e DEF Wait, Goto, LockQueueInv, PredicateIsCurrent
  <2>2. CASE op[t] # "push"
    <3>1. Helpers \subseteq Helpers' /\ waiters'["producer"] = waiters["producer"]
      BY <1>4, <2>2 DEF Wait, WaitsFor, Condition, Helpers, ProducerHelper, Awake, Registered, Goto, LockQueueInv, TypeOK, MonitorTypeOK, StageFitsOperation, WaitersAreRegisteredOnce
    <3> QED
      BY <1>4, <3>1, <1>d DEF Wait
  <2> QED
    BY <2>1, <2>2
<1>5. ASSUME NEW t \in Threads, Wake(t)
      PROVE  MaxQueueSize - Len(queue') <= Cardinality(Helpers')
  <2>1. Helpers \subseteq Helpers' /\ (waiters'["producer"] # {} => waiters["producer"] # {})
    BY <1>5 DEF Wake, Helpers, ProducerHelper, Awake, Registered, Goto, LockQueueInv, TypeOK, MonitorTypeOK, StageFitsOperation, WaitersAreRegisteredOnce
  <2> QED
    BY <1>5, <2>1, <1>d DEF Wake
<1>6. ASSUME NEW t \in Threads, SpuriousWakeup(t)
      PROVE  MaxQueueSize - Len(queue') <= Cardinality(Helpers')
  <2>1. Helpers \subseteq Helpers' /\ (waiters'["producer"] # {} => waiters["producer"] # {})
    BY <1>6 DEF SpuriousWakeup, Helpers, ProducerHelper, Awake, Registered, Goto, LockQueueInv, TypeOK, MonitorTypeOK, StageFitsOperation, WaitersAreRegisteredOnce, WakesSpuriously
  <2> QED
    BY <1>6, <2>1, <1>d DEF SpuriousWakeup
<1>7. ASSUME NEW t \in Threads, Throw(t)
      PROVE  MaxQueueSize - Len(queue') <= Cardinality(Helpers')
  BY <1>7 DEF Throw
<1>8. ASSUME NEW t \in Threads, Proceed(t)
      PROVE  MaxQueueSize - Len(queue') <= Cardinality(Helpers')
  <2>1. Helpers \subseteq Helpers' /\ (waiters'["producer"] # {} => waiters["producer"] # {})
    BY <1>8 DEF Proceed, Helpers, ProducerHelper, Awake, Registered, Goto, LockQueueInv, TypeOK, MonitorTypeOK, StageFitsOperation, WaitersAreRegisteredOnce
  <2> QED
    BY <1>8, <2>1, <1>d DEF Proceed
<1>9. ASSUME NEW t \in Threads, Push(t)
      PROVE  MaxQueueSize - Len(queue') <= Cardinality(Helpers')
  <2>1. PushBlocking /\ HasRoom
    BY <1>9 DEF Push, Body, Goto, LockQueueInv, TypeOK, MonitorTypeOK, StageFitsOperation, WaitersAreRegisteredOnce, AdmittedOperationIsPossible
  <2>2. t \in Helpers /\ Helpers \ {t} \subseteq Helpers'
    BY <1>9 DEF Push, Body, Helpers, ProducerHelper, Awake, Registered, Goto, LockQueueInv, TypeOK, MonitorTypeOK, StageFitsOperation, WaitersAreRegisteredOnce
  <2>3. Cardinality(Helpers) - 1 <= Cardinality(Helpers')
    <3>1. Cardinality(Helpers \ {t}) = Cardinality(Helpers) - 1
      BY <2>2, <1>a, FS_RemoveElement
    <3>2. Cardinality(Helpers \ {t}) <= Cardinality(Helpers')
      BY <2>2, <1>a, FS_Subset
    <3> QED
      BY <3>1, <3>2
  <2>4. Len(queue') = Len(queue) + 1
    BY <1>9, <2>1, AppendProperties DEF Push, Body, LockQueueInv, TypeOK, StageFitsOperation
  <2>5. Free <= Cardinality(Helpers)
    BY <1>9, <1>c DEF Push, Body
  <2> QED
    BY <2>3, <2>4, <2>5, <1>a, <1>b
<1>10. ASSUME NEW t \in Threads, Pop(t)
      PROVE  MaxQueueSize - Len(queue') <= Cardinality(Helpers')
  <2>1. PushBlocking /\ HasItem
    BY <1>10 DEF Pop, Body, Goto, LockQueueInv, TypeOK, MonitorTypeOK, StageFitsOperation, WaitersAreRegisteredOnce, AdmittedOperationIsPossible
  <2>2. t \notin Helpers /\ Helpers \cup {t} \subseteq Helpers'
    BY <1>10, <2>1 DEF Pop, Body, Helpers, ProducerHelper, Awake, Registered, Goto, LockQueueInv, TypeOK, MonitorTypeOK, StageFitsOperation, WaitersAreRegisteredOnce
  <2>3. Cardinality(Helpers) + 1 <= Cardinality(Helpers')
    BY <2>2, <1>a, FS_AddElement, FS_Subset
  <2>4. Len(queue') = Len(queue) - 1
    BY <1>10, <2>1, HeadTailProperties DEF Pop, HasItem, LockQueueInv, TypeOK
  <2>5. Free <= Cardinality(Helpers)
    BY <1>10, <1>c DEF Pop, Body
  <2> QED
    BY <2>3, <2>4, <2>5, <1>a, <1>b
<1>11. ASSUME NEW t \in Threads, Front(t)
      PROVE  MaxQueueSize - Len(queue') <= Cardinality(Helpers')
  <2>1. Helpers \subseteq Helpers' /\ (waiters'["producer"] # {} => waiters["producer"] # {})
    BY <1>11 DEF Front, Helpers, ProducerHelper, Awake, Registered, Goto, LockQueueInv, TypeOK, MonitorTypeOK, StageFitsOperation, WaitersAreRegisteredOnce, Body
  <2> QED
    BY <1>11, <2>1, <1>d DEF Front, Body
<1>12. ASSUME NEW t \in Threads, ClearQueue(t)
      PROVE  MaxQueueSize - Len(queue') <= Cardinality(Helpers')
  BY <1>12 DEF ClearQueue, Body, NobodyClears
<1>13. ASSUME NEW t \in Threads, GetQueueSize(t)
      PROVE  MaxQueueSize - Len(queue') <= Cardinality(Helpers')
  <2>1. Helpers \subseteq Helpers' /\ (waiters'["producer"] # {} => waiters["producer"] # {})
    BY <1>13 DEF GetQueueSize, Helpers, ProducerHelper, Awake, Registered, Goto, LockQueueInv, TypeOK, MonitorTypeOK, StageFitsOperation, WaitersAreRegisteredOnce, Body
  <2> QED
    BY <1>13, <2>1, <1>d DEF GetQueueSize, Body
<1>14. ASSUME NEW t \in Threads, NotifyProducer(t)
      PROVE  MaxQueueSize - Len(queue') <= Cardinality(Helpers')
  <2>1. PICK w \in waiters["producer"] : waiters' = [waiters EXCEPT !["producer"] = @ \ {w}]
    BY <1>14 DEF NotifyProducer, NotifyOne, LockQueueInv, TypeOK, MonitorTypeOK
  <2>2. t \in Helpers /\ w \notin Helpers \ {t} /\ (Helpers \ {t}) \cup {w} \subseteq Helpers'
    BY <1>14, <2>1 DEF NotifyProducer, Helpers, ProducerHelper, Awake, Registered, Goto, LockQueueInv, TypeOK, MonitorTypeOK, StageFitsOperation, WaitersAreRegisteredOnce
  <2>3. /\ IsFiniteSet(Helpers \ {t})
        /\ Cardinality((Helpers \ {t}) \cup {w}) = Cardinality(Helpers)
    <3>1. IsFiniteSet(Helpers \ {t}) /\ Cardinality(Helpers \ {t}) = Cardinality(Helpers) - 1
      BY <2>2, <1>a, FS_RemoveElement
    <3>2. Cardinality((Helpers \ {t}) \cup {w}) = Cardinality(Helpers \ {t}) + 1
      BY <2>2, <3>1, FS_AddElement
    <3> QED
      BY <3>1, <3>2, <1>a
  <2>4. Cardinality(Helpers) <= Cardinality(Helpers')
    BY <2>2, <2>3, <1>a, FS_Subset
  <2> QED
    BY <1>14, <2>1, <2>4, <1>a, <1>b, <1>c DEF NotifyProducer
<1>15. ASSUME NEW t \in Threads, NotifyConsumer(t)
      PROVE  MaxQueueSize - Len(queue') <= Cardinality(Helpers')
  <2>1. Helpers \subseteq Helpers' /\ (waiters'["producer"] # {} => waiters["producer"] # {})
    BY <1>15 DEF NotifyConsumer, Helpers, ProducerHelper, Awake, Registered, Goto, LockQueueInv, TypeOK, MonitorTypeOK, StageFitsOperation, WaitersAreRegisteredOnce, NotifyOne
  <2> QED
    BY <1>15, <2>1, <1>d DEF NotifyConsumer
<1>16. ASSUME NEW t \in Threads, Mark(t)
      PROVE  MaxQueueSize - Len(queue') <= Cardinality(Helpers')
  <2>1. Helpers \subseteq Helpers' /\ (waiters'["producer"] # {} => waiters["producer"] # {})
    BY <1>16 DEF Mark, Helpers, ProducerHelper, Awake, Registered, Goto, LockQueueInv, TypeOK, MonitorTypeOK, StageFitsOperation, WaitersAreRegisteredOnce
  <2> QED
    BY <1>16, <2>1, <1>d DEF Mark
<1>17. ASSUME NEW t \in Threads, StoreVisible(t)
      PROVE  MaxQueueSize - Len(queue') <= Cardinality(Helpers')
  BY <1>17 DEF StoreVisible
<1>18. ASSUME NEW t \in Threads, NotifyProducers(t)
      PROVE  MaxQueueSize - Len(queue') <= Cardinality(Helpers')
  BY <1>18 DEF NotifyProducers, Broadcast, NotifyAll, LockQueueInv, TypeOK, MonitorTypeOK
<1>19. ASSUME NEW t \in Threads, NotifyConsumers(t)
      PROVE  MaxQueueSize - Len(queue') <= Cardinality(Helpers')
  <2>1. Helpers \subseteq Helpers' /\ (waiters'["producer"] # {} => waiters["producer"] # {})
    BY <1>19 DEF NotifyConsumers, Helpers, ProducerHelper, Awake, Registered, Goto, LockQueueInv, TypeOK, MonitorTypeOK, StageFitsOperation, WaitersAreRegisteredOnce, Broadcast, NotifyAll
  <2> QED
    BY <1>19, <2>1, <1>d DEF NotifyConsumers, Broadcast
<1>20. CASE UNCHANGED vars
  <2>1. Helpers' = Helpers
    BY <1>20 DEF vars, Helpers, ProducerHelper, Awake, Registered
  <2> QED
    BY <1>20, <2>1, <1>d DEF vars
<1>21. QED
  BY <1>1, <1>2, <1>3, <1>4, <1>5, <1>6, <1>7, <1>8, <1>9, <1>10, <1>11, <1>12, <1>13, <1>14, <1>15, <1>16, <1>17, <1>18, <1>19, <1>20 DEF Next, Work, Acquire

\* Without clearQueue(), every free place is accounted for: no producer is left
\* waiting for a place that nobody is on the way to use or to announce.
THEOREM ProducersAreNotStranded ==
    ASSUME IsFiniteSet(Threads), \A t \in Threads : "clearQueue" \notin Calls[t]
    PROVE  Spec => []NoStrandedProducer
<1>1. Init => NoStrandedProducer
  BY DEF Init, MonitorInit, NoStrandedProducer
<1>2. LockQueueInv /\ LockQueueInv' /\ NobodyClears /\ NoStrandedProducer /\ [Next]_vars
        => NoStrandedProducer'
  BY NextNoStrandedProducer
<1> QED
  BY <1>1, <1>2, NobodyClearsInv, Safety, PTL DEF Spec
=============================================================================
