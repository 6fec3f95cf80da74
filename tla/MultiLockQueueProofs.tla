------------------------ MODULE MultiLockQueueProofs ------------------------
(***************************************************************************)
(* That MultiLockQueue keeps its promises, for every set of threads, keys  *)
(* and items, every capacity and every assignment of calls to threads: the *)
(* inductive invariant MultiLockQueueInv, one lemma for each of its parts, *)
(* the wake-up of a thread that waits alone, and the refinement of         *)
(* KeyedQueues, one step for each action.                                  *)
(***************************************************************************)
EXTENDS MultiLockQueue, SequenceTheorems, FiniteSetTheorems, TLAPS

\* A new object satisfies the invariant.
LEMMA InitInv == Init => MultiLockQueueInv
<1> SUFFICES ASSUME Init PROVE MultiLockQueueInv
  OBVIOUS
<1>1. QueuesTyped
  BY MultiLockQueueAssumption DEF Init, QueuesTyped
<1>2. CallsTyped
  BY DEF Init, CallsTyped, Arguments, Results, KeyOps, Ops
<1>3. terminated \in BOOLEAN /\ storing \subseteq Threads /\ MonitorTypeOK(Stages)
  BY DEF Init, MonitorInit, MonitorTypeOK, Stages
<1>4. /\ MutualExclusion /\ StageFitsOperation /\ PredicateIsCurrent
      /\ PromiseHolds /\ OnlySleepersAreRegistered
  BY MultiLockQueueAssumption DEF Init, MonitorInit, MutualExclusion, Holds, StageFitsOperation,
     PredicateIsCurrent, PromiseHolds, OnlySleepersAreRegistered
<1> QED
  BY <1>1, <1>2, <1>3, <1>4, Zenon DEF MultiLockQueueInv, TypeOK

\* What peekReady(lock) and popReady(lock) return is a map from keys to items.
LEMMA FrontsTyped == QueuesTyped => Fronts \in Maps
<1> SUFFICES ASSUME QueuesTyped PROVE Fronts \in Maps
  OBVIOUS
<1>1. Ready \subseteq Keys
  BY DEF QueuesTyped, Ready
<1>2. \A k \in Ready : Head(queues[k]) \in Items
  BY HeadTailProperties DEF QueuesTyped, Ready
<1>3. Fronts \in [Ready -> Items]
  BY <1>2 DEF Fronts
<1> QED
  BY <1>1, <1>3 DEF Maps

\* A queue holds items, within its capacity, whatever is pushed, popped, added
\* or removed.
LEMMA NextQueuesTyped == TypeOK /\ [Next]_vars => QueuesTyped'
<1> SUFFICES ASSUME TypeOK, [Next]_vars PROVE QueuesTyped'
  OBVIOUS
<1> USE MultiLockQueueAssumption DEF Goto, data, monitor, call, Acquires, Releases, TypeOK,
   QueuesTyped, CallsTyped
<1>1. ASSUME NEW t \in Threads, Call(t) PROVE QueuesTyped'
  BY <1>1 DEF Call
<1>2. ASSUME NEW t \in Threads, Glance(t) PROVE QueuesTyped'
  BY <1>2 DEF Glance
<1>3. ASSUME NEW t \in Threads, ThrowAtOnce(t) PROVE QueuesTyped'
  BY <1>3 DEF ThrowAtOnce
<1>4. ASSUME NEW t \in Threads, Lock(t) PROVE QueuesTyped'
  BY <1>4 DEF Lock
<1>5. ASSUME NEW t \in Threads, Test(t) PROVE QueuesTyped'
  BY <1>5 DEF Test
<1>6. ASSUME NEW t \in Threads, Wait(t) PROVE QueuesTyped'
  BY <1>6 DEF Wait, WaitsFor
<1>7. ASSUME NEW t \in Threads, Wake(t) PROVE QueuesTyped'
  BY <1>7 DEF Wake
<1>8. ASSUME NEW t \in Threads, SpuriousWakeup(t) PROVE QueuesTyped'
  BY <1>8 DEF SpuriousWakeup, WakesSpuriously
<1>9. ASSUME NEW t \in Threads, Throw(t) PROVE QueuesTyped'
  BY <1>9 DEF Throw
<1>10. ASSUME NEW t \in Threads, Proceed(t) PROVE QueuesTyped'
  BY <1>10 DEF Proceed
<1>11. ASSUME NEW t \in Threads, Push(t) PROVE QueuesTyped'
  <2> DEFINE key == arg[t][1]
             old == IF key \in DOMAIN queues THEN queues[key] ELSE <<>>
             room == IF Len(old) >= MaxQueueSize THEN Tail(old) ELSE old
             new == Append(room, arg[t][2])
  <2>1. key \in Keys /\ arg[t][2] \in Items
    BY <1>11 DEF Push, Body, Arguments
  <2>2. old \in Seq(Items) /\ Len(old) <= MaxQueueSize
    OBVIOUS
  <2>3. room \in Seq(Items) /\ Len(room) < MaxQueueSize
    BY <2>2, HeadTailProperties
  <2>4. new \in Seq(Items) /\ Len(new) <= MaxQueueSize
    BY <2>1, <2>3, AppendProperties
  <2>5. queues' = [k \in DOMAIN queues \cup {key} |-> IF k = key THEN new ELSE queues[k]]
    BY <1>11, Zenon DEF Push
  <2> HIDE DEF key, new
  <2> QED
    BY <2>1, <2>4, <2>5
<1>12. ASSUME NEW t \in Threads, Peek(t) PROVE QueuesTyped'
  BY <1>12 DEF Peek, Body, Returns
<1>13. ASSUME NEW t \in Threads, Pop(t) PROVE QueuesTyped'
  <2>1. \A k \in Ready : Tail(queues[k]) \in Seq(Items) /\ Len(Tail(queues[k])) <= MaxQueueSize
    BY HeadTailProperties DEF Ready
  <2> QED
    BY <1>13, <2>1 DEF Pop
<1>14. ASSUME NEW t \in Threads, Clear(t) PROVE QueuesTyped'
  BY <1>14 DEF Clear, Body
<1>15. ASSUME NEW t \in Threads, AddQueue(t) PROVE QueuesTyped'
  <2>1. arg[t] \in Keys
    BY <1>15 DEF AddQueue, Body, Arguments, KeyOps
  <2>2. queues' = [k \in DOMAIN queues \cup {arg[t]} |->
                  IF k \in DOMAIN queues THEN queues[k] ELSE <<>>]
    BY <1>15, Zenon DEF AddQueue
  <2> QED
    BY <2>1, <2>2
<1>16. ASSUME NEW t \in Threads, RemoveQueue(t) PROVE QueuesTyped'
  BY <1>16 DEF RemoveQueue, Body
<1>17. ASSUME NEW t \in Threads, RemoveAllQueues(t) PROVE QueuesTyped'
  BY <1>17 DEF RemoveAllQueues, Body
<1>18. ASSUME NEW t \in Threads, Query(t) PROVE QueuesTyped'
  BY <1>18 DEF Query, Body, Returns
<1>19. ASSUME NEW t \in Threads, Notify(t) PROVE QueuesTyped'
  BY <1>19 DEF Notify, NotifyOne
<1>20. ASSUME NEW t \in Threads, Mark(t) PROVE QueuesTyped'
  BY <1>20 DEF Mark
<1>21. ASSUME NEW t \in Threads, StoreVisible(t) PROVE QueuesTyped'
  BY <1>21 DEF StoreVisible
<1>22. ASSUME NEW t \in Threads, Broadcast(t) PROVE QueuesTyped'
  BY <1>22 DEF Broadcast, NotifyAll
<1>23. CASE UNCHANGED vars
  BY <1>23 DEF vars
<1> QED
  BY <1>1, <1>2, <1>3, <1>4, <1>5, <1>6, <1>7, <1>8, <1>9, <1>10, <1>11, <1>12, <1>13, <1>14,
     <1>15, <1>16, <1>17, <1>18, <1>19, <1>20, <1>21, <1>22, <1>23
     DEF Next, Work, Acquire

\* The mutex, the waiters and the stages keep their types.
LEMMA NextMonitor == TypeOK /\ [Next]_vars => MonitorTypeOK(Stages)'
<1> SUFFICES ASSUME TypeOK, [Next]_vars PROVE MonitorTypeOK(Stages)'
  OBVIOUS
<1> USE MultiLockQueueAssumption DEF Goto, data, monitor, call, Acquires, Releases, TypeOK,
   MonitorTypeOK, Stages
<1>1. ASSUME NEW t \in Threads, Call(t) PROVE MonitorTypeOK(Stages)'
  BY <1>1 DEF Call
<1>2. ASSUME NEW t \in Threads, Glance(t) PROVE MonitorTypeOK(Stages)'
  BY <1>2 DEF Glance
<1>3. ASSUME NEW t \in Threads, ThrowAtOnce(t) PROVE MonitorTypeOK(Stages)'
  BY <1>3 DEF ThrowAtOnce
<1>4. ASSUME NEW t \in Threads, Lock(t) PROVE MonitorTypeOK(Stages)'
  BY <1>4 DEF Lock
<1>5. ASSUME NEW t \in Threads, Test(t) PROVE MonitorTypeOK(Stages)'
  BY <1>5 DEF Test
<1>6. ASSUME NEW t \in Threads, Wait(t) PROVE MonitorTypeOK(Stages)'
  BY <1>6 DEF Wait, WaitsFor
<1>7. ASSUME NEW t \in Threads, Wake(t) PROVE MonitorTypeOK(Stages)'
  BY <1>7 DEF Wake
<1>8. ASSUME NEW t \in Threads, SpuriousWakeup(t) PROVE MonitorTypeOK(Stages)'
  BY <1>8 DEF SpuriousWakeup, WakesSpuriously
<1>9. ASSUME NEW t \in Threads, Throw(t) PROVE MonitorTypeOK(Stages)'
  BY <1>9 DEF Throw
<1>10. ASSUME NEW t \in Threads, Proceed(t) PROVE MonitorTypeOK(Stages)'
  BY <1>10 DEF Proceed
<1>11. ASSUME NEW t \in Threads, Push(t) PROVE MonitorTypeOK(Stages)'
  BY <1>11 DEF Push, Body
<1>12. ASSUME NEW t \in Threads, Peek(t) PROVE MonitorTypeOK(Stages)'
  BY <1>12 DEF Peek, Body, Returns
<1>13. ASSUME NEW t \in Threads, Pop(t) PROVE MonitorTypeOK(Stages)'
  BY <1>13 DEF Pop, Body, Returns
<1>14. ASSUME NEW t \in Threads, Clear(t) PROVE MonitorTypeOK(Stages)'
  BY <1>14 DEF Clear, Body
<1>15. ASSUME NEW t \in Threads, AddQueue(t) PROVE MonitorTypeOK(Stages)'
  BY <1>15 DEF AddQueue, Body
<1>16. ASSUME NEW t \in Threads, RemoveQueue(t) PROVE MonitorTypeOK(Stages)'
  BY <1>16 DEF RemoveQueue, Body
<1>17. ASSUME NEW t \in Threads, RemoveAllQueues(t) PROVE MonitorTypeOK(Stages)'
  BY <1>17 DEF RemoveAllQueues, Body
<1>18. ASSUME NEW t \in Threads, Query(t) PROVE MonitorTypeOK(Stages)'
  BY <1>18 DEF Query, Body, Returns
<1>19. ASSUME NEW t \in Threads, Notify(t) PROVE MonitorTypeOK(Stages)'
  BY <1>19 DEF Notify, NotifyOne
<1>20. ASSUME NEW t \in Threads, Mark(t) PROVE MonitorTypeOK(Stages)'
  BY <1>20 DEF Mark
<1>21. ASSUME NEW t \in Threads, StoreVisible(t) PROVE MonitorTypeOK(Stages)'
  BY <1>21 DEF StoreVisible
<1>22. ASSUME NEW t \in Threads, Broadcast(t) PROVE MonitorTypeOK(Stages)'
  BY <1>22 DEF Broadcast, NotifyAll
<1>23. CASE UNCHANGED vars
  BY <1>23 DEF vars
<1> QED
  BY <1>1, <1>2, <1>3, <1>4, <1>5, <1>6, <1>7, <1>8, <1>9, <1>10, <1>11, <1>12, <1>13, <1>14,
     <1>15, <1>16, <1>17, <1>18, <1>19, <1>20, <1>21, <1>22, <1>23
     DEF Next, Work, Acquire

\* A call has the arguments and the kind of result of its operation.
LEMMA NextCalls == TypeOK /\ [Next]_vars => CallsTyped'
<1> SUFFICES ASSUME TypeOK, [Next]_vars PROVE CallsTyped'
  OBVIOUS
<1> USE MultiLockQueueAssumption DEF Goto, data, monitor, call, Acquires, Releases, TypeOK,
   CallsTyped, Arguments, Results, ReadyOps, AnyOps, AllOps, KeyOps, Pops, Ops
<1>1. ASSUME NEW t \in Threads, Call(t) PROVE CallsTyped'
  <2>a. PICK o \in Calls[t] : /\ op' = [op EXCEPT ![t] = o]
                              /\ \E x \in Arguments(o) : arg' = [arg EXCEPT ![t] = x]
    BY <1>1 DEF Call
  <2>1. PICK x \in Arguments(o) : op' = [op EXCEPT ![t] = o] /\ arg' = [arg EXCEPT ![t] = x]
    BY <2>a
  <2>2. result' = [result EXCEPT ![t] = None]
    BY <1>1 DEF Call
  <2>3. o \in Ops
    BY <2>1
  <2>4. op' \in [Threads -> Ops \cup {"none"}]
    BY <2>1, <2>3
  <2>5. arg' = [s \in Threads |-> arg'[s]] /\ result' = [s \in Threads |-> result'[s]]
    BY <2>1, <2>2
  <2>6. ASSUME NEW s \in Threads PROVE arg'[s] \in Arguments(op'[s]) /\ result'[s] \in Results(op'[s])
    BY <2>1, <2>2
  <2> QED
    BY <2>4, <2>5, <2>6
<1>2. ASSUME NEW t \in Threads, Glance(t) PROVE CallsTyped'
  BY <1>2 DEF Glance
<1>3. ASSUME NEW t \in Threads, ThrowAtOnce(t) PROVE CallsTyped'
  BY <1>3 DEF ThrowAtOnce
<1>4. ASSUME NEW t \in Threads, Lock(t) PROVE CallsTyped'
  BY <1>4 DEF Lock
<1>5. ASSUME NEW t \in Threads, Test(t) PROVE CallsTyped'
  BY <1>5 DEF Test
<1>6. ASSUME NEW t \in Threads, Wait(t) PROVE CallsTyped'
  BY <1>6 DEF Wait, WaitsFor
<1>7. ASSUME NEW t \in Threads, Wake(t) PROVE CallsTyped'
  BY <1>7 DEF Wake
<1>8. ASSUME NEW t \in Threads, SpuriousWakeup(t) PROVE CallsTyped'
  BY <1>8 DEF SpuriousWakeup, WakesSpuriously
<1>9. ASSUME NEW t \in Threads, Throw(t) PROVE CallsTyped'
  BY <1>9 DEF Throw
<1>10. ASSUME NEW t \in Threads, Proceed(t) PROVE CallsTyped'
  BY <1>10 DEF Proceed
<1>11. ASSUME NEW t \in Threads, Push(t) PROVE CallsTyped'
  BY <1>11 DEF Push, Body
<1>12. ASSUME NEW t \in Threads, Peek(t) PROVE CallsTyped'
  <2>1. Fronts \in Maps
    BY FrontsTyped
  <2>2. /\ op[t] \in ReadyOps \cup AnyOps \cup AllOps
        /\ result' = [result EXCEPT ![t] = Fronts] /\ UNCHANGED <<op, arg>>
    BY <1>12 DEF Peek, Body, Returns, Pops, ReadyOps, AnyOps, AllOps
  <2>3. Results(op[t]) = {None, Terminated} \cup Maps
    BY <2>2
  <2> QED
    BY <2>1, <2>2, <2>3
<1>13. ASSUME NEW t \in Threads, Pop(t) PROVE CallsTyped'
  <2>1. Fronts \in Maps
    BY FrontsTyped
  <2>2. /\ op[t] \in ReadyOps \cup AnyOps \cup AllOps
        /\ result' = [result EXCEPT ![t] = Fronts] /\ UNCHANGED <<op, arg>>
    BY <1>13 DEF Pop, Body, Returns, Pops, ReadyOps, AnyOps, AllOps
  <2>3. Results(op[t]) = {None, Terminated} \cup Maps
    BY <2>2
  <2> QED
    BY <2>1, <2>2, <2>3
<1>14. ASSUME NEW t \in Threads, Clear(t) PROVE CallsTyped'
  BY <1>14 DEF Clear, Body
<1>15. ASSUME NEW t \in Threads, AddQueue(t) PROVE CallsTyped'
  BY <1>15 DEF AddQueue, Body
<1>16. ASSUME NEW t \in Threads, RemoveQueue(t) PROVE CallsTyped'
  BY <1>16 DEF RemoveQueue, Body
<1>17. ASSUME NEW t \in Threads, RemoveAllQueues(t) PROVE CallsTyped'
  BY <1>17 DEF RemoveAllQueues, Body
<1>18. ASSUME NEW t \in Threads, Query(t) PROVE CallsTyped'
  <2>1. Cardinality(DOMAIN queues) \in 0..Cardinality(Keys)
    BY FS_Subset, FS_CardinalityType DEF QueuesTyped
  <2>2. HasAny \in BOOLEAN /\ HasAll \in BOOLEAN
    BY DEF HasAny, HasAll
  <2> QED
    BY <1>18, <2>1, <2>2 DEF Query, Body, Returns
<1>19. ASSUME NEW t \in Threads, Notify(t) PROVE CallsTyped'
  BY <1>19 DEF Notify, NotifyOne
<1>20. ASSUME NEW t \in Threads, Mark(t) PROVE CallsTyped'
  BY <1>20 DEF Mark
<1>21. ASSUME NEW t \in Threads, StoreVisible(t) PROVE CallsTyped'
  BY <1>21 DEF StoreVisible
<1>22. ASSUME NEW t \in Threads, Broadcast(t) PROVE CallsTyped'
  BY <1>22 DEF Broadcast, NotifyAll
<1>23. CASE UNCHANGED vars
  BY <1>23 DEF vars
<1> QED
  BY <1>1, <1>2, <1>3, <1>4, <1>5, <1>6, <1>7, <1>8, <1>9, <1>10, <1>11, <1>12, <1>13, <1>14,
     <1>15, <1>16, <1>17, <1>18, <1>19, <1>20, <1>21, <1>22, <1>23
     DEF Next, Work, Acquire

\* A step takes the mutex only when it is free, and gives it up when it leaves.
LEMMA NextMutex == MultiLockQueueInv /\ [Next]_vars => MutualExclusion'
<1> SUFFICES ASSUME MultiLockQueueInv, [Next]_vars PROVE MutualExclusion'
  OBVIOUS
<1> USE MultiLockQueueAssumption DEF Goto, data, monitor, call, Acquires, Releases,
   MultiLockQueueInv, TypeOK, MonitorTypeOK, MutualExclusion, Holds, OnlySleepersAreRegistered,
   Registered
<1>1. ASSUME NEW t \in Threads, Call(t) PROVE MutualExclusion'
  BY <1>1 DEF Call
<1>2. ASSUME NEW t \in Threads, Glance(t) PROVE MutualExclusion'
  BY <1>2 DEF Glance
<1>3. ASSUME NEW t \in Threads, ThrowAtOnce(t) PROVE MutualExclusion'
  BY <1>3 DEF ThrowAtOnce
<1>4. ASSUME NEW t \in Threads, Lock(t) PROVE MutualExclusion'
  BY <1>4 DEF Lock
<1>5. ASSUME NEW t \in Threads, Test(t) PROVE MutualExclusion'
  BY <1>5 DEF Test
<1>6. ASSUME NEW t \in Threads, Wait(t) PROVE MutualExclusion'
  BY <1>6 DEF Wait, WaitsFor
<1>7. ASSUME NEW t \in Threads, Wake(t) PROVE MutualExclusion'
  BY <1>7 DEF Wake
<1>8. ASSUME NEW t \in Threads, SpuriousWakeup(t) PROVE MutualExclusion'
  BY <1>8 DEF SpuriousWakeup, WakesSpuriously
<1>9. ASSUME NEW t \in Threads, Throw(t) PROVE MutualExclusion'
  BY <1>9 DEF Throw
<1>10. ASSUME NEW t \in Threads, Proceed(t) PROVE MutualExclusion'
  BY <1>10 DEF Proceed
<1>11. ASSUME NEW t \in Threads, Push(t) PROVE MutualExclusion'
  BY <1>11 DEF Push, Body
<1>12. ASSUME NEW t \in Threads, Peek(t) PROVE MutualExclusion'
  BY <1>12 DEF Peek, Body, Returns
<1>13. ASSUME NEW t \in Threads, Pop(t) PROVE MutualExclusion'
  BY <1>13 DEF Pop, Body, Returns
<1>14. ASSUME NEW t \in Threads, Clear(t) PROVE MutualExclusion'
  BY <1>14 DEF Clear, Body
<1>15. ASSUME NEW t \in Threads, AddQueue(t) PROVE MutualExclusion'
  BY <1>15 DEF AddQueue, Body
<1>16. ASSUME NEW t \in Threads, RemoveQueue(t) PROVE MutualExclusion'
  BY <1>16 DEF RemoveQueue, Body
<1>17. ASSUME NEW t \in Threads, RemoveAllQueues(t) PROVE MutualExclusion'
  BY <1>17 DEF RemoveAllQueues, Body
<1>18. ASSUME NEW t \in Threads, Query(t) PROVE MutualExclusion'
  BY <1>18 DEF Query, Body, Returns
<1>19. ASSUME NEW t \in Threads, Notify(t) PROVE MutualExclusion'
  BY <1>19 DEF Notify, NotifyOne
<1>20. ASSUME NEW t \in Threads, Mark(t) PROVE MutualExclusion'
  BY <1>20 DEF Mark
<1>21. ASSUME NEW t \in Threads, StoreVisible(t) PROVE MutualExclusion'
  BY <1>21 DEF StoreVisible
<1>22. ASSUME NEW t \in Threads, Broadcast(t) PROVE MutualExclusion'
  BY <1>22 DEF Broadcast, NotifyAll
<1>23. CASE UNCHANGED vars
  BY <1>23 DEF vars
<1> QED
  BY <1>1, <1>2, <1>3, <1>4, <1>5, <1>6, <1>7, <1>8, <1>9, <1>10, <1>11, <1>12, <1>13, <1>14,
     <1>15, <1>16, <1>17, <1>18, <1>19, <1>20, <1>21, <1>22, <1>23
     DEF Next, Work, Acquire

\* A step takes a call to a stage that its operation has.
LEMMA NextStage == MultiLockQueueInv /\ [Next]_vars => StageFitsOperation'
<1> SUFFICES ASSUME MultiLockQueueInv, [Next]_vars PROVE StageFitsOperation'
  OBVIOUS
<1> USE MultiLockQueueAssumption DEF Goto, data, monitor, call, Acquires, Releases,
   MultiLockQueueInv, TypeOK, MonitorTypeOK, CallsTyped, StageFitsOperation, ReadyOps, AnyOps,
   AllOps, KeyOps, Pops, Ops, Stages
<1>1. ASSUME NEW t \in Threads, Call(t) PROVE StageFitsOperation'
  BY <1>1 DEF Call
<1>2. ASSUME NEW t \in Threads, Glance(t) PROVE StageFitsOperation'
  BY <1>2 DEF Glance
<1>3. ASSUME NEW t \in Threads, ThrowAtOnce(t) PROVE StageFitsOperation'
  BY <1>3 DEF ThrowAtOnce
<1>4. ASSUME NEW t \in Threads, Lock(t) PROVE StageFitsOperation'
  BY <1>4 DEF Lock
<1>5. ASSUME NEW t \in Threads, Test(t) PROVE StageFitsOperation'
  BY <1>5 DEF Test
<1>6. ASSUME NEW t \in Threads, Wait(t) PROVE StageFitsOperation'
  BY <1>6 DEF Wait, WaitsFor
<1>7. ASSUME NEW t \in Threads, Wake(t) PROVE StageFitsOperation'
  BY <1>7 DEF Wake
<1>8. ASSUME NEW t \in Threads, SpuriousWakeup(t) PROVE StageFitsOperation'
  BY <1>8 DEF SpuriousWakeup, WakesSpuriously
<1>9. ASSUME NEW t \in Threads, Throw(t) PROVE StageFitsOperation'
  BY <1>9 DEF Throw
<1>10. ASSUME NEW t \in Threads, Proceed(t) PROVE StageFitsOperation'
  BY <1>10 DEF Proceed
<1>11. ASSUME NEW t \in Threads, Push(t) PROVE StageFitsOperation'
  BY <1>11 DEF Push, Body
<1>12. ASSUME NEW t \in Threads, Peek(t) PROVE StageFitsOperation'
  BY <1>12 DEF Peek, Body, Returns
<1>13. ASSUME NEW t \in Threads, Pop(t) PROVE StageFitsOperation'
  BY <1>13 DEF Pop, Body, Returns
<1>14. ASSUME NEW t \in Threads, Clear(t) PROVE StageFitsOperation'
  BY <1>14 DEF Clear, Body
<1>15. ASSUME NEW t \in Threads, AddQueue(t) PROVE StageFitsOperation'
  BY <1>15 DEF AddQueue, Body
<1>16. ASSUME NEW t \in Threads, RemoveQueue(t) PROVE StageFitsOperation'
  BY <1>16 DEF RemoveQueue, Body
<1>17. ASSUME NEW t \in Threads, RemoveAllQueues(t) PROVE StageFitsOperation'
  BY <1>17 DEF RemoveAllQueues, Body
<1>18. ASSUME NEW t \in Threads, Query(t) PROVE StageFitsOperation'
  BY <1>18 DEF Query, Body, Returns
<1>19. ASSUME NEW t \in Threads, Notify(t) PROVE StageFitsOperation'
  BY <1>19 DEF Notify, NotifyOne
<1>20. ASSUME NEW t \in Threads, Mark(t) PROVE StageFitsOperation'
  BY <1>20 DEF Mark
<1>21. ASSUME NEW t \in Threads, StoreVisible(t) PROVE StageFitsOperation'
  BY <1>21 DEF StoreVisible
<1>22. ASSUME NEW t \in Threads, Broadcast(t) PROVE StageFitsOperation'
  BY <1>22 DEF Broadcast, NotifyAll
<1>23. CASE UNCHANGED vars
  BY <1>23 DEF vars
<1> QED
  BY <1>1, <1>2, <1>3, <1>4, <1>5, <1>6, <1>7, <1>8, <1>9, <1>10, <1>11, <1>12, <1>13, <1>14,
     <1>15, <1>16, <1>17, <1>18, <1>19, <1>20, <1>21, <1>22, <1>23
     DEF Next, Work, Acquire

\* A step that leaves the queues and the flag alone, and takes nobody to a stage
\* that has just tested its predicate, leaves the others' predicates as they are.
LEMMA StillCurrent ==
    ASSUME MultiLockQueueInv, UNCHANGED <<queues, terminated>>,
           NEW t \in Threads, pc'[t] \notin {"check", "wait"},
           \A s \in Threads \ {t} : pc'[s] = pc[s] /\ op'[s] = op[s]
    PROVE  PredicateIsCurrent'
<1>1. PredicateIsCurrent
  BY DEF MultiLockQueueInv
<1>2. Ready' = Ready /\ DOMAIN queues' = DOMAIN queues
  BY DEF Ready
<1>3. (HasAny' <=> HasAny) /\ (HasAll' <=> HasAll)
  BY <1>2 DEF HasAny, HasAll
<1>4. ASSUME NEW s \in Threads
      PROVE  /\ pc'[s] = "check" => Predicate(s)'
             /\ pc'[s] = "wait" => IF op'[s] \in AnyOps THEN ~HasAny' ELSE ~HasAll'
  <2>1. CASE s = t
    BY <2>1
  <2>2. CASE s # t
    <3>1. Predicate(s)' <=> Predicate(s)
      BY <2>2, <1>3 DEF Predicate
    <3> QED
      BY <2>2, <3>1, <1>1, <1>3 DEF PredicateIsCurrent
  <2> QED
    BY <2>1, <2>2
<1> QED
  BY <1>4 DEF PredicateIsCurrent

\* Nobody changes the queues between the test of a predicate and what follows it:
\* the tester holds the mutex, and terminated_ only makes the predicate true.
LEMMA NextCurrent == MultiLockQueueInv /\ [Next]_vars => PredicateIsCurrent'
<1> SUFFICES ASSUME MultiLockQueueInv, [Next]_vars PROVE PredicateIsCurrent'
  OBVIOUS
<1>t. pc \in [Threads -> Stages] /\ op \in [Threads -> Ops \cup {"none"}]
  BY DEF MultiLockQueueInv, TypeOK, MonitorTypeOK, CallsTyped
<1>1. ASSUME NEW t \in Threads, Call(t) PROVE PredicateIsCurrent'
  BY <1>1, <1>t, StillCurrent DEF Call, Goto, data
<1>2. ASSUME NEW t \in Threads, Glance(t) PROVE PredicateIsCurrent'
  BY <1>2, <1>t, StillCurrent DEF Glance, Goto, data, call
<1>3. ASSUME NEW t \in Threads, ThrowAtOnce(t) PROVE PredicateIsCurrent'
  BY <1>3, <1>t, StillCurrent DEF ThrowAtOnce, Goto, data
<1>4. ASSUME NEW t \in Threads, Lock(t) PROVE PredicateIsCurrent'
  BY <1>4, <1>t, StillCurrent DEF Lock, Goto, data, call
<1>7. ASSUME NEW t \in Threads, Wake(t) PROVE PredicateIsCurrent'
  BY <1>7, <1>t, StillCurrent DEF Wake, Goto, data, call
<1>9. ASSUME NEW t \in Threads, Throw(t) PROVE PredicateIsCurrent'
  BY <1>9, <1>t, StillCurrent DEF Throw, Goto, data
<1>10. ASSUME NEW t \in Threads, Proceed(t) PROVE PredicateIsCurrent'
  BY <1>10, <1>t, StillCurrent DEF Proceed, Goto, data, call
<1>19. ASSUME NEW t \in Threads, Notify(t) PROVE PredicateIsCurrent'
  BY <1>19, <1>t, StillCurrent DEF Notify, Goto, data, call
<1>20. ASSUME NEW t \in Threads, Mark(t) PROVE PredicateIsCurrent'
  BY <1>20, <1>t, StillCurrent DEF Mark, Goto, call
<1>22. ASSUME NEW t \in Threads, Broadcast(t) PROVE PredicateIsCurrent'
  BY <1>22, <1>t, StillCurrent DEF Broadcast, Goto, data, call
<1> USE MultiLockQueueAssumption DEF Goto, data, monitor, call, Acquires, Releases,
   MultiLockQueueInv, TypeOK, MonitorTypeOK, CallsTyped, MutualExclusion, Holds,
   PredicateIsCurrent, Predicate, Ready, HasAny, HasAll, StageFitsOperation
<1>5. ASSUME NEW t \in Threads, Test(t) PROVE PredicateIsCurrent'
  BY <1>5 DEF Test
<1>6. ASSUME NEW t \in Threads, Wait(t) PROVE PredicateIsCurrent'
  BY <1>6 DEF Wait, WaitsFor
<1>8. ASSUME NEW t \in Threads, SpuriousWakeup(t) PROVE PredicateIsCurrent'
  BY <1>8 DEF SpuriousWakeup, WakesSpuriously
<1>11. ASSUME NEW t \in Threads, Push(t) PROVE PredicateIsCurrent'
  BY <1>11 DEF Push, Body
<1>12. ASSUME NEW t \in Threads, Peek(t) PROVE PredicateIsCurrent'
  BY <1>12 DEF Peek, Body, Returns
<1>13. ASSUME NEW t \in Threads, Pop(t) PROVE PredicateIsCurrent'
  BY <1>13 DEF Pop, Body, Returns
<1>14. ASSUME NEW t \in Threads, Clear(t) PROVE PredicateIsCurrent'
  BY <1>14 DEF Clear, Body
<1>15. ASSUME NEW t \in Threads, AddQueue(t) PROVE PredicateIsCurrent'
  BY <1>15 DEF AddQueue, Body
<1>16. ASSUME NEW t \in Threads, RemoveQueue(t) PROVE PredicateIsCurrent'
  BY <1>16 DEF RemoveQueue, Body
<1>17. ASSUME NEW t \in Threads, RemoveAllQueues(t) PROVE PredicateIsCurrent'
  BY <1>17 DEF RemoveAllQueues, Body
<1>18. ASSUME NEW t \in Threads, Query(t) PROVE PredicateIsCurrent'
  BY <1>18 DEF Query, Body, Returns
<1>21. ASSUME NEW t \in Threads, StoreVisible(t) PROVE PredicateIsCurrent'
  BY <1>21 DEF StoreVisible
<1>23. CASE UNCHANGED vars
  BY <1>23 DEF vars
<1> QED
  BY <1>1, <1>2, <1>3, <1>4, <1>5, <1>6, <1>7, <1>8, <1>9, <1>10, <1>11, <1>12, <1>13, <1>14,
     <1>15, <1>16, <1>17, <1>18, <1>19, <1>20, <1>21, <1>22, <1>23
     DEF Next, Work, Acquire

\* A call that has waited finds, in its body, what it has waited for.
LEMMA NextPromise == MultiLockQueueInv /\ [Next]_vars => PromiseHolds'
<1> SUFFICES ASSUME MultiLockQueueInv, [Next]_vars PROVE PromiseHolds'
  OBVIOUS
<1> USE MultiLockQueueAssumption DEF Goto, data, monitor, call, Acquires, Releases,
   MultiLockQueueInv, TypeOK, MonitorTypeOK, CallsTyped, MutualExclusion, Holds,
   PredicateIsCurrent, Predicate, Ready, HasAny, HasAll, StageFitsOperation, PromiseHolds,
   AnyOps, AllOps, ReadyOps, KeyOps
<1>1. ASSUME NEW t \in Threads, Call(t) PROVE PromiseHolds'
  <2>1. /\ pc'[t] \in {"mark", "glance", "lock"}
        /\ \A s \in Threads \ {t} : pc'[s] = pc[s] /\ op'[s] = op[s]
    BY <1>1 DEF Call
  <2>2. UNCHANGED <<queues, terminated>>
    BY <1>1 DEF Call
  <2> QED
    BY <2>1, <2>2
<1>2. ASSUME NEW t \in Threads, Glance(t) PROVE PromiseHolds'
  BY <1>2 DEF Glance
<1>3. ASSUME NEW t \in Threads, ThrowAtOnce(t) PROVE PromiseHolds'
  BY <1>3 DEF ThrowAtOnce
<1>4. ASSUME NEW t \in Threads, Lock(t) PROVE PromiseHolds'
  BY <1>4 DEF Lock
<1>5. ASSUME NEW t \in Threads, Test(t) PROVE PromiseHolds'
  BY <1>5 DEF Test
<1>6. ASSUME NEW t \in Threads, Wait(t) PROVE PromiseHolds'
  BY <1>6 DEF Wait, WaitsFor
<1>7. ASSUME NEW t \in Threads, Wake(t) PROVE PromiseHolds'
  BY <1>7 DEF Wake
<1>8. ASSUME NEW t \in Threads, SpuriousWakeup(t) PROVE PromiseHolds'
  BY <1>8 DEF SpuriousWakeup, WakesSpuriously
<1>9. ASSUME NEW t \in Threads, Throw(t) PROVE PromiseHolds'
  BY <1>9 DEF Throw
<1>10. ASSUME NEW t \in Threads, Proceed(t) PROVE PromiseHolds'
  BY <1>10 DEF Proceed
<1>11. ASSUME NEW t \in Threads, Push(t) PROVE PromiseHolds'
  BY <1>11 DEF Push, Body
<1>12. ASSUME NEW t \in Threads, Peek(t) PROVE PromiseHolds'
  BY <1>12 DEF Peek, Body, Returns
<1>13. ASSUME NEW t \in Threads, Pop(t) PROVE PromiseHolds'
  BY <1>13 DEF Pop, Body, Returns
<1>14. ASSUME NEW t \in Threads, Clear(t) PROVE PromiseHolds'
  BY <1>14 DEF Clear, Body
<1>15. ASSUME NEW t \in Threads, AddQueue(t) PROVE PromiseHolds'
  BY <1>15 DEF AddQueue, Body
<1>16. ASSUME NEW t \in Threads, RemoveQueue(t) PROVE PromiseHolds'
  BY <1>16 DEF RemoveQueue, Body
<1>17. ASSUME NEW t \in Threads, RemoveAllQueues(t) PROVE PromiseHolds'
  BY <1>17 DEF RemoveAllQueues, Body
<1>18. ASSUME NEW t \in Threads, Query(t) PROVE PromiseHolds'
  BY <1>18 DEF Query, Body, Returns
<1>19. ASSUME NEW t \in Threads, Notify(t) PROVE PromiseHolds'
  BY <1>19 DEF Notify, NotifyOne
<1>20. ASSUME NEW t \in Threads, Mark(t) PROVE PromiseHolds'
  BY <1>20 DEF Mark
<1>21. ASSUME NEW t \in Threads, StoreVisible(t) PROVE PromiseHolds'
  BY <1>21 DEF StoreVisible
<1>22. ASSUME NEW t \in Threads, Broadcast(t) PROVE PromiseHolds'
  BY <1>22 DEF Broadcast, NotifyAll
<1>23. CASE UNCHANGED vars
  BY <1>23 DEF vars
<1> QED
  BY <1>1, <1>2, <1>3, <1>4, <1>5, <1>6, <1>7, <1>8, <1>9, <1>10, <1>11, <1>12, <1>13, <1>14,
     <1>15, <1>16, <1>17, <1>18, <1>19, <1>20, <1>21, <1>22, <1>23
     DEF Next, Work, Acquire

\* A thread is registered only while it sleeps.
LEMMA NextSleepers == MultiLockQueueInv /\ [Next]_vars => OnlySleepersAreRegistered'
<1> SUFFICES ASSUME MultiLockQueueInv, [Next]_vars PROVE OnlySleepersAreRegistered'
  OBVIOUS
<1> USE MultiLockQueueAssumption DEF Goto, data, monitor, call, Acquires, Releases,
   MultiLockQueueInv, TypeOK, MonitorTypeOK, OnlySleepersAreRegistered, Registered
<1>1. ASSUME NEW t \in Threads, Call(t) PROVE OnlySleepersAreRegistered'
  BY <1>1 DEF Call
<1>2. ASSUME NEW t \in Threads, Glance(t) PROVE OnlySleepersAreRegistered'
  BY <1>2 DEF Glance
<1>3. ASSUME NEW t \in Threads, ThrowAtOnce(t) PROVE OnlySleepersAreRegistered'
  BY <1>3 DEF ThrowAtOnce
<1>4. ASSUME NEW t \in Threads, Lock(t) PROVE OnlySleepersAreRegistered'
  BY <1>4 DEF Lock
<1>5. ASSUME NEW t \in Threads, Test(t) PROVE OnlySleepersAreRegistered'
  BY <1>5 DEF Test
<1>6. ASSUME NEW t \in Threads, Wait(t) PROVE OnlySleepersAreRegistered'
  BY <1>6 DEF Wait, WaitsFor
<1>7. ASSUME NEW t \in Threads, Wake(t) PROVE OnlySleepersAreRegistered'
  BY <1>7 DEF Wake
<1>8. ASSUME NEW t \in Threads, SpuriousWakeup(t) PROVE OnlySleepersAreRegistered'
  BY <1>8 DEF SpuriousWakeup, WakesSpuriously
<1>9. ASSUME NEW t \in Threads, Throw(t) PROVE OnlySleepersAreRegistered'
  BY <1>9 DEF Throw
<1>10. ASSUME NEW t \in Threads, Proceed(t) PROVE OnlySleepersAreRegistered'
  BY <1>10 DEF Proceed
<1>11. ASSUME NEW t \in Threads, Push(t) PROVE OnlySleepersAreRegistered'
  BY <1>11 DEF Push, Body
<1>12. ASSUME NEW t \in Threads, Peek(t) PROVE OnlySleepersAreRegistered'
  BY <1>12 DEF Peek, Body, Returns
<1>13. ASSUME NEW t \in Threads, Pop(t) PROVE OnlySleepersAreRegistered'
  BY <1>13 DEF Pop, Body, Returns
<1>14. ASSUME NEW t \in Threads, Clear(t) PROVE OnlySleepersAreRegistered'
  BY <1>14 DEF Clear, Body
<1>15. ASSUME NEW t \in Threads, AddQueue(t) PROVE OnlySleepersAreRegistered'
  BY <1>15 DEF AddQueue, Body
<1>16. ASSUME NEW t \in Threads, RemoveQueue(t) PROVE OnlySleepersAreRegistered'
  BY <1>16 DEF RemoveQueue, Body
<1>17. ASSUME NEW t \in Threads, RemoveAllQueues(t) PROVE OnlySleepersAreRegistered'
  BY <1>17 DEF RemoveAllQueues, Body
<1>18. ASSUME NEW t \in Threads, Query(t) PROVE OnlySleepersAreRegistered'
  BY <1>18 DEF Query, Body, Returns
<1>19. ASSUME NEW t \in Threads, Notify(t) PROVE OnlySleepersAreRegistered'
  BY <1>19 DEF Notify, NotifyOne
<1>20. ASSUME NEW t \in Threads, Mark(t) PROVE OnlySleepersAreRegistered'
  BY <1>20 DEF Mark
<1>21. ASSUME NEW t \in Threads, StoreVisible(t) PROVE OnlySleepersAreRegistered'
  BY <1>21 DEF StoreVisible
<1>22. ASSUME NEW t \in Threads, Broadcast(t) PROVE OnlySleepersAreRegistered'
  BY <1>22 DEF Broadcast, NotifyAll
<1>23. CASE UNCHANGED vars
  BY <1>23 DEF vars
<1> QED
  BY <1>1, <1>2, <1>3, <1>4, <1>5, <1>6, <1>7, <1>8, <1>9, <1>10, <1>11, <1>12, <1>13, <1>14,
     <1>15, <1>16, <1>17, <1>18, <1>19, <1>20, <1>21, <1>22, <1>23
     DEF Next, Work, Acquire

\* No step of any thread breaks the invariant.
LEMMA NextInv == MultiLockQueueInv /\ [Next]_vars => MultiLockQueueInv'
<1> SUFFICES ASSUME MultiLockQueueInv, [Next]_vars PROVE MultiLockQueueInv'
  OBVIOUS
<1>1. TypeOK
  BY DEF MultiLockQueueInv
<1>2. terminated' \in BOOLEAN /\ storing' \subseteq Threads
  <2> USE <1>1 DEF TypeOK, data
  <2>1. ASSUME NEW t \in Threads, Mark(t) PROVE terminated' \in BOOLEAN /\ storing' \subseteq Threads
    BY <2>1 DEF Mark
  <2>2. ASSUME NEW t \in Threads, StoreVisible(t)
        PROVE  terminated' \in BOOLEAN /\ storing' \subseteq Threads
    BY <2>2 DEF StoreVisible
  <2>3. CASE UNCHANGED <<terminated, storing>>
    BY <2>3
  <2> QED
    BY <2>1, <2>2, <2>3 DEF Next, Acquire, Work, vars, Call, Glance, ThrowAtOnce, Lock, Test,
       Wait, Wake, SpuriousWakeup, Throw, Proceed, Push, Peek, Pop, Clear, AddQueue,
       RemoveQueue, RemoveAllQueues, Query, Body, Notify, Broadcast
<1>3. TypeOK'
  BY <1>1, <1>2, NextQueuesTyped, NextMonitor, NextCalls DEF TypeOK
<1> QED
  BY <1>3, NextMutex, NextStage, NextCurrent, NextPromise, NextSleepers DEF MultiLockQueueInv

\* Every reachable state satisfies the invariant, for every set of threads, keys
\* and items, every assignment of calls to the threads and every capacity.
THEOREM MultiLockQueueSafety == Spec => []MultiLockQueueInv
BY InitInv, NextInv, PTL DEF Spec

\* popAll() and peekAll() find an element in every queue, popAtLeastOne() and
\* peekAtLeastOne() one in some queue, when they take it (multi_lock_queue.h:69).
THEOREM PromisesAreHeld == Spec => []PromiseHolds
<1>1. MultiLockQueueInv => PromiseHolds
  BY DEF MultiLockQueueInv
<1> QED
  BY <1>1, MultiLockQueueSafety, PTL

-----------------------------------------------------------------------------
\* One thread is the only one that waits, as with the thread of the proxel that
\* owns a MultiConsumerPort; while it waits for all queues nobody removes one
\* (removeQueue() tells nobody that the remaining queues all have an element).
OnlyWaiter(c) ==
    \A t \in Threads \ {c} :
        /\ Calls[t] \cap (AnyOps \cup AllOps) = {}
        /\ Calls[c] \cap AllOps # {} => Calls[t] \cap {"removeQueue", "removeAllQueues"} = {}

\* A waiter that could go on is about to be notified.
Noticed(c) ==
    ~terminated /\ c \in waiters["cond"] /\ Predicate(c) => \E s \in Threads : pc[s] = "notify"

\* The calls are those the threads make, and the waiter is noticed.
OnlyWaiterInv(c) ==
    /\ \A t \in Threads : op[t] \in Calls[t] \cup {"none"}
    /\ Noticed(c)

\* A step that gives no queue its first element, takes no empty queue away from a
\* call that waits for all, registers nobody and makes no notification, leaves the
\* waiter noticed.
LEMMA StillNoticed ==
    ASSUME NEW c \in Threads, MultiLockQueueInv, Noticed(c),
           UNCHANGED terminated, waiters'["cond"] \subseteq waiters["cond"],
           pc[c] = "asleep" => UNCHANGED op[c],
           Ready' \subseteq Ready,
           pc[c] = "asleep" /\ op[c] \in AllOps => DOMAIN queues \subseteq DOMAIN queues',
           \A s \in Threads : pc[s] = "notify" => pc'[s] = "notify"
    PROVE  Noticed(c)'
<1> SUFFICES ASSUME ~terminated, c \in waiters'["cond"], Predicate(c)'
             PROVE  \E s \in Threads : pc'[s] = "notify"
  BY DEF Noticed
<1>1. pc[c] = "asleep" /\ op[c] \in AnyOps \cup AllOps /\ op'[c] = op[c]
  BY DEF MultiLockQueueInv, OnlySleepersAreRegistered, StageFitsOperation
<1>2. ~terminated'
  OBVIOUS
<1>3. Predicate(c)
  <2>1. CASE op[c] \in AnyOps /\ HasAny'
    BY <2>1 DEF Predicate, HasAny
  <2>2. CASE op[c] \in AllOps /\ HasAll'
    <3>1. Ready \subseteq DOMAIN queues
      BY DEF Ready
    <3>2. Ready = DOMAIN queues
      BY <1>1, <2>2, <3>1 DEF HasAll
    <3> QED
      BY <2>2, <3>2 DEF Predicate, HasAll
  <2> QED
    BY <1>1, <1>2, <2>1, <2>2 DEF Predicate
<1> QED
  BY <1>3 DEF Noticed

\* No step leaves the only waiter unnoticed.
LEMMA NextOnlyWaiter ==
    ASSUME NEW c \in Threads, OnlyWaiter(c), MultiLockQueueInv, OnlyWaiterInv(c), [Next]_vars
    PROVE  OnlyWaiterInv(c)'
<1>a. Noticed(c) /\ \A t \in Threads : op[t] \in Calls[t] \cup {"none"}
  BY DEF OnlyWaiterInv
<1>b. /\ pc \in [Threads -> Stages] /\ op \in [Threads -> Ops \cup {"none"}]
      /\ waiters \in [{"cond"} -> SUBSET Threads] /\ DOMAIN queues \subseteq Keys
  BY DEF MultiLockQueueInv, TypeOK, MonitorTypeOK, CallsTyped, QueuesTyped
<1>c. c \in waiters["cond"] => pc[c] = "asleep"
  BY DEF MultiLockQueueInv, OnlySleepersAreRegistered
<1> USE DEF data, monitor, call
<1>1. \A t \in Threads : op'[t] \in Calls[t] \cup {"none"}
  <2>1. ASSUME NEW t \in Threads, Call(t) PROVE \E o \in Calls[t] : op' = [op EXCEPT ![t] = o]
    BY <2>1 DEF Call
  <2>2. (\E t \in Threads : Call(t)) \/ UNCHANGED op
    BY DEF Next, Acquire, Work, vars, Glance, ThrowAtOnce, Lock, Test, Wait, Wake, SpuriousWakeup,
       Throw, Proceed, Push, Peek, Pop, Clear, AddQueue, RemoveQueue, RemoveAllQueues, Query,
       Body, Notify, Mark, StoreVisible, Broadcast
  <2> QED
    BY <1>a, <1>b, <2>1, <2>2
<1>2. Noticed(c)'
  <2>1. ASSUME NEW t \in Threads, Call(t) PROVE Noticed(c)'
    BY <2>1, <1>a, <1>b, StillNoticed DEF Call, Goto, Ready
  <2>2. ASSUME NEW t \in Threads, Glance(t) PROVE Noticed(c)'
    BY <2>2, <1>a, <1>b, StillNoticed DEF Glance, Goto, Ready
  <2>3. ASSUME NEW t \in Threads, ThrowAtOnce(t) PROVE Noticed(c)'
    BY <2>3, <1>a, <1>b, StillNoticed DEF ThrowAtOnce, Goto, Ready
  <2>4. ASSUME NEW t \in Threads, Lock(t) PROVE Noticed(c)'
    BY <2>4, <1>a, <1>b, StillNoticed DEF Lock, Goto, Acquires, Ready
  <2>5. ASSUME NEW t \in Threads, Test(t) PROVE Noticed(c)'
    BY <2>5, <1>a, <1>b, StillNoticed DEF Test, Goto, Ready
  <2>6. ASSUME NEW t \in Threads, Wake(t) PROVE Noticed(c)'
    BY <2>6, <1>a, <1>b, StillNoticed DEF Wake, Goto, Acquires, Ready
  <2>7. ASSUME NEW t \in Threads, SpuriousWakeup(t) PROVE Noticed(c)'
    BY <2>7, <1>a, <1>b, StillNoticed DEF SpuriousWakeup, Goto, WakesSpuriously, Ready
  <2>8. ASSUME NEW t \in Threads, Throw(t) PROVE Noticed(c)'
    BY <2>8, <1>a, <1>b, StillNoticed DEF Throw, Goto, Releases, Ready
  <2>9. ASSUME NEW t \in Threads, Proceed(t) PROVE Noticed(c)'
    BY <2>9, <1>a, <1>b, StillNoticed DEF Proceed, Goto, Ready
  <2>10. ASSUME NEW t \in Threads, Peek(t) PROVE Noticed(c)'
    BY <2>10, <1>a, <1>b, StillNoticed DEF Peek, Goto, Body, Releases, Ready
  <2>11. ASSUME NEW t \in Threads, Query(t) PROVE Noticed(c)'
    BY <2>11, <1>a, <1>b, StillNoticed DEF Query, Goto, Body, Releases, Ready
  <2>12. ASSUME NEW t \in Threads, Mark(t) PROVE Noticed(c)'
    BY <2>12, <1>a, <1>b, StillNoticed DEF Mark, Goto, Ready
  <2>13. ASSUME NEW t \in Threads, Wait(t) PROVE Noticed(c)'
    <3>1. CASE t = c
      <4>1. ~Predicate(c)' \/ terminated'
        BY <2>13, <3>1 DEF Wait, Goto, MultiLockQueueInv, PredicateIsCurrent, StageFitsOperation,
           Predicate, HasAny, HasAll, Ready, AnyOps, AllOps
      <4> QED
        BY <4>1 DEF Noticed
    <3>2. CASE t # c
      <4>1. c \in waiters'["cond"] => c \in waiters["cond"]
        BY <2>13, <3>2, <1>b DEF Wait, WaitsFor
      <4>2. UNCHANGED <<queues, terminated, op>> /\ \A s \in Threads : pc[s] = "notify" => pc'[s] = "notify"
        BY <2>13, <1>b DEF Wait, Goto
      <4>3. Predicate(c)' <=> Predicate(c)
        BY <4>2 DEF Predicate, HasAny, HasAll, Ready
      <4> QED
        BY <4>1, <4>2, <4>3, <1>a DEF Noticed
    <3> QED
      BY <3>1, <3>2
  <2>14. ASSUME NEW t \in Threads, Push(t) PROVE Noticed(c)'
    <3>1. pc'[t] = "notify"
      BY <2>14, <1>b DEF Push, Body, Goto
    <3> QED
      BY <3>1 DEF Noticed
  <2>15. ASSUME NEW t \in Threads, Pop(t) PROVE Noticed(c)'
    <3>1. DOMAIN queues' = DOMAIN queues /\ Ready' \subseteq Ready
      BY <2>15 DEF Pop, Ready
    <3> QED
      BY <2>15, <3>1, <1>a, <1>b, StillNoticed DEF Pop, Body, Goto
  <2>16. ASSUME NEW t \in Threads, Clear(t) PROVE Noticed(c)'
    <3>1. DOMAIN queues' = DOMAIN queues /\ Ready' \subseteq Ready
      BY <2>16 DEF Clear, Ready
    <3> QED
      BY <2>16, <3>1, <1>a, <1>b, StillNoticed DEF Clear, Body, Goto
  <2>17. ASSUME NEW t \in Threads, AddQueue(t) PROVE Noticed(c)'
    <3>1. DOMAIN queues \subseteq DOMAIN queues' /\ Ready' \subseteq Ready
      BY <2>17 DEF AddQueue, Ready
    <3> QED
      BY <2>17, <3>1, <1>a, <1>b, StillNoticed DEF AddQueue, Body, Goto
  <2>18. ASSUME NEW t \in Threads, RemoveQueue(t) PROVE Noticed(c)'
    <3>1. pc[t] = "body" /\ op[t] = "removeQueue"
      BY <2>18 DEF RemoveQueue, Body, Goto
    <3>2. ~(pc[c] = "asleep" /\ op[c] \in AllOps)
      <4> SUFFICES ASSUME pc[c] = "asleep", op[c] \in AllOps PROVE FALSE
        OBVIOUS
      <4>1. t # c /\ op[t] \in Calls[t]
        BY <3>1, <1>a
      <4>2. op[c] \in Calls[c]
        BY <1>a DEF AllOps
      <4> QED
        BY <3>1, <4>1, <4>2 DEF OnlyWaiter
    <3>3. Ready' \subseteq Ready
      BY <2>18 DEF RemoveQueue, Ready
    <3> QED
      BY <2>18, <3>2, <3>3, <1>a, <1>b, StillNoticed DEF RemoveQueue, Body, Goto
  <2>19. ASSUME NEW t \in Threads, RemoveAllQueues(t) PROVE Noticed(c)'
    <3>1. pc[t] = "body" /\ op[t] = "removeAllQueues"
      BY <2>19 DEF RemoveAllQueues, Body, Goto
    <3>2. ~(pc[c] = "asleep" /\ op[c] \in AllOps)
      <4> SUFFICES ASSUME pc[c] = "asleep", op[c] \in AllOps PROVE FALSE
        OBVIOUS
      <4>1. t # c /\ op[t] \in Calls[t]
        BY <3>1, <1>a
      <4>2. op[c] \in Calls[c]
        BY <1>a DEF AllOps
      <4> QED
        BY <3>1, <4>1, <4>2 DEF OnlyWaiter
    <3>3. Ready' \subseteq Ready
      BY <2>19 DEF RemoveAllQueues, Ready
    <3> QED
      BY <2>19, <3>2, <3>3, <1>a, <1>b, StillNoticed DEF RemoveAllQueues, Body, Goto
  <2>20. ASSUME NEW t \in Threads, Notify(t) PROVE Noticed(c)'
    <3>1. CASE UNCHANGED waiters /\ waiters["cond"] = {}
      BY <3>1 DEF Noticed
    <3>2. CASE \E w \in waiters["cond"] : waiters' = [waiters EXCEPT !["cond"] = @ \ {w}]
      <4>1. PICK w \in waiters["cond"] : waiters' = [waiters EXCEPT !["cond"] = @ \ {w}]
        BY <3>2
      <4>2. w \in Threads /\ op[w] \in AnyOps \cup AllOps
        BY <1>b DEF MultiLockQueueInv, OnlySleepersAreRegistered, StageFitsOperation
      <4>3. op[w] \in Calls[w]
        BY <4>2, <1>a DEF AnyOps, AllOps
      <4>4. w = c
        BY <4>2, <4>3 DEF OnlyWaiter
      <4>5. c \notin waiters'["cond"]
        BY <4>1, <4>4, <1>b
      <4> QED
        BY <4>5 DEF Noticed
    <3> QED
      BY <2>20, <3>1, <3>2 DEF Notify, NotifyOne
  <2>21. ASSUME NEW t \in Threads, StoreVisible(t) PROVE Noticed(c)'
    BY <2>21 DEF StoreVisible, Noticed
  <2>22. ASSUME NEW t \in Threads, Broadcast(t) PROVE Noticed(c)'
    <3>1. waiters'["cond"] = {}
      BY <2>22, <1>b DEF Broadcast, NotifyAll
    <3> QED
      BY <3>1 DEF Noticed
  <2>23. CASE UNCHANGED vars
    BY <2>23, <1>a DEF vars, Noticed, Predicate, HasAny, HasAll, Ready
  <2> QED
    BY <2>1, <2>2, <2>3, <2>4, <2>5, <2>6, <2>7, <2>8, <2>9, <2>10, <2>11, <2>12, <2>13, <2>14,
       <2>15, <2>16, <2>17, <2>18, <2>19, <2>20, <2>21, <2>22, <2>23
       DEF Next, Work, Acquire
<1> QED
  BY <1>1, <1>2 DEF OnlyWaiterInv

\* A thread that waits alone is never stranded: while its call could go on, the
\* notification that lets it go on is still to come, or it has been notified.
THEOREM LoneWaiterIsNotStranded ==
    ASSUME NEW c \in Threads, OnlyWaiter(c)
    PROVE  Spec => []NoStrandedWaiter
<1>1. Init => OnlyWaiterInv(c)
  BY DEF Init, MonitorInit, OnlyWaiterInv, Noticed
<1>2. MultiLockQueueInv /\ OnlyWaiterInv(c) /\ [Next]_vars => OnlyWaiterInv(c)'
  BY NextOnlyWaiter
<1>3. MultiLockQueueInv /\ OnlyWaiterInv(c) => NoStrandedWaiter
  <2> SUFFICES ASSUME MultiLockQueueInv, OnlyWaiterInv(c), ~terminated,
                      NEW t \in waiters["cond"], Predicate(t)
               PROVE  \E s \in Threads : Helper(s)
    BY DEF NoStrandedWaiter
  <2>1. t \in Threads /\ op[t] \in AnyOps \cup AllOps
    BY DEF MultiLockQueueInv, TypeOK, MonitorTypeOK, OnlySleepersAreRegistered, StageFitsOperation
  <2>2. op[t] \in Calls[t]
    BY <2>1 DEF OnlyWaiterInv, AnyOps, AllOps
  <2>3. t = c
    BY <2>1, <2>2 DEF OnlyWaiter
  <2>4. \E s \in Threads : pc[s] = "notify"
    BY <2>3 DEF OnlyWaiterInv, Noticed
  <2> QED
    BY <2>4 DEF Helper
<1> QED
  BY <1>1, <1>2, <1>3, MultiLockQueueSafety, PTL DEF Spec

-----------------------------------------------------------------------------
\* New queues are what KeyedQueues starts from.
LEMMA InitRefines == Init => Abstract!Init
<1> SUFFICES ASSUME Init PROVE Abstract!Init
  OBVIOUS
<1>1. stage = [t \in Threads |-> "done"]
  BY DEF Init, MonitorInit, stage, StageOf
<1> QED
  BY <1>1 DEF Init, Abstract!Init

\* A step of one thread within its call moves its stage, or leaves it.
LEMMA StageMoves ==
    ASSUME NEW t \in Threads, NEW from, NEW to,
           MultiLockQueueInv, Goto(t, from, to), op' = op
    PROVE  /\ stage[t] = StageOf(from, op[t])
           /\ stage' = [stage EXCEPT ![t] = StageOf(to, op[t])]
           /\ StageOf(from, op[t]) = StageOf(to, op[t]) => stage' = stage
BY DEF MultiLockQueueInv, TypeOK, MonitorTypeOK, Goto, stage

\* What is looked at is the same in both modules.
LEMMA SameReady ==
    /\ Abstract!Ready = Ready
    /\ Abstract!Fronts = Fronts
BY DEF Ready, Fronts, Abstract!Ready, Abstract!Fronts

\* Every step of a thread is a step of KeyedQueues or is invisible to it.  The
\* calls that read terminated_ are admitted when they have found it unset: before
\* the lock in popReady() and peekReady(), after the wait in the others.
LEMMA NextRefines == MultiLockQueueInv /\ [Next]_vars => [Abstract!Next]_(Abstract!vars)
<1> SUFFICES ASSUME MultiLockQueueInv, [Next]_vars PROVE [Abstract!Next]_(Abstract!vars)
  OBVIOUS
<1> USE DEF data, monitor, call, Abstract!vars
<1>a. CallsTyped /\ QueuesTyped /\ StageFitsOperation /\ PromiseHolds
  BY DEF MultiLockQueueInv, TypeOK
<1>1. ASSUME NEW t \in Threads, Call(t) PROVE Abstract!Begin(t)
  <2>1. PICK o \in Calls[t] :
            /\ Goto(t, "idle", IF o = "terminate" THEN "mark"
                               ELSE IF o \in ReadyOps THEN "glance" ELSE "lock")
            /\ op' = [op EXCEPT ![t] = o]
            /\ \E x \in Arguments(o) : arg' = [arg EXCEPT ![t] = x]
    BY <1>1 DEF Call
  <2>2. o \in Ops /\ Arguments(o) \subseteq {None} \cup Keys \cup Keys \X Items
    BY MultiLockQueueAssumption DEF Arguments
  <2>3. stage[t] = "done"
    BY <2>1 DEF Goto, stage, StageOf
  <2>4. /\ op'[t] = o /\ pc'[t] \in {"mark", "glance", "lock"}
        /\ pc'[t] = "lock" => o \notin ReadyOps
        /\ \A s \in Threads \ {t} : pc'[s] = pc[s] /\ op'[s] = op[s]
    BY <2>1, <1>a DEF Goto, MultiLockQueueInv, TypeOK, MonitorTypeOK, CallsTyped
  <2>5. stage' = [stage EXCEPT ![t] = "pending"]
    <3>1. stage' = [s \in Threads |-> IF s = t THEN "pending" ELSE stage[s]]
      BY <2>4 DEF stage, StageOf
    <3> QED
      BY <3>1 DEF stage
  <2>6. \E x \in {None} \cup Keys \cup Keys \X Items : arg' = [arg EXCEPT ![t] = x]
    BY <2>1, <2>2
  <2>7. \E p \in Ops : op' = [op EXCEPT ![t] = p]
    BY <2>1, <2>2
  <2> QED
    BY <1>1, <2>3, <2>5, <2>6, <2>7
       DEF Call, Abstract!Begin, Ops, ReadyOps, AnyOps, AllOps, KeyOps, Abstract!Peeks, Abstract!Pops
<1>2. ASSUME NEW t \in Threads, Glance(t) PROVE Abstract!Admit(t)
  <2>1. op[t] \in ReadyOps
    BY <1>2, <1>a DEF Glance, Goto, StageFitsOperation
  <2>2. stage[t] = "pending" /\ stage' = [stage EXCEPT ![t] = "admitted"]
    BY <1>2, <2>1, StageMoves DEF Glance, StageOf
  <2> QED
    BY <1>2, <2>1, <2>2 DEF Glance, ReadyOps, Abstract!Admit, Abstract!Peeks, Abstract!Pops
<1>3. ASSUME NEW t \in Threads, ThrowAtOnce(t) PROVE Abstract!Fail(t)
  <2>1. op[t] \in ReadyOps
    BY <1>3, <1>a DEF ThrowAtOnce, Goto, StageFitsOperation
  <2>2. stage[t] = "pending" /\ stage' = [stage EXCEPT ![t] = "done"]
    BY <1>3, <2>1, StageMoves DEF ThrowAtOnce, StageOf
  <2> QED
    BY <1>3, <2>1, <2>2 DEF ThrowAtOnce, ReadyOps, Abstract!Fail, Abstract!TakesEffect,
       Abstract!Peeks, Abstract!Pops
<1>4. ASSUME NEW t \in Threads, Lock(t) PROVE UNCHANGED Abstract!vars
  <2>1. CASE op[t] \in AnyOps \cup AllOps
    <3>1. Goto(t, "lock", "test")
      BY <1>4, <2>1 DEF Lock
    <3>2. op[t] \notin ReadyOps
      BY <2>1 DEF ReadyOps, AnyOps, AllOps
    <3> QED
      BY <1>4, <3>1, <3>2, StageMoves DEF Lock, StageOf
  <2>2. CASE op[t] \notin AnyOps \cup AllOps
    <3>1. Goto(t, "lock", "body")
      BY <1>4, <2>2 DEF Lock
    <3>2. StageOf("lock", op[t]) = StageOf("body", op[t])
      BY <2>2 DEF StageOf
    <3> QED
      BY <1>4, <3>1, <3>2, StageMoves DEF Lock
  <2> QED
    BY <2>1, <2>2
<1>5. ASSUME NEW t \in Threads, Test(t) PROVE UNCHANGED Abstract!vars
  <2>1. PICK to \in {"check", "wait"} : Goto(t, "test", to)
    BY <1>5 DEF Test
  <2>2. StageOf("test", op[t]) = StageOf(to, op[t])
    BY <2>1 DEF StageOf
  <2> QED
    BY <1>5, <2>1, <2>2, StageMoves DEF Test
<1>6. ASSUME NEW t \in Threads, Wait(t) PROVE UNCHANGED Abstract!vars
  BY <1>6, StageMoves DEF Wait, StageOf
<1>7. ASSUME NEW t \in Threads, Wake(t) PROVE UNCHANGED Abstract!vars
  BY <1>7, StageMoves DEF Wake, StageOf
<1>8. ASSUME NEW t \in Threads, SpuriousWakeup(t) PROVE UNCHANGED Abstract!vars
  BY <1>8 DEF SpuriousWakeup, stage
<1>9. ASSUME NEW t \in Threads, Throw(t) PROVE Abstract!Fail(t)
  <2>1. op[t] \in AnyOps \cup AllOps
    BY <1>9, <1>a DEF Throw, Goto, StageFitsOperation
  <2>2. stage[t] = "pending" /\ stage' = [stage EXCEPT ![t] = "done"]
    BY <1>9, <2>1, StageMoves DEF Throw, StageOf
  <2> QED
    BY <1>9, <2>1, <2>2 DEF Throw, AnyOps, AllOps, Abstract!Fail, Abstract!TakesEffect,
       Abstract!Peeks, Abstract!Pops
<1>10. ASSUME NEW t \in Threads, Proceed(t) PROVE Abstract!Admit(t)
  <2>1. op[t] \in AnyOps \cup AllOps
    BY <1>10, <1>a DEF Proceed, Goto, StageFitsOperation
  <2>2. stage[t] = "pending" /\ stage' = [stage EXCEPT ![t] = "admitted"]
    BY <1>10, <2>1, StageMoves DEF Proceed, StageOf
  <2> QED
    BY <1>10, <2>1, <2>2 DEF Proceed, AnyOps, AllOps, Abstract!Admit, Abstract!Peeks, Abstract!Pops
\* A call that returns nothing still has no result.
<1>b. ASSUME NEW t \in Threads, pc[t] \in {"body", "mark"}, UNCHANGED result
      PROVE  result' = [result EXCEPT ![t] = None]
  <2>1. result[t] = None
    BY <1>b, <1>a DEF StageFitsOperation, Stages
  <2>2. result = [s \in Threads |-> result[s]]
    BY <1>a DEF CallsTyped
  <2> QED
    BY <1>b, <2>1, <2>2
\* A step of the body of a call that had nothing to wait for.
<1>c. ASSUME NEW t \in Threads, NEW os, NEW to, Body(t, os, to), to \in {"idle", "notify"},
             op[t] \notin ReadyOps \cup AnyOps \cup AllOps
      PROVE  stage[t] = "pending" /\ stage' = [stage EXCEPT ![t] = "done"]
  BY <1>c, StageMoves DEF Body, StageOf
<1>d. ASSUME NEW t \in Threads, NEW os, NEW to, Body(t, os, to), to \in {"idle", "notify"},
             op[t] \in ReadyOps \cup AnyOps \cup AllOps
      PROVE  stage[t] = "admitted" /\ stage' = [stage EXCEPT ![t] = "done"]
  BY <1>d, StageMoves DEF Body, StageOf
<1>11. ASSUME NEW t \in Threads, Push(t) PROVE Abstract!Push(t)
  <2>1. Body(t, {"push"}, "notify") /\ UNCHANGED result
    BY <1>11 DEF Push
  <2>2. Abstract!TakesEffect(t, "pending", {"push"}, None)
    BY <2>1, <1>b, <1>c DEF Body, Goto, ReadyOps, AnyOps, AllOps, Abstract!TakesEffect
  <2>3. PICK k \in Keys, i \in Items : arg[t] = <<k, i>>
    BY <2>1, <1>a DEF Body, CallsTyped, Arguments
  <2> DEFINE old == IF k \in DOMAIN queues THEN queues[k] ELSE <<>>
  <2>4. Len(old) \in Nat
    BY <1>a DEF QueuesTyped
  <2>5. queues' = [l \in DOMAIN queues \cup {k} |->
            IF l = k THEN Append(IF Len(old) >= MaxQueueSize THEN Tail(old) ELSE old, i)
            ELSE queues[l]]
    BY <1>11, <2>3 DEF Push
  <2>6. Len(old) >= MaxQueueSize <=> ~(Len(old) < MaxQueueSize)
    BY <2>4, MultiLockQueueAssumption
  <2> QED
    BY <2>2, <2>3, <2>5, <2>6 DEF Abstract!Push
<1>12. ASSUME NEW t \in Threads, Peek(t) PROVE Abstract!Peek(t)
  <2>1. /\ Body(t, (ReadyOps \cup AnyOps \cup AllOps) \ Pops, "idle")
        /\ result' = [result EXCEPT ![t] = Fronts] /\ UNCHANGED queues
    BY <1>12 DEF Peek, Returns
  <2>2. Abstract!TakesEffect(t, "admitted", Abstract!Peeks, Fronts)
    BY <2>1, <1>d DEF Body, ReadyOps, AnyOps, AllOps, Pops, Abstract!TakesEffect, Abstract!Peeks
  <2>3. Abstract!Promised(op[t])
    BY <2>1, <1>a, SameReady DEF Body, Goto, PromiseHolds, HasAny, HasAll, AnyOps, AllOps, Abstract!Promised
  <2> QED
    BY <2>1, <2>2, <2>3, SameReady DEF Abstract!Peek
<1>13. ASSUME NEW t \in Threads, Pop(t) PROVE Abstract!Pop(t)
  <2>1. /\ Body(t, Pops, "idle")
        /\ result' = [result EXCEPT ![t] = Fronts]
        /\ queues' = [k \in DOMAIN queues |-> IF k \in Ready THEN Tail(queues[k]) ELSE queues[k]]
    BY <1>13 DEF Pop, Returns
  <2>2. Abstract!TakesEffect(t, "admitted", Abstract!Pops, Fronts)
    BY <2>1, <1>d DEF Body, ReadyOps, AnyOps, AllOps, Pops, Abstract!TakesEffect, Abstract!Pops
  <2>3. Abstract!Promised(op[t])
    BY <2>1, <1>a, SameReady DEF Body, Goto, PromiseHolds, HasAny, HasAll, AnyOps, AllOps, Abstract!Promised
  <2>4. queues' = [k \in DOMAIN queues |-> IF k \in Ready THEN Tail(queues[k]) ELSE <<>>]
    BY <2>1 DEF Ready
  <2> QED
    BY <2>2, <2>3, <2>4, SameReady DEF Abstract!Pop
<1>14. ASSUME NEW t \in Threads, Clear(t) PROVE Abstract!Clear(t)
  <2>1. Body(t, {"clear"}, "idle") /\ UNCHANGED result
    BY <1>14 DEF Clear
  <2>2. Abstract!TakesEffect(t, "pending", {"clear"}, None)
    BY <2>1, <1>b, <1>c DEF Body, Goto, ReadyOps, AnyOps, AllOps, Abstract!TakesEffect
  <2> QED
    BY <1>14, <2>2 DEF Clear, Abstract!Clear
<1>15. ASSUME NEW t \in Threads, AddQueue(t) PROVE Abstract!AddQueue(t)
  <2>1. Body(t, {"addQueue"}, "idle") /\ UNCHANGED result
    BY <1>15 DEF AddQueue
  <2>2. Abstract!TakesEffect(t, "pending", {"addQueue"}, None)
    BY <2>1, <1>b, <1>c DEF Body, Goto, ReadyOps, AnyOps, AllOps, Abstract!TakesEffect
  <2> QED
    BY <1>15, <2>2 DEF AddQueue, Abstract!AddQueue
<1>16. ASSUME NEW t \in Threads, RemoveQueue(t) PROVE Abstract!RemoveQueues(t)
  <2>1. Body(t, {"removeQueue"}, "idle") /\ UNCHANGED result /\ op[t] = "removeQueue"
    BY <1>16 DEF RemoveQueue, Body
  <2>2. Abstract!TakesEffect(t, "pending", {"removeQueue", "removeAllQueues"}, None)
    BY <2>1, <1>b, <1>c DEF Body, Goto, ReadyOps, AnyOps, AllOps, Abstract!TakesEffect
  <2>3. DOMAIN queues \ {arg[t]} = {l \in DOMAIN queues : op[t] = "removeQueue" /\ l # arg[t]}
    BY <2>1
  <2> QED
    BY <1>16, <2>2, <2>3 DEF RemoveQueue, Abstract!RemoveQueues
<1>17. ASSUME NEW t \in Threads, RemoveAllQueues(t) PROVE Abstract!RemoveQueues(t)
  <2>1. Body(t, {"removeAllQueues"}, "idle") /\ UNCHANGED result /\ op[t] = "removeAllQueues"
    BY <1>17 DEF RemoveAllQueues, Body
  <2>2. Abstract!TakesEffect(t, "pending", {"removeQueue", "removeAllQueues"}, None)
    BY <2>1, <1>b, <1>c DEF Body, Goto, ReadyOps, AnyOps, AllOps, Abstract!TakesEffect
  <2>3. {l \in DOMAIN queues : op[t] = "removeQueue" /\ l # arg[t]} = {}
    BY <2>1
  <2> QED
    BY <1>17, <2>2, <2>3 DEF RemoveAllQueues, Abstract!RemoveQueues
<1>18. ASSUME NEW t \in Threads, Query(t) PROVE Abstract!Query(t)
  <2>1. /\ Body(t, {"hasAny", "hasAll", "getNumQueues"}, "idle") /\ UNCHANGED queues
        /\ result' = [result EXCEPT ![t] = IF op[t] = "hasAny" THEN HasAny
                        ELSE IF op[t] = "hasAll" THEN HasAll ELSE Cardinality(DOMAIN queues)]
    BY <1>18 DEF Query, Returns
  <2>2. stage[t] = "pending" /\ stage' = [stage EXCEPT ![t] = "done"]
    BY <2>1, <1>c DEF Body, ReadyOps, AnyOps, AllOps
  <2>3. op[t] \in {"hasAny", "hasAll", "getNumQueues"} /\ UNCHANGED <<terminated, op, arg>>
    BY <2>1 DEF Body
  <2>4. CASE op[t] = "hasAny"
    <3>1. result' = [result EXCEPT ![t] = Abstract!Ready # {}]
      BY <2>1, <2>4, SameReady, Zenon DEF HasAny
    <3> QED
      BY <2>1, <2>2, <2>3, <2>4, <3>1, Zenon DEF Abstract!Query, Abstract!TakesEffect
  <2>5. CASE op[t] = "hasAll"
    <3>1. op[t] # "hasAny"
      BY <2>5
    <3>2. result' = [result EXCEPT ![t] = Abstract!Ready = DOMAIN queues]
      BY <2>1, <2>5, <3>1, SameReady, Zenon DEF HasAll
    <3> QED
      BY <2>1, <2>2, <2>3, <2>5, <3>2, Zenon DEF Abstract!Query, Abstract!TakesEffect
  <2>6. CASE op[t] = "getNumQueues"
    <3>1. op[t] # "hasAny" /\ op[t] # "hasAll"
      BY <2>6
    <3>2. result' = [result EXCEPT ![t] = Cardinality(DOMAIN queues)]
      BY <2>1, <3>1, Zenon
    <3>3. Abstract!Cardinality(DOMAIN queues) = Cardinality(DOMAIN queues)
      BY Zenon DEF Cardinality, Abstract!Cardinality
    <3>4. Abstract!TakesEffect(t, "pending", {"getNumQueues"}, Cardinality(DOMAIN queues))
      BY <2>2, <2>3, <2>6, <3>2 DEF Abstract!TakesEffect
    <3> QED
      BY <2>1, <3>3, <3>4 DEF Abstract!Query
  <2> QED
    BY <2>3, <2>4, <2>5, <2>6
<1>19. ASSUME NEW t \in Threads, Notify(t) PROVE UNCHANGED Abstract!vars
  BY <1>19, StageMoves DEF Notify, StageOf
<1>20. ASSUME NEW t \in Threads, Mark(t) PROVE Abstract!Query(t)
  <2>1. op[t] = "terminate" /\ pc[t] = "mark"
    BY <1>20, <1>a DEF Mark, Goto, StageFitsOperation
  <2>2. stage[t] = "pending" /\ stage' = [stage EXCEPT ![t] = "done"]
    BY <1>20, <2>1, StageMoves DEF Mark, StageOf, ReadyOps, AnyOps, AllOps
  <2>3. result' = [result EXCEPT ![t] = None]
    BY <1>20, <2>1, <1>b DEF Mark
  <2> QED
    BY <1>20, <2>1, <2>2, <2>3 DEF Mark, Abstract!Query, Abstract!TakesEffect
<1>21. ASSUME NEW t \in Threads, StoreVisible(t) PROVE Abstract!Close \/ UNCHANGED Abstract!vars
  <2>1. op[t] = "terminate"
    BY <1>21, <1>a DEF StoreVisible, StageFitsOperation
  <2> QED
    BY <1>21, <2>1 DEF StoreVisible, stage, Abstract!Close, MultiLockQueueInv, TypeOK
<1>22. ASSUME NEW t \in Threads, Broadcast(t) PROVE UNCHANGED Abstract!vars
  BY <1>22, StageMoves DEF Broadcast, StageOf
<1>23. CASE UNCHANGED vars
  BY <1>23 DEF vars, stage
<1> QED
  BY <1>1, <1>2, <1>3, <1>4, <1>5, <1>6, <1>7, <1>8, <1>9, <1>10, <1>11, <1>12, <1>13, <1>14,
     <1>15, <1>16, <1>17, <1>18, <1>19, <1>20, <1>21, <1>22, <1>23
     DEF Next, Work, Acquire, Abstract!Next

\* Every behaviour of the program is one that KeyedQueues allows.
THEOREM MultiLockQueueRefinesKeyedQueues == Spec => Refinement
BY InitRefines, NextRefines, MultiLockQueueSafety, PTL DEF Spec, Refinement, Abstract!Spec
=============================================================================
