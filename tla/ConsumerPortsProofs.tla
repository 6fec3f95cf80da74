------------------------ MODULE ConsumerPortsProofs -------------------------
(***************************************************************************)
(* That hasNext() is kept, for every set of producers, every size of the   *)
(* buffers and any number of items: while the consumer has not read, the   *)
(* producers only add to what hasNext() has seen (PushedLemma), and what   *)
(* takes something away is a call after which nothing is promised.         *)
(***************************************************************************)
EXTENDS ConsumerPorts, SequenceTheorems, TLAPS

-----------------------------------------------------------------------------
\* push() leaves the queue of k with an item, within its size, and the other queues
\* as they were, whether or not it drops one.
LEMMA PushedLemma ==
  ASSUME TypeOK, NEW k \in Producers \cup {Consumer}, NEW i \in Items, Pushed(k, i)
  PROVE  /\ DOMAIN queues' = DOMAIN queues \cup {k}
         /\ queues' \in [DOMAIN queues \cup {k} -> Seq(Items)]
         /\ \A l \in DOMAIN queues \cup {k} : Len(queues'[l]) <= port.size
         /\ Ready' = Ready \cup {k}
         /\ lost' \subseteq Items
<1> DEFINE old == IF k \in DOMAIN queues THEN queues[k] ELSE <<>>
           full == Len(old) >= port.size
           new == Append(IF full THEN Tail(old) ELSE old, i)
<1>1. port.size \in Nat /\ port.size > 0
  BY ConsumerPortsAssumption DEF TypeOK, StagesTyped, Ports
<1>2. old \in Seq(Items) /\ Len(old) <= port.size
  BY <1>1 DEF TypeOK, StagesTyped, QueuesTyped, ItemsTyped
<1>3. new \in Seq(Items) /\ Len(new) <= port.size /\ new # <<>>
  <2>1. CASE full
    <3>1. old # <<>> /\ Tail(old) \in Seq(Items) /\ Len(Tail(old)) = Len(old) - 1
      BY <1>1, <1>2, <2>1
    <3> QED
      BY <1>1, <1>2, <2>1, <3>1, AppendProperties
  <2>2. CASE ~full
    <3>1. Len(old) < port.size /\ Len(old) \in Nat
      BY <1>1, <1>2, <2>2, LenProperties
    <3>2. new = Append(old, i)
      BY <2>2
    <3> HIDE DEF old, full, new
    <3> QED
      BY <1>1, <1>2, <3>1, <3>2, AppendProperties
  <2> QED
    BY <2>1, <2>2
<1>4. queues' = [l \in DOMAIN queues \cup {k} |-> IF l # k THEN queues[l] ELSE new]
  BY Zenon DEF Pushed
<1>5. /\ DOMAIN queues' = DOMAIN queues \cup {k}
      /\ queues' \in [DOMAIN queues \cup {k} -> Seq(Items)]
      /\ \A l \in DOMAIN queues \cup {k} : Len(queues'[l]) <= port.size
  BY <1>3, <1>4 DEF TypeOK, StagesTyped, QueuesTyped, ItemsTyped
<1>6. Ready' = Ready \cup {k}
  BY <1>3, <1>4 DEF Ready
<1>7. full => Head(old) \in Items
  BY <1>1, <1>2
<1>8. lost' = IF full THEN lost \cup {Head(old)} ELSE lost
  BY Zenon DEF Pushed
<1>9. lost' \subseteq Items
  BY <1>7, <1>8 DEF TypeOK, StagesTyped, QueuesTyped, ItemsTyped
<1> QED
  BY <1>5, <1>6, <1>9

\* A getter whose queues have got more to read, and no other queue that is empty,
\* answers what it has answered.
LEMMA MoreIsAvailable ==
  ASSUME NEW k, Ready' = Ready \cup {k}, DOMAIN queues' = DOMAIN queues \cup {k},
         UNCHANGED <<port, latch>>
  PROVE  /\ HasAll => HasAll'
         /\ Available => Available'
BY DEF HasAll, HasAny, Available

-----------------------------------------------------------------------------
\* The invariant holds before any call.
LEMMA InitInv == Init => ConsumerPortsInv
<1> SUFFICES ASSUME Init PROVE ConsumerPortsInv
  OBVIOUS
<1>1. TypeOK
  <2>1. /\ queues \in [DOMAIN queues -> Seq(Items)]
        /\ DOMAIN queues \subseteq Producers \cup {Consumer}
        /\ \A k \in DOMAIN queues : queues[k] = <<>>
    BY DEF Init
  <2>2. \A k \in DOMAIN queues : Len(queues[k]) <= port.size
    BY <2>1, ConsumerPortsAssumption DEF Init, Ports
  <2>3. /\ sent \in [Producers -> 0..MaxSends]
        /\ seen \in [Producers -> 0..MaxSends]
        /\ pc \in [Threads -> Stages]
    BY ConsumerPortsAssumption DEF Init, Stages
  <2>4. /\ port \in Ports
        /\ connected \subseteq Producers
        /\ terminated \in BOOLEAN
        /\ promise \in BOOLEAN
        /\ iterating \in BOOLEAN
        /\ latch \subseteq Items
        /\ lost \subseteq Items
    BY DEF Init
  <2>5. missed \subseteq Threads
    BY DEF Init
  <2> QED
    BY <2>1, <2>2, <2>3, <2>4, <2>5, Zenon DEF TypeOK, StagesTyped, QueuesTyped, ItemsTyped
<1>2. OrderInv
  <2>1. \A p \in Producers : seen[p] = 0 /\ sent[p] = 0 /\ pc[p] = "idle"
    BY DEF Init, Threads
  <2>2. \A k \in DOMAIN queues : DOMAIN queues[k] = {} /\ Contents(k) = {}
    BY DEF Init, Contents
  <2>3. latch = {}
    BY DEF Init
  <2> QED
    BY <2>1, <2>2, <2>3 DEF OrderInv, QueuesInOrder, NothingIsForgotten, SeenIsSent, Sending
<1>3. KindsKeepTheirPlaces
  BY ConsumerPortsAssumption DEF Init, KindsKeepTheirPlaces, Threads, Buffered
<1> QED
  BY <1>1, <1>2, <1>3, ConsumerPortsAssumption DEF Init, ConsumerPortsInv, ProducersHaveSent,
     PromiseHolds, Threads

\* What a producer sends is an item.
LEMMA ItemIsTyped ==
  ASSUME TypeOK, ProducersHaveSent, NEW p \in Producers, pc[p] # "idle"
  PROVE  Item(p) \in Items
BY ConsumerPortsAssumption DEF TypeOK, ItemsTyped, ProducersHaveSent, Item, Items

\* The items in the buffers and queues are items.
LEMMA ContentsAreTyped ==
  ASSUME TypeOK, NEW k \in DOMAIN queues
  PROVE  Contents(k) \subseteq Items
BY ElementOfSeq DEF TypeOK, QueuesTyped, Contents

\* So are those that a pop would take.
LEMMA HeadsAreTyped == TypeOK => Popped \subseteq Items
BY HeadTailProperties DEF TypeOK, QueuesTyped, ItemsTyped, Popped, Ready

\* What a consumer has seen of a producer is an item that it was given.
LEMMA ReturnsTyped ==
  ASSUME TypeOK, NEW from, NEW valid, NEW items \in SUBSET Items, Returns(from, valid, items)
  PROVE  seen' \in [Producers -> 0..MaxSends]
<1> DEFINE of(p) == \E i \in items : i[1] = p
           last(p) == (CHOOSE i \in items : i[1] = p)[2]
<1>1. ASSUME NEW p \in Producers, of(p) PROVE last(p) \in 0..MaxSends
  <2>1. PICK i \in items : i[1] = p
    BY <1>1
  <2>2. (CHOOSE j \in items : j[1] = p) \in items
    BY <2>1
  <2> QED
    BY <2>2, ConsumerPortsAssumption DEF Items
<1>2. seen' = [p \in Producers |-> IF of(p) THEN last(p) ELSE seen[p]]
  BY Zenon DEF Returns
<1>3. \A p \in Producers : seen[p] \in 0..MaxSends
  BY DEF TypeOK, ItemsTyped
<1> HIDE DEF of, last
<1> QED
  BY <1>1, <1>2, <1>3

\* Each conjunct of the invariant is kept by every step.
LEMMA StagesLemma == TypeOK /\ [Next]_vars => StagesTyped'
<1> SUFFICES ASSUME TypeOK, [Next]_vars PROVE StagesTyped'
  OBVIOUS
<1> USE ConsumerPortsAssumption DEF Goto, producing, stopping, reading, Threads, Returns, PopsAt, TypeOK,
   StagesTyped, Stages
<1>1. ASSUME NEW p \in Producers, Connect(p) PROVE StagesTyped'
  <2>1. pc' \in [Threads -> Stages]
    BY <1>1 DEF Connect, Multi, Buffered
  <2>2. /\ port' \in Ports
        /\ terminated' \in BOOLEAN
        /\ promise' \in BOOLEAN
        /\ iterating' \in BOOLEAN
    BY <1>1 DEF Connect
  <2> QED
    BY <2>1, <2>2
<1>2. ASSUME NEW p \in Producers, AddQueue(p) PROVE StagesTyped'
  <2>1. pc' \in [Threads -> Stages]
    BY <1>2 DEF AddQueue, Multi, Buffered
  <2>2. /\ port' \in Ports
        /\ terminated' \in BOOLEAN
        /\ promise' \in BOOLEAN
        /\ iterating' \in BOOLEAN
    BY <1>2 DEF AddQueue
  <2> QED
    BY <2>1, <2>2
<1>3. ASSUME NEW p \in Producers, Disconnect(p) PROVE StagesTyped'
  <2>1. pc' \in [Threads -> Stages]
    BY <1>3 DEF Disconnect, Multi, Buffered
  <2>2. /\ port' \in Ports
        /\ terminated' \in BOOLEAN
        /\ promise' \in BOOLEAN
        /\ iterating' \in BOOLEAN
    BY <1>3 DEF Disconnect
  <2> QED
    BY <2>1, <2>2
<1>4. ASSUME NEW p \in Producers, RemoveQueue(p) PROVE StagesTyped'
  <2>1. pc' \in [Threads -> Stages]
    BY <1>4 DEF RemoveQueue, Multi, Buffered
  <2>2. /\ port' \in Ports
        /\ terminated' \in BOOLEAN
        /\ promise' \in BOOLEAN
        /\ iterating' \in BOOLEAN
    BY <1>4 DEF RemoveQueue
  <2> QED
    BY <2>1, <2>2
<1>5. ASSUME HasNext PROVE StagesTyped'
  <2>1. pc' \in [Threads -> Stages]
    BY <1>5 DEF HasNext
  <2>2. Available \in BOOLEAN
    BY DEF Available, HasAll, HasAny
  <2>3. /\ port' \in Ports
        /\ terminated' \in BOOLEAN
        /\ promise' \in BOOLEAN
        /\ iterating' \in BOOLEAN
    BY <1>5, <2>2 DEF HasNext
  <2> QED
    BY <2>1, <2>2, <2>3
<1>6. ASSUME Clear PROVE StagesTyped'
  <2>1. pc' \in [Threads -> Stages]
    BY <1>6 DEF Clear, Multi, Buffered
  <2>2. /\ port' \in Ports
        /\ terminated' \in BOOLEAN
        /\ promise' \in BOOLEAN
        /\ iterating' \in BOOLEAN
    BY <1>6 DEF Clear
  <2> QED
    BY <2>1, <2>2
<1>7. ASSUME ReturnLatched PROVE StagesTyped'
  <2>1. pc' \in [Threads -> Stages]
    BY <1>7 DEF ReturnLatched, LooksAtBuffer
  <2>2. /\ port' \in Ports
        /\ terminated' \in BOOLEAN
        /\ promise' \in BOOLEAN
        /\ iterating' \in BOOLEAN
    BY <1>7 DEF ReturnLatched
  <2> QED
    BY <2>1, <2>2
<1>8. ASSUME GetNext PROVE StagesTyped'
  <2>1. pc' \in [Threads -> Stages]
    BY <1>8 DEF GetNext, LooksAtBuffer
  <2>2. /\ port' \in Ports
        /\ terminated' \in BOOLEAN
        /\ promise' \in BOOLEAN
        /\ iterating' \in BOOLEAN
    BY <1>8 DEF GetNext
  <2> QED
    BY <2>1, <2>2
<1>9. ASSUME GetNothing PROVE StagesTyped'
  <2>1. pc' \in [Threads -> Stages]
    BY <1>9 DEF GetNothing, LooksAtBuffer
  <2>2. /\ port' \in Ports
        /\ terminated' \in BOOLEAN
        /\ promise' \in BOOLEAN
        /\ iterating' \in BOOLEAN
    BY <1>9 DEF GetNothing
  <2> QED
    BY <2>1, <2>2
<1>10. ASSUME NEW p \in Producers, Send(p) PROVE StagesTyped'
  BY <1>10 DEF Send
<1>11. ASSUME NEW p \in Producers, ReceiveTests(p) PROVE StagesTyped'
  BY <1>11 DEF ReceiveTests
<1>12. ASSUME NEW p \in Producers, ReceivePushes(p) PROVE StagesTyped'
  BY <1>12 DEF ReceivePushes
<1>13. ASSUME NEW p \in Producers, ReceiveFails(p) PROVE StagesTyped'
  BY <1>13 DEF ReceiveFails
<1>14. ASSUME NEW p \in Producers, MultiReceive(p) PROVE StagesTyped'
  BY <1>14 DEF MultiReceive
<1>15. ASSUME NEW p \in Producers, CallbackReceive(p) PROVE StagesTyped'
  BY <1>15 DEF CallbackReceive
<1>16. ASSUME CallGetNext PROVE StagesTyped'
  BY <1>16 DEF CallGetNext
<1>17. ASSUME Begin PROVE StagesTyped'
  BY <1>17 DEF Begin
<1>18. ASSUME DecideToPop PROVE StagesTyped'
  BY <1>18 DEF DecideToPop
<1>19. ASSUME ClearGetter PROVE StagesTyped'
  BY <1>19 DEF ClearGetter
<1>20. ASSUME Compare PROVE StagesTyped'
  BY <1>20 DEF Compare
<1>21. ASSUME Deactivate PROVE StagesTyped'
  BY <1>21 DEF Deactivate
<1>22. ASSUME NEW t \in Threads, WakesUp(t) PROVE StagesTyped'
  BY <1>22 DEF WakesUp
<1>23. CASE UNCHANGED vars
  BY <1>23 DEF vars
<1> QED
  BY <1>1, <1>2, <1>3, <1>4, <1>5, <1>6, <1>7, <1>8, <1>9, <1>10, <1>11, <1>12, <1>13, <1>14,
     <1>15, <1>16, <1>17, <1>18, <1>19, <1>20, <1>21, <1>22, <1>23
     DEF Next, Receive, Reads

\* The steps keep the types of the queues.
LEMMA QueuesLemma == TypeOK /\ ProducersHaveSent /\ [Next]_vars => QueuesTyped'
<1> SUFFICES ASSUME TypeOK, ProducersHaveSent, [Next]_vars PROVE QueuesTyped'
  OBVIOUS
<1> USE ConsumerPortsAssumption DEF Goto, producing, stopping, reading, Threads, Returns, TypeOK,
   QueuesTyped
<1>1. ASSUME NEW p \in Producers, ReceivePushes(p) PROVE QueuesTyped'
  <2>1. Pushed(Consumer, Item(p)) /\ port' = port
    BY <1>1 DEF ReceivePushes
  <2>2. pc[p] # "idle"
    BY <1>1 DEF ReceivePushes
  <2>3. Item(p) \in Items
    BY <2>2, ItemIsTyped
  <2>4. Consumer \in Producers \cup {Consumer}
    BY ConsumerPortsAssumption
  <2>5. /\ DOMAIN queues' = DOMAIN queues \cup {Consumer}
        /\ queues' \in [DOMAIN queues \cup {Consumer} -> Seq(Items)]
        /\ \A l \in DOMAIN queues \cup {Consumer} : Len(queues'[l]) <= port.size
    BY <2>1, <2>3, <2>4, PushedLemma
  <2> QED
    BY <2>1, <2>2, <2>3, <2>4, <2>5
<1>2. ASSUME NEW p \in Producers, MultiReceive(p) PROVE QueuesTyped'
  <2>1. Pushed(p, Item(p)) /\ port' = port
    BY <1>2 DEF MultiReceive
  <2>2. pc[p] # "idle"
    BY <1>2 DEF MultiReceive
  <2>3. Item(p) \in Items
    BY <2>2, ItemIsTyped
  <2>4. p \in Producers \cup {Consumer}
    BY ConsumerPortsAssumption
  <2>5. /\ DOMAIN queues' = DOMAIN queues \cup {p}
        /\ queues' \in [DOMAIN queues \cup {p} -> Seq(Items)]
        /\ \A l \in DOMAIN queues \cup {p} : Len(queues'[l]) <= port.size
    BY <2>1, <2>3, <2>4, PushedLemma
  <2> QED
    BY <2>1, <2>2, <2>3, <2>4, <2>5
<1>3. ASSUME NEW p \in Producers, AddQueue(p) PROVE QueuesTyped'
  <2>1. port.size \in Nat /\ port.size > 0 /\ port' = port
    BY <1>3 DEF AddQueue, StagesTyped, Ports
  <2>2. /\ DOMAIN queues' \subseteq Producers \cup {Consumer}
        /\ queues' \in [DOMAIN queues' -> Seq(Items)]
        /\ \A k \in DOMAIN queues' : queues'[k] = <<>> \/ (k \in DOMAIN queues /\ queues'[k] = queues[k])
    BY <1>3 DEF AddQueue
  <2> QED
    BY <2>1, <2>2
<1>4. ASSUME Clear PROVE QueuesTyped'
  <2>1. port.size \in Nat /\ port.size > 0 /\ port' = port
    BY <1>4 DEF Clear, StagesTyped, Ports
  <2>2. /\ DOMAIN queues' \subseteq Producers \cup {Consumer}
        /\ queues' \in [DOMAIN queues' -> Seq(Items)]
        /\ \A k \in DOMAIN queues' : queues'[k] = <<>>
    BY <1>4 DEF Clear
  <2> QED
    BY <2>1, <2>2
<1>5. ASSUME GetNext PROVE QueuesTyped'
  <2>1. port.size \in Nat /\ port.size > 0 /\ port' = port
    BY <1>5 DEF GetNext, Returns, StagesTyped, Ports
  <2>2. queues' = [k \in DOMAIN queues |-> IF k \in Ready THEN Tail(queues[k]) ELSE <<>>]
    BY <1>5, Zenon DEF GetNext
  <2>3. \A k \in Ready : Tail(queues[k]) \in Seq(Items) /\ Len(Tail(queues[k])) <= port.size
    BY <2>1, HeadTailProperties DEF Ready
  <2> QED
    BY <2>1, <2>2, <2>3
<1>6. ASSUME NEW p \in Producers, Send(p) PROVE QueuesTyped'
  BY <1>6 DEF Send
<1>7. ASSUME NEW p \in Producers, ReceiveTests(p) PROVE QueuesTyped'
  BY <1>7 DEF ReceiveTests
<1>8. ASSUME NEW p \in Producers, ReceiveFails(p) PROVE QueuesTyped'
  BY <1>8 DEF ReceiveFails
<1>9. ASSUME NEW p \in Producers, CallbackReceive(p) PROVE QueuesTyped'
  BY <1>9 DEF CallbackReceive
<1>10. ASSUME NEW p \in Producers, Connect(p) PROVE QueuesTyped'
  BY <1>10 DEF Connect
<1>11. ASSUME NEW p \in Producers, Disconnect(p) PROVE QueuesTyped'
  BY <1>11 DEF Disconnect
<1>12. ASSUME NEW p \in Producers, RemoveQueue(p) PROVE QueuesTyped'
  BY <1>12 DEF RemoveQueue
<1>13. ASSUME HasNext PROVE QueuesTyped'
  BY <1>13 DEF HasNext
<1>14. ASSUME CallGetNext PROVE QueuesTyped'
  BY <1>14 DEF CallGetNext
<1>15. ASSUME Begin PROVE QueuesTyped'
  BY <1>15 DEF Begin
<1>16. ASSUME ReturnLatched PROVE QueuesTyped'
  BY <1>16 DEF ReturnLatched
<1>17. ASSUME DecideToPop PROVE QueuesTyped'
  BY <1>17 DEF DecideToPop
<1>18. ASSUME GetNothing PROVE QueuesTyped'
  BY <1>18 DEF GetNothing
<1>19. ASSUME ClearGetter PROVE QueuesTyped'
  BY <1>19 DEF ClearGetter
<1>20. ASSUME Compare PROVE QueuesTyped'
  BY <1>20 DEF Compare
<1>21. ASSUME Deactivate PROVE QueuesTyped'
  BY <1>21 DEF Deactivate
<1>22. ASSUME NEW t \in Threads, WakesUp(t) PROVE QueuesTyped'
  BY <1>22 DEF WakesUp
<1>23. CASE UNCHANGED vars
  BY <1>23 DEF vars
<1> QED
  BY <1>1, <1>2, <1>3, <1>4, <1>5, <1>6, <1>7, <1>8, <1>9, <1>10, <1>11, <1>12, <1>13, <1>14,
     <1>15, <1>16, <1>17, <1>18, <1>19, <1>20, <1>21, <1>22, <1>23
     DEF Next, Receive, Reads

\* The steps keep the types of what has been sent, seen, latched and lost.
LEMMA ItemsLemma == TypeOK /\ ProducersHaveSent /\ [Next]_vars => ItemsTyped'
<1> SUFFICES ASSUME TypeOK, ProducersHaveSent, [Next]_vars PROVE ItemsTyped'
  OBVIOUS
<1> USE ConsumerPortsAssumption DEF Goto, producing, stopping, reading, Threads, TypeOK, ItemsTyped
<1>1. ASSUME NEW p \in Producers, Send(p) PROVE ItemsTyped'
  <2>1. <<p, sent[p] + 1>> \in Items
    BY <1>1 DEF Send, Items
  <2>2. /\ sent' \in [Producers -> 0..MaxSends]
        /\ seen' \in [Producers -> 0..MaxSends]
    BY <1>1 DEF Send
  <2>3. /\ connected' \subseteq Producers
        /\ latch' \subseteq Items
        /\ lost' \subseteq Items
    BY <1>1, <2>1 DEF Send
  <2> QED
    BY <2>1, <2>2, <2>3
<1>2. ASSUME NEW p \in Producers, ReceiveTests(p) PROVE ItemsTyped'
  <2>1. Item(p) \in Items
    BY <1>2, ItemIsTyped DEF ReceiveTests
  <2>2. lost' \subseteq Items
    BY <1>2, <2>1 DEF ReceiveTests
  <2>3. /\ sent' \in [Producers -> 0..MaxSends]
        /\ seen' \in [Producers -> 0..MaxSends]
        /\ connected' \subseteq Producers
        /\ latch' \subseteq Items
    BY <1>2 DEF ReceiveTests
  <2> QED
    BY <2>1, <2>2, <2>3
<1>3. ASSUME NEW p \in Producers, ReceivePushes(p) PROVE ItemsTyped'
  <2>1. Item(p) \in Items
    BY <1>3, ItemIsTyped DEF ReceivePushes
  <2>2. Pushed(Consumer, Item(p))
    BY <1>3 DEF ReceivePushes
  <2>3. lost' \subseteq Items
    BY <2>1, <2>2, PushedLemma
  <2>4. /\ sent' \in [Producers -> 0..MaxSends]
        /\ seen' \in [Producers -> 0..MaxSends]
        /\ connected' \subseteq Producers
        /\ latch' \subseteq Items
    BY <1>3 DEF ReceivePushes
  <2> QED
    BY <2>1, <2>2, <2>3, <2>4
<1>4. ASSUME NEW p \in Producers, ReceiveFails(p) PROVE ItemsTyped'
  <2>1. Item(p) \in Items
    BY <1>4, ItemIsTyped DEF ReceiveFails
  <2>2. lost' \subseteq Items
    BY <1>4, <2>1 DEF ReceiveFails
  <2>3. /\ sent' \in [Producers -> 0..MaxSends]
        /\ seen' \in [Producers -> 0..MaxSends]
        /\ connected' \subseteq Producers
        /\ latch' \subseteq Items
    BY <1>4 DEF ReceiveFails
  <2> QED
    BY <2>1, <2>2, <2>3
<1>5. ASSUME NEW p \in Producers, MultiReceive(p) PROVE ItemsTyped'
  <2>1. Item(p) \in Items
    BY <1>5, ItemIsTyped DEF MultiReceive
  <2>2. Pushed(p, Item(p))
    BY <1>5 DEF MultiReceive
  <2>3. lost' \subseteq Items
    BY <2>1, <2>2, PushedLemma
  <2>4. /\ sent' \in [Producers -> 0..MaxSends]
        /\ seen' \in [Producers -> 0..MaxSends]
        /\ connected' \subseteq Producers
        /\ latch' \subseteq Items
    BY <1>5 DEF MultiReceive
  <2> QED
    BY <2>1, <2>2, <2>3, <2>4
<1>6. ASSUME NEW p \in Producers, RemoveQueue(p) PROVE ItemsTyped'
  <2>1. lost' \subseteq Items
    BY <1>6, ContentsAreTyped DEF RemoveQueue
  <2>2. /\ sent' \in [Producers -> 0..MaxSends]
        /\ seen' \in [Producers -> 0..MaxSends]
        /\ connected' \subseteq Producers
        /\ latch' \subseteq Items
    BY <1>6 DEF RemoveQueue
  <2> QED
    BY <2>1, <2>2
<1>7. ASSUME Clear PROVE ItemsTyped'
  <2>1. lost' \subseteq Items
    BY <1>7, ContentsAreTyped DEF Clear
  <2>2. /\ sent' \in [Producers -> 0..MaxSends]
        /\ seen' \in [Producers -> 0..MaxSends]
        /\ connected' \subseteq Producers
        /\ latch' \subseteq Items
    BY <1>7 DEF Clear
  <2> QED
    BY <2>1, <2>2
<1>8. ASSUME ReturnLatched PROVE ItemsTyped'
  <2>1. Returns("get", TRUE, latch)
    BY <1>8 DEF ReturnLatched
  <2>2. latch \subseteq Items
    BY HeadsAreTyped
  <2>3. seen' \in [Producers -> 0..MaxSends]
    BY <2>1, <2>2, ReturnsTyped
  <2>4. /\ sent' \in [Producers -> 0..MaxSends]
        /\ connected' \subseteq Producers
        /\ latch' \subseteq Items
        /\ lost' \subseteq Items
    BY <1>8, <2>2 DEF ReturnLatched, Returns
  <2> QED
    BY <2>1, <2>2, <2>3, <2>4
<1>9. ASSUME GetNext PROVE ItemsTyped'
  <2>1. Returns(PopsAt, TRUE, Popped)
    BY <1>9 DEF GetNext
  <2>2. Popped \subseteq Items
    BY HeadsAreTyped
  <2>3. seen' \in [Producers -> 0..MaxSends]
    BY <2>1, <2>2, ReturnsTyped
  <2>4. /\ sent' \in [Producers -> 0..MaxSends]
        /\ connected' \subseteq Producers
        /\ latch' \subseteq Items
        /\ lost' \subseteq Items
    BY <1>9, <2>2 DEF GetNext, Returns
  <2> QED
    BY <2>1, <2>2, <2>3, <2>4
<1>10. ASSUME GetNothing PROVE ItemsTyped'
  <2>1. Returns(PopsAt, FALSE, {})
    BY <1>10 DEF GetNothing
  <2>2. {} \subseteq Items
    BY HeadsAreTyped
  <2>3. seen' \in [Producers -> 0..MaxSends]
    BY <2>1, <2>2, ReturnsTyped
  <2>4. /\ sent' \in [Producers -> 0..MaxSends]
        /\ connected' \subseteq Producers
        /\ latch' \subseteq Items
        /\ lost' \subseteq Items
    BY <1>10, <2>2 DEF GetNothing, Returns
  <2> QED
    BY <2>1, <2>2, <2>3, <2>4
<1>11. ASSUME NEW p \in Producers, CallbackReceive(p) PROVE ItemsTyped'
  BY <1>11 DEF CallbackReceive
<1>12. ASSUME NEW p \in Producers, Connect(p) PROVE ItemsTyped'
  BY <1>12 DEF Connect
<1>13. ASSUME NEW p \in Producers, AddQueue(p) PROVE ItemsTyped'
  BY <1>13 DEF AddQueue
<1>14. ASSUME NEW p \in Producers, Disconnect(p) PROVE ItemsTyped'
  BY <1>14 DEF Disconnect
<1>15. ASSUME HasNext PROVE ItemsTyped'
  BY <1>15 DEF HasNext
<1>16. ASSUME CallGetNext PROVE ItemsTyped'
  BY <1>16 DEF CallGetNext
<1>17. ASSUME Begin PROVE ItemsTyped'
  BY <1>17 DEF Begin
<1>18. ASSUME DecideToPop PROVE ItemsTyped'
  BY <1>18 DEF DecideToPop
<1>19. ASSUME ClearGetter PROVE ItemsTyped'
  BY <1>19 DEF ClearGetter
<1>20. ASSUME Compare PROVE ItemsTyped'
  BY <1>20 DEF Compare
<1>21. ASSUME Deactivate PROVE ItemsTyped'
  BY <1>21 DEF Deactivate
<1>22. ASSUME NEW t \in Threads, WakesUp(t) PROVE ItemsTyped'
  BY <1>22 DEF WakesUp
<1>23. CASE UNCHANGED vars
  BY <1>23 DEF vars
<1> QED
  BY <1>1, <1>2, <1>3, <1>4, <1>5, <1>6, <1>7, <1>8, <1>9, <1>10, <1>11, <1>12, <1>13, <1>14,
     <1>15, <1>16, <1>17, <1>18, <1>19, <1>20, <1>21, <1>22, <1>23
     DEF Next, Receive, Reads

\* A producer in the middle of send() has counted what it sends.
LEMMA ProducersLemma == ProducersHaveSent /\ TypeOK /\ [Next]_vars => ProducersHaveSent'
<1> SUFFICES ASSUME ProducersHaveSent, TypeOK, [Next]_vars PROVE ProducersHaveSent'
  OBVIOUS
<1> USE ConsumerPortsAssumption DEF Goto, producing, stopping, reading, Threads, Returns, PopsAt
<1> USE DEF TypeOK, StagesTyped, ItemsTyped, ProducersHaveSent
<1>1. ASSUME NEW p \in Producers, Send(p) PROVE ProducersHaveSent'
  BY <1>1 DEF Send
<1>2. ASSUME NEW p \in Producers, ReceiveTests(p) PROVE ProducersHaveSent'
  BY <1>2 DEF ReceiveTests
<1>3. ASSUME NEW p \in Producers, ReceivePushes(p) PROVE ProducersHaveSent'
  BY <1>3 DEF ReceivePushes
<1>4. ASSUME NEW p \in Producers, ReceiveFails(p) PROVE ProducersHaveSent'
  BY <1>4 DEF ReceiveFails
<1>5. ASSUME NEW p \in Producers, MultiReceive(p) PROVE ProducersHaveSent'
  BY <1>5 DEF MultiReceive
<1>6. ASSUME NEW p \in Producers, CallbackReceive(p) PROVE ProducersHaveSent'
  BY <1>6 DEF CallbackReceive
<1>7. ASSUME NEW p \in Producers, Connect(p) PROVE ProducersHaveSent'
  BY <1>7 DEF Connect
<1>8. ASSUME NEW p \in Producers, AddQueue(p) PROVE ProducersHaveSent'
  BY <1>8 DEF AddQueue
<1>9. ASSUME NEW p \in Producers, Disconnect(p) PROVE ProducersHaveSent'
  BY <1>9 DEF Disconnect
<1>10. ASSUME NEW p \in Producers, RemoveQueue(p) PROVE ProducersHaveSent'
  BY <1>10 DEF RemoveQueue
<1>11. ASSUME HasNext PROVE ProducersHaveSent'
  BY <1>11 DEF HasNext
<1>12. ASSUME CallGetNext PROVE ProducersHaveSent'
  BY <1>12 DEF CallGetNext
<1>13. ASSUME Clear PROVE ProducersHaveSent'
  BY <1>13 DEF Clear
<1>14. ASSUME Begin PROVE ProducersHaveSent'
  BY <1>14 DEF Begin
<1>15. ASSUME ReturnLatched PROVE ProducersHaveSent'
  BY <1>15 DEF ReturnLatched
<1>16. ASSUME DecideToPop PROVE ProducersHaveSent'
  BY <1>16 DEF DecideToPop
<1>17. ASSUME GetNext PROVE ProducersHaveSent'
  BY <1>17 DEF GetNext
<1>18. ASSUME GetNothing PROVE ProducersHaveSent'
  BY <1>18 DEF GetNothing
<1>19. ASSUME ClearGetter PROVE ProducersHaveSent'
  BY <1>19 DEF ClearGetter
<1>20. ASSUME Compare PROVE ProducersHaveSent'
  BY <1>20 DEF Compare
<1>21. ASSUME Deactivate PROVE ProducersHaveSent'
  BY <1>21 DEF Deactivate
<1>22. ASSUME NEW t \in Threads, WakesUp(t) PROVE ProducersHaveSent'
  BY <1>22 DEF WakesUp
<1>23. CASE UNCHANGED vars
  BY <1>23 DEF vars
<1> QED
  BY <1>1, <1>2, <1>3, <1>4, <1>5, <1>6, <1>7, <1>8, <1>9, <1>10, <1>11, <1>12, <1>13, <1>14,
     <1>15, <1>16, <1>17, <1>18, <1>19, <1>20, <1>21, <1>22, <1>23
     DEF Next, Receive, Reads

\* Nobody but its own kind of port takes a step that a kind has.
LEMMA KindsLemma == KindsKeepTheirPlaces /\ TypeOK /\ [Next]_vars => KindsKeepTheirPlaces'
<1> SUFFICES ASSUME KindsKeepTheirPlaces, TypeOK, [Next]_vars PROVE KindsKeepTheirPlaces'
  OBVIOUS
<1> USE ConsumerPortsAssumption DEF Goto, producing, stopping, reading, Threads, Buffered, Multi, Latches,
   LooksAtBuffer, Pushed, Returns, PopsAt
<1> USE DEF TypeOK, StagesTyped, KindsKeepTheirPlaces, Ports
<1>1. ASSUME NEW p \in Producers, Send(p) PROVE KindsKeepTheirPlaces'
  BY <1>1 DEF Send
<1>2. ASSUME NEW p \in Producers, ReceiveTests(p) PROVE KindsKeepTheirPlaces'
  BY <1>2 DEF ReceiveTests
<1>3. ASSUME NEW p \in Producers, ReceivePushes(p) PROVE KindsKeepTheirPlaces'
  BY <1>3 DEF ReceivePushes
<1>4. ASSUME NEW p \in Producers, ReceiveFails(p) PROVE KindsKeepTheirPlaces'
  BY <1>4 DEF ReceiveFails
<1>5. ASSUME NEW p \in Producers, MultiReceive(p) PROVE KindsKeepTheirPlaces'
  BY <1>5 DEF MultiReceive
<1>6. ASSUME NEW p \in Producers, CallbackReceive(p) PROVE KindsKeepTheirPlaces'
  BY <1>6 DEF CallbackReceive
<1>7. ASSUME NEW p \in Producers, Connect(p) PROVE KindsKeepTheirPlaces'
  BY <1>7 DEF Connect
<1>8. ASSUME NEW p \in Producers, AddQueue(p) PROVE KindsKeepTheirPlaces'
  BY <1>8 DEF AddQueue
<1>9. ASSUME NEW p \in Producers, Disconnect(p) PROVE KindsKeepTheirPlaces'
  BY <1>9 DEF Disconnect
<1>10. ASSUME NEW p \in Producers, RemoveQueue(p) PROVE KindsKeepTheirPlaces'
  BY <1>10 DEF RemoveQueue
<1>11. ASSUME HasNext PROVE KindsKeepTheirPlaces'
  BY <1>11 DEF HasNext
<1>12. ASSUME CallGetNext PROVE KindsKeepTheirPlaces'
  BY <1>12 DEF CallGetNext
<1>13. ASSUME Clear PROVE KindsKeepTheirPlaces'
  BY <1>13 DEF Clear
<1>14. ASSUME Begin PROVE KindsKeepTheirPlaces'
  BY <1>14 DEF Begin
<1>15. ASSUME ReturnLatched PROVE KindsKeepTheirPlaces'
  BY <1>15 DEF ReturnLatched
<1>16. ASSUME DecideToPop PROVE KindsKeepTheirPlaces'
  BY <1>16 DEF DecideToPop
<1>17. ASSUME GetNext PROVE KindsKeepTheirPlaces'
  BY <1>17 DEF GetNext
<1>18. ASSUME GetNothing PROVE KindsKeepTheirPlaces'
  BY <1>18 DEF GetNothing
<1>19. ASSUME ClearGetter PROVE KindsKeepTheirPlaces'
  BY <1>19 DEF ClearGetter
<1>20. ASSUME Compare PROVE KindsKeepTheirPlaces'
  BY <1>20 DEF Compare
<1>21. ASSUME Deactivate PROVE KindsKeepTheirPlaces'
  BY <1>21 DEF Deactivate
<1>22. ASSUME NEW t \in Threads, WakesUp(t) PROVE KindsKeepTheirPlaces'
  BY <1>22 DEF WakesUp
<1>23. CASE UNCHANGED vars
  BY <1>23 DEF vars
<1> QED
  BY <1>1, <1>2, <1>3, <1>4, <1>5, <1>6, <1>7, <1>8, <1>9, <1>10, <1>11, <1>12, <1>13, <1>14,
     <1>15, <1>16, <1>17, <1>18, <1>19, <1>20, <1>21, <1>22, <1>23
     DEF Next, Receive, Reads

\* What may take something away ends the promise; the others add, or leave what
\* hasNext() has looked at alone.
LEMMA PromiseLemma ==
  PromiseHolds /\ TypeOK /\ ProducersHaveSent /\ KindsKeepTheirPlaces /\ [Next]_vars => PromiseHolds'
<1> SUFFICES ASSUME PromiseHolds, TypeOK, ProducersHaveSent, KindsKeepTheirPlaces, [Next]_vars
             PROVE  PromiseHolds'
  OBVIOUS
<1> USE ConsumerPortsAssumption DEF Goto, producing, stopping, reading, Threads
<1>1. ASSUME NEW p \in Producers, ReceivePushes(p) PROVE PromiseHolds'
  <2>1. Pushed(Consumer, Item(p)) /\ UNCHANGED <<port, latch, promise>> /\ pc'[Consumer] = pc[Consumer]
    BY <1>1 DEF ReceivePushes, TypeOK, StagesTyped
  <2>2. Item(p) \in Items
    BY <1>1, ItemIsTyped DEF ReceivePushes
  <2>3. Ready' = Ready \cup {Consumer} /\ DOMAIN queues' = DOMAIN queues \cup {Consumer}
    BY <2>1, <2>2, PushedLemma
  <2>4. (HasAll => HasAll') /\ (Available => Available')
    BY <2>1, <2>3, MoreIsAvailable
  <2>5. promise' => promise
    BY <2>1
  <2> QED
    BY <2>1, <2>2, <2>3, <2>4, <2>5 DEF PromiseHolds
<1>2. ASSUME NEW p \in Producers, MultiReceive(p) PROVE PromiseHolds'
  <2>1. Pushed(p, Item(p)) /\ UNCHANGED <<port, latch, promise>> /\ pc'[Consumer] = pc[Consumer]
    BY <1>2 DEF MultiReceive, TypeOK, StagesTyped
  <2>2. Item(p) \in Items
    BY <1>2, ItemIsTyped DEF MultiReceive
  <2>3. Ready' = Ready \cup {p} /\ DOMAIN queues' = DOMAIN queues \cup {p}
    BY <2>1, <2>2, PushedLemma
  <2>4. (HasAll => HasAll') /\ (Available => Available')
    BY <2>1, <2>3, MoreIsAvailable
  <2>5. promise' => promise
    BY <2>1
  <2> QED
    BY <2>1, <2>2, <2>3, <2>4, <2>5 DEF PromiseHolds
<1>3. ASSUME HasNext PROVE PromiseHolds'
  <2>1. UNCHANGED <<port, latch, queues>> /\ pc'[Consumer] = "idle" /\ promise' = Available
    BY <1>3 DEF HasNext, TypeOK, StagesTyped
  <2>2. Available' <=> Available
    BY <2>1 DEF Available, HasAll, HasAny, Ready
  <2>3. promise' => Available
    BY <2>1
  <2> QED
    BY <2>1, <2>2, <2>3 DEF PromiseHolds
<1> USE DEF TypeOK, StagesTyped, QueuesTyped, KindsKeepTheirPlaces, PromiseHolds, Buffered,
   Multi, Latches, LooksAtBuffer, Available, HasAll, HasAny, Ready, Returns, PopsAt
<1>4. ASSUME NEW p \in Producers, Send(p) PROVE PromiseHolds'
  BY <1>4 DEF Send
<1>5. ASSUME NEW p \in Producers, ReceiveTests(p) PROVE PromiseHolds'
  BY <1>5 DEF ReceiveTests
<1>6. ASSUME NEW p \in Producers, ReceiveFails(p) PROVE PromiseHolds'
  BY <1>6 DEF ReceiveFails
<1>7. ASSUME NEW p \in Producers, CallbackReceive(p) PROVE PromiseHolds'
  BY <1>7 DEF CallbackReceive
<1>8. ASSUME NEW p \in Producers, Connect(p) PROVE PromiseHolds'
  BY <1>8 DEF Connect
<1>9. ASSUME NEW p \in Producers, AddQueue(p) PROVE PromiseHolds'
  BY <1>9 DEF AddQueue
<1>10. ASSUME NEW p \in Producers, Disconnect(p) PROVE PromiseHolds'
  BY <1>10 DEF Disconnect
<1>11. ASSUME NEW p \in Producers, RemoveQueue(p) PROVE PromiseHolds'
  BY <1>11 DEF RemoveQueue
<1>12. ASSUME CallGetNext PROVE PromiseHolds'
  BY <1>12 DEF CallGetNext
<1>13. ASSUME Clear PROVE PromiseHolds'
  BY <1>13 DEF Clear
<1>14. ASSUME Begin PROVE PromiseHolds'
  BY <1>14 DEF Begin
<1>15. ASSUME ReturnLatched PROVE PromiseHolds'
  BY <1>15 DEF ReturnLatched
<1>16. ASSUME DecideToPop PROVE PromiseHolds'
  BY <1>16 DEF DecideToPop
<1>17. ASSUME GetNext PROVE PromiseHolds'
  BY <1>17 DEF GetNext
<1>18. ASSUME GetNothing PROVE PromiseHolds'
  BY <1>18 DEF GetNothing
<1>19. ASSUME ClearGetter PROVE PromiseHolds'
  BY <1>19 DEF ClearGetter
<1>20. ASSUME Compare PROVE PromiseHolds'
  BY <1>20 DEF Compare
<1>21. ASSUME Deactivate PROVE PromiseHolds'
  BY <1>21 DEF Deactivate
<1>22. ASSUME NEW t \in Threads, WakesUp(t) PROVE PromiseHolds'
  BY <1>22 DEF WakesUp
<1>23. CASE UNCHANGED vars
  BY <1>23 DEF vars
<1> QED
  BY <1>1, <1>2, <1>3, <1>4, <1>5, <1>6, <1>7, <1>8, <1>9, <1>10, <1>11, <1>12, <1>13, <1>14,
     <1>15, <1>16, <1>17, <1>18, <1>19, <1>20, <1>21, <1>22, <1>23
     DEF Next, Receive, Reads

-----------------------------------------------------------------------------
(* The order of the items.                                                 *)

\* A step that sends and shows nothing keeps the order, if what it takes out of the
\* queues, or out of the hands of a producer, is counted as lost.
LEMMA LosingKeepsOrder ==
  ASSUME TypeOK, OrderInv, UNCHANGED <<sent, seen, port>>, latch' \subseteq latch, lost \subseteq lost',
         \A p \in Producers : pc[p] = "idle" => pc'[p] = "idle",
         \A p \in Producers : pc[p] # "idle" /\ pc'[p] = "idle" => <<p, sent[p]>> \in lost',
         \A k \in DOMAIN queues' : queues'[k] = <<>> \/ (k \in DOMAIN queues /\ queues'[k] = queues[k]),
         \A k \in DOMAIN queues : Contents(k) \subseteq lost' \/ (k \in DOMAIN queues' /\ queues'[k] = queues[k])
  PROVE  OrderInv'
<1>1. \A p \in Producers : sent[p] \in Nat /\ seen[p] \in Nat
  BY ConsumerPortsAssumption DEF TypeOK, ItemsTyped
<1>2. \A p, n : Sending(p, n)' => Sending(p, n) \/ p \notin Producers
  BY DEF Sending
<1>3. \A k \in DOMAIN queues' : \A i \in Contents(k)' : k \in DOMAIN queues /\ i \in Contents(k)
  BY DEF Contents
<1>4. QueuesInOrder'
  <2> SUFFICES ASSUME NEW k \in DOMAIN queues'
               PROVE  /\ \A i, j \in DOMAIN queues'[k] :
                            i < j /\ queues'[k][i][1] = queues'[k][j][1] => queues'[k][i][2] < queues'[k][j][2]
                      /\ \A i \in Contents(k)' :
                            /\ Multi => i[1] = k
                            /\ seen[i[1]] < i[2] /\ i[2] <= sent[i[1]] /\ ~Sending(i[1], i[2])'
    BY DEF QueuesInOrder, Multi
  <2>1. \A i, j \in DOMAIN queues'[k] :
            i < j /\ queues'[k][i][1] = queues'[k][j][1] => queues'[k][i][2] < queues'[k][j][2]
    BY DEF OrderInv, QueuesInOrder
  <2>2. ASSUME NEW i \in Contents(k)'
        PROVE  /\ Multi => i[1] = k
               /\ seen[i[1]] < i[2] /\ i[2] <= sent[i[1]] /\ ~Sending(i[1], i[2])'
    <3>1. k \in DOMAIN queues /\ i \in Contents(k)
      BY <1>3
    <3>2. i[1] \in Producers
      BY <3>1, ContentsAreTyped DEF Items
    <3> QED
      BY <1>2, <3>1, <3>2 DEF OrderInv, QueuesInOrder
  <2> QED
    BY <2>1, <2>2
<1>5. NothingIsForgotten'
  <2> SUFFICES ASSUME NEW p \in Producers, NEW n \in (seen[p] + 1)..sent[p]
               PROVE  <<p, n>> \in lost' \/ Sending(p, n)' \/ \E k \in DOMAIN queues' : <<p, n>> \in Contents(k)'
    BY DEF NothingIsForgotten
  <2>1. CASE <<p, n>> \in lost
    BY <2>1
  <2>2. CASE Sending(p, n)
    BY <2>2 DEF Sending
  <2>3. ASSUME NEW k \in DOMAIN queues, <<p, n>> \in Contents(k)
        PROVE  <<p, n>> \in lost' \/ \E l \in DOMAIN queues' : <<p, n>> \in Contents(l)'
    BY <2>3 DEF Contents
  <2> QED
    BY <2>1, <2>2, <2>3 DEF OrderInv, NothingIsForgotten
<1>6. SeenIsSent'
  BY <1>2 DEF OrderInv, SeenIsSent, Latches
<1> QED
  BY <1>4, <1>5, <1>6 DEF OrderInv

\* A producer that sends counts an item that is lost or on its way.
LEMMA SendKeepsOrder ==
  ASSUME TypeOK, OrderInv, NEW p \in Producers, Send(p)
  PROVE  OrderInv'
<1>1. \A q \in Producers : sent[q] \in Nat /\ seen[q] \in Nat
  BY ConsumerPortsAssumption DEF TypeOK, ItemsTyped
<1>2. /\ sent'[p] = sent[p] + 1 /\ \A q \in Producers \ {p} : sent'[q] = sent[q]
      /\ pc[p] = "idle" /\ \A q \in Producers \ {p} : pc'[q] = pc[q]
      /\ UNCHANGED <<queues, seen, latch, port>>
  BY DEF Send, Goto, TypeOK, StagesTyped, ItemsTyped, Threads, reading
<1>3. /\ lost \subseteq lost'
      /\ <<p, sent[p] + 1>> \in lost' \/ pc'[p] # "idle"
  BY DEF Send, Goto, TypeOK, StagesTyped, Threads
<1>4. \A k \in DOMAIN queues : \A i : i \in Contents(k)' <=> i \in Contents(k)
  BY <1>2 DEF Contents
<1>5. QueuesInOrder'
  <2> SUFFICES ASSUME NEW k \in DOMAIN queues, NEW i \in Contents(k)
               PROVE  i[2] <= sent'[i[1]] /\ ~Sending(i[1], i[2])'
    BY <1>2, <1>4 DEF OrderInv, QueuesInOrder, Multi
  <2>1. i[1] \in Producers /\ i[2] \in Nat /\ i[2] <= sent[i[1]] /\ ~Sending(i[1], i[2])
    BY ContentsAreTyped DEF Items, OrderInv, QueuesInOrder
  <2> QED
    BY <1>1, <1>2, <2>1 DEF Sending
<1>6. NothingIsForgotten'
  <2> SUFFICES ASSUME NEW q \in Producers, NEW n \in (seen[q] + 1)..sent'[q]
               PROVE  <<q, n>> \in lost' \/ Sending(q, n)' \/ \E k \in DOMAIN queues : <<q, n>> \in Contents(k)
    BY <1>2, <1>4 DEF NothingIsForgotten
  <2>1. CASE q = p /\ n = sent[p] + 1
    BY <1>2, <1>3, <2>1 DEF Sending
  <2>2. CASE ~(q = p /\ n = sent[p] + 1)
    <3>1. n \in (seen[q] + 1)..sent[q]
      BY <1>1, <1>2, <2>2
    <3>2. Sending(q, n) => Sending(q, n)'
      BY <1>2 DEF Sending
    <3> QED
      BY <1>3, <3>1, <3>2 DEF OrderInv, NothingIsForgotten
  <2> QED
    BY <2>1, <2>2
<1>7. SeenIsSent'
  <2>1. \A q \in Producers : seen[q] <= sent'[q] /\ ~Sending(q, seen[q])'
    BY <1>1, <1>2 DEF OrderInv, SeenIsSent, Sending
  <2> QED
    BY <1>2, <2>1 DEF OrderInv, SeenIsSent, Latches
<1> QED
  BY <1>5, <1>6, <1>7 DEF OrderInv

\* push() leaves what was in the queue, less its oldest item if that is counted as
\* lost, and then the item.
LEMMA PushedSequence ==
  ASSUME TypeOK, NEW k \in Producers \cup {Consumer}, NEW i \in Items, Pushed(k, i)
  PROVE  \E d \in {0, 1} :
            LET old == IF k \in DOMAIN queues THEN queues[k] ELSE <<>>
                n == Len(old) - d
            IN  /\ n \in Nat
                /\ queues' = [l \in DOMAIN queues \cup {k} |-> IF l # k THEN queues[l] ELSE queues'[k]]
                /\ DOMAIN queues'[k] = 1..(n + 1)
                /\ \A j \in 1..n : queues'[k][j] = old[j + d]
                /\ queues'[k][n + 1] = i
                /\ lost \subseteq lost'
                /\ d = 1 => old[1] \in lost'
<1> DEFINE old == IF k \in DOMAIN queues THEN queues[k] ELSE <<>>
           full == Len(old) >= port.size
           new == Append(IF full THEN Tail(old) ELSE old, i)
<1>1. port.size \in Nat /\ port.size > 0
  BY ConsumerPortsAssumption DEF TypeOK, StagesTyped, Ports
<1>2. old \in Seq(Items)
  BY DEF TypeOK, QueuesTyped
<1>3. queues' = [l \in DOMAIN queues \cup {k} |-> IF l # k THEN queues[l] ELSE new]
  BY Zenon DEF Pushed
<1>4. lost' = IF full THEN lost \cup {Head(old)} ELSE lost
  BY Zenon DEF Pushed
<1>5. queues'[k] = new
  BY <1>3
<1>6. queues' = [l \in DOMAIN queues \cup {k} |-> IF l # k THEN queues[l] ELSE queues'[k]]
  BY <1>3, <1>5
<1>7. CASE full
  <2>1. old # <<>> /\ Len(old) \in Nat \ {0}
    BY <1>1, <1>2, <1>7
  <2>2. Tail(old) \in Seq(Items) /\ Len(Tail(old)) = Len(old) - 1
    BY <1>2, <2>1
  <2>3. \A j \in 1..(Len(old) - 1) : Tail(old)[j] = old[j + 1]
    BY <1>2, <2>1
  <2>4. new = Append(Tail(old), i)
    BY <1>7
  <2>5. Head(old) = old[1]
    BY <1>2, <2>1
  <2> HIDE DEF old, full, new
  <2>6. /\ DOMAIN new = 1..Len(old) /\ new[Len(old)] = i
        /\ \A j \in 1..(Len(old) - 1) : new[j] = old[j + 1]
    BY <2>1, <2>2, <2>3, <2>4, AppendProperties
  <2>7. Len(old) - 1 \in Nat /\ (Len(old) - 1) + 1 = Len(old)
    BY <2>1
  <2> QED
    BY <1>4, <1>5, <1>6, <1>7, <2>5, <2>6, <2>7 DEF old
<1>8. CASE ~full
  <2>1. new = Append(old, i) /\ Len(old) \in Nat
    BY <1>2, <1>8
  <2> HIDE DEF old, full, new
  <2>2. /\ DOMAIN new = 1..(Len(old) + 1) /\ new[Len(old) + 1] = i
        /\ \A j \in 1..Len(old) : new[j] = old[j]
    BY <1>2, <2>1, AppendProperties
  <2>3. Len(old) - 0 = Len(old) /\ \A j \in 1..Len(old) : j + 0 = j
    BY <2>1
  <2> QED
    BY <1>4, <1>5, <1>6, <1>8, <2>1, <2>2, <2>3 DEF old
<1> QED
  BY <1>7, <1>8

\* A push keeps the order: what is sent is newer than what the queue holds of its
\* producer, and the queue of a multi port is that of the producer.
LEMMA PushKeepsOrder ==
  ASSUME TypeOK, ProducersHaveSent, OrderInv,
         NEW p \in Producers, pc[p] # "idle", NEW k, Pushed(k, Item(p)),
         (Multi /\ k = p) \/ (Buffered /\ k = Consumer),
         pc' = [pc EXCEPT ![p] = "idle"], UNCHANGED <<sent, seen, port, latch>>
  PROVE  OrderInv'
<1>1. \A q \in Producers : sent[q] \in Nat /\ seen[q] \in Nat
  BY ConsumerPortsAssumption DEF TypeOK, ItemsTyped
<1>2. /\ pc'[p] = "idle" /\ \A q \in Producers \ {p} : pc'[q] = pc[q]
  BY DEF TypeOK, StagesTyped, Threads
<1>3. seen[p] < sent[p]
  BY <1>1 DEF OrderInv, SeenIsSent, Sending
<1>4. Item(p) \in Items /\ k \in Producers \cup {Consumer}
  BY ItemIsTyped
<1> DEFINE old == IF k \in DOMAIN queues THEN queues[k] ELSE <<>>
<1>5. old \in Seq(Items)
  BY DEF TypeOK, QueuesTyped
<1>6. PICK d \in {0, 1} :
        /\ Len(old) - d \in Nat
        /\ queues' = [l \in DOMAIN queues \cup {k} |-> IF l # k THEN queues[l] ELSE queues'[k]]
        /\ DOMAIN queues'[k] = 1..((Len(old) - d) + 1)
        /\ \A j \in 1..(Len(old) - d) : queues'[k][j] = old[j + d]
        /\ queues'[k][(Len(old) - d) + 1] = Item(p)
        /\ lost \subseteq lost'
        /\ d = 1 => old[1] \in lost'
  BY <1>4, PushedSequence
<1>7. PICK n \in Nat : n = Len(old) - d
  BY <1>6
<1>8. \A j \in 1..n : j + d \in DOMAIN old
  BY <1>5, <1>6, <1>7
\* What the queue held comes before what is sent.
<1>9. \A j \in DOMAIN old :
        /\ old[j] \in Items
        /\ Multi => old[j][1] = k
        /\ seen[old[j][1]] < old[j][2] /\ old[j][2] <= sent[old[j][1]] /\ ~Sending(old[j][1], old[j][2])
        /\ \A i \in DOMAIN old : i < j /\ old[i][1] = old[j][1] => old[i][2] < old[j][2]
  <2>1. CASE k \in DOMAIN queues
    <3>1. \A j \in DOMAIN old : old[j] \in Contents(k) /\ old = queues[k]
      BY <2>1 DEF Contents
    <3>2. \A j \in DOMAIN old : old[j] \in Items
      BY <1>5
    <3> HIDE DEF old
    <3> QED
      BY <2>1, <3>1, <3>2 DEF OrderInv, QueuesInOrder
  <2>2. CASE k \notin DOMAIN queues
    BY <2>2
  <2> QED
    BY <2>1, <2>2
<1>10. \A j \in DOMAIN old : old[j][1] = p => old[j][2] < sent[p]
  BY <1>1, <1>9 DEF Sending, Items
<1>11. Item(p)[1] = p /\ Item(p)[2] = sent[p]
  BY DEF Item
<1>12. /\ DOMAIN queues' = DOMAIN queues \cup {k}
       /\ \A l \in DOMAIN queues \ {k} : queues'[l] = queues[l]
  BY <1>6
<1> HIDE DEF old
<1>13. /\ DOMAIN queues'[k] = 1..(n + 1) /\ queues'[k][n + 1] = Item(p)
       /\ \A j \in 1..n : queues'[k][j] = old[j + d]
  BY <1>6, <1>7
<1>14. \A q \in Producers : \A m : Sending(q, m)' => Sending(q, m) /\ q # p
  BY <1>2 DEF Sending
\* The new queue is in order.
<1>15. QueuesInOrder'
  <2>1. ASSUME NEW l \in DOMAIN queues', l # k
        PROVE  /\ \A i, j \in DOMAIN queues'[l] :
                    i < j /\ queues'[l][i][1] = queues'[l][j][1] => queues'[l][i][2] < queues'[l][j][2]
               /\ \A i \in Contents(l)' :
                    /\ Multi' => i[1] = l
                    /\ seen'[i[1]] < i[2] /\ i[2] <= sent'[i[1]] /\ ~Sending(i[1], i[2])'
    <3>1. l \in DOMAIN queues /\ queues'[l] = queues[l]
      BY <1>12, <2>1
    <3>2. Contents(l)' = Contents(l)
      BY <3>1 DEF Contents
    <3>3. \A i \in Contents(l) : i[1] \in Producers
      BY <3>1, ContentsAreTyped DEF Items
    <3> QED
      BY <1>14, <3>1, <3>2, <3>3 DEF OrderInv, QueuesInOrder, Multi
  <2>2. \A i, j \in DOMAIN queues'[k] :
            i < j /\ queues'[k][i][1] = queues'[k][j][1] => queues'[k][i][2] < queues'[k][j][2]
    <3> SUFFICES ASSUME NEW i \in 1..(n + 1), NEW j \in 1..(n + 1), i < j, queues'[k][i][1] = queues'[k][j][1]
                 PROVE  queues'[k][i][2] < queues'[k][j][2]
      BY <1>13
    <3>1. i \in 1..n /\ queues'[k][i] = old[i + d] /\ i + d \in DOMAIN old
      BY <1>8, <1>13
    <3>2. CASE j = n + 1
      BY <1>10, <1>11, <1>13, <3>1, <3>2
    <3>3. CASE j # n + 1
      <4>1. j \in 1..n /\ queues'[k][j] = old[j + d] /\ j + d \in DOMAIN old /\ i + d < j + d
        BY <1>8, <1>13, <3>3
      <4> QED
        BY <1>9, <3>1, <4>1
    <3> QED
      BY <3>2, <3>3
  <2>3. ASSUME NEW i \in Contents(k)'
        PROVE  /\ Multi' => i[1] = k
               /\ seen'[i[1]] < i[2] /\ i[2] <= sent'[i[1]] /\ ~Sending(i[1], i[2])'
    <3>1. PICK j \in 1..(n + 1) : i = queues'[k][j]
      BY <1>13 DEF Contents
    <3>2. CASE j = n + 1
      <4>1. i = Item(p)
        BY <1>13, <3>1, <3>2
      <4>2. Multi' => k = p
        BY DEF Multi, Buffered
      <4> QED
        BY <1>1, <1>2, <1>3, <1>11, <4>1, <4>2 DEF Sending
    <3>3. CASE j # n + 1
      <4>1. i = old[j + d] /\ j + d \in DOMAIN old
        BY <1>8, <1>13, <3>1, <3>3
      <4>2. i[1] \in Producers
        BY <1>9, <4>1 DEF Items
      <4> QED
        BY <1>9, <1>14, <4>1, <4>2 DEF Multi
    <3> QED
      BY <3>2, <3>3
  <2> QED
    BY <2>1, <2>2, <2>3 DEF QueuesInOrder
<1>16. NothingIsForgotten'
  <2> SUFFICES ASSUME NEW q \in Producers, NEW m \in (seen[q] + 1)..sent[q]
               PROVE  <<q, m>> \in lost' \/ Sending(q, m)' \/ \E l \in DOMAIN queues' : <<q, m>> \in Contents(l)'
    BY DEF NothingIsForgotten
  <2>1. CASE <<q, m>> \in lost
    BY <1>6, <2>1
  <2>2. CASE Sending(q, m)
    <3>1. CASE q = p
      <4>1. <<q, m>> = queues'[k][n + 1]
        BY <1>13, <2>2, <3>1 DEF Sending, Item
      <4>2. n + 1 \in DOMAIN queues'[k]
        BY <1>13
      <4> QED
        BY <1>12, <4>1, <4>2 DEF Contents
    <3>2. CASE q # p
      BY <1>2, <2>2, <3>2 DEF Sending
    <3> QED
      BY <3>1, <3>2
  <2>3. ASSUME NEW l \in DOMAIN queues, <<q, m>> \in Contents(l), l # k
        PROVE  l \in DOMAIN queues' /\ <<q, m>> \in Contents(l)'
    BY <1>12, <2>3 DEF Contents
  <2>4. CASE k \in DOMAIN queues /\ <<q, m>> \in Contents(k)
    <3>1. old = queues[k]
      BY <2>4 DEF old
    <3>2. PICK j \in DOMAIN old : <<q, m>> = old[j]
      BY <2>4, <3>1 DEF Contents
    <3>3. j \in 1..(n + d)
      BY <1>5, <1>6, <1>7, <3>2
    <3>4. CASE d = 1 /\ j = 1
      BY <1>6, <3>2, <3>4
    <3>5. CASE ~(d = 1 /\ j = 1)
      <4>1. j - d \in 1..n /\ (j - d) + d = j
        BY <3>3, <3>5
      <4>2. queues'[k][j - d] = <<q, m>> /\ j - d \in DOMAIN queues'[k]
        BY <1>13, <3>2, <4>1
      <4> QED
        BY <1>12, <4>2 DEF Contents
    <3> QED
      BY <3>4, <3>5
  <2> QED
    BY <2>1, <2>2, <2>3, <2>4 DEF OrderInv, NothingIsForgotten
<1>17. SeenIsSent'
  BY <1>14 DEF OrderInv, SeenIsSent, Latches
<1> QED
  BY <1>15, <1>16, <1>17 DEF OrderInv

\* A callback shows the newest item of its producer, and there are no queues.
LEMMA CallbackKeepsOrder ==
  ASSUME TypeOK, KindsKeepTheirPlaces, OrderInv, NEW p \in Producers, CallbackReceive(p)
  PROVE  OrderInv'
<1>1. \A q \in Producers : sent[q] \in Nat /\ seen[q] \in Nat
  BY ConsumerPortsAssumption DEF TypeOK, ItemsTyped
<1>2. /\ seen'[p] = sent[p] /\ \A q \in Producers \ {p} : seen'[q] = seen[q]
      /\ pc'[p] = "idle" /\ \A q \in Producers \ {p} : pc'[q] = pc[q]
      /\ UNCHANGED <<queues, sent, lost, latch, port>>
  BY DEF CallbackReceive, Goto, producing, stopping, TypeOK, StagesTyped, ItemsTyped, Threads
<1>3. DOMAIN queues = {} /\ ~Latches
  BY DEF CallbackReceive, KindsKeepTheirPlaces, Latches, TypeOK, StagesTyped, Ports
<1>4. \A q \in Producers : \A n : q # p => (Sending(q, n)' <=> Sending(q, n))
  BY <1>2 DEF Sending
<1>5. QueuesInOrder'
  BY <1>2, <1>3 DEF QueuesInOrder
<1>6. NothingIsForgotten'
  <2> SUFFICES ASSUME NEW q \in Producers, NEW n \in (seen'[q] + 1)..sent[q]
               PROVE  <<q, n>> \in lost \/ Sending(q, n)'
    BY <1>2 DEF NothingIsForgotten
  <2>1. q # p
    BY <1>1, <1>2
  <2> QED
    BY <1>2, <1>3, <1>4, <2>1 DEF OrderInv, NothingIsForgotten
<1>7. SeenIsSent'
  <2>1. \A q \in Producers : seen'[q] <= sent[q] /\ ~Sending(q, seen[q])'
    <3>1. ASSUME NEW q \in Producers \ {p} PROVE seen'[q] <= sent[q] /\ ~Sending(q, seen[q])'
      <4>1. seen'[q] = seen[q] /\ pc'[q] = pc[q] /\ sent' = sent
        BY <1>2, <3>1
      <4>2. seen[q] <= sent[q] /\ ~Sending(q, seen[q])
        BY <3>1 DEF OrderInv, SeenIsSent
      <4> QED
        BY <4>1, <4>2 DEF Sending
    <3>2. seen'[p] <= sent[p] /\ ~Sending(p, seen[p])'
      BY <1>1, <1>2 DEF Sending
    <3> QED
      BY <3>1, <3>2
  <2> QED
    <3>1. latch' = {} /\ sent' = sent
      BY <1>2, <1>3 DEF OrderInv, SeenIsSent
    <3>2. \A i \in latch' : Latches' /\ i[2] = seen'[i[1]]
      BY <3>1
    <3>3. \A q \in Producers : seen'[q] <= sent'[q] /\ ~Sending(q, seen[q])'
      BY <2>1, <3>1
    <3> QED
      BY <3>2, <3>3 DEF SeenIsSent, Sending
<1> QED
  BY <1>5, <1>6, <1>7 DEF OrderInv

\* The first item of a queue, and what comes after it.
LEMMA HeadIsFirst ==
  ASSUME TypeOK, NEW k \in Ready
  PROVE  /\ k \in DOMAIN queues /\ Len(queues[k]) \in Nat \ {0}
         /\ Head(queues[k]) = queues[k][1] /\ 1 \in DOMAIN queues[k]
         /\ Head(queues[k]) \in Contents(k)
         /\ DOMAIN queues[k] = 1..Len(queues[k])
         /\ DOMAIN Tail(queues[k]) = 1..(Len(queues[k]) - 1)
         /\ \A j \in 1..(Len(queues[k]) - 1) : Tail(queues[k])[j] = queues[k][j + 1] /\ j + 1 \in DOMAIN queues[k]
<1>1. k \in DOMAIN queues /\ queues[k] \in Seq(Items) /\ queues[k] # <<>>
  BY DEF Ready, TypeOK, QueuesTyped
<1>2. Len(queues[k]) \in Nat \ {0} /\ Head(queues[k]) = queues[k][1] /\ DOMAIN queues[k] = 1..Len(queues[k])
  BY <1>1
<1>3. /\ DOMAIN Tail(queues[k]) = 1..(Len(queues[k]) - 1)
      /\ \A j \in 1..(Len(queues[k]) - 1) : Tail(queues[k])[j] = queues[k][j + 1]
  BY <1>1
<1>4. 1 \in DOMAIN queues[k] /\ \A j \in 1..(Len(queues[k]) - 1) : j + 1 \in DOMAIN queues[k]
  BY <1>2
<1> QED
  BY <1>1, <1>2, <1>3, <1>4 DEF Contents

\* What a pop takes is of one queue or latch for each producer, and it is what comes
\* next: newer than what was seen, or the same if it comes from a latch.
LEMMA PoppedComesNext ==
  ASSUME TypeOK, KindsKeepTheirPlaces, OrderInv
  PROVE  /\ \A i \in Popped :
              /\ i \in Items
              /\ \/ i \in latch /\ i[2] = seen[i[1]] /\ Latches /\ Multi /\ i[1] \notin Ready
                 \/ \E k \in Ready : i = Head(queues[k]) /\ seen[i[1]] < i[2]
              /\ i[2] <= sent[i[1]] /\ ~Sending(i[1], i[2])
         /\ \A i, j \in Popped : i[1] = j[1] => i = j
<1>1. ASSUME NEW k \in Ready
      PROVE  /\ Head(queues[k]) \in Items
             /\ Multi => Head(queues[k])[1] = k
             /\ Buffered => k = Consumer
             /\ seen[Head(queues[k])[1]] < Head(queues[k])[2] /\ Head(queues[k])[2] <= sent[Head(queues[k])[1]]
             /\ ~Sending(Head(queues[k])[1], Head(queues[k])[2])
  <2>1. Head(queues[k]) \in Contents(k) /\ k \in DOMAIN queues
    BY HeadIsFirst
  <2> QED
    BY <2>1, ContentsAreTyped DEF OrderInv, QueuesInOrder, KindsKeepTheirPlaces
<1>2. Multi \/ Buffered \/ Ready = {}
  BY DEF TypeOK, StagesTyped, Ports, Multi, Buffered, KindsKeepTheirPlaces, Ready
<1>3. ~(Multi /\ Buffered)
  BY DEF Multi, Buffered
<1>4. ASSUME NEW i \in latch
      PROVE  /\ i \in Items /\ i[2] = seen[i[1]] /\ Latches
             /\ i[2] <= sent[i[1]] /\ ~Sending(i[1], i[2])
  <2>1. i \in Items /\ i[1] \in Producers
    BY DEF TypeOK, ItemsTyped, Items
  <2> QED
    BY <2>1 DEF OrderInv, SeenIsSent
<1>5. ASSUME NEW i \in Popped
      PROVE  \/ i \in latch /\ Multi /\ i[1] \notin Ready
             \/ \E k \in Ready : i = Head(queues[k])
  BY DEF Popped
<1>6. ASSUME NEW i \in Popped, NEW j \in Popped, i[1] = j[1] PROVE i = j
  <2>1. CASE i \in latch /\ Multi /\ i[1] \notin Ready
    <3>1. j \in latch
      BY <1>1, <1>5, <1>6, <2>1
    <3>2. i \in Items /\ j \in Items /\ i[2] = j[2]
      BY <1>4, <1>6, <2>1, <3>1
    <3> QED
      BY <1>6, <3>2 DEF Items
  <2>2. ASSUME NEW k \in Ready, i = Head(queues[k]) PROVE i = j
    <3>1. CASE Buffered
      BY <1>1, <1>3, <1>5, <2>2, <3>1
    <3>2. CASE Multi
      <4>1. i[1] = k
        BY <1>1, <2>2, <3>2
      <4>2. PICK l \in Ready : j = Head(queues[l])
        BY <1>5, <1>6, <2>2, <4>1
      <4>3. l = k
        BY <1>1, <1>6, <3>2, <4>1, <4>2
      <4> QED
        BY <2>2, <4>2, <4>3
    <3> QED
      BY <1>2, <3>1, <3>2
  <2> QED
    BY <1>5, <2>1, <2>2
<1> QED
  BY <1>1, <1>4, <1>5, <1>6

\* A getter that returns such items has seen them, and nothing else.
LEMMA ReturnsShow ==
  ASSUME NEW from, NEW valid, NEW items, Returns(from, valid, items),
         \A i, j \in items : i[1] = j[1] => i = j
  PROVE  /\ \A i \in items : i[1] \in Producers => seen'[i[1]] = i[2]
         /\ \A p \in Producers : (\A i \in items : i[1] # p) => seen'[p] = seen[p]
<1>1. seen' = [p \in Producers |->
            IF \E i \in items : i[1] = p THEN (CHOOSE i \in items : i[1] = p)[2] ELSE seen[p]]
  BY Zenon DEF Returns
<1>2. ASSUME NEW i \in items, i[1] \in Producers PROVE seen'[i[1]] = i[2]
  <2>1. (CHOOSE j \in items : j[1] = i[1]) \in items /\ (CHOOSE j \in items : j[1] = i[1])[1] = i[1]
    OBVIOUS
  <2>2. (CHOOSE j \in items : j[1] = i[1]) = i
    BY <2>1
  <2> QED
    BY <1>1, <1>2, <2>2
<1>3. ASSUME NEW p \in Producers, \A i \in items : i[1] # p PROVE seen'[p] = seen[p]
  BY <1>1, <1>3
<1> QED
  BY <1>2, <1>3

\* A pop keeps the order: it takes the first item of each queue, and what is left is
\* newer.
LEMMA PopKeepsOrder ==
  ASSUME TypeOK, KindsKeepTheirPlaces, OrderInv, GetNext
  PROVE  OrderInv'
<1>1. \A q \in Producers : sent[q] \in Nat /\ seen[q] \in Nat
  BY ConsumerPortsAssumption DEF TypeOK, ItemsTyped
<1>2. Returns(PopsAt, TRUE, Popped) /\ UNCHANGED <<sent, port, lost>>
  BY DEF GetNext, Returns, producing, stopping
<1>3. /\ DOMAIN queues' = DOMAIN queues
      /\ \A k \in Ready : queues'[k] = Tail(queues[k])
      /\ \A k \in DOMAIN queues \ Ready : queues'[k] = <<>>
  <2>1. queues' = [k \in DOMAIN queues |-> IF k \in Ready THEN Tail(queues[k]) ELSE <<>>]
    BY Zenon DEF GetNext
  <2> QED
    BY <2>1 DEF Ready
<1>4. \A q \in Producers : pc'[q] = pc[q]
  BY ConsumerPortsAssumption DEF GetNext, Returns, Goto, TypeOK, StagesTyped, Threads
<1>5. \A q \in Producers : \A n : Sending(q, n)' <=> Sending(q, n)
  BY <1>2, <1>4 DEF Sending
<1>6. \A i \in Popped : i[1] \in Producers /\ i[2] \in Nat /\ seen'[i[1]] = i[2]
  <2>1. \A i \in Popped : i \in Items
    BY PoppedComesNext
  <2>2. \A i, j \in Popped : i[1] = j[1] => i = j
    BY PoppedComesNext
  <2>3. \A i \in Popped : i[1] \in Producers => seen'[i[1]] = i[2]
    BY <1>2, <2>2, ReturnsShow
  <2> QED
    BY <2>1, <2>3 DEF Items
<1>7. \A p \in Producers : (\A i \in Popped : i[1] # p) => seen'[p] = seen[p]
  BY <1>2, PoppedComesNext, ReturnsShow
<1>8. \A p \in Producers : seen'[p] \in Nat /\ seen[p] <= seen'[p]
  <2> SUFFICES ASSUME NEW p \in Producers PROVE seen'[p] \in Nat /\ seen[p] <= seen'[p]
    OBVIOUS
  <2>1. CASE \E i \in Popped : i[1] = p
    <3>1. PICK i \in Popped : i[1] = p
      BY <2>1
    <3>2. seen[p] <= i[2] /\ i[2] \in Nat
      BY <1>1, <1>6, <3>1, PoppedComesNext
    <3> QED
      BY <1>6, <3>1, <3>2
  <2>2. CASE ~\E i \in Popped : i[1] = p
    BY <1>1, <1>7, <2>2
  <2> QED
    BY <2>1, <2>2
\* What is left of a queue.
<1>9. ASSUME NEW k \in DOMAIN queues', NEW i \in Contents(k)'
      PROVE  /\ k \in Ready /\ i \in Contents(k) /\ i \in Items
             /\ i[1] = Head(queues[k])[1] => Head(queues[k])[2] < i[2]
  <2>1. k \in Ready
    BY <1>3, <1>9 DEF Contents
  <2>2. PICK j \in 1..(Len(queues[k]) - 1) : i = queues[k][j + 1]
    <3>1. PICK j \in DOMAIN queues'[k] : i = queues'[k][j]
      BY <1>9 DEF Contents
    <3>2. queues'[k] = Tail(queues[k])
      BY <1>3, <2>1
    <3> QED
      BY <2>1, <3>1, <3>2, HeadIsFirst
  <2>3. j + 1 \in DOMAIN queues[k] /\ 1 \in DOMAIN queues[k] /\ 1 < j + 1 /\ k \in DOMAIN queues
    BY <2>1, <2>2, HeadIsFirst
  <2>4. i \in Contents(k)
    BY <2>2, <2>3 DEF Contents
  <2> QED
    BY <2>1, <2>2, <2>3, <2>4, HeadIsFirst, ContentsAreTyped DEF OrderInv, QueuesInOrder
<1>10. QueuesInOrder'
  <2>1. ASSUME NEW k \in DOMAIN queues', NEW i \in DOMAIN queues'[k], NEW j \in DOMAIN queues'[k],
               i < j, queues'[k][i][1] = queues'[k][j][1]
        PROVE  queues'[k][i][2] < queues'[k][j][2]
    <3>1. k \in Ready
      BY <1>3, <2>1
    <3>2. /\ i \in 1..(Len(queues[k]) - 1) /\ j \in 1..(Len(queues[k]) - 1) /\ k \in DOMAIN queues
          /\ queues'[k][i] = queues[k][i + 1] /\ queues'[k][j] = queues[k][j + 1]
          /\ i + 1 \in DOMAIN queues[k] /\ j + 1 \in DOMAIN queues[k]
      BY <1>3, <2>1, <3>1, HeadIsFirst
    <3>3. i + 1 < j + 1
      BY <2>1, <3>2
    <3> QED
      BY <2>1, <3>2, <3>3 DEF OrderInv, QueuesInOrder
  <2>2. ASSUME NEW k \in DOMAIN queues', NEW i \in Contents(k)'
        PROVE  /\ Multi' => i[1] = k
               /\ seen'[i[1]] < i[2] /\ i[2] <= sent'[i[1]] /\ ~Sending(i[1], i[2])'
    <3>1. k \in Ready /\ k \in DOMAIN queues /\ i \in Contents(k) /\ i[1] \in Producers /\ i[2] \in Nat
      BY <1>9, <2>2 DEF Items, Ready
    <3>2. /\ Multi => i[1] = k
          /\ seen[i[1]] < i[2] /\ i[2] <= sent[i[1]] /\ ~Sending(i[1], i[2])
      BY <3>1 DEF OrderInv, QueuesInOrder
    <3>3. seen'[i[1]] < i[2]
      <4>1. CASE \E h \in Popped : h[1] = i[1]
        <5>1. PICK h \in Popped : h[1] = i[1]
          BY <4>1
        <5>2. Head(queues[k]) \in Popped
          BY <3>1 DEF Popped
        <5>3. h = Head(queues[k])
          <6>1. CASE Multi
            <7>1. Head(queues[k])[1] = k
              BY <3>1, <6>1, HeadIsFirst DEF OrderInv, QueuesInOrder
            <7> QED
              BY <3>2, <5>1, <5>2, <6>1, <7>1, PoppedComesNext
          <6>2. CASE ~Multi
            <7>1. Buffered
              BY <3>1, <6>2 DEF TypeOK, StagesTyped, Ports, Multi, Buffered, KindsKeepTheirPlaces
            <7>2. Ready \subseteq {Consumer}
              BY <7>1 DEF KindsKeepTheirPlaces, Ready
            <7> QED
              BY <3>1, <5>1, <6>2, <7>2, PoppedComesNext
          <6> QED
            BY <6>1, <6>2
        <5> QED
          BY <1>6, <1>9, <2>2, <5>1, <5>3
      <4>2. CASE ~\E h \in Popped : h[1] = i[1]
        BY <1>7, <3>1, <3>2, <4>2
      <4> QED
        BY <4>1, <4>2
    <3> QED
      BY <1>2, <1>5, <3>1, <3>2, <3>3 DEF Multi
  <2> QED
    BY <2>1, <2>2 DEF QueuesInOrder
<1>11. NothingIsForgotten'
  <2> SUFFICES ASSUME NEW p \in Producers, NEW n \in (seen'[p] + 1)..sent[p]
               PROVE  <<p, n>> \in lost \/ Sending(p, n) \/ \E k \in DOMAIN queues' : <<p, n>> \in Contents(k)'
    BY <1>2, <1>5 DEF NothingIsForgotten
  <2>1. n \in (seen[p] + 1)..sent[p] /\ seen'[p] < n
    BY <1>1, <1>8
  <2>2. ASSUME NEW k \in DOMAIN queues, <<p, n>> \in Contents(k)
        PROVE  <<p, n>> \in Contents(k)'
    <3>1. PICK j \in DOMAIN queues[k] : <<p, n>> = queues[k][j]
      BY <2>2 DEF Contents
    <3>2. k \in Ready
      BY <3>1 DEF Ready
    <3>3. j # 1
      <4>1. SUFFICES ASSUME j = 1 PROVE FALSE
        OBVIOUS
      <4>2. <<p, n>> \in Popped
        BY <3>1, <3>2, <4>1, HeadIsFirst DEF Popped
      <4> QED
        BY <1>6, <2>1, <4>2
    <3>4. j - 1 \in 1..(Len(queues[k]) - 1) /\ (j - 1) + 1 = j
      BY <3>1, <3>2, <3>3, HeadIsFirst
    <3>5. j - 1 \in DOMAIN queues'[k] /\ queues'[k][j - 1] = <<p, n>>
      BY <1>3, <3>1, <3>2, <3>4, HeadIsFirst
    <3> QED
      BY <3>5 DEF Contents
  <2> QED
    BY <1>3, <2>1, <2>2 DEF OrderInv, NothingIsForgotten
<1>12. SeenIsSent'
  <2>1. ASSUME NEW p \in Producers PROVE seen'[p] <= sent[p] /\ ~Sending(p, seen'[p])
    <3>1. CASE \E i \in Popped : i[1] = p
      BY <1>6, <3>1, PoppedComesNext
    <3>2. CASE ~\E i \in Popped : i[1] = p
      BY <1>7, <3>2 DEF OrderInv, SeenIsSent
    <3> QED
      BY <3>1, <3>2
  <2>2. latch' = IF Latches THEN Popped ELSE {}
    BY DEF GetNext
  <2>3. Latches' = Latches
    BY <1>2 DEF Latches
  <2> QED
    BY <1>2, <1>5, <1>6, <2>1, <2>2, <2>3 DEF SeenIsSent
<1> QED
  BY <1>10, <1>11, <1>12 DEF OrderInv

\* Every step keeps the order.
LEMMA OrderLemma ==
  OrderInv /\ TypeOK /\ ProducersHaveSent /\ KindsKeepTheirPlaces /\ [Next]_vars => OrderInv'
<1> SUFFICES ASSUME OrderInv, TypeOK, ProducersHaveSent, KindsKeepTheirPlaces, [Next]_vars
             PROVE  OrderInv'
  OBVIOUS
<1> DEFINE ProducersRest == \A p \in Producers : pc'[p] = pc[p]
           QueuesRest == queues' = queues /\ lost \subseteq lost'
           Shown == UNCHANGED <<sent, seen, port>> /\ latch' \subseteq latch
<1> HIDE DEF ProducersRest, QueuesRest, Shown
<1>1. ASSUME Shown, QueuesRest, ProducersRest PROVE OrderInv'
  BY <1>1, LosingKeepsOrder DEF Shown, QueuesRest, ProducersRest
<1>2. ASSUME NEW t \in {Consumer, Master}, NEW from, NEW to, Goto(t, from, to) PROVE ProducersRest
  BY <1>2, ConsumerPortsAssumption DEF ProducersRest, Goto, TypeOK, StagesTyped, Threads
<1>3. ASSUME NEW p \in Producers, Send(p) PROVE OrderInv'
  BY <1>3, SendKeepsOrder
<1>4. ASSUME NEW p \in Producers, ReceiveTests(p) \/ ReceiveFails(p) PROVE OrderInv'
  <2>1. /\ pc[p] # "idle" /\ \A q \in Producers \ {p} : pc'[q] = pc[q]
        /\ pc'[p] = "idle" => <<p, sent[p]>> \in lost'
        /\ lost \subseteq lost' /\ UNCHANGED <<queues, sent, seen, port, latch>>
    BY <1>4 DEF ReceiveTests, ReceiveFails, Goto, Item, producing, stopping, reading, TypeOK, StagesTyped, Threads
  <2> QED
    BY <2>1, LosingKeepsOrder
<1>5. ASSUME NEW p \in Producers, ReceivePushes(p) PROVE OrderInv'
  <2>1. /\ pc[p] # "idle" /\ Buffered /\ Pushed(Consumer, Item(p))
        /\ pc' = [pc EXCEPT ![p] = "idle"] /\ UNCHANGED <<sent, seen, port, latch>>
    BY <1>5 DEF ReceivePushes, Goto, producing, stopping, reading
  <2>2. (Multi /\ Consumer = p) \/ (Buffered /\ Consumer = Consumer)
    BY <2>1
  <2> QED
    BY <2>1, <2>2, PushKeepsOrder
<1>6. ASSUME NEW p \in Producers, MultiReceive(p) PROVE OrderInv'
  <2>1. /\ pc[p] # "idle" /\ Multi /\ Pushed(p, Item(p))
        /\ pc' = [pc EXCEPT ![p] = "idle"] /\ UNCHANGED <<sent, seen, port, latch>>
    BY <1>6 DEF MultiReceive, Goto, producing, stopping, reading
  <2>2. Multi
    BY <2>1
  <2>3. (Multi /\ p = p) \/ (Buffered /\ p = Consumer)
    BY <2>2
  <2> QED
    BY <2>1, <2>3, PushKeepsOrder
<1>7. ASSUME NEW p \in Producers, CallbackReceive(p) PROVE OrderInv'
  BY <1>7, CallbackKeepsOrder
<1>8. CASE HasNext \/ CallGetNext \/ DecideToPop \/ Begin \/ Compare \/ ClearGetter \/ Deactivate
  <2>1. ProducersRest
    BY <1>2, <1>8 DEF HasNext, CallGetNext, DecideToPop, Begin, Compare, ClearGetter, Deactivate
  <2>2. Shown /\ QueuesRest
    BY <1>8 DEF HasNext, CallGetNext, DecideToPop, Begin, Compare, ClearGetter, Deactivate, producing, stopping, reading,
       Shown, QueuesRest
  <2> QED
    BY <1>1, <2>1, <2>2
<1>9. ASSUME NEW p \in Producers, Connect(p) \/ Disconnect(p) PROVE OrderInv'
  <2>1. ProducersRest
    BY <1>2, <1>9 DEF Connect, Disconnect
  <2>2. Shown /\ QueuesRest
    BY <1>9 DEF Connect, Disconnect, reading, Shown, QueuesRest
  <2> QED
    BY <1>1, <2>1, <2>2
<1>10. CASE ReturnLatched \/ GetNothing
  <2>1. ProducersRest
    BY <1>2, <1>10 DEF ReturnLatched, GetNothing, Returns
  <2>2. PICK items : /\ items \subseteq latch
                     /\ \E from, valid : Returns(from, valid, items)
    <3>1. CASE ReturnLatched
      <4>1. Returns("get", TRUE, latch)
        BY <3>1 DEF ReturnLatched
      <4> QED
        BY <4>1
    <3>2. CASE GetNothing
      <4>1. \E from, valid : Returns(from, valid, {})
        BY <3>2 DEF GetNothing
      <4> QED
        BY <4>1
    <3> QED
      BY <1>10, <3>1, <3>2
  <2> PICK from, valid : Returns(from, valid, items)
    BY <2>2
  <2>3. \A i \in items : i \in Items /\ i[1] \in Producers /\ i[2] = seen[i[1]]
    BY <2>2 DEF OrderInv, SeenIsSent, TypeOK, ItemsTyped, Items
  <2>4. \A i, j \in items : i[1] = j[1] => i = j
    BY <2>3 DEF Items
  <2>5. /\ \A i \in items : seen'[i[1]] = i[2]
        /\ \A p \in Producers : (\A i \in items : i[1] # p) => seen'[p] = seen[p]
    BY <2>2, <2>3, <2>4, ReturnsShow
  <2>6. \A p \in Producers : seen'[p] = seen[p]
    BY <2>3, <2>5
  <2>7. seen' = seen
    <3>1. seen \in [Producers -> 0..MaxSends] /\ seen' = [p \in Producers |-> seen'[p]]
      BY <2>2 DEF TypeOK, ItemsTyped, Returns
    <3> QED
      BY <2>6, <3>1
  <2>8. Shown /\ QueuesRest
    BY <1>10, <2>7 DEF ReturnLatched, GetNothing, Returns, producing, stopping, Shown, QueuesRest
  <2> QED
    BY <1>1, <2>1, <2>8
<1>11. CASE GetNext
  BY <1>11, PopKeepsOrder
<1>12. CASE Clear
  <2>1. ProducersRest
    BY <1>2, <1>12 DEF Clear
  <2>2. /\ Shown /\ lost \subseteq lost'
        /\ \A k \in DOMAIN queues' : queues'[k] = <<>>
        /\ \A k \in DOMAIN queues : Contents(k) \subseteq lost'
    BY <1>12 DEF Clear, producing, stopping, reading, Shown
  <2> QED
    BY <2>1, <2>2, LosingKeepsOrder DEF Shown, ProducersRest
<1>13. ASSUME NEW p \in Producers, AddQueue(p) PROVE OrderInv'
  <2>1. ProducersRest
    BY <1>2, <1>13 DEF AddQueue
  <2>2. /\ Shown /\ lost \subseteq lost'
        /\ \A k \in DOMAIN queues' : queues'[k] = <<>> \/ (k \in DOMAIN queues /\ queues'[k] = queues[k])
        /\ \A k \in DOMAIN queues : k \in DOMAIN queues' /\ queues'[k] = queues[k]
    BY <1>13 DEF AddQueue, producing, stopping, reading, Shown
  <2> QED
    BY <2>1, <2>2, LosingKeepsOrder DEF Shown, ProducersRest
<1>14. ASSUME NEW p \in Producers, RemoveQueue(p) PROVE OrderInv'
  <2>1. ProducersRest
    BY <1>2, <1>14 DEF RemoveQueue
  <2>2. /\ Shown /\ lost \subseteq lost'
        /\ \A k \in DOMAIN queues' : k \in DOMAIN queues /\ queues'[k] = queues[k]
        /\ \A k \in DOMAIN queues \ {p} : k \in DOMAIN queues' /\ queues'[k] = queues[k]
        /\ Contents(p) \subseteq lost'
    BY <1>14 DEF RemoveQueue, producing, stopping, reading, Shown
  <2> QED
    BY <2>1, <2>2, LosingKeepsOrder DEF Shown, ProducersRest
<1>15. CASE UNCHANGED vars
  BY <1>1, <1>15 DEF vars, Shown, QueuesRest, ProducersRest
<1>16. ASSUME NEW t \in Threads, WakesUp(t) PROVE OrderInv'
  BY <1>1, <1>16 DEF WakesUp, producing, reading, Shown, QueuesRest, ProducersRest
<1> QED
  BY <1>3, <1>4, <1>5, <1>6, <1>7, <1>8, <1>9, <1>10, <1>11, <1>12, <1>13, <1>14, <1>15, <1>16
     DEF Next, Receive, Reads

-----------------------------------------------------------------------------
\* Only a thread that waits in a call can be left asleep.
LEMMA MissedLemma == TypeOK /\ [Next]_vars => missed' \subseteq Threads
<1> SUFFICES ASSUME TypeOK, [Next]_vars PROVE missed' \subseteq Threads
  OBVIOUS
<1>1. missed \subseteq Threads
  BY DEF TypeOK
<1>2. CASE Deactivate
  <2>1. Waiting \subseteq Threads
    BY DEF Waiting, Threads
  <2> QED
    BY <1>1, <1>2, <2>1 DEF Deactivate
<1>3. ASSUME ~Deactivate, Next PROVE missed' \subseteq missed
  BY <1>3 DEF Next, Send, Receive, ReceiveTests, ReceivePushes, ReceiveFails, MultiReceive, CallbackReceive,
     HasNext, CallGetNext, Clear, Begin, Reads, ReturnLatched, DecideToPop, GetNext, GetNothing, Returns,
     ClearGetter, Compare, Connect, AddQueue, Disconnect, RemoveQueue, WakesUp, stopping
<1> QED
  BY <1>1, <1>2, <1>3 DEF vars

\* Every step keeps the invariant.
LEMMA NextInv == ConsumerPortsInv /\ [Next]_vars => ConsumerPortsInv'
BY StagesLemma, QueuesLemma, ItemsLemma, MissedLemma, ProducersLemma, KindsLemma, PromiseLemma, OrderLemma
   DEF ConsumerPortsInv, TypeOK

\* Every reachable state of a consumer port satisfies the invariant: items, queues
\* and counters stay what they are, and what hasNext() has promised can be had
\* (buffered_consumer_port.h:173, multi_consumer_port.h:197).
THEOREM ConsumerPortsSafety == Spec => []ConsumerPortsInv
BY InitInv, NextInv, PTL DEF Spec

\* The invariant implies that hasNext() is kept.
LEMMA InvKeeps == ConsumerPortsInv => HasNextIsKept
<1> SUFFICES ASSUME ConsumerPortsInv, promise
             PROVE  /\ pc[Consumer] = "get" => LooksAtBuffer \/ Poppable
                    /\ pc[Consumer] = "pop" => Poppable
  BY DEF HasNextIsKept
<1>1. Available
  BY DEF ConsumerPortsInv, PromiseHolds
<1>2. port \in Ports
  BY DEF ConsumerPortsInv, TypeOK, StagesTyped
<1>3. pc[Consumer] = "get" => LooksAtBuffer \/ Poppable
  BY <1>1, <1>2 DEF Available, LooksAtBuffer, Poppable, Latches, Buffered, Multi, Ports
<1>4. pc[Consumer] = "pop" => HasAll /\ Buffered
  BY DEF ConsumerPortsInv, PromiseHolds, KindsKeepTheirPlaces
<1>5. Buffered /\ HasAll => Poppable
  BY <1>2 DEF Poppable, Buffered, Multi, Ports
<1> QED
  BY <1>3, <1>4, <1>5

\* A getNext() after a hasNext() that was true does not wait, for any number of
\* producers that send at the same time, every policy and every size of the buffers
\* (queue_getter.h:29, multi_queue_getter.h:67).
THEOREM HasNextKept == Spec => []HasNextIsKept
BY ConsumerPortsSafety, InvKeeps, PTL

-----------------------------------------------------------------------------
\* What a step that returns from getNext() does: it returns the latch, or pops.
LEMMA WhoReturns ==
  ASSUME ConsumerPortsInv, Next, Got
  PROVE  ReturnLatched \/ GetNext
<1>1. pc \in [Threads -> Stages] /\ Consumer \in Threads
  BY DEF ConsumerPortsInv, TypeOK, StagesTyped, Threads
<1>2. ASSUME NEW t \in Producers \cup {Master}, NEW from, NEW to, Goto(t, from, to) PROVE FALSE
  BY <1>1, <1>2, ConsumerPortsAssumption DEF Goto, Got, Threads
<1>3. ASSUME NEW p \in Producers, Send(p) \/ Receive(p) PROVE FALSE
  BY <1>2, <1>3 DEF Send, Receive, ReceiveTests, ReceivePushes, ReceiveFails, MultiReceive, CallbackReceive
<1>4. ASSUME NEW p \in Producers, Connect(p) \/ AddQueue(p) \/ Disconnect(p) \/ RemoveQueue(p) PROVE FALSE
  BY <1>2, <1>4 DEF Connect, AddQueue, Disconnect, RemoveQueue
<1>5. CASE Deactivate
  BY <1>2, <1>5 DEF Deactivate
<1>6. CASE HasNext \/ CallGetNext \/ Clear \/ Begin \/ ClearGetter \/ Compare
  BY <1>1, <1>6 DEF HasNext, CallGetNext, Clear, Begin, ClearGetter, Compare, Goto, Got
<1>7. CASE DecideToPop
  BY <1>1, <1>7 DEF DecideToPop, Goto, Got
<1>8. CASE GetNothing
  BY <1>8 DEF GetNothing, Returns, Got
<1>9. ASSUME NEW t \in Threads, WakesUp(t) PROVE FALSE
  BY <1>9 DEF WakesUp, Got
<1> QED
  BY <1>3, <1>4, <1>5, <1>6, <1>7, <1>8, <1>9 DEF Next, Reads

\* The items of a producer are handed on in the order they were sent, one at a time,
\* and none is passed over that was not dropped where the code drops items; a second
\* time only from a latch; something new with every result of AtLeastOneNew, and one
\* of each queue with every result of a Blocking multi port (lock_queue.h:118,
\* multi_lock_queue.h:105, queue_getter.h:60, multi_queue_getter.h:97).
THEOREM ItemsAreHandedOnInOrder == Spec => ItemsComeInOrder
<1> DEFINE Handed ==
        /\ \A p \in Producers : \A i \in Fresh(p) :
            /\ Fresh(p) = {i}
            /\ i[2] >= seen[p]
            /\ \A n \in (seen[p] + 1)..(i[2] - 1) : <<p, n>> \in lost
            /\ i[2] = seen[p] => Latches
        /\ port.mode = "AtLeastOneNew" /\ result'.items # {} =>
            \E i \in result'.items : i[2] > seen[i[1]]
        /\ Multi /\ port.mode = "Blocking" =>
            {i[1] : i \in result'.items} = DOMAIN queues
<1>1. ASSUME ConsumerPortsInv, ReturnLatched PROVE Handed
  <2>1. result'.items = latch /\ Latches /\ Buffered
    BY <1>1 DEF ReturnLatched, Returns, LooksAtBuffer
  <2>2. \A i \in latch : i \in Items /\ i[2] = seen[i[1]] /\ i[1] \in Producers
    BY <1>1 DEF ConsumerPortsInv, TypeOK, ItemsTyped, Items, OrderInv, SeenIsSent
  <2>3. \A i, j \in latch : i[1] = j[1] => i = j
    BY <2>2 DEF Items
  <2>4. \A p \in Producers : seen[p] \in Nat
    BY <1>1, ConsumerPortsAssumption DEF ConsumerPortsInv, TypeOK, ItemsTyped
  <2>5. ASSUME NEW p \in Producers, NEW i \in Fresh(p)
        PROVE  /\ Fresh(p) = {i}
               /\ i[2] >= seen[p]
               /\ \A n \in (seen[p] + 1)..(i[2] - 1) : <<p, n>> \in lost
               /\ i[2] = seen[p] => Latches
    <3>1. i \in latch /\ i[1] = p
      BY <2>1, <2>5 DEF Fresh
    <3>2. Fresh(p) = {i}
      BY <2>1, <2>3, <3>1 DEF Fresh
    <3>3. i[2] = seen[p]
      BY <2>2, <3>1
    <3> QED
      BY <2>1, <2>4, <3>2, <3>3
  <2>6. port.mode # "AtLeastOneNew" /\ ~Multi
    BY <1>1, <2>1 DEF Buffered, Multi, ConsumerPortsInv, TypeOK, StagesTyped, Ports
  <2> QED
    BY <2>5, <2>6
<1>2. ASSUME ConsumerPortsInv, GetNext PROVE Handed
  <2>1. result'.items = Popped /\ Poppable
    BY <1>2 DEF GetNext, Returns
  <2>2. TypeOK /\ KindsKeepTheirPlaces /\ OrderInv
    BY <1>2 DEF ConsumerPortsInv
  <2>3. \A i \in Popped :
              /\ i \in Items
              /\ \/ i \in latch /\ i[2] = seen[i[1]] /\ Latches /\ Multi /\ i[1] \notin Ready
                 \/ \E k \in Ready : i = Head(queues[k]) /\ seen[i[1]] < i[2]
              /\ i[2] <= sent[i[1]] /\ ~Sending(i[1], i[2])
    BY <2>2, PoppedComesNext
  <2>4. \A i, j \in Popped : i[1] = j[1] => i = j
    BY <2>2, PoppedComesNext
  <2>5. \A p \in Producers : seen[p] \in Nat /\ sent[p] \in Nat
    BY <2>2, ConsumerPortsAssumption DEF TypeOK, ItemsTyped
  <2>6. ASSUME NEW p \in Producers, NEW i \in Fresh(p)
        PROVE  /\ Fresh(p) = {i}
               /\ i[2] >= seen[p]
               /\ \A n \in (seen[p] + 1)..(i[2] - 1) : <<p, n>> \in lost
               /\ i[2] = seen[p] => Latches
    <3>1. i \in Popped /\ i[1] = p /\ i[2] \in Nat
      BY <2>1, <2>3, <2>6 DEF Fresh, Items
    <3>2. Fresh(p) = {i}
      BY <2>1, <2>4, <3>1 DEF Fresh
    <3>3. CASE i \in latch /\ i[2] = seen[i[1]] /\ Latches
      BY <2>5, <3>1, <3>2, <3>3
    <3>4. ASSUME NEW k \in Ready, i = Head(queues[k]), seen[p] < i[2]
          PROVE  \A n \in (seen[p] + 1)..(i[2] - 1) : <<p, n>> \in lost
      <4> SUFFICES ASSUME NEW n \in (seen[p] + 1)..(i[2] - 1) PROVE <<p, n>> \in lost
        OBVIOUS
      <4>1. n \in (seen[p] + 1)..sent[p] /\ n < i[2] /\ n # sent[p]
        BY <2>3, <2>5, <3>1
      <4>2. ~Sending(p, n)
        BY <4>1 DEF Sending
      <4>3. ASSUME NEW l \in DOMAIN queues, <<p, n>> \in Contents(l) PROVE FALSE
        <5>1. l \in Ready
          BY <4>3 DEF Contents, Ready
        <5>2. i \in Contents(k) /\ k \in DOMAIN queues
          BY <3>4, HeadIsFirst, <2>2
        <5>3. l = k
          <6>1. CASE Multi
            BY <2>2, <3>1, <4>3, <5>2, <6>1 DEF OrderInv, QueuesInOrder
          <6>2. CASE ~Multi
            BY <2>2, <4>3, <5>2, <6>2
               DEF TypeOK, StagesTyped, Ports, Multi, Buffered, KindsKeepTheirPlaces
          <6> QED
            BY <6>1, <6>2
        <5>4. PICK j \in DOMAIN queues[k] : <<p, n>> = queues[k][j]
          BY <4>3, <5>3 DEF Contents
        <5>5. i = queues[k][1] /\ 1 \in DOMAIN queues[k] /\ j \in Nat /\ j >= 1
          BY <2>2, <3>4, <5>4, HeadIsFirst
        <5>6. CASE j = 1
          BY <3>1, <4>1, <5>4, <5>5, <5>6
        <5>7. CASE j # 1
          <6>1. 1 < j
            BY <5>5, <5>7
          <6>2. queues[k][1][1] = queues[k][j][1] /\ queues[k][j][2] = n
            BY <3>1, <5>4, <5>5
          <6>3. i[2] < n
            BY <2>2, <5>2, <5>4, <5>5, <6>1, <6>2 DEF OrderInv, QueuesInOrder
          <6> QED
            BY <2>5, <3>1, <4>1, <6>3
        <5> QED
          BY <5>6, <5>7
      <4> QED
        BY <2>2, <4>1, <4>2, <4>3 DEF OrderInv, NothingIsForgotten
    <3>5. CASE \E k \in Ready : i = Head(queues[k]) /\ seen[i[1]] < i[2]
      BY <2>5, <3>1, <3>2, <3>4, <3>5
    <3> QED
      BY <2>3, <3>1, <3>3, <3>5
  <2>7. ASSUME NEW k \in Ready
        PROVE  Head(queues[k]) \in Popped /\ Head(queues[k])[2] > seen[Head(queues[k])[1]]
    <3>1. Head(queues[k]) \in Contents(k) /\ k \in DOMAIN queues
      BY <2>2, HeadIsFirst
    <3>2. Head(queues[k])[1] \in Producers /\ Head(queues[k])[2] \in Nat
      BY <2>2, <3>1, ContentsAreTyped DEF Items
    <3> QED
      BY <2>2, <2>5, <3>1, <3>2 DEF Popped, OrderInv, QueuesInOrder
  <2>8. ASSUME port.mode = "AtLeastOneNew", Popped # {}
        PROVE  \E i \in Popped : i[2] > seen[i[1]]
    <3>1. CASE latch = {}
      BY <2>7, <2>8, <3>1 DEF Popped
    <3>2. CASE latch # {}
      BY <2>1, <2>2, <2>7, <2>8, <3>2
         DEF Poppable, HasAny, Multi, TypeOK, StagesTyped, Ports
    <3> QED
      BY <3>1, <3>2
  <2>9. ASSUME Multi, port.mode = "Blocking"
        PROVE  {i[1] : i \in Popped} = DOMAIN queues
    <3>1. latch = {}
      BY <2>2, <2>9 DEF OrderInv, SeenIsSent, Latches
    <3>2. Ready = DOMAIN queues
      BY <2>1, <2>9 DEF Poppable, HasAll
    <3>3. Popped = {Head(queues[k]) : k \in DOMAIN queues}
      BY <3>1, <3>2 DEF Popped
    <3>4. \A k \in DOMAIN queues : Head(queues[k])[1] = k
      BY <2>2, <2>9, <3>2, HeadIsFirst DEF OrderInv, QueuesInOrder
    <3> QED
      BY <3>3, <3>4
  <2> QED
    BY <2>1, <2>6, <2>8, <2>9
<1>3. ConsumerPortsInv /\ [Next]_vars => [Got => Handed]_vars
  BY <1>1, <1>2, WhoReturns
<1> QED
  BY <1>3, ConsumerPortsSafety, PTL DEF Spec, ItemsComeInOrder
=============================================================================
