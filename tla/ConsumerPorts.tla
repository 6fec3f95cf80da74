--------------------------- MODULE ConsumerPorts ---------------------------
(***************************************************************************)
(* The data side of the consumer ports: producers send() from threads of   *)
(* their own, one thread reads the port with hasNext(), getNext(), clear() *)
(* and range-for, and a master thread connects, disconnects and            *)
(* deactivates it.  The port is a BufferedConsumerPort, a                  *)
(* MultiConsumerPort or a CallbackConsumerPort with any of its policies,   *)
(* chosen in the initial state.                                            *)
(*                                                                         *)
(* The queues are what BoundedQueue and KeyedQueues promise, which         *)
(* LockQueue and MultiLockQueue implement: each operation is one step.  As *)
(* producer_port.h requires, a producer that is sending is not connected   *)
(* or disconnected.                                                        *)
(***************************************************************************)
EXTENDS Naturals, Sequences

CONSTANTS
    Producers,
    Consumer,       \* the thread that reads the port, and the key of its only buffer
    Master,         \* the thread that connects and deactivates it
    MaxBuffer,      \* bound: the largest buffer
    MaxSends        \* bound: how often each producer sends

ASSUME ConsumerPortsAssumption ==
    /\ Consumer \notin Producers /\ Master \notin Producers \cup {Consumer}
    /\ MaxBuffer \in Nat \ {0} /\ MaxSends \in Nat

VARIABLES
    port,           \* the class and the policies of the port
    connected,      \* the producers that send to it
    queues,         \* buffer_, or multi_queue_: the items <<producer, number>>
    terminated,     \* terminated_ of the queues
    latch,          \* opt, or last_items_, of the getter
    sent,           \* sent[p]: num_transactions_ of producer p
    pc,             \* where each thread is
    result,         \* what the last getNext() has returned
    promise,        \* hasNext() was true, and nothing has been taken away since
    iterating,      \* the consumer is in a range-for
    seen,           \* seen[p]: the last item of p that was returned
    lost,           \* the items that were dropped where the code drops them
    missed          \* the thread that deactivate() has left asleep

vars == <<port, connected, queues, terminated, latch, sent, pc, result, promise, iterating, seen, lost, missed>>

Threads == Producers \cup {Consumer, Master}

Ports ==
    [kind : {"buffered"}, mode : {"Blocking", "Latched"}, leak : {"Leaky", "PushBlocking"}, size : 1..MaxBuffer]
    \cup [kind : {"multi"}, mode : {"Blocking", "Latched", "ReadyOnly", "AtLeastOneNew"},
          leak : {"Leaky"}, size : 1..MaxBuffer]
    \cup [kind : {"callback"}, mode : {"Callback"}, leak : {"Leaky"}, size : {1}]

Buffered == port.kind = "buffered"
Multi == port.kind = "multi"

Init ==
    /\ port \in Ports
    /\ connected = {}
    /\ queues = [k \in {c \in {Consumer} : Buffered} |-> <<>>]
    /\ terminated = FALSE
    /\ latch = {}
    /\ sent = [p \in Producers |-> 0]
    /\ pc = [t \in Threads |-> "idle"]
    /\ result = [valid |-> TRUE, items |-> {}]
    /\ promise = FALSE
    /\ iterating = FALSE
    /\ seen = [p \in Producers |-> 0]
    /\ lost = {}
    /\ missed = {}

Goto(t, from, to) == pc[t] = from /\ pc' = [pc EXCEPT ![t] = to]

producing == <<connected, sent, port>>
stopping == <<terminated, missed>>
reading == <<latch, result, iterating, seen>>

Contents(k) == {queues[k][i] : i \in DOMAIN queues[k]}

-----------------------------------------------------------------------------
\* send() and receive(), in the thread of a producer.

Item(p) == <<p, sent[p]>>

Send(p) ==
    /\ sent[p] < MaxSends
    /\ Goto(p, "idle", IF p \in connected THEN "receive" ELSE "idle")
    /\ sent' = [sent EXCEPT ![p] = @ + 1]
    /\ lost' = IF p \in connected THEN lost ELSE lost \cup {<<p, sent[p] + 1>>}
    /\ UNCHANGED <<port, connected, queues, stopping, promise, reading>>

\* Mutation: the newest item is dropped.
PushedUnlessFull(k, i) ==
    LET old == IF k \in DOMAIN queues THEN queues[k] ELSE <<>>
        full == Len(old) >= port.size IN
    /\ queues' = [l \in DOMAIN queues \cup {k} |->
            IF l # k THEN queues[l] ELSE IF full THEN old ELSE Append(old, i)]
    /\ lost' = IF full /\ old # <<>> THEN lost \cup {Head(old)} ELSE lost

\* Mutation: the queue is full one item too late.
PushedBeyond(k, i) ==
    LET old == IF k \in DOMAIN queues THEN queues[k] ELSE <<>>
        full == Len(old) > port.size IN
    /\ queues' = [l \in DOMAIN queues \cup {k} |->
            IF l # k THEN queues[l] ELSE Append(IF full THEN Tail(old) ELSE old, i)]
    /\ lost' = IF full THEN lost \cup {Head(old)} ELSE lost

\* push() to the queue of key k, which may be new, and drops its oldest item when
\* it is full.
Pushed(k, i) ==
    LET old == IF k \in DOMAIN queues THEN queues[k] ELSE <<>>
        full == Len(old) >= port.size IN
    /\ queues' = [l \in DOMAIN queues \cup {k} |->
            IF l # k THEN queues[l] ELSE Append(IF full THEN Tail(old) ELSE old, i)]
    /\ lost' = IF full THEN lost \cup {Head(old)} ELSE lost

\* BufferedConsumerPort::receive() drops the item if the port is deactivated, also
\* while the push waits for room.
ReceiveTests(p) ==
    /\ Buffered
    /\ Goto(p, "receive", IF terminated THEN "idle" ELSE "push")
    /\ lost' = IF terminated THEN lost \cup {Item(p)} ELSE lost
    /\ UNCHANGED <<producing, queues, stopping, promise, reading>>

ReceivePushes(p) ==
    /\ Buffered /\ ~terminated
    /\ port.leak = "PushBlocking" => Len(queues[Consumer]) < port.size
    /\ Goto(p, "push", "idle")
    /\ Pushed(Consumer, Item(p))
    /\ UNCHANGED <<producing, stopping, promise, reading>>

\* Mutation: the push waits for room, whatever happens.
ReceiveWaits(p) ==
    /\ Buffered /\ terminated /\ p \notin missed
    /\ Len(queues[Consumer]) < port.size
    /\ Goto(p, "push", "idle")
    /\ lost' = lost \cup {Item(p)}
    /\ UNCHANGED <<producing, queues, stopping, promise, reading>>

ReceiveFails(p) ==
    /\ Buffered /\ terminated /\ p \notin missed
    /\ Goto(p, "push", "idle")
    /\ lost' = lost \cup {Item(p)}
    /\ UNCHANGED <<producing, queues, stopping, promise, reading>>

\* MultiConsumerPort::receive() does not ask whether the port is deactivated, and
\* notifies the consumer.
MultiReceive(p) ==
    /\ Multi /\ Goto(p, "receive", "idle")
    /\ Pushed(p, Item(p))
    /\ missed' = missed \ {Consumer}
    /\ UNCHANGED <<producing, terminated, promise, reading>>

\* CallbackConsumerPort::receive() calls the callback in the producer's thread.
CallbackReceive(p) ==
    /\ port.kind = "callback" /\ Goto(p, "receive", "idle")
    /\ seen' = [seen EXCEPT ![p] = sent[p]]
    /\ UNCHANGED <<producing, queues, stopping, latch, result, promise, iterating, lost>>

-----------------------------------------------------------------------------
\* hasNext() and getNext(), in the thread of the consumer.

Ready == {k \in DOMAIN queues : queues[k] # <<>>}
HasAny == Ready # {}
HasAll == Ready = DOMAIN queues

Latches == port.mode \in {"Latched", "AtLeastOneNew"}

\* Mutation: the getter asks for new data of every producer.
AvailableOfAll ==
    CASE port.mode = "ReadyOnly" -> TRUE
      [] port.mode = "Latched" -> latch # {} \/ HasAll
      [] OTHER -> HasAll

\* What QueueGetter and MultiQueueGetter answer.
Available ==
    CASE port.mode = "ReadyOnly" -> TRUE
      [] port.mode = "Latched" -> latch # {} \/ HasAll
      [] port.mode = "AtLeastOneNew" -> IF latch = {} THEN HasAll ELSE HasAny
      [] OTHER -> HasAll

\* hasNext() of a PushBlocking port does not compile: it hands its buffer to a
\* function for a leaky one.
HasNext ==
    /\ port.kind # "callback" /\ port.leak = "Leaky" /\ Goto(Consumer, "idle", "idle")
    /\ promise' = Available
    /\ UNCHANGED <<producing, queues, stopping, reading, lost>>

CallGetNext ==
    /\ port.kind # "callback" /\ Goto(Consumer, "idle", "get")
    /\ UNCHANGED <<producing, queues, stopping, promise, reading, lost>>

\* getNext() returns to its caller, or to the iterator.
Returns(from, valid, items) ==
    /\ Goto(Consumer, from, IF iterating THEN "compare" ELSE "idle")
    /\ result' = [valid |-> valid, items |-> items]
    /\ seen' = [p \in Producers |->
            IF \E i \in items : i[1] = p THEN (CHOOSE i \in items : i[1] = p)[2] ELSE seen[p]]
    /\ promise' = FALSE
    /\ UNCHANGED <<producing, stopping, iterating>>

\* The latched getter of a buffer pops if it has no item, or if there is a newer
\* one; it does not ask whether the port is deactivated.
LooksAtBuffer == Buffered /\ Latches /\ pc[Consumer] = "get"

ReturnLatched ==
    /\ LooksAtBuffer /\ latch # {} /\ ~HasAny
    /\ Returns("get", TRUE, latch)
    /\ UNCHANGED <<queues, latch, lost>>

DecideToPop ==
    /\ LooksAtBuffer /\ (latch = {} \/ HasAny)
    /\ Goto(Consumer, "get", "pop")
    /\ UNCHANGED <<producing, queues, stopping, promise, reading, lost>>

PopsAt == IF Buffered /\ Latches THEN "pop" ELSE "get"

\* Mutation: an item of every producer is enough, also once there are no producers.
PoppableWithAll ==
    CASE port.mode = "ReadyOnly" -> TRUE
      [] Multi /\ port.mode = "Latched" -> latch # {} \/ HasAll
      [] OTHER -> HasAll

\* popReady() takes what there is; popAtLeastOne() waits for some, and pop() and
\* popAll() for everything.
Poppable ==
    CASE port.mode = "ReadyOnly" -> TRUE
      [] Multi /\ port.mode = "Latched" -> latch # {} \/ HasAll
      [] port.mode = "AtLeastOneNew" -> IF latch = {} THEN HasAll ELSE HasAny
      [] OTHER -> HasAll

\* The first items of the queues, and of a latching getter the last item of every
\* other queue that it has ever seen.
Popped ==
    {Head(queues[k]) : k \in Ready} \cup {i \in latch : Multi /\ i[1] \notin Ready}

GetNext ==
    /\ ~terminated /\ Poppable
    /\ Returns(PopsAt, TRUE, Popped)
    /\ queues' = [k \in DOMAIN queues |-> IF k \in Ready THEN Tail(queues[k]) ELSE <<>>]
    /\ latch' = IF Latches THEN Popped ELSE {}
    /\ UNCHANGED lost

\* TerminatedException is caught, and nullopt returned.
GetNothing ==
    /\ terminated /\ Consumer \notin missed
    /\ Returns(PopsAt, FALSE, {})
    /\ UNCHANGED <<queues, latch, lost>>

\* clear() of a buffered port empties the buffer and then the getter; of a multi
\* port it leaves the getter alone.
Clear ==
    /\ port.kind # "callback"
    /\ Goto(Consumer, "idle", IF Buffered THEN "clear" ELSE "idle")
    /\ queues' = [k \in DOMAIN queues |-> <<>>]
    /\ lost' = lost \cup UNION {Contents(k) : k \in DOMAIN queues}
    /\ promise' = FALSE
    /\ UNCHANGED <<producing, stopping, reading>>

ClearGetter ==
    /\ Goto(Consumer, "clear", "idle")
    /\ latch' = {}
    /\ UNCHANGED <<producing, queues, stopping, result, promise, iterating, seen, lost>>

-----------------------------------------------------------------------------
\* for (const auto& item : *port): an iterator that begins with getNext(), and is
\* compared with end() before each turn.

Begin ==
    /\ port.kind # "callback"
    /\ Goto(Consumer, "idle", IF terminated THEN "idle" ELSE "get")
    /\ iterating' = ~terminated
    /\ UNCHANGED <<producing, queues, stopping, latch, result, promise, seen, lost>>

\* Mutation: only nullopt ends the loop.
CompareItem ==
    /\ Goto(Consumer, "compare", IF result.valid THEN "get" ELSE "idle")
    /\ iterating' = result.valid
    /\ UNCHANGED <<producing, queues, stopping, latch, result, promise, seen, lost>>

Compare ==
    /\ Goto(Consumer, "compare", IF result.valid /\ ~terminated THEN "get" ELSE "idle")
    /\ iterating' = (result.valid /\ ~terminated)
    /\ UNCHANGED <<producing, queues, stopping, latch, result, promise, seen, lost>>

-----------------------------------------------------------------------------
\* connect(), disconnect() and deactivate(), in the thread of the master.  The
\* connection and the queue of a MultiConsumerPort change one after the other.

Connect(p) ==
    /\ p \notin connected /\ pc[p] = "idle"
    /\ Goto(Master, "idle", IF Multi THEN "addQueue" ELSE "idle")
    /\ connected' = connected \cup {p}
    /\ promise' = FALSE
    /\ UNCHANGED <<port, sent, queues, stopping, reading, lost>>

AddQueue(p) ==
    /\ p \in connected
    /\ connected \ {p} \subseteq DOMAIN queues
    /\ Goto(Master, "addQueue", "idle")
    /\ queues' = [k \in DOMAIN queues \cup {p} |-> IF k \in DOMAIN queues THEN queues[k] ELSE <<>>]
    /\ promise' = FALSE
    /\ UNCHANGED <<producing, stopping, reading, lost>>

Disconnect(p) ==
    /\ p \in connected /\ pc[p] = "idle"
    /\ Goto(Master, "idle", IF Multi THEN "removeQueue" ELSE "idle")
    /\ connected' = connected \ {p}
    /\ promise' = FALSE
    /\ UNCHANGED <<port, sent, queues, stopping, reading, lost>>

RemoveQueue(p) ==
    /\ p \in DOMAIN queues \ connected
    /\ Goto(Master, "removeQueue", "idle")
    /\ queues' = [k \in DOMAIN queues \ {p} |-> queues[k]]
    /\ lost' = lost \cup Contents(p)
    /\ promise' = FALSE
    /\ UNCHANGED <<producing, stopping, reading>>

\* The threads that find nothing to pop, or no room.
Waiting ==
    {t \in {Consumer} : pc[t] = PopsAt /\ ~Poppable}
    \cup {p \in Producers : pc[p] = "push" /\ port.leak = "PushBlocking" /\ ~(Len(queues[Consumer]) < port.size)}

\* terminate() of the queues, of which only the first call has an effect, does not
\* take the mutex: a thread may have looked at the flag before and fall asleep after
\* the broadcast.  The thread holds the mutex from the one to the other, so there is
\* one such thread at most.
Deactivate ==
    /\ port.kind # "callback" /\ Goto(Master, "idle", "idle")
    /\ terminated' = TRUE
    /\ missed' \in {missed} \cup {{t} : t \in {w \in Waiting : ~terminated}}
    /\ UNCHANGED <<producing, queues, promise, reading, lost>>

\* A condition variable may wake its thread for no reason, but need not.
WakesUp(t) ==
    /\ t \in missed
    /\ missed' = missed \ {t}
    /\ UNCHANGED <<producing, queues, terminated, pc, promise, reading, lost>>

-----------------------------------------------------------------------------
Receive(p) ==
    ReceiveTests(p) \/ ReceivePushes(p) \/ ReceiveFails(p) \/ MultiReceive(p) \/ CallbackReceive(p)

Reads == ReturnLatched \/ DecideToPop \/ GetNext \/ GetNothing \/ ClearGetter \/ Compare

Next ==
    \/ \E p \in Producers : Send(p) \/ Receive(p)
    \/ HasNext \/ CallGetNext \/ Clear \/ Begin \/ Reads
    \/ \E p \in Producers : Connect(p) \/ AddQueue(p) \/ Disconnect(p) \/ RemoveQueue(p)
    \/ Deactivate
    \/ \E t \in Threads : WakesUp(t)

\* A call that can go on does.
Fairness == WF_vars(Reads) /\ \A p \in Producers : WF_vars(Receive(p))

Spec == Init /\ [][Next]_vars /\ Fairness

-----------------------------------------------------------------------------
(***************************************************************************)
(* Properties.                                                             *)
(***************************************************************************)

Items == Producers \X (1..MaxSends)

Stages == {"idle", "receive", "push", "get", "pop", "clear", "compare", "addQueue", "removeQueue"}

StagesTyped ==
    /\ port \in Ports
    /\ pc \in [Threads -> Stages]
    /\ terminated \in BOOLEAN
    /\ promise \in BOOLEAN
    /\ iterating \in BOOLEAN

QueuesTyped ==
    /\ DOMAIN queues \subseteq Producers \cup {Consumer}
    /\ queues \in [DOMAIN queues -> Seq(Items)]
    /\ \A k \in DOMAIN queues : Len(queues[k]) <= port.size

ItemsTyped ==
    /\ connected \subseteq Producers
    /\ sent \in [Producers -> 0..MaxSends]
    /\ seen \in [Producers -> 0..MaxSends]
    /\ latch \subseteq Items
    /\ lost \subseteq Items

TypeOK == StagesTyped /\ QueuesTyped /\ ItemsTyped /\ missed \subseteq Threads

\* What getNext() returns now (action).
Fresh(p) == {i \in result'.items : i[1] = p}
Got == pc[Consumer] \in {"get", "pop"} /\ pc'[Consumer] \in {"idle", "compare"} /\ result'.valid

\* getNext() hands on the items of a producer in the order they were sent, one at
\* a time, and passes over those only that a full leaky buffer, clear(),
\* disconnect() or deactivate() has dropped.  An item comes a second time only
\* from a latch; AtLeastOneNew brings something new with every result, and
\* Blocking one item of each queue.
ItemsComeInOrder ==
    [][Got =>
        /\ \A p \in Producers : \A i \in Fresh(p) :
            /\ Fresh(p) = {i}
            /\ i[2] >= seen[p]
            /\ \A n \in (seen[p] + 1)..(i[2] - 1) : <<p, n>> \in lost
            /\ i[2] = seen[p] => Latches
        /\ port.mode = "AtLeastOneNew" /\ result'.items # {} =>
            \E i \in result'.items : i[2] > seen[i[1]]
        /\ Multi /\ port.mode = "Blocking" =>
            {i[1] : i \in result'.items} = DOMAIN queues]_vars

\* A getNext() that follows a hasNext() that was true does not wait, whatever the
\* producers do in the meantime; unless the port is cleared, connected or
\* disconnected.
HasNextIsKept ==
    promise =>
        /\ pc[Consumer] = "get" => LooksAtBuffer \/ Poppable
        /\ pc[Consumer] = "pop" => Poppable

\* The invariant behind HasNextIsKept (buffered_consumer_port.h:173,
\* multi_consumer_port.h:197): a producer that receives has sent; only a buffered
\* port has the one buffer and only its latched getter pops in two steps; and what
\* hasNext() has seen is still so, the getter included.
ProducersHaveSent == \A p \in Producers : pc[p] # "idle" => sent[p] > 0

KindsKeepTheirPlaces ==
    /\ Buffered => DOMAIN queues = {Consumer}
    /\ port.kind = "callback" => DOMAIN queues = {}
    /\ pc[Consumer] = "pop" => Buffered /\ Latches
    /\ pc[Master] # "idle" => Multi

PromiseHolds ==
    promise =>
        /\ Available
        /\ pc[Consumer] = "pop" => HasAll
        /\ pc[Consumer] # "clear"

\* The invariant behind ItemsComeInOrder.  Each queue holds what the consumer has
\* not seen, in the order of each producer, and that of a multi port is of one
\* producer; an item that was sent is seen, lost, on its way to a queue or in it;
\* and a latch has the last item of its producers.
Sending(p, n) == pc[p] # "idle" /\ n = sent[p]

QueuesInOrder ==
    \A k \in DOMAIN queues :
        /\ \A i, j \in DOMAIN queues[k] :
            i < j /\ queues[k][i][1] = queues[k][j][1] => queues[k][i][2] < queues[k][j][2]
        /\ \A i \in Contents(k) :
            /\ Multi => i[1] = k
            /\ seen[i[1]] < i[2] /\ i[2] <= sent[i[1]] /\ ~Sending(i[1], i[2])

NothingIsForgotten ==
    \A p \in Producers : \A n \in (seen[p] + 1)..sent[p] :
        <<p, n>> \in lost \/ Sending(p, n) \/ \E k \in DOMAIN queues : <<p, n>> \in Contents(k)

SeenIsSent ==
    /\ \A p \in Producers : seen[p] <= sent[p] /\ ~Sending(p, seen[p])
    /\ \A i \in latch : Latches /\ i[2] = seen[i[1]]

OrderInv == QueuesInOrder /\ NothingIsForgotten /\ SeenIsSent

ConsumerPortsInv == TypeOK /\ ProducersHaveSent /\ KindsKeepTheirPlaces /\ PromiseHolds /\ OrderInv

\* deactivate() ends getNext(), a send() that waits for room, and a range-for,
\* also one over a latched port that still has its item; of all the threads but the
\* one that its broadcast may miss (lock_queue.h:115), for which nothing is promised
\* until it wakes up by itself.
DeactivateEndsWaits ==
    \A t \in Producers \cup {Consumer} :
        (terminated /\ pc[t] # "idle" /\ t \notin missed) ~> (pc[t] = "idle")
=============================================================================
