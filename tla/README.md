# superflow in TLA+

superflow (FFI) runs a graph of *proxels*, each in a thread of its own, that
hand data to each other through *ports*. This directory holds TLA+ modules that
model its concurrent core and its start-up, TLC configurations that check them on
small instances, and TLAPS proofs for every size. Paths below are relative to the
repository; `include/` is `src/core/include/superflow/`.

## The system

| Component | State | Operations | Who calls it | What makes it correct |
|---|---|---|---|---|
| `LockQueue` (`include/utils/lock_queue.h`) | `queue_`, `terminated_`, a mutex, two condition variables | push, pop, front, clearQueue, getQueueSize, isEmpty, terminate | the producer's thread (push), the consumer's thread (pop), whoever stops the graph (terminate) | FIFO, bounded, loses items only by policy; nobody sleeps who could go on; terminate ends every wait |
| `MultiLockQueue` (`include/utils/multi_lock_queue.h`) | a map from keys to queues, `terminated_`, a mutex, one condition variable | push, peek and pop of the ready / at least one / all, addQueue, removeQueue, clear, queries, terminate | several producers' threads, one consumer's thread, the owner of the port | a pop takes one item of each queue it promises, at one instant; nobody sleeps who could go on |
| Port connections (`include/*_port.h`, `connection_manager.h`) | on each side, the set of peers or the one peer; queues or slaves kept per peer | connect, disconnect(ptr), disconnect() | one thread that wires the graph; the two sides call each other | the two sides agree; a connect that throws changes nothing (a refused producer is the exception); what is kept per peer follows the peers; others keep their connections |
| Consumer ports and getters (`queue_getter.h`, `multi_queue_getter.h`, `buffered_consumer_port.h`, `multi_consumer_port.h`, `callback_consumer_port.h`) | the queue, the last (latched) items | receive, getNext, hasNext, range-for, clear, deactivate | producer and consumer threads | items come in order and none is lost in silence; hasNext is kept; deactivate ends every wait |
| Requests (`requester_port.h`, `responder_port.h`, `multi_requester_port.h`, `interface_port.h`) | the peer, the slaves, the callback | request, requestAsync, respond, get | proxel threads | a port that is connected is served, by every peer it counts |
| Graph and proxels (`src/core/src/graph.cpp`, `proxel.h`) | proxels, threads, crashes | add, connect, start, stop, getProxelStatuses, the destructor | one owner; one thread for each proxel | stop returns, and then nothing runs; a caught crash is reported; no thread is destroyed unjoined |
| Rate control and waiting (`throttle.h`, `metronome.cpp`, `signal_waiter.cpp`, `blocker.h`, `sleeper.cpp`) | flags under a mutex and a condition variable, futures | push, get, check, stop, await, block, release | any thread; a signal handler | no lost wake-up; the destructor returns; the first exception is handed on |
| Mutexed data (`mutexed.h`, `shared_mutexed.h`, `proxel_timer.cpp`) | a value and a (shared) mutex | load, store, read, write | any thread | one writer or many readers |
| Factories (`factory_map.h`, `graph_factory.h`) | maps from names to factories | createGraph, register | start-up | the first factory of a name makes it; a graph is made as written or not at all |
| Yaml (`src/yaml/src/yaml.cpp`) | none | expansion of connections and replicas, the DOT file | start-up | the proxels and connections written are the ones made, and the ones drawn, in the direction written |
| Curses GUI (`src/curses/src/graph_gui.cpp`, `proxel_window.cpp`) | the windows of the last layout, its names, size and minimum width | spinOnce | the thread of the GUI, beside the proxels' | every proxel has its window, of the present layout |
| Graphviz, Loader, Pimpl | — | printing, loading | — | — |

How they interact: `send()` of a producer calls `receive()` of every consumer in
the producer's thread, which pushes to the consumer's `LockQueue` or
`MultiLockQueue`; the consumer's thread pops. `Graph::stop()` calls `stop()` of
every proxel, which deactivates its ports, which terminates their queues, which
must end the waits of the threads that `stop()` then joins. Three kinds of
behaviour are hard here: notifications that are sent without the mutex or to the
wrong thread; ports that call each other recursively while both change their
records, with exceptions half way; and the order in which the graph asks, joins
and forgets its threads. Next to these stand small state machines around a flag and
a condition variable (throttle, metronome, signal waiter, blocker), and a start-up
that turns files into proxels and connections and may fail at any of them. `PROJECT.json` lists these hazards line by line.

## The modules

| Module | Models |
|---|---|
| `Monitor` | a `std::mutex` with its condition variables: acquire, release, wait (registers and unlocks in one step), notify_one (some waiter), notify_all, spurious wake-ups |
| `BoundedQueue` | what `LockQueue` promises, without threads' steps: every call takes effect at one instant |
| `LockQueue` | `lock_queue.h`, every operation, both leak policies |
| `KeyedQueues` | what `MultiLockQueue` promises |
| `MultiLockQueue` | `multi_lock_queue.h`, every operation |
| `Connections` | what wiring promises: a set of two-sided connections that each call changes by the one it names |
| `PortConnections` | connect and disconnect of all port classes |
| `Graph` | the life of a `Graph` and of its threads |
| `ConsumerPorts` | send, receive, the getters, range-for and deactivate of the three consumer ports, on queues whose operations are one step |
| `Workers` | what the next four share: an object, its mutex and conditions, waits and naps, on `Monitor` |
| `Throttle`, `Metronome`, `SignalWaiter`, `Blocker` | the classes of these names |
| `YamlConfig` | what `yaml.cpp` makes of its files: proxels, replicas, connections, the DOT file; operators only |
| `GraphFactory` | createGraph() step by step, with every exception, and the reference it is compared with |
| `GraphGui` | spinOnce() on the graph that `GraphFactory` made |
| `LockQueueProofs`, `MultiLockQueueProofs`, `PortConnectionsProofs`, `ConsumerPortsProofs`, `GraphProofs`, `WaitsProofs`, `FactoryProofs`, `GuiProofs` | theorems about the modules of these names; `WaitsProofs` is about the four waiting classes as `MCWaits` puts them together, `FactoryProofs` about `YamlConfig` and `GraphFactory`, `GuiProofs` about `GraphGui` |
| `MCLockQueue`, `MCMultiLockQueue`, `MCPortConnections`, `MCGraph`, `MCWaits`, `MCStartup` | the instances that TLC checks |

Operators marked "Mutation" are wrong variants of the definition that follows
them. They are part of no specification; putting one in the place of its
original shows that a property notices the mistake.

### LockQueue and MultiLockQueue

`pc[t]` follows a call from the mutex through the test of its predicate, the
registration with a condition variable, the check for termination and the body
to the notifications after the unlock. Every point where another thread can
change what this one sees is a step boundary; what happens with the mutex held
and cannot be seen is one step. Two details of the code need care:

* `terminate()` writes `terminated_`, a plain `bool`, without the mutex, and the
  waits read it with the mutex: a data race. `storing` holds the threads whose
  store is not visible yet. It becomes visible at any later time, but before a
  broadcast that finds a waiter (which synchronises) and before the thread's
  next call.
* Testing the predicate and being registered are two steps (`Test`, `Wait`). The
  mutex is held between them, so a thread that changes the predicate under the
  mutex cannot come between them; `terminate()` can.

An item is a model value and a key is a model value; `getQueueSize()` and
`isEmpty()` are one action, as are the two overloads of `push`. In
`MultiLockQueue` the calls that do not wait (peekReady, popReady) look at
`terminated_` before they lock, and `push` and `addQueue` may create the queue of
their key. A call with an unknown key and the constructor from a list of keys are
in the model as `Init` and `arg`.

### PortConnections

The calls of the two sides are followed on an explicit stack, one step for what a
function does between two calls of another port. `links[p]` is whatever the class
uses to remember its peers, `keyed[p]` the keys of the queues or slaves of a
`MultiConsumerPort` or `MultiRequesterPort`. Only classes with a
`ConnectionManager` catch an exception and erase what they recorded. Types are
reduced to whether the `dynamic_pointer_cast` succeeds. `refused` remembers, pair by
pair, a connect() that threw and left its caller with the port that had refused it
(`producer_port.h:159`); the pair leaves the set when the two sides agree again.
Everything that exempts a refused producer looks there, so a producer that was
accepted is exempt from nothing. `Connections` also says what a call takes beside
what it names: what leaves with a requester, a client, or a producer that
disconnects from all (`Around`), and the half a connection that a refusal leaves
(`half`). `Send` is there for the one effect it has here: `receive()` of a `MultiConsumerPort` adds a queue. One
thread makes all calls, as `producer_port.h` demands ("Not thread safe!").

### Graph

The owner's calls are loops over the map, one step for each name, so that the
proxels' threads run between them. `life[n]` is where the thread of `n` is. What a
proxel does in `start()` is the user's: it may return, throw (those in
`Crashing`), or wait until the proxel downstream takes what it sends; `proxel.h`
demands that it returns once `stop()` has been called, and that is assumed
(below). Since `stop()` deactivates ports and a terminated `LockQueue` stays
terminated, a request to stop is never withdrawn (`asked`). `std::thread()` may
throw in the middle of `start()`: `Started` may come before the loop is done.
`killer` says what has called `std::terminate()`: a thread destroyed before it was
joined, an exception of a proxel that nobody handles, or a crash logger that throws
inside the catch clause (`LoggerThrows`; graph.cpp:53-56 and 62-65 have no try around
it). The insertion into `crashes_` has a beginning and an end. When two overlap, that is
undefined behaviour of `std::map`: from then on (`raced`) every insertion may lose any
entries, end the process, or never return (`RecordRaces`, which no fairness drives).
`Downstream` stands for one full `PushBlocking` buffer per proxel. A proxel that pushes
to it while stop() terminates it may be between its test and its registration
(`lock_queue.h:115`, `:206`); it is then in `missed` and sleeps on until something wakes
it (`WakesUp`, which no fairness drives either). That this happens is what `lq_terminate`
shows.

### ConsumerPorts

One port, of a class and with policies that the initial state chooses, is fed by
producers in threads of their own, read by one thread and wired by another. Its
queues are records of `<<producer, number>>`; a push, a pop and a clear are one step
each, which is what `BoundedQueue` and `KeyedQueues` promise and what `lq_every` and
`mlq_every` check of the real ones. The steps that stay apart are those between
which another thread can act: the test for termination and the push in receive(),
the decision to pop and the pop in the latched getter, the two records of
`MultiConsumerPort::connect()` and `disconnect()`, the buffer and the latch in
clear(), getNext() and the comparison with end() in a range-for. `lost` holds the
items that were dropped where the code drops them (full leaky buffer, clear(),
disconnect(), deactivate(), nobody connected); `promise` says that hasNext() was
true and nothing has been cleared or rewired since. A producer that is sending is
not connected or disconnected, as `producer_port.h` demands. deactivate() may come
between the test of a waiting thread and its registration: that thread is then in
`missed` and goes on waiting, until a push or a spurious wake-up. It is at most one
thread, since only one can hold the mutex between the two. hasNext() of a
`PushBlocking` port is not among the calls: `queue_getter.h:29` takes a
`LockQueue<T>`, the leaky one, so that it does not compile.

### Workers, Throttle, Metronome, SignalWaiter, Blocker

Each module is its class line by line: the members are fields of the record `obj`,
`pc[t]` the place of a thread. A wait with a predicate is the loop that it stands
for (test, wait, wake); a wait with a deadline may end when `due` says so. Callbacks
return or throw. A callback of `Throttle` runs with the mutex locked, one of
`Metronome` without. The handler of a signal runs on any thread, between any two of
its steps, and goes back to where the thread was; if that thread holds
`handler_mutex`, it waits for itself. `missed` records that a notification found its
thread between the test of its predicate and its registration. The liveness
properties make an exception for `missed` and for the handler that has locked itself
out, and for nothing else: these are the two ways in which a wait is lost.

### YamlConfig, GraphFactory, GraphGui

Files are what the YAML library has parsed: entries and connections. `GraphFactory`
chooses one of the configurations of `MCStartup` and works through it; a step that
throws destroys what was made. A port is its class ("out", "in", "multi", or a null
pointer) and the set of types it can be cast to; two ports fit if these meet, as the
casts of `producer_port.h:228-254` try the type of the producer and then each of its
variants. The edges of the DOT file are the pairs as they are written, left to right:
`graphviz.cpp` does not know which side is the producer. The reference (`Written` to `WellFormed`)
describes the graph without any order of working: which entries stand for which
proxels, which ports of which replicas a connection means, when the whole makes
sense. There is one graph, so that the comparison of pointers in `graph_gui.cpp:125` is
left out. `GraphGui` watches the graphs of some configurations; its state is the record
`view`. Reading the statuses and drawing are two steps, with crashes and changes of
the screen between them. Positions and widths are computed as in C++, with a
division that rounds towards zero.

## The runs

| Run | Question | Bounds and why they are enough |
|---|---|---|
| `lq_every` | Does a leaky `LockQueue` implement `BoundedQueue` with every operation, and does nobody act on a stale test? | four threads, two items, capacity 2: the interference needed is one thread between another's test and its use, and two items tell order and loss apart |
| `lq_pipeline` | On a blocking queue, is a thread that could go on ever left asleep? Does a notified sleeper return, are items taken? | two producers and two consumers, the least that lets a notification go to the wrong one; capacity 2 so that several places are free at once |
| `lq_terminate` (violation) | Does `terminate()` end every wait? | a producer, a consumer and the thread that stops |
| `mlq_every` | Does `MultiLockQueue` implement `KeyedQueues`, and does nobody act on a stale test? | a producer, a consumer with all six pops and peeks, an owner with the other calls; two keys, capacity 1 |
| `mlq_port` | As a `MultiConsumerPort` uses it, is one notify_one for each push enough? | two producers, one consumer, two keys, capacity 2 |
| `ports_every` | Every call in any order: is the inductive invariant of the proofs one (`PortConnectionsInv`, with the types), do the sides agree, does a failed connect change nothing but a refused producer, do queues follow connections, is a connected requester or client served, does the recursion end? Do calls implement `Connections`, those of a disconnect that takes more than it names included, and do the tame ones stay with their two ports (`LocalInv`, `ConnectLeavesOthersAlone`, `DisconnectLeavesOthersAlone`)? | three families of four to six ports, one connected at a time (`OneFamilyAtATime`, an action constraint that stops calls and requests only, so that fairness of a running call is untouched): two producers for one Single consumer give the refusal, ports of three or more peers add nothing that two do not show |
| `ports_policy` (violation) | Has a Single consumer one producer? | two producers and a Single consumer |
| `graph_life` | Do two starts and stops leave nothing running, is the process killed by nothing but a proxel, a logger or a race, are crashes reported as long as there was no race, and does stop() return? | three proxels in a ring of waits, two of which crash with loggers that may throw, two starts: the second start meets what the first has left, and two crashes may overlap or not |
| `graph_crashes` (violation) | Is every caught crash reported? | two proxels that crash |
| `consumers` | Do items come in order, each once or from a latch, and is hasNext() kept (`ConsumerPortsInv`, `HasNextIsKept`)? Does deactivate() end every wait and every range-for, but that of a thread its broadcast has missed? | two producers that send twice each, buffers of one and two items, all classes and policies: a full buffer, a newer item of one producer beside an old one of another, and a disconnect in between all happen |
| `waits` | Do callbacks come in time, do exceptions and signals arrive, are sleepers woken, is the latest data delivered? | one object at a time; two signal waiters for one signal that comes twice, two threads at a blocker: the second waiter is the one that the first could cut off |
| `startup` | Is the graph the one that is written, does the DOT file show it, with the arrows as they are written, is the screen that of the present graph? | 9720 configurations of one or two files (57364 states with the GUI), with up to three replicas, disabled, repeated and unknown names, a name that is also a replica's id, lists of ports, `replicate: 0`, ports of types that do not fit, a connection written consumer first; two libraries that know the same types; four widths of the screen from six columns to two windows side by side |

Everything else is unbounded in the model: threads call without end, and the
state is finite because queues have a capacity. `MaxStarts` bounds how often a
graph is started, `MaxSends` how often a producer sends, `MaxBuffer` the buffers and
`MaxSignals` how many signals come. Symmetry is used in `lq_every` (items) and `mlq_every` (keys,
items), which check no liveness. `MCGraph`, `MCWaits` and `MCStartup` turn the deadlock check
off: a graph or an object that was destroyed, a process that has died, and a
configuration that was refused, do nothing more.

### What the violations show

* `lq_terminate`: a thread tests its predicate; `terminate()` sets the flag and
  broadcasts to nobody; the thread registers and sleeps, with the queue
  terminated. Any later call by another thread may still wake it, but nothing
  has to come. `policy.h` says that the wait is aborted when the consumer is
  deactivated. `multi_lock_queue.h:356` has the same order.
* `graph_crashes`: two proxel threads write `crashes_` at the same time.
* `ports_policy`: `ProducerPort::connect()` records the consumer before the consumer
  has agreed (`producer_port.h:159`) and does not take it back when the consumer
  throws: two producers send to a consumer of which `policy.h:20` says "Only allow one
  ProducerPort to connect". The properties of `ports_every` exempt this pair while
  it lasts (`refused`), and no other.

### Divergences that no run checks

The models also show the following, in which the code does something else than one
of its comments says, or than its user may expect. The first has a configuration of
its own, which is not among the runs above.

* `MCMultiLockQueue_two.cfg` (`NoStrandedWaiter` does not hold): `push()` calls
  `notify_one()` on the one condition variable; popAll() takes the notification,
  finds another queue empty and sleeps again, while a popAtLeastOne() sleeps beside
  the new item, although `multi_lock_queue.h:69` says that it "blocks until at least
  one of the queues has an element". A `MultiConsumerPort` has one consumer and does
  not meet this (`mlq_port`).
* `ProducerPort::disconnect()` calls `disconnect()` without a name on its consumers
  (`producer_port.h:170`), which leave their other producers too. `Connections` says
  which (`DisconnectAll`).
* What `lq_terminate` shows has its effect in a graph: `Graph::stop()`
  then waits for a proxel that sleeps in its push, and a getNext() does not return after
  deactivate(). `StopReturns` and `DeactivateEndsWaits` except the threads in `missed`.
* A crash logger that throws ends the process (`graph.cpp:53-56`, `:62-65`), although
  the graph was started to handle exceptions. `ProcessSurvives` names it.
* A connection that is written consumer first is made with the producer first and drawn
  with its arrow against the data (`graphviz.cpp:97`). `DotShowsTheGraph` says so.
* `clearQueue()` makes room and notifies nobody: with it among the calls
  `NoStrandedProducer` does not hold. `front()` takes a notification and passes
  none on: with it `NoStrandedConsumer` does not hold. The theorems exclude
  exactly these two.
* `removeQueue()` can make a waiting popAll() ready and notifies nobody.
* Without queues `hasAll()` is TRUE and popAtLeastOne() waits, although
  `multi_lock_queue.h:105` says that all pops return at once.
* A requester that disconnects makes its responder disconnect from all its
  requesters (`requester_port.h:145`), and a client that connects to another host
  disconnects the other clients of the old one (`interface_port.h:160`). These too are
  in `Connections` (`Around`).
* `~Throttle()`, `~SignalWaiter()`, the handler of a signal and
  `Blocker::release()` notify without the mutex that the sleeper tests its flag
  under: a notification between the test and the registration is missed (`missed` in
  the modules). A second push() after an exception of a `Throttle`, and check()
  after get() of a `Metronome`, use a future without a state.
* A signal that comes while its thread registers or unregisters a `SignalWaiter`
  blocks that thread for good (`SelfLocked`).
* The latched `getNext()` of a buffered port returns its item also after
  deactivate(), if there is no newer one; what ends a range-for is that the port
  itself has become FALSE (`Compare`).
* The first entry that replicates a name decides how many replicas its connections
  have, even if it is disabled and another entry of that name is made
  (`yaml.cpp:531`). The same happens if a replicated `a` makes a proxel `a_0`
  beside an entry `a_0` that is replicated and disabled: a connection of `a_0` is
  expanded to replicas of the disabled entry. `GraphIsWhatIsWritten` leaves these
  files out (`CountsAgree`).
* A root without the section `Connections`, or files without any connection, make a
  graph and no DOT file (`DotShowsTheGraph`). The DOT file also shows the base name
  of a replicated proxel as a proxel (`yaml.cpp:470`).
* On a screen of six columns the windows have width two, and the loop that splits
  text into lines of width - 2 does not advance (`proxel_window.cpp:149`).
* `crashes_` is never emptied (`graph.cpp:169`): a proxel that crashed once is
  reported as crashed in every later run of the graph.

## Fairness

* `LockQueue`, `MultiLockQueue`: weak fairness of the steps of a thread inside a
  call, and strong fairness of taking the mutex (`std::mutex` promises no order,
  so this assumes a scheduler that does not starve a thread for ever). Nothing
  makes a thread begin a call, and nothing makes it wake spuriously.
* `PortConnections`: weak fairness of the running call.
* `Graph`: weak fairness of the owner inside stop() and start(), of a proxel's
  thread in the graph's own code, of a push to a terminated queue unless the thread
  has missed the broadcast, and of the return of a proxel that was asked to stop. The
  last is the contract in `proxel.h`. Nothing is assumed of a proxel that was not
  asked, of a push to a queue that still runs, of a thread that has missed its
  broadcast (`WakesUp`), nor of an insertion into a `crashes_` that two threads have
  written at once (`RecordRaces`). So `StopReturns` promises nothing once there is such
  a thread or such a race.
* `ConsumerPorts`: weak fairness of a getNext(), and of a receive(), that has begun
  and can go on. Nobody has to send or read, and nothing has to wake a thread that has
  missed the broadcast of deactivate().
* `MCWaits`: strong fairness of each thread's own steps (as for the queues, a mutex
  that is free again and again is taken), weak fairness of the passing of time.
  Callbacks end. Nothing makes the user call anything, and no signal has to come.

## The proofs

Checked by TLAPS for every set of threads, calls, keys, items and capacities; every
set of ports of any classes and policies; every set of proxels; every set of
producers and size of the buffers; every set of waiting threads and of signals; every
configuration, every number of libraries and every kind of port. The
assumptions about the constants are those that the modules name (`LockQueueAssumption`,
`MultiLockQueueAssumption`, `PortConnectionsAssumption` and so on); the runs evaluate
them. Where a theorem assumes more, this is said below, with what would go wrong
without it.

*LockQueue.* `LockQueueInv` is inductive. `AdmittedOperationIsPossible` alone is
not: that a pop finds an item follows from `PredicateIsCurrent` (what was tested
still holds) and `MutualExclusion`, and these need to know which operations are at
which stage (`StageFitsOperation`) and who is registered where
(`WaitersAreRegisteredOnce`). From it:

* `Safety`, `TypeCorrect`, `AdmittedIsPossible`;
* `LockQueueRefinesBoundedQueue`: the initial states map to initial states and
  every step to a step of `BoundedQueue` or a stutter. `StageMoves` says what a
  step does to the mapped stage;
* `ConsumersAreNotStranded`, if nobody calls front();
* `ProducersAreNotStranded`, if nobody calls clearQueue() and the threads are
  finitely many: each free place is matched by a different thread that is on its
  way to use or announce it, counted with the theorems on cardinality.

*MultiLockQueue.* The argument is that of `LockQueue`, with `MultiLockQueueInv`: what
a wait has tested still holds when its body runs (`PromiseHolds`), since everyone who
changes the queues holds the mutex. Here a promise is about all queues or about any
of them, so a removed or a new queue counts as well as an item. From it:

* `MultiLockQueueSafety`, `PromisesAreHeld`;
* `MultiLockQueueRefinesKeyedQueues`;
* `LoneWaiterIsNotStranded`: nobody sleeps with its predicate true and no
  notification under way, *if* (`OnlyWaiter(c)`) c is the only thread that waits and
  no other thread removes queues while c waits for all of them. Both parts are needed:
  without the first, notify_one() can wake the wrong thread
  (`MCMultiLockQueue_two.cfg`); without the second, removeQueue() makes popAll() ready
  and notifies nobody. A `MultiConsumerPort` is used like that, by its one consumer.

*PortConnections.* The ports connect each other by calls that go back and forth; the
state in the middle of such a recursion is neither the old nor the new one.
`PortConnectionsInv` explains every difference between the two sides of a connection,
and between the queues of a consumer and its producers, by a call on the stack that
is still to settle it (`WillKey`, `WillDrop` and their companions): when the stack is
empty nothing is left to explain, and that is `Symmetric` and
`QueuesMatchConnections`. What the frames on the stack say of each other comes first:
which calls can lie under which, that an exception leaves one frame, and that the
peer of a connect that throws has no place for it. Who is in `refused` is a producer
that keeps a Single consumer which does not count it (`RefusedAreKept`). From it `PortConnectionsSafety`, `SidesAgree`,
`QueuesAreThoseOfTheProducers`, `ConnectedPortIsServed`, and:

* `FailedConnectLeavesNoMore`: a connect that throws leaves every record as it was,
  except that a producer which a Single consumer turns down keeps that consumer;
* `DisconnectedIsAlone`: after a disconnect nobody counts the port but a producer whose
  own connect it has refused;
* `ConnectTakesNothing`, `DisconnectTakesItsOwn`, `CallsAreLocal`: a call is about its
  two ports only, *if* it is tame: a connect without clients, whose connect to
  another host drops the other clients of the old one; a disconnect that reaches no
  requester or client, whose disconnect() always takes all they have, and that is no
  producer's from all. This looks at the ports of the running call; nothing is assumed
  of the constants. The inductive step is `LocalInv`: every frame of such a call is
  about the two ports of the outer call.
* `PortConnectionsRefineConnections`: the calls implement `Connections`, *if* they are
  `Disciplined`: no requesters, clients or requests; a producer disconnects only by
  name, and connects to no consumer of policy Single. What the other calls come to,
  `Connections` states as well, but only TLC has checked it (`ports_every`, in which
  every call is allowed).

*Graph.* `GraphInv`: code of proxels runs only in threads that the graph knows;
threads that were joined have ended; stop() has joined what it has passed. The
loops visit a member of the names that are left because a set of numbers has a
least one (`FirstIsLeft`). From it `StopIsFinal`, `StartIsAtRest` and `StopIsSafe`: in a
model in which a proxel, a logger and a race may each end the process at any time,
none of it is ever the fault of start(), stop() or the destructor. With `CrashInv`,
`CrashesAreReportedUnlessRaced`: for any number of crashing proxels, every caught crash
is reported until two insertions have overlapped. `SingleCrashIsReported` assumes that
one proxel at most crashes: the two writers in `graph_crashes` are needed.

*ConsumerPorts.* `HasNextIsKept` alone is not inductive: it says nothing until
getNext() has begun. `ConsumerPortsInv` adds that what hasNext() has answered is
still the answer (`PromiseHolds`), also between the test and the pop of the
latched getter, for which one has to know which class of port can be there
(`KindsKeepTheirPlaces`). A push keeps it because it leaves its queue with an item,
also where it drops one (`PushedLemma`), and adds no queue that is empty
(`MoreIsAvailable`). The items' types need that a producer that receives has sent
(`ProducersHaveSent`), and that of `missed` that only a thread in a call can be missed
(`MissedLemma`). The theorems are `ConsumerPortsSafety` and `HasNextKept`.

That items come in order is about a step, and what it needs of the state is `OrderInv`:
each queue holds items that the consumer has not seen, those of one producer in the
order they were sent, and those of one producer only if the port is a multi port
(`QueuesInOrder`); every item is seen, lost, in the hands of its producer's thread, or
in a queue (`NothingIsForgotten`); the latch has the last item of its producers
(`SeenIsSent`). A push keeps it because the new item is newer than all there are, also
when the oldest is dropped (`PushKeepsOrder`); a pop because what it takes is the
oldest, so that what lies between it and the last item seen can only be lost
(`HeadIsFirst`, `PopKeepsOrder`). The theorem is `ItemsAreHandedOnInOrder`; it shows as
well that each item is the only one of its producer in its result.

*The waiting classes.* The object is one of the four, so the invariant is a
disjunction (`WaitsInv`). None of the parts needs the mutex or anything about who is
registered: callbacks are kept to their time by what is tested after a wake-up, not
by what woke the thread up. `ThrottleInv`: the delay runs only while the runner rests, or
the throttle has been stopped. `MetronomeInv`: what the future says of the worker, and
that func() is not about to be called again once it has been called after stop().
`SignalWaiterInv`: a waiter under construction is in the table for the signals that
are done (`MakingInv`), and one that leaves is in it only for those still to do
(`LeavingInv`); where a thread is (`At`) does not change when a handler runs on top
of it. The theorems are `CallbacksComeInTime` and `NothingAskedForIsSwallowed`.

*YamlConfig and GraphFactory.* `GraphIsWhatIsWritten` compares two descriptions of a
graph: one that flattens and expands lists and works them off from the head, and one of
sets, without any order (`Written` to `WellFormed`). The proof has three parts.

What the operators compute. `FlattenSeq` is recursive, and what it returns needs
induction. Instead of a predicate, which the provers could not instantiate, the
induction takes a set of numbers and the least one that is missing in it
(`SetInduction`). `FlattenPlaces` says all that is needed: the items of the flattened
sequence correspond one to one to the places in the sequence of sequences. That gives
the entries, the proxels to make and the connections. The libraries, joined one after
the other, are the first one that knows a type (`FactoriesAreFirst`); the two sides of a
connection are as long as the longer one (`PairsAre`).

What the steps do. `FactoryInv`: what is left of each list is its rest (`IsRest`), and
the proxels and the links are those of what is done (`ProxelsMade`, `LinksMade`). After
an exception nothing is left to tell from; there the invariant says that what the files
ask for cannot all be made (`CanBeMade`, which names no order). An id that is taken, a port that is not there or a Single consumer that
has its producer shows this in whatever order things are tried (`CreateThrowsKeeps`,
`ConnectThrowsKeeps`). The theorem is `FactorySafety`.

What was asked for is what is written. The proxels to make correspond one to one to the declared
ones, with their ids and types (`ConfigsDeclared`); a side of a connection has the places
and ends of the reference (`SideWritten`, `PairsWritten`), and it fails exactly if the
reference says so (`FailsAsWritten`). So under `CountsAgree` what can be made is what is
well formed (`WellFormedCanBeMade`), which is `GraphStaysAsWritten`. `DotStaysTheGraph`
follows from `FactorySafety`: every drawn pair has two ends (`ConnectionsArePairs`), and
turning round those that begin at a consumer gives the links. That the arrows are those
of the reference, left side first, needs `CountsAgree` and `ConnectionsWritten`.

The proofs use `FilesAssumption` (a configuration has a root, its entries and
connections have the shape that the parser hands on, and no list of ports is empty,
of which `yaml.cpp` would take the first item) and `FactoryMapsAssumption` (the
libraries are a sequence of maps). The second part of `CountsAgree` was found by this
proof: `MeansReplicas` could not be proved without it, and `MCStartup` then had a
counterexample as soon as an entry `a_0` could be replicated and disabled.

*GraphGui.* `GuiInv`: the windows are those of the names, the width and the minimum
that the GUI remembers (`WindowsAreLaid`), so that it does not matter whether spinOnce()
makes them anew (`DrawLays`). What is left is arithmetic (`LaidIsTidy`): two names have
two places in the order of the map, so their windows are in different rows, or a column
width and a gap apart (`WindowsAreApart`); with more than one column a window is as wide
as its ports (`ColumnsAreWide`, `PortsFit`), and the rounded width times the columns does
not go over the edge (`WidthFits`). It is proved for every number of proxels and of
ports and every size of the screen, from `GuiAssumption`: the names have an order, and
a proxel that a factory makes has finitely many ports. The theorem is
`ScreenStaysTidy`.

*Only model-checked* are the liveness properties: `SleepersAreReleased`,
`ItemsAreConsumed`, `AllReadyIsNoticed`, `CallsReturn`, `StopReturns`,
`DeactivateEndsWaits`, `LatestIsDelivered` and `SleepersAreWoken`. This prover has
neither fairness nor ENABLED. Every invariant and every action property that a passing
run checks is proved, and every refinement, that of `PortConnections` for the
disciplined calls.

`WaitsInv`, `GuiInv` and `FactoryInv` hold in the instances of the runs `waits` and
`startup`, where TLC has checked them beside what follows from them; the cfg files name
the latter.

## Not modelled

* Requests beside a disconnect in another thread: `responder_` and `host_` are
  pointers without a lock, so that any outcome is possible; the code asks its users
  not to do it. requestAsync() asks the same ports as request().
* `num_transactions_` of the ports, counters that nothing but a display reads, and
  that several producers of one `CallbackConsumerPort` change without a lock.
* `Mutexed` and `SharedMutexed`: one lock around one access. `ProxelTimer`: floating
  point. `Sleeper`, waitForSignal(): one library call, and a `SignalWaiter` with its
  future. `Pimpl`: no behaviour.
* The watchdog `Metronome` in `Graph::stop()`, a `Graph` that is moved while it runs,
  and getProxelStatuses() reading `crashes_` while a thread writes it.
* `queue_set_getter.h`, which nothing includes. A queue of size zero, which
  `LockQueue` refuses and `MultiLockQueue` does not (a push then pops an empty
  queue): the models take the sizes from one.
* YAML parsing and the shape of an entry, the search for files, getFlaggedProxels(),
  extractLibPaths(); loading of libraries; the text of the DOT file; what is drawn
  inside a window.

## Plan

`Pipeline`: `Graph` with `ConsumerPorts` in place of the `Downstream` waits, so that
`StopReturns` rests on what deactivate() does to a full `PushBlocking` buffer instead of
on one boolean for each proxel; with it, the watchdog of `Graph::stop()`.
