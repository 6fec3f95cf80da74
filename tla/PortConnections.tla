--------------------------- MODULE PortConnections ---------------------------
(***************************************************************************)
(* How the ports of superflow connect and disconnect (port.h,              *)
(* connection_manager.h and the ports of core/include/superflow).  Each    *)
(* side of a connection keeps its own record of it, and connect() and      *)
(* disconnect() of the one call connect() and disconnect() of the other,   *)
(* which call back.  The module follows those calls on an explicit stack,  *)
(* one step for what a function does between two calls of another port.    *)
(* The ports are wired and unwired by one thread ("Not thread safe!",      *)
(* producer_port.h), so there is one stack.                                *)
(***************************************************************************)
EXTENDS Naturals, Sequences, FiniteSets

CONSTANTS
    Ports,
    Kind,       \* Kind[p]: the class of p, and the policy of a consumer
    Type,       \* Type[p]: the type of the data p produces, consumes or returns
    Calls,      \* the calls made from outside: [fn, self, other]
    None        \* the other port of a disconnect() of all and of a request

Consumers == {"single", "many", "multi"}
Kinds == Consumers \cup {"producer", "requester", "responder", "multiRequester", "host", "client"}

Functions == {"connect", "disconnect", "disconnectAll"}
Asking == {"requester", "multiRequester", "client"}
CallSet == [fn : Functions \cup {"request"}, self : Ports, other : Ports \cup {None}]

ASSUME PortConnectionsAssumption ==
    /\ Kind \in [Ports -> Kinds]
    /\ DOMAIN Type = Ports
    /\ None \notin Ports
    /\ Calls \subseteq CallSet
    /\ \A c \in Calls :
        /\ c.other = None <=> c.fn \in {"disconnectAll", "request"}
        /\ c.fn = "request" => Kind[c.self] \in Asking

VARIABLES
    links,      \* links[p]: connections_, the keys of consumers_, connection_ or host_
    keyed,      \* keyed[p]: the keys of multi_queue_ or of slaves_
    stack,      \* the calls in progress, the last one made first
    thrown,     \* an exception propagates, or has left the outermost call
    call,       \* the last call from outside
    before,     \* links at the start of that call
    refused     \* <<p, x>>: x has refused p, whose connect() has kept x

vars == <<links, keyed, stack, thrown, call, before, refused>>

FrameSet == [fn : Functions, self : Ports, other : Ports \cup {None},
             at : {"enter", "called", "loop"}, todo : SUBSET Ports]

NoCall == [fn |-> "none", self |-> None, other |-> None]

TypeOK ==
    /\ links \in [Ports -> SUBSET Ports]
    /\ keyed \in [Ports -> SUBSET Ports]
    /\ stack \in Seq(FrameSet)
    /\ \A i \in DOMAIN stack : stack[i].other = None <=> stack[i].fn = "disconnectAll"
    /\ thrown \in BOOLEAN
    /\ before \in [Ports -> SUBSET Ports]
    /\ call \in Calls \cup {NoCall}
    /\ refused \subseteq Ports \X Ports

Init ==
    /\ links = [p \in Ports |-> {}]
    /\ keyed = [p \in Ports |-> {}]
    /\ stack = <<>>
    /\ thrown = FALSE
    /\ call = NoCall
    /\ before = links
    /\ refused = {}

-----------------------------------------------------------------------------
AtRest == stack = <<>>
Top == Head(stack)

Frame(fn, p, x) == [fn |-> fn, self |-> p, other |-> x, at |-> "enter", todo |-> {}]

\* The running function goes on from another point, or calls.
Goes(at) == stack' = <<[Top EXCEPT !.at = at]>> \o Tail(stack)
Invokes(at, todo, callee) == stack' = <<callee, [Top EXCEPT !.at = at, !.todo = todo]>> \o Tail(stack)
Returns == stack' = Tail(stack)

Running(fn, at) == ~AtRest /\ Top.fn = fn /\ Top.at = at
Runs(fn, at) == Running(fn, at) /\ ~thrown

\* The ports that keep their connections in a ConnectionManager, and those that
\* hold the pointer themselves.
Managed(p) == Kind[p] \in Consumers \cup {"responder", "multiRequester", "host"}
HoldsOne(p) == Kind[p] \in {"requester", "client"}
Keys(p) == Kind[p] \in {"multi", "multiRequester"}

\* ConnectPolicy::Single, and a requester, refuse a second connection.
Exclusive(p) == Kind[p] \in {"single", "requester"}

\* The dynamic_pointer_cast of the classes that have one.
Casts(p, x) ==
    LET peers == CASE Kind[p] = "producer" -> Consumers
                   [] Kind[p] \in {"requester", "multiRequester"} -> {"responder"}
                   [] Kind[p] = "client" -> {"host"}
                   [] OTHER -> Kinds
    IN  Kind[x] \in peers /\ (peers # Kinds => Type[x] = Type[p])

Refuses(p, x) == ~Casts(p, x) \/ (Exclusive(p) /\ links[p] # {})

\* The refused ports that are still kept: the refusal is over when the two ports
\* agree again.
StillRefused(l) == {e \in refused : e[2] \in l[e[1]] /\ e[1] \notin l[e[2]]}

\* What an exception leaves of the call f: only a ConnectionManager catches it.
KeptBy(f) == IF Managed(f.self) THEN {} ELSE {<<f.self, f.other>>}

-----------------------------------------------------------------------------
\* A call from outside.
Call(c) ==
    /\ AtRest
    /\ c.fn \in Functions
    /\ stack' = <<Frame(c.fn, c.self, c.other)>>
    /\ call' = c
    /\ before' = links
    /\ thrown' = FALSE
    /\ UNCHANGED <<links, keyed, refused>>

\* send() hands the data to every consumer; receive() of a MultiConsumerPort
\* pushes it to the queue of the producer, which the push adds if there is none.
Send(p) ==
    /\ AtRest /\ Kind[p] = "producer"
    /\ keyed' = [x \in Ports |->
            IF x \in links[p] /\ Kind[x] = "multi" THEN keyed[x] \cup {p} ELSE keyed[x]]
    /\ UNCHANGED <<links, stack, thrown, call, before, refused>>

\* Client::get() asks the host, which looks whether it has a connection itself.
OpenHosts(p) == {h \in links[p] : links[h] # {}}

\* The ports that respond to a request: the responder, each of slaves_, or the
\* host.
Answerers(p) ==
    CASE Kind[p] = "requester" -> links[p]
      [] Kind[p] = "multiRequester" -> keyed[p]
      [] Kind[p] = "client" -> OpenHosts(p)

\* request() and Client::get(): throws when nobody responds, but for a
\* MultiRequesterPort, which returns no response.
Request(c) ==
    /\ AtRest
    /\ c.fn = "request"
    /\ call' = c
    /\ before' = links
    /\ thrown' = (Answerers(c.self) = {} /\ Kind[c.self] # "multiRequester")
    /\ UNCHANGED <<links, keyed, stack, refused>>

-----------------------------------------------------------------------------
\* connect(other)

ConnectAgain ==
    /\ Runs("connect", "enter")
    /\ Top.other \in links[Top.self]
    /\ Goes("called")
    /\ UNCHANGED <<links, keyed, thrown, call, before, refused>>

Refuse ==
    /\ Runs("connect", "enter")
    /\ Top.other \notin links[Top.self]
    /\ Refuses(Top.self, Top.other)
    /\ Returns
    /\ thrown' = TRUE
    /\ UNCHANGED <<links, keyed, call, before, refused>>

\* A client leaves the host it has.
LeaveFirst ==
    /\ Runs("connect", "enter")
    /\ Kind[Top.self] = "client" /\ Casts(Top.self, Top.other)
    /\ links[Top.self] \notin {{}, {Top.other}}
    /\ Invokes("enter", {}, Frame("disconnectAll", Top.self, None))
    /\ UNCHANGED <<links, keyed, thrown, call, before, refused>>

\* Mutation: the peer is not told.
RecordOnly ==
    /\ Runs("connect", "enter")
    /\ Top.other \notin links[Top.self] /\ ~Refuses(Top.self, Top.other)
    /\ links' = [links EXCEPT ![Top.self] = @ \cup {Top.other}]
    /\ Goes("called")
    /\ refused' = StillRefused(links')
    /\ UNCHANGED <<keyed, thrown, call, before>>

Record ==
    /\ Runs("connect", "enter")
    /\ Top.other \notin links[Top.self] /\ ~Refuses(Top.self, Top.other)
    /\ Kind[Top.self] = "client" => links[Top.self] = {}
    /\ links' = [links EXCEPT ![Top.self] = @ \cup {Top.other}]
    /\ Invokes("called", {}, Frame("connect", Top.other, Top.self))
    /\ refused' = StillRefused(links')
    /\ UNCHANGED <<keyed, thrown, call, before>>

\* addQueue() and put().
Connected ==
    /\ Runs("connect", "called")
    /\ keyed' = [keyed EXCEPT ![Top.self] = IF Keys(Top.self) THEN @ \cup {Top.other} ELSE @]
    /\ Returns
    /\ UNCHANGED <<links, thrown, call, before, refused>>

\* Mutation: the catch clause forgets to erase.
UnwindWithoutErase ==
    /\ Running("connect", "called") /\ thrown
    /\ Returns
    /\ refused' = StillRefused(links) \cup KeptBy(Top)
    /\ UNCHANGED <<links, keyed, thrown, call, before>>

\* Mutation: the catch clause of the Single policy in the Multi one.
UnwindClears ==
    /\ Running("connect", "called") /\ thrown
    /\ links' = [links EXCEPT ![Top.self] = IF Managed(Top.self) THEN {} ELSE @]
    /\ Returns
    /\ refused' = StillRefused(links') \cup KeptBy(Top)
    /\ UNCHANGED <<keyed, thrown, call, before>>

\* Only a ConnectionManager catches the exception, erases, and throws again; a
\* producer keeps the port that has refused it.
Unwind ==
    /\ Running("connect", "called") /\ thrown
    /\ links' = [links EXCEPT ![Top.self] =
            IF ~Managed(Top.self) THEN @ ELSE IF Exclusive(Top.self) THEN {} ELSE @ \ {Top.other}]
    /\ Returns
    /\ refused' = StillRefused(links') \cup KeptBy(Top)
    /\ UNCHANGED <<keyed, thrown, call, before>>

-----------------------------------------------------------------------------
\* disconnect(other)

DisconnectAgain ==
    /\ Runs("disconnect", "enter")
    /\ Top.other \notin links[Top.self]
    /\ Goes("called")
    /\ UNCHANGED <<links, keyed, thrown, call, before, refused>>

\* Mutation: the peer is not told.
Forget ==
    /\ Runs("disconnect", "enter")
    /\ Top.other \in links[Top.self] /\ ~HoldsOne(Top.self)
    /\ links' = [links EXCEPT ![Top.self] = @ \ {Top.other}]
    /\ Goes("called")
    /\ refused' = StillRefused(links')
    /\ UNCHANGED <<keyed, thrown, call, before>>

Erase ==
    /\ Runs("disconnect", "enter")
    /\ Top.other \in links[Top.self] /\ ~HoldsOne(Top.self)
    /\ links' = [links EXCEPT ![Top.self] = IF Exclusive(Top.self) THEN {} ELSE @ \ {Top.other}]
    /\ Invokes("called", {}, Frame("disconnect", Top.other, Top.self))
    /\ refused' = StillRefused(links')
    /\ UNCHANGED <<keyed, thrown, call, before>>

\* A requester and a client disconnect from everything they have.
LeaveTheOne ==
    /\ Runs("disconnect", "enter")
    /\ Top.other \in links[Top.self] /\ HoldsOne(Top.self)
    /\ Invokes("called", {}, Frame("disconnectAll", Top.self, None))
    /\ UNCHANGED <<links, keyed, thrown, call, before, refused>>

\* removeQueue() and erase().
Disconnected ==
    /\ Runs("disconnect", "called")
    /\ keyed' = [keyed EXCEPT ![Top.self] = @ \ {Top.other}]
    /\ Returns
    /\ UNCHANGED <<links, thrown, call, before, refused>>

-----------------------------------------------------------------------------
\* disconnect()

TakeAll ==
    /\ Runs("disconnectAll", "enter")
    /\ links' = [links EXCEPT ![Top.self] = {}]
    /\ stack' = <<[Top EXCEPT !.at = "loop", !.todo = links[Top.self]]>> \o Tail(stack)
    /\ refused' = StillRefused(links')
    /\ UNCHANGED <<keyed, thrown, call, before>>

\* Mutations: disconnect() of all the peer has, whoever calls; without a name; of
\* one peer only; of the same peer again and again.
LeaveWholesale ==
    /\ Runs("disconnectAll", "loop")
    /\ \E x \in Top.todo : Invokes("loop", Top.todo \ {x}, Frame("disconnectAll", x, None))
    /\ UNCHANGED <<links, keyed, thrown, call, before, refused>>

LeaveUnnamed ==
    /\ Runs("disconnectAll", "loop")
    /\ \E x \in Top.todo : Invokes("loop", Top.todo \ {x}, Frame("disconnect", x, None))
    /\ UNCHANGED <<links, keyed, thrown, call, before, refused>>

LeaveOne ==
    /\ Runs("disconnectAll", "loop")
    /\ \E x \in Top.todo :
        Invokes("loop", {}, IF Managed(Top.self) THEN Frame("disconnect", x, Top.self)
                            ELSE Frame("disconnectAll", x, None))
    /\ UNCHANGED <<links, keyed, thrown, call, before, refused>>

LeaveForever ==
    /\ Runs("disconnectAll", "loop")
    /\ \E x \in Top.todo :
        Invokes("loop", Top.todo, IF Managed(Top.self) THEN Frame("disconnect", x, Top.self)
                                  ELSE Frame("disconnectAll", x, None))
    /\ UNCHANGED <<links, keyed, thrown, call, before, refused>>

\* A ConnectionManager names its owner to each peer; the others call the peer's
\* disconnect().
Leave ==
    /\ Runs("disconnectAll", "loop")
    /\ \E x \in Top.todo :
        Invokes("loop", Top.todo \ {x},
                IF Managed(Top.self) THEN Frame("disconnect", x, Top.self)
                ELSE Frame("disconnectAll", x, None))
    /\ UNCHANGED <<links, keyed, thrown, call, before, refused>>

\* Mutation: the queues of the peers stay.
LeftButKeyed ==
    /\ Runs("disconnectAll", "loop") /\ Top.todo = {}
    /\ Returns
    /\ UNCHANGED <<links, keyed, thrown, call, before, refused>>

\* removeAllQueues() and clear().
Left ==
    /\ Runs("disconnectAll", "loop") /\ Top.todo = {}
    /\ keyed' = [keyed EXCEPT ![Top.self] = {}]
    /\ Returns
    /\ UNCHANGED <<links, thrown, call, before, refused>>

-----------------------------------------------------------------------------
Step ==
    \/ ConnectAgain \/ Refuse \/ LeaveFirst \/ Record \/ Connected \/ Unwind
    \/ DisconnectAgain \/ Erase \/ LeaveTheOne \/ Disconnected
    \/ TakeAll \/ Leave \/ Left

Next == Step \/ (\E c \in Calls : Call(c) \/ Request(c)) \/ (\E p \in Ports : Send(p))

Spec == Init /\ [][Next]_vars

\* A function that has been called goes on.
FairSpec == Spec /\ WF_vars(Step)

-----------------------------------------------------------------------------
(***************************************************************************)
(* Properties.  While a call is in progress the two sides of a connection  *)
(* may disagree; once it has returned they should not.                     *)
(***************************************************************************)

\* The exception to what follows: x has refused the connect() of p, which threw,
\* and p keeps x all the same (producer_port.h sets consumers_[ptr] before it calls
\* ptr->connect() and catches nothing; SingleHasOneProducer below).
Refused(p, x) == <<p, x>> \in refused

\* A connect() of two ports neither of which is a client.
ConnectIsTame ==
    call.fn = "connect" /\ Kind[call.self] # "client" /\ Kind[call.other] # "client"

\* The connections a disconnect() is called for, and one that calls no
\* disconnect() of all that another port has: neither side holds one port, and it
\* is not a producer that leaves all its consumers.
CalledFor ==
    IF call.fn = "disconnect" THEN before[call.self] \cap {call.other} ELSE before[call.self]

DisconnectIsTame ==
    /\ call.fn \in {"disconnect", "disconnectAll"}
    /\ \A p \in {call.self} \cup CalledFor : ~HoldsOne(p)
    /\ call.fn = "disconnectAll" => Kind[call.self] # "producer"

\* A port counts only ports that count it: what isConnected() and getStatus()
\* say on one side is true on the other.
Symmetric ==
    AtRest => \A p, x \in Ports : x \in links[p] /\ ~Refused(p, x) => p \in links[x]

\* A MultiConsumerPort has a queue for each of its producers and no other, so
\* that popAll() waits for the producers it has; a MultiRequesterPort asks the
\* responders it is connected to.
QueuesMatchConnections ==
    AtRest => \A p \in Ports : Keys(p) => keyed[p] = links[p]

\* "Only allow one ProducerPort to connect" (policy.h): at most one producer
\* sends to a consumer with ConnectPolicy::Single.
SingleHasOneProducer ==
    AtRest => \A x \in Ports : Kind[x] = "single" =>
        Cardinality({p \in Ports : Kind[p] = "producer" /\ x \in links[p]}) <= 1

\* connect() that throws has connected nothing (port.h: "Throws if already
\* connected and multiple connections is unsupported"), with one exception: a
\* producer keeps a Single consumer that has refused it, because it has another
\* producer; the other records are as they were.
FailedConnectLeavesAtMostARefusal ==
    AtRest /\ thrown =>
        IF Refused(call.self, call.other)
        THEN /\ Kind[call.self] = "producer" /\ Kind[call.other] = "single"
             /\ links[call.other] \notin {{}, {call.self}}
             /\ links = [before EXCEPT ![call.self] = @ \cup {call.other}]
        ELSE links = before

\* connect() takes no connection away (port.h, connect); that of a client leaves
\* the host it has, and is not meant.
ConnectLeavesOthersAlone ==
    AtRest /\ ConnectIsTame => \A p \in Ports : before[p] \subseteq links[p]

\* What disconnect() was called for is disconnected, on both sides.
DisconnectIsolates ==
    AtRest /\ call.fn = "disconnectAll" =>
        /\ links[call.self] = {}
        /\ \A x \in Ports : call.self \in links[x] => Refused(x, call.self)

\* disconnect(ptr) "disconnects port if connected otherwise does nothing", and
\* disconnect() disconnects the connections of the port (port.h): those of other
\* pairs of ports stay, unless the call reaches a port whose disconnect() calls
\* that of the other for all it has.
DisconnectLeavesOthersAlone ==
    AtRest /\ DisconnectIsTame =>
        \A p, x \in Ports :
            x \in before[p] /\ x \notin links[p] =>
                /\ call.self \in {p, x}
                /\ call.fn = "disconnect" => call.other \in {p, x}

\* A port that says isConnected() is served when it asks: by every responder it
\* is connected to, or by its host; and the call throws only if it is not.
ConnectedIsServed ==
    AtRest /\ call.fn = "request" =>
        LET p == call.self
        IN  thrown = (links[p] = {} /\ Kind[p] # "multiRequester") /\ Answerers(p) = links[p]

-----------------------------------------------------------------------------
(***************************************************************************)
(* The inductive invariant of the safety proofs.  A connection that only   *)
(* one side has is explained by a call in progress.                        *)
(***************************************************************************)

\* A client and a host that may be connected.
Mated(p, x) == Casts(p, x) /\ Casts(x, p) /\ "client" \in {Kind[p], Kind[x]}

LinksFit == \A p \in Ports : \A x \in links[p] : Casts(p, x)

AtMostOne ==
    \A p \in Ports : Exclusive(p) \/ Kind[p] = "client" => \A x, y \in links[p] : x = y

\* The calls of connect() are the first on the stack and go back and forth
\* between two ports; other calls are above them only when a client leaves.
FitsAbove(f, g) ==
    /\ f.fn = "connect" =>
        /\ g.fn = "connect" /\ g.at = "called"
        /\ \/ g.self = f.self /\ g.other = f.other
           \/ g.self = f.other /\ g.other = f.self
    /\ f.fn # "connect" /\ g.fn = "connect" => Mated(g.self, g.other)

IsCalledBy(f, g) == f.fn = "connect" => g.self = f.other /\ g.other = f.self

ConnectsComeFirst ==
    \A i, j \in DOMAIN stack :
        /\ i < j => FitsAbove(stack[i], stack[j])
        /\ j = i + 1 => IsCalledBy(stack[i], stack[j])

\* A port that has told its peer has recorded the connection, or forgotten it.
IsRecorded(l, f) ==
    /\ f.fn = "connect" /\ f.at = "called" =>
        Casts(f.self, f.other) /\ (f.other \in l[f.self] \/ Mated(f.self, f.other))
    /\ f.fn = "disconnect" /\ f.at = "called" /\ ~HoldsOne(f.self) => f.other \notin l[f.self]
    /\ f.fn = "disconnectAll" /\ f.at = "loop" => l[f.self] = {}

ToldIsRecorded == \A i \in DOMAIN stack : IsRecorded(links, stack[i])

\* The call f will add p to links[x], or take x from links[p]; failing: it is
\* the one an exception leaves.
Settles(failing, f, p, x) ==
    \/ f.fn = "connect" /\ f.at = "enter" /\ f.self = x /\ f.other = p
    \/ f.fn = "connect" /\ f.at = "called" /\ f.self = p /\ f.other = x /\ failing
    \/ f.fn = "disconnect" /\ f.at = "enter" /\ f.self = p /\ f.other = x
    \/ f.fn = "disconnectAll" /\ f.at = "enter" /\ f.self = p
    \/ f.fn = "disconnectAll" /\ f.at = "loop" /\ f.self = x /\ p \in f.todo

OneSided(p, x) == x \in links[p] /\ p \notin links[x] /\ ~Refused(p, x)

\* A connect() that another port has called settles what that port has recorded;
\* one from outside settles nothing.
SettledAt(i, p, x) ==
    /\ Settles(thrown, stack[i], p, x)
    /\ stack[i].fn = "connect" /\ stack[i].at = "enter" => i < Len(stack)

OneSidedIsSettled ==
    \A p, x \in Ports : OneSided(p, x) => \E i \in DOMAIN stack : SettledAt(i, p, x)

\* So do addQueue(), put(), removeQueue() and their likes.
Lacks(p, x) == x \in links[p] /\ x \notin keyed[p]
Retains(p, x) == x \in keyed[p] /\ x \notin links[p]

WillKey(f, p, x) == f.fn = "connect" /\ f.at = "called" /\ f.self = p /\ f.other = x
WillDrop(f, p, x) ==
    \/ f.fn = "disconnect" /\ f.at = "called" /\ f.self = p /\ f.other = x
    \/ f.fn = "disconnectAll" /\ f.at = "loop" /\ f.self = p

KeysAreSettled ==
    \A p \in Ports : Keys(p) => \A x \in Ports :
        /\ Lacks(p, x) => \E i \in DOMAIN stack : WillKey(stack[i], p, x)
        /\ Retains(p, x) => \E i \in DOMAIN stack : WillDrop(stack[i], p, x)

\* What a connect() from outside has changed so far.
OnlyRecorded(f) ==
    /\ f.other \notin before[f.self]
    /\ links = [before EXCEPT ![f.self] = @ \cup {f.other}]
    /\ Keys(f.self) => f.other \notin keyed[f.self]

CallIsOutermost ==
    stack # <<>> =>
        LET f == stack[Len(stack)]
        IN  f.fn = call.fn /\ f.self = call.self /\ f.other = call.other

Progress ==
    /\ Len(stack) = 1 /\ stack[1].fn = "connect" /\ stack[1].at = "enter" =>
        links = before \/ Mated(stack[1].self, stack[1].other)
    /\ Len(stack) = 2 /\ stack[1].fn = "connect" /\ stack[1].at = "enter" =>
        OnlyRecorded(stack[2]) \/ Mated(stack[1].self, stack[1].other)
    /\ stack # <<>> /\ thrown =>
        /\ Len(stack) = 1 /\ stack[1].fn = "connect" /\ stack[1].at = "called"
        /\ stack[1].self \notin links[stack[1].other]
        /\ Refuses(stack[1].other, stack[1].self)
        /\ ~Managed(stack[1].self) =>
            Kind[stack[1].self] = "producer" /\ Kind[stack[1].other] = "single"
        /\ OnlyRecorded(stack[1])

\* Who is refused is a producer that a Single consumer does not count.
RefusedAreKept ==
    \A e \in refused :
        /\ Kind[e[1]] = "producer" /\ Kind[e[2]] = "single"
        /\ e[2] \in links[e[1]] /\ e[1] \notin links[e[2]]

PortConnectionsInv ==
    /\ TypeOK /\ LinksFit /\ AtMostOne
    /\ ConnectsComeFirst /\ ToldIsRecorded /\ OneSidedIsSettled /\ KeysAreSettled
    /\ CallIsOutermost /\ Progress /\ RefusedAreKept
    /\ FailedConnectLeavesAtMostARefusal /\ DisconnectIsolates /\ ConnectedIsServed

IsNamed(p, x) ==
    \/ call.fn \in {"connect", "disconnect"} /\ {p, x} = {call.self, call.other}
    \/ call.fn = "disconnectAll" /\ call.self \in {p, x}

\* connect() calls connect() of the two ports and adds nothing but their connection.
ConnectIsLocal ==
    ConnectIsTame =>
        /\ \A i \in DOMAIN stack : stack[i].fn = "connect" /\ IsNamed(stack[i].self, stack[i].other)
        /\ \A p, x \in Ports :
            /\ x \in before[p] => x \in links[p]
            /\ x \in links[p] /\ x \notin before[p] => IsNamed(p, x)

\* disconnect() calls disconnect() for the connections it is called for, and
\* removes no others.
DisconnectIsLocal ==
    DisconnectIsTame =>
        /\ \A i \in DOMAIN stack :
            /\ \/ stack[i].fn = "disconnect" /\ IsNamed(stack[i].self, stack[i].other)
               \/ stack[i].fn = "disconnectAll" /\ call.fn = "disconnectAll" /\ stack[i].self = call.self
            /\ ~HoldsOne(stack[i].self)
            /\ \A x \in stack[i].todo : ~HoldsOne(x)
        /\ \A p, x \in Ports :
            /\ x \in links[p] => x \in before[p]
            /\ x \in before[p] /\ x \notin links[p] => IsNamed(p, x)

\* A tame call makes no calls and no changes but those of the ports it names.
LocalInv == ConnectIsLocal /\ DisconnectIsLocal

\* The calls whose effect stays with the ports they name: no port that disconnects
\* from all it has, and no producer at a Single consumer.
Disciplined ==
    /\ \A p \in Ports : ~HoldsOne(p)
    /\ \A c \in Calls :
        /\ c.fn \in Functions
        /\ Kind[c.self] = "producer" =>
            c.fn # "disconnectAll" /\ (c.fn = "connect" => Kind[c.other] # "single")

\* The ports behind the calls are a set of connections that change one call at a
\* time, as Connections says.
PairsOf(l) == UNION {{p} \X l[p] : p \in Ports}
EdgesOf(l) == {{e[1], e[2]} : e \in {f \in PairsOf(l) : f[1] \in l[f[2]]}}
HalvesOf(l) == {e \in PairsOf(l) : e[1] \notin l[e[2]]}

FittingPairs ==
    {{e[1], e[2]} : e \in {f \in Ports \X Ports : Casts(f[1], f[2]) /\ Casts(f[2], f[1])}}

Abstract == INSTANCE Connections WITH
    Fits <- FittingPairs,
    ExclusivePorts <- {p \in Ports : Exclusive(p)},
    Producers <- {p \in Ports : Kind[p] = "producer"},
    Holders <- {p \in Ports : HoldsOne(p)},
    Clients <- {p \in Ports : Kind[p] = "client"},
    edges <- EdgesOf(IF AtRest THEN links ELSE before),
    half <- HalvesOf(IF AtRest THEN links ELSE before),
    busy <- ~AtRest,
    failed <- AtRest /\ thrown
Refinement == Abstract!Spec

\* The two sides do not call each other for ever.
CallsReturn == ~AtRest ~> AtRest
=============================================================================
