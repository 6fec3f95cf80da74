----------------------- MODULE PortConnectionsProofs ------------------------
(***************************************************************************)
(* That the two sides of every connection agree when connect() and         *)
(* disconnect() have returned, and what follows from it, for every set of  *)
(* ports of any kinds and types and every set of calls.                    *)
(***************************************************************************)
EXTENDS PortConnections, SequenceTheorems, TLAPS

-----------------------------------------------------------------------------
\* What the classes of two ports say about their connection.

\* Only a producer, a requester and a client look at the class of their peer.
LEMMA CastsFacts ==
    ASSUME NEW p \in Ports, NEW x \in Ports
    PROVE  /\ Kind[p] \in Kinds
           /\ Casts(p, x) /\ Kind[p] = "producer" => Kind[x] \in Consumers
           /\ Casts(p, x) /\ Kind[p] \in {"requester", "multiRequester"} => Kind[x] = "responder"
           /\ Casts(p, x) /\ Kind[p] = "client" => Kind[x] = "host"
           /\ Kind[p] \in Consumers \cup {"responder", "host"} => Casts(p, x)
<1>1. Kind[p] \in Kinds /\ Kind[x] \in Kinds
  BY PortConnectionsAssumption
<1>2. CASE Kind[p] = "producer"
  BY <1>1, <1>2 DEF Casts, Kinds, Consumers
<1>3. CASE Kind[p] \in {"requester", "multiRequester"}
  BY <1>1, <1>3 DEF Casts, Kinds, Consumers
<1>4. CASE Kind[p] = "client"
  BY <1>1, <1>4 DEF Casts, Kinds, Consumers
<1>5. CASE Kind[p] \in Consumers \cup {"responder", "host"}
  BY <1>1, <1>5 DEF Casts, Kinds, Consumers
<1> QED
  BY <1>1, <1>2, <1>3, <1>4, <1>5 DEF Kinds

\* A client and its host refuse nothing, and keep no queues.
LEMMA MatedFacts ==
    ASSUME NEW p \in Ports, NEW x \in Ports
    PROVE  /\ Mated(p, x) <=> Mated(x, p)
           /\ Kind[p] = "client" /\ Casts(p, x) => Mated(p, x)
           /\ Mated(p, x) => Casts(p, x) /\ ~Exclusive(p) /\ ~Keys(p)
BY CastsFacts DEF Mated, Exclusive, Keys, Consumers

\* The classes: who catches, who is exclusive, who has queues; and only a Single
\* consumer refuses a port that does not catch.
LEMMA KindFacts ==
    ASSUME NEW p \in Ports, NEW x \in Ports
    PROVE  /\ Keys(p) => Managed(p) /\ ~Exclusive(p) /\ ~HoldsOne(p)
           /\ HoldsOne(p) => Exclusive(p) \/ Kind[p] = "client"
           /\ Managed(p) \/ HoldsOne(p) \/ Kind[p] = "producer"
           /\ Casts(p, x) /\ ~Managed(p) /\ (~Casts(x, p) \/ Exclusive(x)) =>
                Kind[p] = "producer" /\ Kind[x] = "single"
BY CastsFacts DEF Keys, Managed, HoldsOne, Exclusive, Kinds, Consumers

-----------------------------------------------------------------------------
\* What the steps do to the stack, frame by frame.

\* The frame at i is what has become of the running call.
WasTop(i, at, todo) ==
    /\ stack'[i].fn = stack[1].fn /\ stack'[i].self = stack[1].self /\ stack'[i].other = stack[1].other
    /\ stack'[i].at = at /\ stack'[i].todo = todo

Replaces(at, todo) ==
    /\ stack' \in Seq(FrameSet) /\ Len(stack') = Len(stack)
    /\ WasTop(1, at, todo)
    /\ \A i \in 2..Len(stack) : stack'[i] = stack[i]

Pushes(at, todo, fn, p, x) ==
    /\ stack' \in Seq(FrameSet) /\ Len(stack') = Len(stack) + 1
    /\ stack'[1] = Frame(fn, p, x)
    /\ WasTop(2, at, todo)
    /\ \A i \in 2..Len(stack) : stack'[i + 1] = stack[i]
    /\ \A i \in 3..Len(stack') : stack'[i] = stack[i - 1]

Pops ==
    /\ stack' \in Seq(FrameSet) /\ Len(stack') = Len(stack) - 1
    /\ \A i \in 1..Len(stack') : stack'[i] = stack[i + 1]
    /\ \A i \in 2..Len(stack) : stack'[i - 1] = stack[i]

\* The running call is the first frame of the stack.
LEMMA TopLemma ==
    ASSUME stack \in Seq(FrameSet), stack # <<>>
    PROVE  /\ Top = stack[1] /\ stack[1] \in FrameSet
           /\ Len(stack) \in Nat /\ Len(stack) >= 1
BY DEF Top

\* The frames below the running call move up by one when it returns.
LEMMA TailLemma ==
    ASSUME stack \in Seq(FrameSet), stack # <<>>
    PROVE  /\ Tail(stack) \in Seq(FrameSet) /\ Len(Tail(stack)) = Len(stack) - 1
           /\ \A i \in 1..Len(stack) - 1 : Tail(stack)[i] = stack[i + 1]
BY HeadTailProperties, EmptySeq

\* Returns pops the running call.
LEMMA ReturnsLemma ==
    ASSUME stack \in Seq(FrameSet), stack # <<>>, Returns
    PROVE  Pops
BY TailLemma, TopLemma DEF Returns, Pops

\* A step of the running call changes the first frame only.
LEMMA ReplacesLemma ==
    ASSUME stack \in Seq(FrameSet), stack # <<>>,
           NEW at \in {"enter", "called", "loop"}, NEW todo \in SUBSET Ports,
           stack' = <<[Top EXCEPT !.at = at, !.todo = todo]>> \o Tail(stack)
    PROVE  Replaces(at, todo)
<1> DEFINE f == [Top EXCEPT !.at = at, !.todo = todo]
<1>1. f \in FrameSet /\ f.fn = stack[1].fn /\ f.self = stack[1].self /\ f.other = stack[1].other
      /\ f.at = at /\ f.todo = todo
  BY TopLemma DEF FrameSet
<1> HIDE DEF f
<1>2. <<f>> \in Seq(FrameSet) /\ Len(<<f>>) = 1 /\ <<f>>[1] = f
  BY <1>1
<1>3. stack' = <<f>> \o Tail(stack)
  BY DEF f
<1>4. /\ stack' \in Seq(FrameSet) /\ Len(stack') = Len(stack) /\ stack'[1] = f
      /\ \A i \in 2..Len(stack) : stack'[i] = stack[i]
  BY <1>2, <1>3, TailLemma, TopLemma, ConcatProperties
<1> QED
  BY <1>1, <1>4 DEF Replaces, WasTop

\* A call of another port puts one frame on top of that of the caller.
LEMMA InvokesLemma ==
    ASSUME stack \in Seq(FrameSet), stack # <<>>,
           NEW at \in {"enter", "called", "loop"}, NEW todo \in SUBSET Ports,
           NEW fn \in Functions, NEW p \in Ports, NEW x \in Ports \cup {None},
           Invokes(at, todo, Frame(fn, p, x))
    PROVE  Pushes(at, todo, fn, p, x)
<1> DEFINE f == [Top EXCEPT !.at = at, !.todo = todo]
           g == Frame(fn, p, x)
<1>1. f \in FrameSet /\ f.fn = stack[1].fn /\ f.self = stack[1].self /\ f.other = stack[1].other
      /\ f.at = at /\ f.todo = todo
  BY TopLemma DEF FrameSet
<1>2. g \in FrameSet
  BY DEF FrameSet, Frame
<1>3. stack' = <<g, f>> \o Tail(stack)
  BY DEF Invokes
<1> HIDE DEF f, g
<1>4. <<g, f>> \in Seq(FrameSet) /\ Len(<<g, f>>) = 2 /\ <<g, f>>[1] = g /\ <<g, f>>[2] = f
  BY <1>1, <1>2
<1>5. /\ stack' \in Seq(FrameSet) /\ Len(stack') = Len(stack) + 1
      /\ stack'[1] = g /\ stack'[2] = f
      /\ \A i \in 3..Len(stack) + 1 : stack'[i] = stack[i - 1]
  BY <1>3, <1>4, TailLemma, TopLemma, ConcatProperties
<1>6. \A i \in 2..Len(stack) : stack'[i + 1] = stack[i]
  BY <1>5, TopLemma
<1> QED
  BY <1>1, <1>5, <1>6 DEF g, Pushes, WasTop

\* Goes is such a step that leaves the peers still to be told alone.
LEMMA GoesLemma ==
    ASSUME stack \in Seq(FrameSet), stack # <<>>, NEW at \in {"enter", "called", "loop"}, Goes(at)
    PROVE  Replaces(at, stack[1].todo)
<1>1. [Top EXCEPT !.at = at] = [Top EXCEPT !.at = at, !.todo = stack[1].todo]
  BY TopLemma DEF FrameSet
<1>2. stack[1].todo \in SUBSET Ports
  BY TopLemma DEF FrameSet
<1> QED
  BY <1>1, <1>2, ReplacesLemma DEF Goes

\* The running call, typed.
LEMMA TopTyped ==
    ASSUME TypeOK, stack # <<>>
    PROVE  /\ stack \in Seq(FrameSet) /\ Top = stack[1] /\ Len(stack) \in Nat /\ Len(stack) >= 1
           /\ stack[1].fn \in Functions /\ stack[1].self \in Ports /\ stack[1].todo \in SUBSET Ports
           /\ stack[1].fn # "disconnectAll" => stack[1].other \in Ports
<1>1. stack \in Seq(FrameSet) /\ (stack[1].other = None <=> stack[1].fn = "disconnectAll")
  BY DEF TypeOK
<1> QED
  BY <1>1, TopLemma DEF FrameSet

-----------------------------------------------------------------------------
\* Each action, as what it does to the stack.

\* The call at the top, and where it is.
IsAt(fn, at) ==
    /\ stack # <<>> /\ stack \in Seq(FrameSet) /\ Len(stack) \in Nat /\ Len(stack) >= 1
    /\ stack[1].fn = fn /\ stack[1].at = at
    /\ stack[1].self \in Ports /\ (fn # "disconnectAll" => stack[1].other \in Ports)

\* A running call, as the guards of the actions name it.
LEMMA IsAtLemma ==
    ASSUME TypeOK, NEW fn, NEW at, Running(fn, at)
    PROVE  IsAt(fn, at) /\ Top = stack[1]
BY TopTyped DEF Running, AtRest, IsAt

\* connect() of a port that is connected already does nothing.
LEMMA ConnectAgainDoes ==
    ASSUME TypeOK, ConnectAgain
    PROVE  /\ IsAt("connect", "enter") /\ ~thrown
           /\ stack[1].other \in links[stack[1].self]
           /\ Replaces("called", stack[1].todo)
           /\ UNCHANGED <<links, keyed, thrown, call, before>>
BY IsAtLemma, GoesLemma DEF ConnectAgain, Runs, IsAt

\* connect() that throws before it has done anything.
LEMMA RefuseDoes ==
    ASSUME TypeOK, Refuse
    PROVE  /\ IsAt("connect", "enter") /\ ~thrown
           /\ stack[1].other \notin links[stack[1].self]
           /\ Refuses(stack[1].self, stack[1].other)
           /\ Pops
           /\ thrown'
           /\ UNCHANGED <<links, keyed, call, before>>
BY IsAtLemma, ReturnsLemma DEF Refuse, Runs, IsAt

\* connect() of a client that has another host calls disconnect().
LEMMA LeaveFirstDoes ==
    ASSUME TypeOK, LeaveFirst
    PROVE  /\ IsAt("connect", "enter") /\ ~thrown
           /\ Mated(stack[1].self, stack[1].other)
           /\ Pushes("enter", {}, "disconnectAll", stack[1].self, None)
           /\ UNCHANGED <<links, keyed, thrown, call, before>>
<1>1. IsAt("connect", "enter") /\ Top = stack[1]
  BY IsAtLemma DEF LeaveFirst, Runs
<1>2. Mated(stack[1].self, stack[1].other)
  BY <1>1, MatedFacts DEF LeaveFirst, IsAt
<1> QED
  BY <1>1, <1>2, InvokesLemma DEF LeaveFirst, Runs, IsAt, Functions

\* connect() records its peer, which fits, and calls the peer's connect().
LEMMA RecordDoes ==
    ASSUME TypeOK, Record
    PROVE  /\ IsAt("connect", "enter") /\ ~thrown
           /\ stack[1].other \notin links[stack[1].self]
           /\ Casts(stack[1].self, stack[1].other)
           /\ Exclusive(stack[1].self) \/ Kind[stack[1].self] = "client" => links[stack[1].self] = {}
           /\ links' = [links EXCEPT ![stack[1].self] = @ \cup {stack[1].other}]
           /\ Pushes("called", {}, "connect", stack[1].other, stack[1].self)
           /\ UNCHANGED <<keyed, thrown, call, before>>
<1>1. IsAt("connect", "enter") /\ Top = stack[1]
  BY IsAtLemma DEF Record, Runs
<1> QED
  BY <1>1, InvokesLemma DEF Record, Refuses, Runs, IsAt, Functions

\* The end of connect() adds the queue or the slave.
LEMMA ConnectedDoes ==
    ASSUME TypeOK, Connected
    PROVE  /\ IsAt("connect", "called") /\ ~thrown
           /\ keyed' = [keyed EXCEPT ![stack[1].self] =
                    IF Keys(stack[1].self) THEN @ \cup {stack[1].other} ELSE @]
           /\ Pops
           /\ UNCHANGED <<links, thrown, call, before>>
BY IsAtLemma, ReturnsLemma DEF Connected, Runs, IsAt

\* An exception leaves connect(), whose record is erased if a ConnectionManager has
\* made it.
LEMMA UnwindDoes ==
    ASSUME TypeOK, Unwind
    PROVE  /\ IsAt("connect", "called") /\ thrown
           /\ links' = [links EXCEPT ![stack[1].self] =
                    IF ~Managed(stack[1].self) THEN @
                    ELSE IF Exclusive(stack[1].self) THEN {} ELSE @ \ {stack[1].other}]
           /\ Pops
           /\ UNCHANGED <<keyed, thrown, call, before>>
BY IsAtLemma, ReturnsLemma DEF Unwind, IsAt

\* disconnect(other) of a port that is not connected goes on without a call.
LEMMA DisconnectAgainDoes ==
    ASSUME TypeOK, DisconnectAgain
    PROVE  /\ IsAt("disconnect", "enter") /\ ~thrown
           /\ stack[1].other \notin links[stack[1].self]
           /\ Replaces("called", stack[1].todo)
           /\ UNCHANGED <<links, keyed, thrown, call, before>>
BY IsAtLemma, GoesLemma DEF DisconnectAgain, Runs, IsAt

\* disconnect(other) erases its record and calls the peer's disconnect(this).
LEMMA EraseDoes ==
    ASSUME TypeOK, Erase
    PROVE  /\ IsAt("disconnect", "enter") /\ ~thrown
           /\ stack[1].other \in links[stack[1].self] /\ ~HoldsOne(stack[1].self)
           /\ links' = [links EXCEPT ![stack[1].self] =
                    IF Exclusive(stack[1].self) THEN {} ELSE @ \ {stack[1].other}]
           /\ Pushes("called", {}, "disconnect", stack[1].other, stack[1].self)
           /\ UNCHANGED <<keyed, thrown, call, before>>
<1>1. IsAt("disconnect", "enter") /\ Top = stack[1]
  BY IsAtLemma DEF Erase, Runs
<1> QED
  BY <1>1, InvokesLemma DEF Erase, Runs, IsAt, Functions

\* disconnect(other) of a port that holds one peer is its disconnect().
LEMMA LeaveTheOneDoes ==
    ASSUME TypeOK, LeaveTheOne
    PROVE  /\ IsAt("disconnect", "enter") /\ ~thrown
           /\ stack[1].other \in links[stack[1].self] /\ HoldsOne(stack[1].self)
           /\ Pushes("called", {}, "disconnectAll", stack[1].self, None)
           /\ UNCHANGED <<links, keyed, thrown, call, before>>
BY IsAtLemma, InvokesLemma DEF LeaveTheOne, Runs, IsAt, Functions

\* The end of disconnect(other) removes the queue or the slave.
LEMMA DisconnectedDoes ==
    ASSUME TypeOK, Disconnected
    PROVE  /\ IsAt("disconnect", "called") /\ ~thrown
           /\ keyed' = [keyed EXCEPT ![stack[1].self] = @ \ {stack[1].other}]
           /\ Pops
           /\ UNCHANGED <<links, thrown, call, before>>
BY IsAtLemma, ReturnsLemma DEF Disconnected, Runs, IsAt

\* disconnect() takes all its records at once.
LEMMA TakeAllDoes ==
    ASSUME TypeOK, TakeAll
    PROVE  /\ IsAt("disconnectAll", "enter") /\ ~thrown
           /\ links' = [links EXCEPT ![stack[1].self] = {}]
           /\ Replaces("loop", links[stack[1].self])
           /\ UNCHANGED <<keyed, thrown, call, before>>
<1>1. IsAt("disconnectAll", "enter") /\ Top = stack[1]
  BY IsAtLemma DEF TakeAll, Runs
<1>2. links[stack[1].self] \in SUBSET Ports
  BY <1>1 DEF IsAt, TypeOK
<1> QED
  BY <1>1, <1>2, ReplacesLemma DEF TakeAll, Runs, IsAt

\* disconnect() tells the next peer; only a ConnectionManager says who leaves.
LEMMA LeaveDoes ==
    ASSUME TypeOK, Leave
    PROVE  \E x \in stack[1].todo :
              /\ IsAt("disconnectAll", "loop") /\ ~thrown /\ x \in Ports
              /\ IF Managed(stack[1].self)
                 THEN Pushes("loop", stack[1].todo \ {x}, "disconnect", x, stack[1].self)
                 ELSE Pushes("loop", stack[1].todo \ {x}, "disconnectAll", x, None)
              /\ UNCHANGED <<links, keyed, thrown, call, before>>
<1>1. IsAt("disconnectAll", "loop") /\ Top = stack[1] /\ stack[1].todo \in SUBSET Ports
  BY IsAtLemma, TopTyped DEF Leave, Runs, IsAt
<1>2. PICK x \in stack[1].todo :
          Invokes("loop", stack[1].todo \ {x},
                  IF Managed(stack[1].self) THEN Frame("disconnect", x, stack[1].self)
                  ELSE Frame("disconnectAll", x, None))
  BY <1>1 DEF Leave
<1>3. CASE Managed(stack[1].self)
  BY <1>1, <1>2, <1>3, InvokesLemma DEF Leave, Runs, IsAt, Functions
<1>4. CASE ~Managed(stack[1].self)
  BY <1>1, <1>2, <1>4, InvokesLemma DEF Leave, Runs, IsAt, Functions
<1> QED
  BY <1>3, <1>4

\* The end of disconnect() removes all queues and slaves.
LEMMA LeftDoes ==
    ASSUME TypeOK, Left
    PROVE  /\ IsAt("disconnectAll", "loop") /\ ~thrown
           /\ stack[1].todo = {}
           /\ keyed' = [keyed EXCEPT ![stack[1].self] = {}]
           /\ Pops
           /\ UNCHANGED <<links, thrown, call, before>>
BY IsAtLemma, ReturnsLemma DEF Left, Runs, IsAt

\* A call from outside is made when no other is in progress, of a port and with a
\* peer.
LEMMA CallDoes ==
    ASSUME TypeOK, NEW c \in Calls, Call(c)
    PROVE  /\ stack = <<>> /\ c.fn \in Functions
           /\ c.self \in Ports /\ c.other \in Ports \cup {None}
           /\ c.other = None <=> c.fn = "disconnectAll"
           /\ stack' \in Seq(FrameSet) /\ Len(stack') = 1
           /\ stack'[1] = Frame(c.fn, c.self, c.other)
           /\ call' = c /\ before' = links /\ thrown' = FALSE
           /\ UNCHANGED <<links, keyed>>
<1>a. c \in CallSet
  BY PortConnectionsAssumption
<1>c. c.other = None <=> c.fn \in {"disconnectAll", "request"}
  BY PortConnectionsAssumption
<1>b. c.fn \in Functions
  BY DEF Call
<1>1. c.self \in Ports /\ c.other \in Ports \cup {None} /\ c.fn \in Functions
      /\ (c.other = None <=> c.fn = "disconnectAll")
  BY <1>a, <1>b, <1>c DEF CallSet, Functions
<1>2. Frame(c.fn, c.self, c.other) \in FrameSet
  BY <1>1 DEF Frame, FrameSet
<1> QED
  BY <1>1, <1>2 DEF Call, AtRest

\* A request comes when no call is in progress, and changes no connection.
LEMMA RequestDoes ==
    ASSUME TypeOK, NEW c \in Calls, Request(c)
    PROVE  /\ stack = <<>> /\ c.fn = "request" /\ c.self \in Ports /\ Kind[c.self] \in Asking
           /\ call' = c /\ before' = links
           /\ thrown' = (Answerers(c.self) = {} /\ Kind[c.self] # "multiRequester")
           /\ UNCHANGED <<links, keyed, stack>>
<1>1. c.fn = "request"
  BY DEF Request
<1>2. c \in CallSet
  BY PortConnectionsAssumption
<1>3. c.fn = "request" => Kind[c.self] \in Asking
  BY PortConnectionsAssumption
<1>4. c.self \in Ports
  BY <1>2 DEF CallSet
<1>5. stack = <<>> /\ call' = c /\ before' = links /\ UNCHANGED <<links, keyed, stack>>
  BY DEF Request, AtRest
<1>6. thrown' = (Answerers(c.self) = {} /\ Kind[c.self] # "multiRequester")
  BY Zenon DEF Request
<1> QED
  BY <1>1, <1>3, <1>4, <1>5, <1>6, Zenon

-----------------------------------------------------------------------------
\* The types.

\* The positions of the stack.
LEMMA SeqDomain == \A s \in Seq(FrameSet) : DOMAIN s = 1..Len(s) /\ Len(s) \in Nat
OBVIOUS

\* Every call in progress, typed.
LEMMA FramesTyped ==
    ASSUME TypeOK, NEW i \in DOMAIN stack
    PROVE  /\ stack[i].self \in Ports /\ stack[i].todo \in SUBSET Ports
           /\ stack[i].fn # "disconnectAll" => stack[i].other \in Ports
<1>1. stack \in Seq(FrameSet) /\ (stack[i].other = None <=> stack[i].fn = "disconnectAll")
  BY DEF TypeOK
<1>2. stack[i] \in FrameSet
  BY <1>1
<1> QED
  BY <1>1, <1>2 DEF FrameSet

\* What a step does with the refused ports: those that are still kept stay, and
\* one is added when an exception leaves the connect() of a port without a
\* ConnectionManager.
LEMMA RefusedMoves ==
    ASSUME TypeOK, [Next]_vars
    PROVE  \/ UNCHANGED <<links, refused>>
           \/ refused' = StillRefused(links')
           \/ /\ IsAt("connect", "called") /\ Unwind
              /\ refused' = StillRefused(links') \cup KeptBy(stack[1])
<1>1. CASE Unwind
  <2>1. IsAt("connect", "called") /\ Top = stack[1]
    BY <1>1, IsAtLemma DEF Unwind
  <2> QED
    BY <1>1, <2>1 DEF Unwind
<1>2. CASE Record \/ Erase \/ TakeAll
  BY <1>2 DEF Record, Erase, TakeAll
<1>3. CASE ConnectAgain \/ Refuse \/ LeaveFirst \/ Connected
  BY <1>3 DEF ConnectAgain, Refuse, LeaveFirst, Connected
<1>4. CASE DisconnectAgain \/ LeaveTheOne \/ Disconnected \/ Leave \/ Left
  BY <1>4 DEF DisconnectAgain, LeaveTheOne, Disconnected, Leave, Left
<1>5. ASSUME NEW c \in Calls, Call(c) \/ Request(c) PROVE UNCHANGED <<links, refused>>
  BY <1>5 DEF Call, Request
<1>6. ASSUME NEW p \in Ports, Send(p) PROVE UNCHANGED <<links, refused>>
  BY <1>6 DEF Send
<1>7. CASE UNCHANGED vars
  BY <1>7 DEF vars
<1> QED
  BY <1>1, <1>2, <1>3, <1>4, <1>5, <1>6, <1>7 DEF Next, Step

\* The refused are pairs of ports.
LEMMA RefusedTyped == TypeOK /\ [Next]_vars => refused' \subseteq Ports \X Ports
<1> SUFFICES ASSUME TypeOK, [Next]_vars PROVE refused' \subseteq Ports \X Ports
  OBVIOUS
<1>1. refused \subseteq Ports \X Ports /\ StillRefused(links') \subseteq refused
  BY DEF TypeOK, StillRefused
<1>2. IsAt("connect", "called") => KeptBy(stack[1]) \subseteq Ports \X Ports
  BY DEF IsAt, KeptBy
<1> QED
  BY <1>1, <1>2, RefusedMoves

\* A refused port that is still kept stays among the refused.
LEMMA RefusedStay ==
    ASSUME TypeOK, [Next]_vars, NEW p, NEW x, Refused(p, x),
           x \in links'[p], p \notin links'[x]
    PROVE  Refused(p, x)'
<1>1. <<p, x>> \in StillRefused(links')
  BY DEF Refused, StillRefused
<1>2. <<p, x>> \in refused'
  BY <1>1, RefusedMoves DEF Refused
<1> QED
  BY <1>2 DEF Refused

\* The steps keep the types.
LEMMA NextTyped == TypeOK /\ [Next]_vars => TypeOK'
<1> SUFFICES ASSUME TypeOK, [Next]_vars PROVE TypeOK'
  OBVIOUS
<1> DEFINE Named(st) == \A i \in DOMAIN st : st[i].other = None <=> st[i].fn = "disconnectAll"
<1>t. /\ links \in [Ports -> SUBSET Ports] /\ keyed \in [Ports -> SUBSET Ports]
      /\ before \in [Ports -> SUBSET Ports]
      /\ thrown \in BOOLEAN /\ call \in Calls \cup {NoCall}
      /\ stack \in Seq(FrameSet) /\ Named(stack)
  BY DEF TypeOK
<1>r. ASSUME stack # <<>>, NEW at, NEW todo, Replaces(at, todo)
      PROVE  stack' \in Seq(FrameSet) /\ Named(stack')
  <2>1. DOMAIN stack = 1..Len(stack) /\ DOMAIN stack' = 1..Len(stack) /\ Len(stack) \in Nat /\ 1 \in DOMAIN stack
    BY <1>r, <1>t, SeqDomain, TopLemma DEF Replaces
  <2> QED
    BY <1>r, <1>t, <2>1 DEF Replaces, WasTop
<1>o. ASSUME stack # <<>>, Pops
      PROVE  stack' \in Seq(FrameSet) /\ Named(stack')
  <2>1. DOMAIN stack = 1..Len(stack) /\ DOMAIN stack' = 1..Len(stack') /\ Len(stack) \in Nat /\ Len(stack') \in Nat
    BY <1>o, <1>t, SeqDomain DEF Pops
  <2>2. ASSUME NEW i \in 1..Len(stack')
        PROVE  stack'[i].other = None <=> stack'[i].fn = "disconnectAll"
    <3>1. i + 1 \in DOMAIN stack /\ stack'[i] = stack[i + 1]
      BY <1>o, <2>1 DEF Pops
    <3> QED
      BY <1>t, <3>1
  <2> QED
    BY <1>o, <2>1, <2>2 DEF Pops
<1>p. ASSUME stack # <<>>, NEW at, NEW todo, NEW fn, NEW p, NEW x, Pushes(at, todo, fn, p, x),
             x = None <=> fn = "disconnectAll"
      PROVE  stack' \in Seq(FrameSet) /\ Named(stack')
  <2>1. DOMAIN stack = 1..Len(stack) /\ DOMAIN stack' = 1..Len(stack) + 1 /\ Len(stack) \in Nat /\ 1 \in DOMAIN stack
    BY <1>p, <1>t, SeqDomain, TopLemma DEF Pushes
  <2>2. stack'[1].other = x /\ stack'[1].fn = fn
    BY <1>p DEF Pushes, Frame
  <2>3. \A i \in 3..Len(stack) + 1 : stack'[i].other = None <=> stack'[i].fn = "disconnectAll"
    BY <1>p, <1>t, <2>1 DEF Pushes
  <2>4. stack'[2].other = None <=> stack'[2].fn = "disconnectAll"
    BY <1>p, <1>t, <2>1 DEF Pushes, WasTop
  <2> QED
    BY <1>p, <1>t, <2>1, <2>2, <2>3, <2>4 DEF Pushes
<1>q. refused' \subseteq Ports \X Ports
  BY RefusedTyped
<1>n. None \notin Ports
  BY PortConnectionsAssumption
<1> HIDE DEF Named
<1>1. CASE ConnectAgain
  BY <1>1, <1>q, <1>t, <1>r, ConnectAgainDoes DEF IsAt, TypeOK, Named
<1>2. CASE Refuse
  BY <1>2, <1>q, <1>t, <1>o, RefuseDoes DEF IsAt, TypeOK, Named
<1>3. CASE LeaveFirst
  BY <1>3, <1>q, <1>t, <1>p, LeaveFirstDoes DEF IsAt, TypeOK, Named
<1>4. CASE Record
  <2>1. /\ stack # <<>> /\ stack[1].self \in Ports /\ stack[1].other \in Ports
        /\ links' = [links EXCEPT ![stack[1].self] = @ \cup {stack[1].other}]
        /\ Pushes("called", {}, "connect", stack[1].other, stack[1].self)
        /\ UNCHANGED <<keyed, thrown, call, before>>
    BY <1>4, RecordDoes DEF IsAt
  <2>2. stack' \in Seq(FrameSet) /\ Named(stack')
    BY <1>n, <1>p, <2>1
  <2>3. links' \in [Ports -> SUBSET Ports]
    BY <1>t, <2>1
  <2> QED
    BY <1>q, <1>t, <2>1, <2>2, <2>3 DEF TypeOK, Named
<1>5. CASE Connected
  <2>1. /\ stack # <<>> /\ stack[1].self \in Ports /\ stack[1].other \in Ports
        /\ keyed' = [keyed EXCEPT ![stack[1].self] =
                IF Keys(stack[1].self) THEN @ \cup {stack[1].other} ELSE @]
        /\ Pops
        /\ UNCHANGED <<links, thrown, call, before>>
    BY <1>5, ConnectedDoes DEF IsAt
  <2>2. keyed' \in [Ports -> SUBSET Ports]
    BY <1>t, <2>1
  <2> QED
    BY <1>q, <1>t, <1>o, <2>1, <2>2 DEF TypeOK, Named
<1>6. CASE Unwind
  BY <1>6, <1>q, <1>t, <1>o, UnwindDoes DEF IsAt, TypeOK, Named
<1>7. CASE DisconnectAgain
  BY <1>7, <1>q, <1>t, <1>r, DisconnectAgainDoes DEF IsAt, TypeOK, Named
<1>8. CASE Erase
  BY <1>8, <1>q, <1>t, <1>p, <1>n, EraseDoes DEF IsAt, TypeOK, Named
<1>9. CASE LeaveTheOne
  BY <1>9, <1>q, <1>t, <1>p, LeaveTheOneDoes DEF IsAt, TypeOK, Named
<1>10. CASE Disconnected
  BY <1>10, <1>q, <1>t, <1>o, DisconnectedDoes DEF IsAt, TypeOK, Named
<1>11. CASE TakeAll
  BY <1>11, <1>q, <1>t, <1>r, TakeAllDoes DEF IsAt, TypeOK, Named
<1>12. CASE Leave
  <2>1. stack' \in Seq(FrameSet) /\ Named(stack')
    <3>1. PICK x \in stack[1].todo :
              /\ IsAt("disconnectAll", "loop") /\ x \in Ports
              /\ IF Managed(stack[1].self)
                 THEN Pushes("loop", stack[1].todo \ {x}, "disconnect", x, stack[1].self)
                 ELSE Pushes("loop", stack[1].todo \ {x}, "disconnectAll", x, None)
      BY <1>12, LeaveDoes
    <3>2. stack # <<>> /\ stack[1].self # None
      BY <3>1, <1>n DEF IsAt
    <3>3. CASE Managed(stack[1].self)
      BY <3>1, <3>2, <3>3, <1>p
    <3>4. CASE ~Managed(stack[1].self)
      BY <3>1, <3>2, <3>4, <1>p
    <3> QED
      BY <3>3, <3>4
  <2> QED
    BY <1>12, <1>q, <1>t, <2>1 DEF Leave, TypeOK, Named
<1>13. CASE Left
  BY <1>13, <1>q, <1>t, <1>o, LeftDoes DEF IsAt, TypeOK, Named
<1>14. ASSUME NEW c \in Calls, Call(c) PROVE TypeOK'
  <2>1. DOMAIN stack' = {1} /\ stack'[1].other = c.other /\ stack'[1].fn = c.fn
    <3>1. stack' \in Seq(FrameSet) /\ Len(stack') = 1 /\ stack'[1] = Frame(c.fn, c.self, c.other)
      BY <1>14, CallDoes
    <3>2. DOMAIN stack' = 1..1
      BY <3>1, SeqDomain
    <3> QED
      BY <3>1, <3>2 DEF Frame
  <2> QED
    BY <1>14, <1>q, <1>t, <2>1, CallDoes DEF TypeOK, Named
<1>15. ASSUME NEW c \in Calls, Request(c) PROVE TypeOK'
  <2>1. thrown' \in BOOLEAN
    <3>1. thrown' = (Answerers(c.self) = {} /\ Kind[c.self] # "multiRequester")
      BY <1>15, RequestDoes, Zenon
    <3> QED
      BY <3>1
  <2> QED
    BY <1>15, <1>q, <1>t, <2>1, RequestDoes DEF TypeOK, Named
<1>16. ASSUME NEW p \in Ports, Send(p) PROVE TypeOK'
  BY <1>16, <1>t DEF Send, TypeOK, Named
<1>17. CASE UNCHANGED vars
  BY <1>17, <1>t DEF vars, TypeOK, Named
<1> QED
  BY <1>1, <1>2, <1>3, <1>4, <1>5, <1>6, <1>7, <1>8, <1>9, <1>10, <1>11, <1>12, <1>13, <1>14,
     <1>15, <1>16, <1>17 DEF Next, Step

-----------------------------------------------------------------------------
\* The connections a port has.

\* What takes connections away breaks nothing; Record adds one that fits, and to a
\* port that may have one only when it has none.
LEMMA NextLinks == TypeOK /\ LinksFit /\ AtMostOne /\ [Next]_vars => LinksFit' /\ AtMostOne'
<1> SUFFICES ASSUME TypeOK, LinksFit, AtMostOne, [Next]_vars PROVE LinksFit' /\ AtMostOne'
  OBVIOUS
<1>t. links \in [Ports -> SUBSET Ports]
  BY DEF TypeOK
<1>s. ASSUME \A p \in Ports : links'[p] \subseteq links[p] PROVE LinksFit' /\ AtMostOne'
  BY <1>s DEF LinksFit, AtMostOne
<1>1. CASE Record
  <2> DEFINE s == stack[1].self
             o == stack[1].other
  <2>1. /\ s \in Ports /\ o \in Ports /\ Casts(s, o)
        /\ Exclusive(s) \/ Kind[s] = "client" => links[s] = {}
        /\ links' = [links EXCEPT ![s] = @ \cup {o}]
    BY <1>1, RecordDoes DEF IsAt
  <2> HIDE DEF s, o
  <2> QED
    BY <1>t, <2>1 DEF LinksFit, AtMostOne
<1>2. CASE Erase
  BY <1>2, <1>s, <1>t, EraseDoes DEF IsAt
<1>3. CASE Unwind
  BY <1>3, <1>s, <1>t, UnwindDoes DEF IsAt
<1>4. CASE TakeAll
  BY <1>4, <1>s, <1>t, TakeAllDoes DEF IsAt
<1>5. CASE UNCHANGED links
  BY <1>5, <1>s
<1> QED
  BY <1>1, <1>2, <1>3, <1>4, <1>5 DEF Next, Step, vars, ConnectAgain, Refuse, LeaveFirst, Connected,
     DisconnectAgain, LeaveTheOne, Disconnected, Leave, Left, Call, Request, Send

-----------------------------------------------------------------------------
\* The order of the calls on the stack.

\* A step of the running call, its return, and a call it makes leave the calls
\* below it as they are.
LEMMA OrderKept ==
    ASSUME TypeOK, TypeOK', ConnectsComeFirst, stack # <<>>
    PROVE  /\ \A at, todo : Replaces(at, todo) => ConnectsComeFirst'
           /\ Pops => ConnectsComeFirst'
           /\ \A at, todo, fn, p, x :
                Pushes(at, todo, fn, p, x)
                    /\ (\A j \in 2..Len(stack') : FitsAbove(stack'[1], stack'[j]))
                    /\ IsCalledBy(stack'[1], stack'[2])
                => ConnectsComeFirst'
<1>d. /\ DOMAIN stack = 1..Len(stack) /\ Len(stack) \in Nat /\ Len(stack) >= 1
      /\ DOMAIN stack' = 1..Len(stack') /\ Len(stack') \in Nat
  BY TopTyped, SeqDomain DEF TypeOK
<1>f. /\ \A i, j \in 1..Len(stack) : i < j => FitsAbove(stack[i], stack[j])
      /\ \A i \in 1..Len(stack) - 1 : IsCalledBy(stack[i], stack[i + 1])
  BY <1>d DEF ConnectsComeFirst
<1>g. ASSUME \A i, j \in 1..Len(stack') : i < j => FitsAbove(stack'[i], stack'[j]),
             \A i \in 1..Len(stack') - 1 : IsCalledBy(stack'[i], stack'[i + 1])
      PROVE  ConnectsComeFirst'
  BY <1>d, <1>g DEF ConnectsComeFirst
<1>1. ASSUME NEW at, NEW todo, Replaces(at, todo) PROVE ConnectsComeFirst'
  <2>1. \A g : FitsAbove(stack[1], g) <=> FitsAbove(stack'[1], g)
    BY <1>1 DEF FitsAbove, Replaces, WasTop
  <2>2. \A g : IsCalledBy(stack[1], g) <=> IsCalledBy(stack'[1], g)
    BY <1>1 DEF IsCalledBy, Replaces, WasTop
  <2>3. ASSUME NEW i \in 1..Len(stack'), NEW j \in 1..Len(stack'), i < j
        PROVE  FitsAbove(stack'[i], stack'[j])
    BY <1>1, <1>d, <1>f, <2>1, <2>3 DEF Replaces
  <2>4. ASSUME NEW i \in 1..Len(stack') - 1 PROVE IsCalledBy(stack'[i], stack'[i + 1])
    BY <1>1, <1>d, <1>f, <2>2 DEF Replaces
  <2> QED
    BY <1>g, <2>3, <2>4
<1>2. ASSUME Pops PROVE ConnectsComeFirst'
  <2>1. ASSUME NEW i \in 1..Len(stack'), NEW j \in 1..Len(stack'), i < j
        PROVE  FitsAbove(stack'[i], stack'[j])
    BY <1>2, <1>d, <1>f, <2>1 DEF Pops
  <2>2. ASSUME NEW i \in 1..Len(stack') - 1 PROVE IsCalledBy(stack'[i], stack'[i + 1])
    BY <1>2, <1>d, <1>f DEF Pops
  <2> QED
    BY <1>g, <2>1, <2>2
<1>3. ASSUME NEW at, NEW todo, NEW fn, NEW p, NEW x, Pushes(at, todo, fn, p, x),
             \A j \in 2..Len(stack') : FitsAbove(stack'[1], stack'[j]),
             IsCalledBy(stack'[1], stack'[2])
      PROVE  ConnectsComeFirst'
  <2>1. \A g : FitsAbove(stack[1], g) <=> FitsAbove(stack'[2], g)
    BY <1>3 DEF FitsAbove, Pushes, WasTop
  <2>2. \A g : IsCalledBy(stack[1], g) <=> IsCalledBy(stack'[2], g)
    BY <1>3 DEF IsCalledBy, Pushes, WasTop
  <2>3. Len(stack') = Len(stack) + 1 /\ \A i \in 3..Len(stack) + 1 : stack'[i] = stack[i - 1]
    BY <1>3 DEF Pushes
  <2>4. ASSUME NEW i \in 1..Len(stack'), NEW j \in 1..Len(stack'), i < j
        PROVE  FitsAbove(stack'[i], stack'[j])
    <3>1. CASE i = 1
      BY <1>3, <1>d, <2>4, <3>1
    <3>2. CASE i = 2
      BY <1>d, <1>f, <2>1, <2>3, <2>4, <3>2
    <3>3. CASE i > 2
      BY <1>d, <1>f, <2>3, <2>4, <3>3
    <3> QED
      BY <1>d, <3>1, <3>2, <3>3
  <2>5. ASSUME NEW i \in 1..Len(stack') - 1 PROVE IsCalledBy(stack'[i], stack'[i + 1])
    <3>1. CASE i = 1
      BY <1>3, <3>1
    <3>2. CASE i = 2
      BY <1>d, <1>f, <2>2, <2>3, <3>2
    <3>3. CASE i > 2
      BY <1>d, <1>f, <2>3, <3>3
    <3> QED
      BY <1>d, <3>1, <3>2, <3>3
  <2> QED
    BY <1>g, <2>4, <2>5
<1> QED
  BY <1>1, <1>2, <1>3

\* disconnect() calls disconnect() only, and is above a connect() only when that is
\* already so.
LEMMA OrderOfDisconnects ==
    ASSUME TypeOK, TypeOK', ConnectsComeFirst, stack # <<>>, stack[1].fn # "connect",
           NEW at, NEW todo, NEW fn, NEW p, NEW x, fn # "connect", Pushes(at, todo, fn, p, x)
    PROVE  ConnectsComeFirst'
<1>d. /\ DOMAIN stack = 1..Len(stack) /\ Len(stack) \in Nat /\ Len(stack) >= 1
      /\ DOMAIN stack' = 1..Len(stack') /\ Len(stack') = Len(stack) + 1
  BY TopTyped, SeqDomain DEF TypeOK, Pushes
<1>1. stack'[1].fn # "connect" /\ stack'[2].fn # "connect"
  BY DEF Pushes, WasTop, Frame
<1>2. ASSUME NEW j \in 3..Len(stack') PROVE FitsAbove(stack'[1], stack'[j])
  <2>1. stack'[j] = stack[j - 1] /\ j - 1 \in DOMAIN stack /\ 1 < j - 1
    BY <1>d DEF Pushes
  <2>2. FitsAbove(stack[1], stack[j - 1])
    BY <1>d, <2>1 DEF ConnectsComeFirst
  <2> QED
    BY <1>1, <2>1, <2>2 DEF FitsAbove
<1>3. FitsAbove(stack'[1], stack'[2]) /\ IsCalledBy(stack'[1], stack'[2])
  BY <1>1 DEF FitsAbove, IsCalledBy
<1>4. \A j \in 2..Len(stack') : FitsAbove(stack'[1], stack'[j])
  BY <1>d, <1>2, <1>3
<1> QED
  BY <1>3, <1>4, OrderKept

\* The calls of connect() stay the first on the stack, between the same two ports.
LEMMA NextOrder == TypeOK /\ TypeOK' /\ ConnectsComeFirst /\ [Next]_vars => ConnectsComeFirst'
<1> SUFFICES ASSUME TypeOK, TypeOK', ConnectsComeFirst, [Next]_vars PROVE ConnectsComeFirst'
  OBVIOUS
<1>d. stack # <<>> => DOMAIN stack = 1..Len(stack) /\ Len(stack) \in Nat /\ Len(stack) >= 1
  BY TopTyped, SeqDomain
\* Below a call of connect() there are calls of connect() between the same ports.
<1>c. ASSUME stack # <<>>, stack[1].fn = "connect", NEW j \in 2..Len(stack)
      PROVE  /\ stack[j].fn = "connect" /\ stack[j].at = "called"
             /\ \/ stack[j].self = stack[1].self /\ stack[j].other = stack[1].other
                \/ stack[j].self = stack[1].other /\ stack[j].other = stack[1].self
  <2>1. 1 \in DOMAIN stack /\ j \in DOMAIN stack /\ 1 < j
    BY <1>c, <1>d
  <2> QED
    BY <1>c, <2>1 DEF ConnectsComeFirst, FitsAbove
<1>1. CASE ConnectAgain
  BY <1>1, OrderKept, ConnectAgainDoes DEF IsAt
<1>2. CASE Refuse
  BY <1>2, OrderKept, RefuseDoes DEF IsAt
<1>3. CASE LeaveFirst
  <2>1. /\ stack # <<>> /\ stack[1].fn = "connect" /\ stack[1].self \in Ports /\ stack[1].other \in Ports
        /\ Mated(stack[1].self, stack[1].other)
        /\ Pushes("enter", {}, "disconnectAll", stack[1].self, None)
    BY <1>3, LeaveFirstDoes DEF IsAt
  <2>2. stack'[1].fn = "disconnectAll" /\ Len(stack') = Len(stack) + 1
    BY <2>1 DEF Pushes, Frame
  <2>3. ASSUME NEW j \in 2..Len(stack') PROVE FitsAbove(stack'[1], stack'[j])
    <3>1. CASE j = 2
      BY <2>1, <2>2, <3>1 DEF Pushes, WasTop, FitsAbove
    <3>2. CASE j > 2
      <4>1. stack'[j] = stack[j - 1] /\ j - 1 \in 2..Len(stack)
        BY <1>d, <2>1, <2>2, <3>2 DEF Pushes
      <4>2. Mated(stack[j - 1].self, stack[j - 1].other)
        BY <1>c, <2>1, <4>1, MatedFacts
      <4> QED
        BY <2>2, <4>1, <4>2 DEF FitsAbove
    <3> QED
      BY <3>1, <3>2
  <2>4. IsCalledBy(stack'[1], stack'[2])
    BY <2>2 DEF IsCalledBy
  <2> QED
    BY <2>1, <2>3, <2>4, OrderKept
<1>4. CASE Record
  <2>1. /\ stack # <<>> /\ stack[1].fn = "connect"
        /\ Pushes("called", {}, "connect", stack[1].other, stack[1].self)
    BY <1>4, RecordDoes DEF IsAt
  <2>2. /\ stack'[1].fn = "connect" /\ stack'[1].self = stack[1].other
        /\ stack'[1].other = stack[1].self /\ Len(stack') = Len(stack) + 1
    BY <2>1 DEF Pushes, Frame
  <2>3. ASSUME NEW j \in 2..Len(stack') PROVE FitsAbove(stack'[1], stack'[j])
    <3>1. CASE j = 2
      BY <2>1, <2>2, <3>1 DEF Pushes, WasTop, FitsAbove
    <3>2. CASE j > 2
      <4>1. stack'[j] = stack[j - 1] /\ j - 1 \in 2..Len(stack)
        BY <1>d, <2>1, <2>2, <3>2 DEF Pushes
      <4> QED
        BY <1>c, <2>1, <2>2, <4>1 DEF FitsAbove
    <3> QED
      BY <3>1, <3>2
  <2>4. IsCalledBy(stack'[1], stack'[2])
    BY <2>1, <2>2 DEF IsCalledBy, Pushes, WasTop
  <2> QED
    BY <2>1, <2>3, <2>4, OrderKept
<1>5. CASE Connected
  BY <1>5, OrderKept, ConnectedDoes DEF IsAt
<1>6. CASE Unwind
  BY <1>6, OrderKept, UnwindDoes DEF IsAt
<1>7. CASE DisconnectAgain
  BY <1>7, OrderKept, DisconnectAgainDoes DEF IsAt
<1>8. CASE Erase
  BY <1>8, OrderOfDisconnects, EraseDoes DEF IsAt
<1>9. CASE LeaveTheOne
  BY <1>9, OrderOfDisconnects, LeaveTheOneDoes DEF IsAt
<1>10. CASE Disconnected
  BY <1>10, OrderKept, DisconnectedDoes DEF IsAt
<1>11. CASE TakeAll
  BY <1>11, OrderKept, TakeAllDoes DEF IsAt
<1>12. CASE Leave
  <2>1. PICK x \in stack[1].todo :
            /\ IsAt("disconnectAll", "loop")
            /\ IF Managed(stack[1].self)
               THEN Pushes("loop", stack[1].todo \ {x}, "disconnect", x, stack[1].self)
               ELSE Pushes("loop", stack[1].todo \ {x}, "disconnectAll", x, None)
    BY <1>12, LeaveDoes
  <2>2. stack # <<>> /\ stack[1].fn # "connect"
    BY <2>1 DEF IsAt
  <2> QED
    BY <2>1, <2>2, OrderOfDisconnects
<1>13. CASE Left
  BY <1>13, OrderKept, LeftDoes DEF IsAt
<1>14. ASSUME NEW c \in Calls, Call(c) PROVE ConnectsComeFirst'
  <2>1. DOMAIN stack' = 1..1
    BY <1>14, CallDoes, SeqDomain
  <2> QED
    BY <2>1 DEF ConnectsComeFirst
<1>15. CASE UNCHANGED stack
  BY <1>15 DEF ConnectsComeFirst
<1> QED
  BY <1>1, <1>2, <1>3, <1>4, <1>5, <1>6, <1>7, <1>8, <1>9, <1>10, <1>11, <1>12, <1>13, <1>14,
     <1>15 DEF Next, Step, vars, Request, Send

-----------------------------------------------------------------------------
\* What a call has told its peer, its own port has recorded.

\* The calls below the running one find the records they have made.
LEMMA RecordKept ==
    ASSUME TypeOK, TypeOK', stack # <<>>,
           \A i \in 2..Len(stack) : IsRecorded(links', stack[i])
    PROVE  /\ \A at, todo : Replaces(at, todo) /\ IsRecorded(links', stack'[1]) => ToldIsRecorded'
           /\ Pops => ToldIsRecorded'
           /\ \A at, todo, fn, p, x :
                Pushes(at, todo, fn, p, x) /\ IsRecorded(links', stack'[2]) => ToldIsRecorded'
<1>d. /\ DOMAIN stack = 1..Len(stack) /\ Len(stack) \in Nat /\ Len(stack) >= 1
      /\ DOMAIN stack' = 1..Len(stack') /\ Len(stack') \in Nat
  BY TopTyped, SeqDomain DEF TypeOK
<1>g. ASSUME \A i \in 1..Len(stack') : IsRecorded(links', stack'[i]) PROVE ToldIsRecorded'
  BY <1>d, <1>g DEF ToldIsRecorded
<1>1. ASSUME NEW at, NEW todo, Replaces(at, todo), IsRecorded(links', stack'[1])
      PROVE  ToldIsRecorded'
  <2>1. \A i \in 1..Len(stack') : IsRecorded(links', stack'[i])
    BY <1>1, <1>d DEF Replaces
  <2> QED
    BY <1>g, <2>1
<1>2. ASSUME Pops PROVE ToldIsRecorded'
  <2>1. \A i \in 1..Len(stack') : IsRecorded(links', stack'[i])
    BY <1>2, <1>d DEF Pops
  <2> QED
    BY <1>g, <2>1
<1>3. ASSUME NEW at, NEW todo, NEW fn, NEW p, NEW x, Pushes(at, todo, fn, p, x),
             IsRecorded(links', stack'[2])
      PROVE  ToldIsRecorded'
  <2>1. IsRecorded(links', stack'[1])
    BY <1>3 DEF Pushes, Frame, IsRecorded
  <2>2. \A i \in 1..Len(stack') : IsRecorded(links', stack'[i])
    BY <1>3, <1>d, <2>1 DEF Pushes
  <2> QED
    BY <1>g, <2>2
<1> QED
  BY <1>1, <1>2, <1>3

\* A port that has told its peer has recorded the connection, or forgotten it.
LEMMA NextTold ==
    PortConnectionsInv /\ TypeOK' /\ [Next]_vars => ToldIsRecorded'
<1> SUFFICES ASSUME PortConnectionsInv, TypeOK', [Next]_vars PROVE ToldIsRecorded'
  OBVIOUS
<1>i. TypeOK /\ LinksFit /\ ConnectsComeFirst /\ ToldIsRecorded /\ Progress
  BY DEF PortConnectionsInv
<1>d. stack # <<>> => DOMAIN stack = 1..Len(stack) /\ Len(stack) \in Nat /\ Len(stack) >= 1
  BY <1>i, TopTyped, SeqDomain
<1>t. links \in [Ports -> SUBSET Ports]
  BY <1>i DEF TypeOK
<1>f. ASSUME NEW i \in DOMAIN stack
      PROVE  stack[i].self \in Ports /\ (stack[i].fn # "disconnectAll" => stack[i].other \in Ports)
  BY <1>i, FramesTyped
<1>u. ASSUME stack # <<>>, UNCHANGED links
      PROVE  \A i \in 2..Len(stack) : IsRecorded(links', stack[i])
  BY <1>i, <1>d, <1>u DEF ToldIsRecorded
\* What is not a connect() takes nothing that a connect() below it needs.
<1>s. ASSUME stack # <<>>, stack[1].fn # "connect", \A p \in Ports : links'[p] \subseteq links[p]
      PROVE  \A i \in 2..Len(stack) : IsRecorded(links', stack[i])
  <2> SUFFICES ASSUME NEW i \in 2..Len(stack) PROVE IsRecorded(links', stack[i])
    OBVIOUS
  <2>1. 1 \in DOMAIN stack /\ i \in DOMAIN stack /\ 1 < i
    BY <1>d, <1>s
  <2>2. IsRecorded(links, stack[i]) /\ FitsAbove(stack[1], stack[i])
    BY <1>i, <2>1 DEF ToldIsRecorded, ConnectsComeFirst
  <2> QED
    BY <1>f, <1>s, <2>1, <2>2 DEF IsRecorded, FitsAbove
<1>1. CASE ConnectAgain
  <2>1. /\ IsAt("connect", "enter") /\ stack[1].other \in links[stack[1].self]
        /\ Replaces("called", stack[1].todo) /\ UNCHANGED links
    BY <1>1, <1>i, ConnectAgainDoes
  <2>2. IsRecorded(links', stack'[1])
    BY <1>i, <2>1 DEF IsAt, Replaces, WasTop, IsRecorded, LinksFit
  <2> QED
    BY <1>i, <1>u, <2>1, <2>2, RecordKept DEF IsAt
<1>2. CASE Refuse
  BY <1>2, <1>i, <1>u, RefuseDoes, RecordKept DEF IsAt
<1>3. CASE LeaveFirst
  <2>1. /\ IsAt("connect", "enter")
        /\ Pushes("enter", {}, "disconnectAll", stack[1].self, None) /\ UNCHANGED links
    BY <1>3, <1>i, LeaveFirstDoes
  <2>2. IsRecorded(links', stack'[2])
    BY <2>1 DEF IsAt, Pushes, WasTop, IsRecorded
  <2> QED
    BY <1>i, <1>u, <2>1, <2>2, RecordKept DEF IsAt
<1>4. CASE Record
  <2>1. /\ IsAt("connect", "enter") /\ Casts(stack[1].self, stack[1].other)
        /\ links' = [links EXCEPT ![stack[1].self] = @ \cup {stack[1].other}]
        /\ Pushes("called", {}, "connect", stack[1].other, stack[1].self)
    BY <1>4, <1>i, RecordDoes
  <2>2. IsRecorded(links', stack'[2])
    BY <1>t, <2>1 DEF IsAt, Pushes, WasTop, IsRecorded
  <2>3. ASSUME NEW i \in 2..Len(stack) PROVE IsRecorded(links', stack[i])
    <3>1. 1 \in DOMAIN stack /\ i \in DOMAIN stack /\ 1 < i
      BY <1>d, <2>1 DEF IsAt
    <3>2. IsRecorded(links, stack[i]) /\ stack[i].fn = "connect"
      BY <1>i, <2>1, <3>1 DEF ToldIsRecorded, ConnectsComeFirst, FitsAbove, IsAt
    <3> QED
      BY <1>f, <1>t, <2>1, <3>1, <3>2 DEF IsRecorded, IsAt
  <2> QED
    BY <1>i, <2>1, <2>2, <2>3, RecordKept DEF IsAt
<1>5. CASE Connected
  BY <1>5, <1>i, <1>u, ConnectedDoes, RecordKept DEF IsAt
<1>6. CASE Unwind
  <2>1. IsAt("connect", "called") /\ thrown /\ Pops
    BY <1>6, <1>i, UnwindDoes
  <2>2. Len(stack') = 0 /\ stack' \in Seq(FrameSet)
    BY <1>i, <2>1 DEF IsAt, Progress, Pops
  <2> QED
    BY <2>2, SeqDomain DEF ToldIsRecorded
<1>7. CASE DisconnectAgain
  <2>1. /\ IsAt("disconnect", "enter") /\ stack[1].other \notin links[stack[1].self]
        /\ Replaces("called", stack[1].todo) /\ UNCHANGED links
    BY <1>7, <1>i, DisconnectAgainDoes
  <2>2. IsRecorded(links', stack'[1])
    BY <2>1 DEF IsAt, Replaces, WasTop, IsRecorded
  <2> QED
    BY <1>i, <1>u, <2>1, <2>2, RecordKept DEF IsAt
<1>8. CASE Erase
  <2>1. /\ IsAt("disconnect", "enter")
        /\ links' = [links EXCEPT ![stack[1].self] =
                IF Exclusive(stack[1].self) THEN {} ELSE @ \ {stack[1].other}]
        /\ Pushes("called", {}, "disconnect", stack[1].other, stack[1].self)
    BY <1>8, <1>i, EraseDoes
  <2>2. IsRecorded(links', stack'[2])
    BY <1>t, <2>1 DEF IsAt, Pushes, WasTop, IsRecorded
  <2>3. \A p \in Ports : links'[p] \subseteq links[p]
    BY <1>t, <2>1
  <2> QED
    BY <1>i, <1>s, <2>1, <2>2, <2>3, RecordKept DEF IsAt
<1>9. CASE LeaveTheOne
  <2>1. /\ IsAt("disconnect", "enter") /\ HoldsOne(stack[1].self)
        /\ Pushes("called", {}, "disconnectAll", stack[1].self, None) /\ UNCHANGED links
    BY <1>9, <1>i, LeaveTheOneDoes
  <2>2. IsRecorded(links', stack'[2])
    BY <2>1 DEF IsAt, Pushes, WasTop, IsRecorded
  <2> QED
    BY <1>i, <1>u, <2>1, <2>2, RecordKept DEF IsAt
<1>10. CASE Disconnected
  BY <1>10, <1>i, <1>u, DisconnectedDoes, RecordKept DEF IsAt
<1>11. CASE TakeAll
  <2>1. /\ IsAt("disconnectAll", "enter")
        /\ links' = [links EXCEPT ![stack[1].self] = {}]
        /\ Replaces("loop", links[stack[1].self])
    BY <1>11, <1>i, TakeAllDoes
  <2>2. IsRecorded(links', stack'[1])
    BY <1>t, <2>1 DEF IsAt, Replaces, WasTop, IsRecorded
  <2>3. \A p \in Ports : links'[p] \subseteq links[p]
    BY <1>t, <2>1
  <2> QED
    BY <1>i, <1>s, <2>1, <2>2, <2>3, RecordKept DEF IsAt
<1>12. CASE Leave
  <2>1. PICK x \in stack[1].todo :
            /\ IsAt("disconnectAll", "loop") /\ UNCHANGED links
            /\ IF Managed(stack[1].self)
               THEN Pushes("loop", stack[1].todo \ {x}, "disconnect", x, stack[1].self)
               ELSE Pushes("loop", stack[1].todo \ {x}, "disconnectAll", x, None)
    BY <1>12, <1>i, LeaveDoes
  <2>2. IsRecorded(links, stack[1]) /\ stack # <<>>
    BY <1>d, <1>i, <2>1 DEF ToldIsRecorded, IsAt
  <2>3. IsRecorded(links', stack'[2])
    BY <2>1, <2>2 DEF IsAt, Pushes, WasTop, IsRecorded
  <2> QED
    BY <1>i, <1>u, <2>1, <2>2, <2>3, RecordKept
<1>13. CASE Left
  BY <1>13, <1>i, <1>u, LeftDoes, RecordKept DEF IsAt
<1>14. ASSUME NEW c \in Calls, Call(c) PROVE ToldIsRecorded'
  <2>1. stack' \in Seq(FrameSet) /\ Len(stack') = 1 /\ stack'[1] = Frame(c.fn, c.self, c.other)
    BY <1>14, <1>i, CallDoes
  <2>2. DOMAIN stack' = 1..1
    BY <2>1, SeqDomain
  <2> QED
    BY <2>1, <2>2 DEF ToldIsRecorded, IsRecorded, Frame
<1>15. CASE UNCHANGED <<links, stack>>
  BY <1>15, <1>i DEF ToldIsRecorded
<1> QED
  BY <1>1, <1>2, <1>3, <1>4, <1>5, <1>6, <1>7, <1>8, <1>9, <1>10, <1>11, <1>12, <1>13, <1>14,
     <1>15 DEF Next, Step, vars, Request, Send

-----------------------------------------------------------------------------
\* The exception.

\* An exception starts at the peer that refuses the call from outside.
LEMMA RefuseProgress ==
    ASSUME TypeOK, ConnectsComeFirst, ToldIsRecorded, CallIsOutermost, Progress, Refuse,
           stack' # <<>>
    PROVE  /\ Len(stack) = 2 /\ stack'[1] = stack[2]
           /\ stack[2].fn = "connect" /\ stack[2].at = "called"
           /\ stack[2].self \notin links[stack[2].other]
           /\ Refuses(stack[2].other, stack[2].self)
           /\ ~Managed(stack[2].self) =>
                Kind[stack[2].self] = "producer" /\ Kind[stack[2].other] = "single"
           /\ OnlyRecorded(stack[2])
<1> DEFINE s == stack[1].self
           o == stack[1].other
<1>1. /\ IsAt("connect", "enter") /\ o \notin links[s] /\ Refuses(s, o) /\ Pops
      /\ UNCHANGED links
  BY RefuseDoes
<1>2. s \in Ports /\ o \in Ports /\ Len(stack) \in Nat /\ Len(stack) >= 2
  BY <1>1, EmptySeq DEF IsAt, Pops
<1>3. ~Mated(s, o)
  BY <1>1, <1>2, MatedFacts DEF Refuses
<1>4. 1 \in DOMAIN stack /\ 2 \in DOMAIN stack
  BY <1>2, SeqDomain DEF TypeOK
<1>5. stack[2].fn = "connect" /\ stack[2].at = "called" /\ stack[2].self = o /\ stack[2].other = s
  <2>1. FitsAbove(stack[1], stack[2]) /\ IsCalledBy(stack[1], stack[2])
    BY <1>4 DEF ConnectsComeFirst
  <2> QED
    BY <1>1, <2>1 DEF IsAt, FitsAbove, IsCalledBy
<1>6. ASSUME Len(stack) >= 3 PROVE FALSE
  <2>1. 3 \in DOMAIN stack
    BY <1>2, <1>6, SeqDomain DEF TypeOK
  <2>2. FitsAbove(stack[2], stack[3]) /\ IsCalledBy(stack[2], stack[3])
    BY <1>4, <2>1 DEF ConnectsComeFirst
  <2>3. IsRecorded(links, stack[3])
    BY <2>1 DEF ToldIsRecorded
  <2>4. stack[3].fn = "connect" /\ stack[3].at = "called" /\ stack[3].self = s /\ stack[3].other = o
    BY <1>5, <2>2 DEF FitsAbove, IsCalledBy
  <2> QED
    BY <1>1, <1>3, <2>3, <2>4 DEF IsRecorded
<1>7. Len(stack) = 2
  <2>1. \A n \in Nat : n >= 2 /\ ~(n >= 3) => n = 2
    OBVIOUS
  <2> QED
    BY <1>2, <1>6, <2>1, Zenon
<1>8. OnlyRecorded(stack[2])
  BY <1>1, <1>3, <1>7 DEF IsAt, Progress
<1>9. ~Managed(o) => Kind[o] = "producer" /\ Kind[s] = "single"
  <2>1. Casts(o, s)
    BY <1>4, <1>5 DEF ToldIsRecorded, IsRecorded
  <2> QED
    BY <1>1, <1>2, <2>1, KindFacts DEF Refuses
<1> QED
  BY <1>1, <1>2, <1>5, <1>7, <1>8, <1>9 DEF Pops

-----------------------------------------------------------------------------
\* The two sides of a connection.

SettledBelow(p, x) == \E i \in 2..Len(stack) : SettledAt(i, p, x)

\* What a call below the running one settles stays settled.
LEMMA SettledKept ==
    ASSUME TypeOK, TypeOK', stack # <<>>, UNCHANGED thrown,
           NEW p \in Ports, NEW x \in Ports, SettledBelow(p, x)
    PROVE  /\ \A at, todo : Replaces(at, todo) => (\E i \in DOMAIN stack : SettledAt(i, p, x))'
           /\ Pops => (\E i \in DOMAIN stack : SettledAt(i, p, x))'
           /\ \A at, todo, fn, q, y :
                Pushes(at, todo, fn, q, y) => (\E i \in DOMAIN stack : SettledAt(i, p, x))'
<1>d. /\ DOMAIN stack = 1..Len(stack) /\ Len(stack) \in Nat /\ Len(stack) >= 1
      /\ DOMAIN stack' = 1..Len(stack') /\ Len(stack') \in Nat
  BY TopTyped, SeqDomain DEF TypeOK
<1>1. PICK i \in 2..Len(stack) :
          /\ Settles(thrown, stack[i], p, x)
          /\ stack[i].fn = "connect" /\ stack[i].at = "enter" => i < Len(stack)
  BY DEF SettledBelow, SettledAt
<1>2. ASSUME NEW j \in DOMAIN stack', stack'[j] = stack[i], i < Len(stack) => j < Len(stack')
      PROVE  (\E k \in DOMAIN stack : SettledAt(k, p, x))'
  BY <1>1, <1>2 DEF SettledAt
<1>3. ASSUME NEW at, NEW todo, Replaces(at, todo)
      PROVE  (\E k \in DOMAIN stack : SettledAt(k, p, x))'
  BY <1>1, <1>2, <1>3, <1>d DEF Replaces
<1>4. ASSUME Pops PROVE (\E k \in DOMAIN stack : SettledAt(k, p, x))'
  <2>1. i - 1 \in DOMAIN stack' /\ stack'[i - 1] = stack[i] /\ (i < Len(stack) => i - 1 < Len(stack'))
    BY <1>1, <1>4, <1>d DEF Pops
  <2> QED
    BY <1>2, <2>1
<1>5. ASSUME NEW at, NEW todo, NEW fn, NEW q, NEW y, Pushes(at, todo, fn, q, y)
      PROVE  (\E k \in DOMAIN stack : SettledAt(k, p, x))'
  <2>1. i + 1 \in DOMAIN stack' /\ stack'[i + 1] = stack[i] /\ (i < Len(stack) => i + 1 < Len(stack'))
    BY <1>1, <1>5, <1>d DEF Pushes
  <2> QED
    BY <1>2, <2>1
<1> QED
  BY <1>3, <1>4, <1>5

\* A connection that only one side has is settled by a call in progress.
LEMMA NextSettled ==
    PortConnectionsInv /\ TypeOK' /\ [Next]_vars => OneSidedIsSettled'
<1> SUFFICES ASSUME PortConnectionsInv, TypeOK', [Next]_vars PROVE OneSidedIsSettled'
  OBVIOUS
<1>i. /\ TypeOK /\ LinksFit /\ AtMostOne /\ ConnectsComeFirst /\ ToldIsRecorded
      /\ OneSidedIsSettled /\ CallIsOutermost /\ Progress
  BY DEF PortConnectionsInv
<1>d. stack # <<>> => DOMAIN stack = 1..Len(stack) /\ Len(stack) \in Nat /\ Len(stack) >= 1
  BY <1>i, TopTyped, SeqDomain
<1>e. DOMAIN stack' = 1..Len(stack') /\ Len(stack') \in Nat
  BY SeqDomain DEF TypeOK
<1>t. links \in [Ports -> SUBSET Ports]
  BY <1>i DEF TypeOK
<1> DEFINE Settled(p, x) == \E i \in DOMAIN stack : SettledAt(i, p, x)
<1>g. SUFFICES ASSUME NEW p \in Ports, NEW x \in Ports, OneSided(p, x)' PROVE Settled(p, x)'
  BY DEF OneSidedIsSettled
<1>b. ASSUME stack # <<>>, OneSided(p, x)
      PROVE  SettledBelow(p, x) \/ SettledAt(1, p, x)
  <2>1. PICK i \in 1..Len(stack) : SettledAt(i, p, x)
    BY <1>b, <1>d, <1>i DEF OneSidedIsSettled
  <2> QED
    BY <1>b, <1>d, <2>1 DEF SettledBelow
<1>k. ASSUME stack # <<>>, SettledBelow(p, x), UNCHANGED thrown,
             \/ \E at, todo : Replaces(at, todo)
             \/ Pops
             \/ \E at, todo, fn, q, y : Pushes(at, todo, fn, q, y)
      PROVE  Settled(p, x)'
  BY <1>i, <1>k, SettledKept
<1>w. ASSUME NEW i \in DOMAIN stack', SettledAt(i, p, x)' PROVE Settled(p, x)'
  BY <1>w
<1>s. x \in links[p] /\ p \notin links[x] => OneSided(p, x)
  BY <1>g, <1>i, RefusedStay DEF OneSided
<1>u. UNCHANGED links => OneSided(p, x)
  BY <1>g, <1>s DEF OneSided
<1> HIDE DEF Settled
<1>1. CASE ConnectAgain
  <2>1. /\ IsAt("connect", "enter") /\ ~thrown /\ stack[1].other \in links[stack[1].self]
        /\ Replaces("called", stack[1].todo) /\ UNCHANGED <<links, thrown>>
    BY <1>1, <1>i, ConnectAgainDoes
  <2>2. ~SettledAt(1, p, x)
    BY <1>u, <2>1 DEF IsAt, SettledAt, Settles, OneSided
  <2> QED
    BY <1>b, <1>k, <1>u, <2>1, <2>2 DEF IsAt
\* A port that is refused has a connect() that forgets the other, or that counts it
\* among the refused.
<1>2. CASE Refuse
  <2>1. /\ IsAt("connect", "enter") /\ ~thrown /\ Refuses(stack[1].self, stack[1].other)
        /\ Pops /\ thrown' /\ UNCHANGED links
    BY <1>2, <1>i, RefuseDoes
  <2>2. ~SettledBelow(p, x)
    <3> SUFFICES ASSUME NEW i \in 2..Len(stack), SettledAt(i, p, x) PROVE FALSE
      BY DEF SettledBelow
    <3>1. FitsAbove(stack[1], stack[i])
      BY <1>d, <1>i, <2>1 DEF IsAt, ConnectsComeFirst
    <3> QED
      BY <2>1, <3>1 DEF IsAt, FitsAbove, SettledAt, Settles
  <2>3. SettledAt(1, p, x)
    BY <1>b, <1>u, <2>1, <2>2 DEF IsAt
  <2>4. stack[1].self = x /\ stack[1].other = p /\ 1 < Len(stack)
    BY <2>1, <2>3 DEF IsAt, SettledAt, Settles
  <2>5. stack' # <<>>
    <3>1. Len(stack') > 0
      BY <1>d, <2>1, <2>4 DEF IsAt, Pops
    <3> QED
      BY <3>1
  <2>6. stack[2].fn = "connect" /\ stack[2].at = "called"
    BY <1>2, <1>i, <2>5, RefuseProgress
  <2>7. stack[2].self = p /\ stack[2].other = x
    <3>1. 1 \in DOMAIN stack /\ 2 \in DOMAIN stack
      BY <1>d, <2>1, <2>4 DEF IsAt
    <3>2. IsCalledBy(stack[1], stack[2])
      BY <1>i, <3>1 DEF ConnectsComeFirst
    <3> QED
      BY <2>1, <2>4, <3>2 DEF IsAt, IsCalledBy
  <2>8. 1 \in DOMAIN stack' /\ stack'[1] = stack[2]
    BY <1>d, <1>e, <2>1, <2>4 DEF IsAt, Pops
  <2>9. SettledAt(1, p, x)'
    BY <2>1, <2>6, <2>7, <2>8 DEF SettledAt, Settles
  <2> QED
    BY <1>w, <2>8, <2>9
<1>3. CASE LeaveFirst
  <2>1. /\ IsAt("connect", "enter") /\ UNCHANGED <<links, thrown>>
        /\ Pushes("enter", {}, "disconnectAll", stack[1].self, None)
    BY <1>3, <1>i, LeaveFirstDoes
  <2>2. CASE SettledAt(1, p, x)
    <3>1. 2 \in DOMAIN stack'
      BY <1>d, <1>e, <2>1 DEF IsAt, Pushes
    <3>2. SettledAt(2, p, x)'
      BY <1>d, <2>1, <2>2 DEF IsAt, Pushes, WasTop, SettledAt, Settles
    <3> QED
      BY <1>w, <3>1, <3>2
  <2> QED
    BY <1>b, <1>k, <1>u, <2>1, <2>2 DEF IsAt
<1>4. CASE Record
  <2> DEFINE s == stack[1].self
             o == stack[1].other
  <2>1. /\ IsAt("connect", "enter") /\ UNCHANGED thrown /\ ~thrown
        /\ links' = [links EXCEPT ![s] = @ \cup {o}]
        /\ Pushes("called", {}, "connect", o, s)
    BY <1>4, <1>i, RecordDoes
  <2>2. CASE p = s /\ x = o
    <3>1. 1 \in DOMAIN stack' /\ 1 < Len(stack')
      BY <1>d, <1>e, <2>1 DEF IsAt, Pushes
    <3>2. SettledAt(1, p, x)'
      BY <2>1, <2>2, <3>1 DEF Pushes, Frame, SettledAt, Settles
    <3> QED
      BY <1>w, <3>1, <3>2
  <2>3. CASE ~(p = s /\ x = o)
    <3>1. s \in Ports /\ o \in Ports /\ stack # <<>>
      BY <2>1 DEF IsAt
    <3>2. OneSided(p, x)
      BY <1>g, <1>s, <1>t, <2>1, <2>3, <3>1 DEF OneSided
    <3>3. ~SettledAt(1, p, x)
      <4>1. ~(x = s /\ p = o)
        BY <1>g, <1>t, <2>1, <3>1 DEF OneSided
      <4> QED
        BY <2>1, <4>1 DEF IsAt, SettledAt, Settles
    <3> QED
      BY <1>b, <1>k, <2>1, <3>1, <3>2, <3>3
  <2> QED
    BY <2>2, <2>3
<1>5. CASE Connected
  <2>1. IsAt("connect", "called") /\ ~thrown /\ Pops /\ UNCHANGED <<links, thrown>>
    BY <1>5, <1>i, ConnectedDoes
  <2>2. ~SettledAt(1, p, x)
    BY <2>1 DEF IsAt, SettledAt, Settles
  <2> QED
    BY <1>b, <1>k, <1>u, <2>1, <2>2 DEF IsAt
\* The exception leaves what was there before the call.
<1>6. CASE Unwind
  <2> DEFINE s == stack[1].self
             o == stack[1].other
  <2>1. /\ IsAt("connect", "called") /\ thrown /\ Pops
        /\ links' = [links EXCEPT ![s] = IF ~Managed(s) THEN @ ELSE IF Exclusive(s) THEN {} ELSE @ \ {o}]
    BY <1>6, <1>i, UnwindDoes
  <2>2. Len(stack) = 1 /\ s \notin links[o] /\ OnlyRecorded(stack[1])
    BY <1>i, <2>1 DEF IsAt, Progress
  <2>3. s \in Ports /\ o \in Ports /\ stack # <<>>
    BY <2>1 DEF IsAt
  <2>4. o \in links[s]
    BY <1>i, <2>2, <2>3 DEF OnlyRecorded, TypeOK
  <2>5. Managed(s) => links' = [links EXCEPT ![s] = @ \ {o}]
    <3>1. Exclusive(s) => links[s] \ {o} = {}
      BY <1>i, <2>3, <2>4, <1>t DEF AtMostOne
    <3> QED
      BY <2>1, <3>1
  <2>6. ~Managed(s) => links' = links
    BY <1>t, <2>1
  <2>7. p \notin links[x]
    BY <1>g, <1>t, <2>2, <2>3, <2>5, <2>6 DEF OneSided
  <2>8. OneSided(p, x)
    BY <1>g, <1>s, <1>t, <2>3, <2>5, <2>6, <2>7 DEF OneSided
  <2>9. ~SettledBelow(p, x)
    BY <2>2 DEF SettledBelow
  <2>10. SettledAt(1, p, x)
    BY <1>b, <2>3, <2>8, <2>9
  <2>11. p = s /\ x = o
    BY <2>1, <2>10 DEF IsAt, SettledAt, Settles
  <2>12. CASE Managed(s)
    BY <1>g, <1>t, <2>3, <2>5, <2>11, <2>12 DEF OneSided
  <2>13. CASE ~Managed(s)
    <3>1. Top = stack[1]
      BY <1>6, <1>i, IsAtLemma DEF Unwind
    <3>2. <<s, o>> \in refused'
      BY <1>6, <2>13, <3>1 DEF Unwind, KeptBy
    <3> QED
      BY <1>g, <2>11, <3>2 DEF OneSided, Refused
  <2> QED
    BY <2>12, <2>13
<1>7. CASE DisconnectAgain
  <2>1. /\ IsAt("disconnect", "enter") /\ stack[1].other \notin links[stack[1].self]
        /\ Replaces("called", stack[1].todo) /\ UNCHANGED <<links, thrown>>
    BY <1>7, <1>i, DisconnectAgainDoes
  <2>2. ~SettledAt(1, p, x)
    BY <1>u, <2>1 DEF IsAt, SettledAt, Settles, OneSided
  <2> QED
    BY <1>b, <1>k, <1>u, <2>1, <2>2 DEF IsAt
<1>8. CASE Erase
  <2> DEFINE s == stack[1].self
             o == stack[1].other
  <2>1. /\ IsAt("disconnect", "enter") /\ UNCHANGED thrown /\ o \in links[s]
        /\ links' = [links EXCEPT ![s] = IF Exclusive(s) THEN {} ELSE @ \ {o}]
        /\ Pushes("called", {}, "disconnect", o, s)
    BY <1>8, <1>i, EraseDoes
  <2>2. s \in Ports /\ o \in Ports /\ stack # <<>>
    BY <2>1 DEF IsAt
  <2>3. links' = [links EXCEPT ![s] = @ \ {o}]
    <3>1. Exclusive(s) => links[s] \ {o} = {}
      BY <1>i, <1>t, <2>1, <2>2 DEF AtMostOne
    <3> QED
      BY <2>1, <3>1
  <2>4. CASE x = s /\ p = o
    <3>1. 1 \in DOMAIN stack'
      BY <1>d, <1>e, <2>1, <2>2 DEF Pushes
    <3>2. SettledAt(1, p, x)'
      BY <2>1, <2>4 DEF Pushes, Frame, SettledAt, Settles
    <3> QED
      BY <1>w, <3>1, <3>2
  <2>5. CASE ~(x = s /\ p = o)
    <3>1. OneSided(p, x)
      BY <1>g, <1>s, <1>t, <2>2, <2>3, <2>5 DEF OneSided
    <3>2. ~SettledAt(1, p, x)
      <4>1. ~(p = s /\ x = o)
        BY <1>g, <1>t, <2>2, <2>3 DEF OneSided
      <4> QED
        BY <2>1, <4>1 DEF IsAt, SettledAt, Settles
    <3> QED
      BY <1>b, <1>k, <2>1, <2>2, <3>1, <3>2
  <2> QED
    BY <2>4, <2>5
<1>9. CASE LeaveTheOne
  <2>1. /\ IsAt("disconnect", "enter") /\ UNCHANGED <<links, thrown>>
        /\ Pushes("called", {}, "disconnectAll", stack[1].self, None)
    BY <1>9, <1>i, LeaveTheOneDoes
  <2>2. CASE SettledAt(1, p, x)
    <3>1. 1 \in DOMAIN stack'
      BY <1>d, <1>e, <2>1 DEF IsAt, Pushes
    <3>2. SettledAt(1, p, x)'
      BY <2>1, <2>2 DEF IsAt, Pushes, Frame, SettledAt, Settles
    <3> QED
      BY <1>w, <3>1, <3>2
  <2> QED
    BY <1>b, <1>k, <1>u, <2>1, <2>2 DEF IsAt
<1>10. CASE Disconnected
  <2>1. IsAt("disconnect", "called") /\ Pops /\ UNCHANGED <<links, thrown>>
    BY <1>10, <1>i, DisconnectedDoes
  <2>2. ~SettledAt(1, p, x)
    BY <2>1 DEF IsAt, SettledAt, Settles
  <2> QED
    BY <1>b, <1>k, <1>u, <2>1, <2>2 DEF IsAt
<1>11. CASE TakeAll
  <2> DEFINE s == stack[1].self
  <2>1. /\ IsAt("disconnectAll", "enter") /\ UNCHANGED thrown
        /\ links' = [links EXCEPT ![s] = {}]
        /\ Replaces("loop", links[s])
    BY <1>11, <1>i, TakeAllDoes
  <2>2. s \in Ports /\ stack # <<>>
    BY <2>1 DEF IsAt
  <2>3. CASE x = s /\ p \in links[s]
    <3>1. 1 \in DOMAIN stack'
      BY <1>d, <1>e, <2>1, <2>2 DEF Replaces
    <3>2. SettledAt(1, p, x)'
      BY <2>1, <2>3 DEF IsAt, Replaces, WasTop, SettledAt, Settles
    <3> QED
      BY <1>w, <3>1, <3>2
  <2>4. CASE ~(x = s /\ p \in links[s])
    <3>1. OneSided(p, x)
      BY <1>g, <1>s, <1>t, <2>1, <2>2, <2>4 DEF OneSided
    <3>2. ~SettledAt(1, p, x)
      <4>1. p # s
        BY <1>g, <1>t, <2>1, <2>2 DEF OneSided
      <4> QED
        BY <2>1, <4>1 DEF IsAt, SettledAt, Settles
    <3> QED
      BY <1>b, <1>k, <2>1, <2>2, <3>1, <3>2
  <2> QED
    BY <2>3, <2>4
<1>12. CASE Leave
  <2>1. PICK y \in stack[1].todo :
            /\ IsAt("disconnectAll", "loop") /\ UNCHANGED <<links, thrown>>
            /\ IF Managed(stack[1].self)
               THEN Pushes("loop", stack[1].todo \ {y}, "disconnect", y, stack[1].self)
               ELSE Pushes("loop", stack[1].todo \ {y}, "disconnectAll", y, None)
    BY <1>12, <1>i, LeaveDoes
  <2>2. PICK fn, q : Pushes("loop", stack[1].todo \ {y}, fn, y, q)
    BY <2>1
  <2>3. 1 \in DOMAIN stack' /\ 2 \in DOMAIN stack'
    BY <1>d, <1>e, <2>1, <2>2 DEF IsAt, Pushes
  <2>4. CASE SettledAt(1, p, x)
    <3>1. stack[1].self = x /\ p \in stack[1].todo
      BY <2>1, <2>4 DEF IsAt, SettledAt, Settles
    <3>2. CASE p = y
      <4>1. SettledAt(1, p, x)'
        <5>1. CASE Managed(stack[1].self)
          BY <2>1, <3>1, <3>2, <5>1 DEF Pushes, Frame, SettledAt, Settles
        <5>2. CASE ~Managed(stack[1].self)
          BY <2>1, <3>1, <3>2, <5>2 DEF Pushes, Frame, SettledAt, Settles
        <5> QED
          BY <5>1, <5>2
      <4> QED
        BY <1>w, <2>3, <4>1
    <3>3. CASE p # y
      <4>1. SettledAt(2, p, x)'
        BY <2>1, <2>2, <3>1, <3>3 DEF IsAt, Pushes, WasTop, SettledAt, Settles
      <4> QED
        BY <1>w, <2>3, <4>1
    <3> QED
      BY <3>2, <3>3
  <2> QED
    BY <1>b, <1>k, <1>u, <2>1, <2>2, <2>4 DEF IsAt
<1>13. CASE Left
  <2>1. /\ IsAt("disconnectAll", "loop") /\ stack[1].todo = {} /\ Pops
        /\ UNCHANGED <<links, thrown>>
    BY <1>13, <1>i, LeftDoes
  <2>2. ~SettledAt(1, p, x)
    BY <2>1 DEF IsAt, SettledAt, Settles
  <2> QED
    BY <1>b, <1>k, <1>u, <2>1, <2>2 DEF IsAt
<1>14. CASE stack = <<>> /\ UNCHANGED links
  BY <1>14, <1>i, <1>u DEF OneSidedIsSettled
<1>15. CASE UNCHANGED <<links, stack, thrown>>
  BY <1>15, <1>i, <1>u DEF OneSidedIsSettled, Settled, SettledAt
<1> QED
  BY <1>1, <1>2, <1>3, <1>4, <1>5, <1>6, <1>7, <1>8, <1>9, <1>10, <1>11, <1>12, <1>13, <1>14,
     <1>15 DEF Next, Step, vars, Call, Request, Send, AtRest

-----------------------------------------------------------------------------
\* The queues and slaves of a port and its connections.

\* A call below the running one stays on the stack.
LEMMA BelowKept ==
    ASSUME TypeOK, TypeOK', stack # <<>>, NEW i \in 2..Len(stack),
           \/ \E at, todo : Replaces(at, todo)
           \/ Pops
           \/ \E at, todo, fn, q, y : Pushes(at, todo, fn, q, y)
    PROVE  \E j \in DOMAIN stack' : stack'[j] = stack[i]
<1>d. /\ Len(stack) \in Nat /\ Len(stack) >= 1 /\ DOMAIN stack' = 1..Len(stack')
      /\ Len(stack') \in Nat
  BY TopTyped, SeqDomain DEF TypeOK
<1>1. ASSUME NEW at, NEW todo, Replaces(at, todo) PROVE i \in DOMAIN stack' /\ stack'[i] = stack[i]
  BY <1>1, <1>d DEF Replaces
<1>2. ASSUME Pops PROVE i - 1 \in DOMAIN stack' /\ stack'[i - 1] = stack[i]
  BY <1>2, <1>d DEF Pops
<1>3. ASSUME NEW at, NEW todo, NEW fn, NEW q, NEW y, Pushes(at, todo, fn, q, y)
      PROVE  i + 1 \in DOMAIN stack' /\ stack'[i + 1] = stack[i]
  BY <1>3, <1>d DEF Pushes
<1> QED
  BY <1>1, <1>2, <1>3

\* A connection without a queue gets it from a connect() in progress.
LEMMA NextWillKey ==
    ASSUME PortConnectionsInv, TypeOK', [Next]_vars,
           NEW p \in Ports, NEW x \in Ports, Keys(p), Lacks(p, x)'
    PROVE  (\E i \in DOMAIN stack : WillKey(stack[i], p, x))'
<1>i. /\ TypeOK /\ ToldIsRecorded /\ OneSidedIsSettled /\ KeysAreSettled
  BY DEF PortConnectionsInv
<1>d. stack # <<>> => DOMAIN stack = 1..Len(stack) /\ Len(stack) \in Nat /\ Len(stack) >= 1
  BY <1>i, TopTyped, SeqDomain
<1>e. DOMAIN stack' = 1..Len(stack') /\ Len(stack') \in Nat
  BY SeqDomain DEF TypeOK
<1>t. links \in [Ports -> SUBSET Ports] /\ keyed \in [Ports -> SUBSET Ports]
  BY <1>i DEF TypeOK
<1>m. Managed(p) /\ ~Exclusive(p) /\ ~HoldsOne(p)
  BY KindFacts
<1> DEFINE Explained == \E i \in DOMAIN stack : WillKey(stack[i], p, x)
<1>k. ASSUME stack # <<>>, Lacks(p, x), ~WillKey(stack[1], p, x),
             \/ \E at, todo : Replaces(at, todo)
             \/ Pops
             \/ \E at, todo, fn, q, y : Pushes(at, todo, fn, q, y)
      PROVE  Explained'
  <2>1. PICK i \in 2..Len(stack) : WillKey(stack[i], p, x)
    BY <1>d, <1>i, <1>k DEF KeysAreSettled
  <2>2. PICK j \in DOMAIN stack' : stack'[j] = stack[i]
    BY <1>i, <1>k, BelowKept
  <2> QED
    BY <2>1, <2>2
<1>r. stack # <<>> => IsRecorded(links, stack[1])
  BY <1>d, <1>i DEF ToldIsRecorded
<1> SUFFICES Explained'
  OBVIOUS
<1> HIDE DEF Explained
<1>1. CASE ConnectAgain
  BY <1>1, <1>i, <1>k, ConnectAgainDoes DEF IsAt, Lacks, WillKey
<1>2. CASE Refuse
  BY <1>2, <1>i, <1>k, RefuseDoes DEF IsAt, Lacks, WillKey
<1>3. CASE LeaveFirst
  BY <1>3, <1>i, <1>k, LeaveFirstDoes DEF IsAt, Lacks, WillKey
<1>4. CASE Record
  <2> DEFINE s == stack[1].self
             o == stack[1].other
  <2>1. /\ IsAt("connect", "enter") /\ UNCHANGED keyed
        /\ links' = [links EXCEPT ![s] = @ \cup {o}]
        /\ Pushes("called", {}, "connect", o, s)
    BY <1>4, <1>i, RecordDoes
  <2>2. CASE p = s /\ x = o
    <3>1. 2 \in DOMAIN stack'
      BY <1>d, <1>e, <2>1 DEF IsAt, Pushes
    <3>2. WillKey(stack'[2], p, x)
      BY <2>1, <2>2 DEF IsAt, Pushes, WasTop, WillKey
    <3> QED
      BY <3>1, <3>2 DEF Explained
  <2>3. CASE ~(p = s /\ x = o)
    <3>1. Lacks(p, x)
      BY <1>t, <2>1, <2>3 DEF IsAt, Lacks
    <3> QED
      BY <1>k, <2>1, <3>1 DEF IsAt, WillKey
  <2> QED
    BY <2>2, <2>3
<1>5. CASE Connected
  <2>1. /\ IsAt("connect", "called") /\ Pops /\ UNCHANGED links
        /\ keyed' = [keyed EXCEPT ![stack[1].self] =
                        IF Keys(stack[1].self) THEN @ \cup {stack[1].other} ELSE @]
    BY <1>5, <1>i, ConnectedDoes
  <2>2. Lacks(p, x) /\ ~WillKey(stack[1], p, x)
    BY <1>t, <2>1 DEF IsAt, Lacks, WillKey
  <2> QED
    BY <1>k, <2>1, <2>2 DEF IsAt
<1>6. CASE Unwind
  <2> DEFINE s == stack[1].self
             o == stack[1].other
  <2>1. /\ IsAt("connect", "called") /\ Pops /\ UNCHANGED keyed
        /\ links' = [links EXCEPT ![s] =
                        IF ~Managed(s) THEN @ ELSE IF Exclusive(s) THEN {} ELSE @ \ {o}]
    BY <1>6, <1>i, UnwindDoes
  <2>2. Lacks(p, x) /\ ~WillKey(stack[1], p, x)
    <3>1. CASE p = s
      BY <1>m, <1>t, <2>1, <3>1 DEF IsAt, Lacks, WillKey
    <3>2. CASE p # s
      BY <1>t, <2>1, <3>2 DEF IsAt, Lacks, WillKey
    <3> QED
      BY <3>1, <3>2
  <2> QED
    BY <1>k, <2>1, <2>2 DEF IsAt
<1>7. CASE DisconnectAgain
  BY <1>7, <1>i, <1>k, DisconnectAgainDoes DEF IsAt, Lacks, WillKey
<1>8. CASE Erase
  <2> DEFINE s == stack[1].self
             o == stack[1].other
  <2>1. /\ IsAt("disconnect", "enter") /\ UNCHANGED keyed
        /\ links' = [links EXCEPT ![s] = IF Exclusive(s) THEN {} ELSE @ \ {o}]
        /\ Pushes("called", {}, "disconnect", o, s)
    BY <1>8, <1>i, EraseDoes
  <2>2. Lacks(p, x)
    <3>1. links'[p] \subseteq links[p]
      BY <1>t, <2>1
    <3> QED
      BY <2>1, <3>1 DEF Lacks
  <2> QED
    BY <1>k, <2>1, <2>2 DEF IsAt, WillKey
<1>9. CASE LeaveTheOne
  BY <1>9, <1>i, <1>k, LeaveTheOneDoes DEF IsAt, Lacks, WillKey
<1>10. CASE Disconnected
  <2>1. /\ IsAt("disconnect", "called") /\ Pops /\ UNCHANGED links
        /\ keyed' = [keyed EXCEPT ![stack[1].self] = @ \ {stack[1].other}]
    BY <1>10, <1>i, DisconnectedDoes
  <2>2. Lacks(p, x)
    BY <1>m, <1>r, <1>t, <2>1 DEF IsAt, IsRecorded, Lacks
  <2> QED
    BY <1>k, <2>1, <2>2 DEF IsAt, WillKey
<1>11. CASE TakeAll
  <2>1. /\ IsAt("disconnectAll", "enter") /\ UNCHANGED keyed
        /\ links' = [links EXCEPT ![stack[1].self] = {}]
        /\ Replaces("loop", links[stack[1].self])
    BY <1>11, <1>i, TakeAllDoes
  <2>2. Lacks(p, x)
    BY <1>t, <2>1 DEF IsAt, Lacks
  <2> QED
    BY <1>k, <2>1, <2>2 DEF IsAt, WillKey
<1>12. CASE Leave
  <2>1. /\ IsAt("disconnectAll", "loop") /\ UNCHANGED <<links, keyed>>
        /\ \E at, todo, fn, q, y : Pushes(at, todo, fn, q, y)
    BY <1>12, <1>i, LeaveDoes
  <2> QED
    BY <1>k, <2>1 DEF IsAt, Lacks, WillKey
<1>13. CASE Left
  <2>1. /\ IsAt("disconnectAll", "loop") /\ Pops /\ UNCHANGED links
        /\ keyed' = [keyed EXCEPT ![stack[1].self] = {}]
    BY <1>13, <1>i, LeftDoes
  <2>2. Lacks(p, x)
    BY <1>r, <1>t, <2>1 DEF IsAt, IsRecorded, Lacks
  <2> QED
    BY <1>k, <2>1, <2>2 DEF IsAt, WillKey
<1>14. CASE stack = <<>> /\ UNCHANGED <<links, keyed>>
  BY <1>14, <1>i DEF KeysAreSettled, Lacks
<1>15. ASSUME NEW q \in Ports, Send(q) PROVE FALSE
  <2>1. Lacks(p, x)
    BY <1>15, <1>t DEF Send, Lacks
  <2> QED
    BY <1>15, <1>i, <2>1 DEF Send, AtRest, KeysAreSettled
<1>16. CASE UNCHANGED <<links, keyed, stack>>
  BY <1>16, <1>i DEF KeysAreSettled, Lacks, Explained
<1> QED
  BY <1>1, <1>2, <1>3, <1>4, <1>5, <1>6, <1>7, <1>8, <1>9, <1>10, <1>11, <1>12, <1>13, <1>14,
     <1>15, <1>16 DEF Next, Step, vars, Call, Request, AtRest

\* A queue without a connection is removed by a disconnect() in progress.
LEMMA NextWillDrop ==
    ASSUME PortConnectionsInv, TypeOK', [Next]_vars,
           NEW p \in Ports, NEW x \in Ports, Keys(p), Retains(p, x)'
    PROVE  (\E i \in DOMAIN stack : WillDrop(stack[i], p, x))'
<1>i. /\ TypeOK /\ ToldIsRecorded /\ OneSidedIsSettled /\ KeysAreSettled /\ Progress
  BY DEF PortConnectionsInv
<1>d. stack # <<>> => DOMAIN stack = 1..Len(stack) /\ Len(stack) \in Nat /\ Len(stack) >= 1
  BY <1>i, TopTyped, SeqDomain
<1>e. DOMAIN stack' = 1..Len(stack') /\ Len(stack') \in Nat
  BY SeqDomain DEF TypeOK
<1>t. links \in [Ports -> SUBSET Ports] /\ keyed \in [Ports -> SUBSET Ports]
  BY <1>i DEF TypeOK
<1>m. Managed(p) /\ ~Exclusive(p) /\ ~HoldsOne(p)
  BY KindFacts
<1> DEFINE Explained == \E i \in DOMAIN stack : WillDrop(stack[i], p, x)
<1>k. ASSUME stack # <<>>, Retains(p, x), ~WillDrop(stack[1], p, x),
             \/ \E at, todo : Replaces(at, todo)
             \/ Pops
             \/ \E at, todo, fn, q, y : Pushes(at, todo, fn, q, y)
      PROVE  Explained'
  <2>1. PICK i \in 2..Len(stack) : WillDrop(stack[i], p, x)
    BY <1>d, <1>i, <1>k DEF KeysAreSettled
  <2>2. PICK j \in DOMAIN stack' : stack'[j] = stack[i]
    BY <1>i, <1>k, BelowKept
  <2> QED
    BY <2>1, <2>2
<1>r. stack # <<>> => IsRecorded(links, stack[1])
  BY <1>d, <1>i DEF ToldIsRecorded
<1> SUFFICES Explained'
  OBVIOUS
<1> HIDE DEF Explained
<1>1. CASE ConnectAgain
  BY <1>1, <1>i, <1>k, ConnectAgainDoes DEF IsAt, Retains, WillDrop
<1>2. CASE Refuse
  BY <1>2, <1>i, <1>k, RefuseDoes DEF IsAt, Retains, WillDrop
<1>3. CASE LeaveFirst
  BY <1>3, <1>i, <1>k, LeaveFirstDoes DEF IsAt, Retains, WillDrop
<1>4. CASE Record
  <2> DEFINE s == stack[1].self
             o == stack[1].other
  <2>1. /\ IsAt("connect", "enter") /\ UNCHANGED keyed
        /\ links' = [links EXCEPT ![s] = @ \cup {o}]
        /\ Pushes("called", {}, "connect", o, s)
    BY <1>4, <1>i, RecordDoes
  <2>2. Retains(p, x)
    BY <1>t, <2>1 DEF IsAt, Retains
  <2> QED
    BY <1>k, <2>1, <2>2 DEF IsAt, WillDrop
<1>5. CASE Connected
  <2> DEFINE s == stack[1].self
             o == stack[1].other
  <2>1. /\ IsAt("connect", "called") /\ Pops /\ UNCHANGED links
        /\ keyed' = [keyed EXCEPT ![s] = IF Keys(s) THEN @ \cup {o} ELSE @]
    BY <1>5, <1>i, ConnectedDoes
  <2>2. Keys(s) => o \in links[s]
    BY <1>r, <2>1, MatedFacts DEF IsAt, IsRecorded
  <2>3. Retains(p, x)
    BY <1>t, <2>1, <2>2 DEF IsAt, Retains
  <2> QED
    BY <1>k, <2>1, <2>3 DEF IsAt, WillDrop
<1>6. CASE Unwind
  <2> DEFINE s == stack[1].self
             o == stack[1].other
  <2>1. /\ IsAt("connect", "called") /\ Pops /\ UNCHANGED keyed /\ thrown
        /\ links' = [links EXCEPT ![s] =
                        IF ~Managed(s) THEN @ ELSE IF Exclusive(s) THEN {} ELSE @ \ {o}]
    BY <1>6, <1>i, UnwindDoes
  <2>2. Len(stack) = 1 /\ (Keys(s) => o \notin keyed[s])
    BY <1>i, <2>1 DEF IsAt, Progress, OnlyRecorded
  <2>3. Retains(p, x)
    <3>1. CASE p = s
      BY <1>m, <1>t, <2>1, <2>2, <3>1 DEF IsAt, Retains
    <3>2. CASE p # s
      BY <1>t, <2>1, <3>2 DEF IsAt, Retains
    <3> QED
      BY <3>1, <3>2
  <2> QED
    BY <1>k, <2>1, <2>3 DEF IsAt, WillDrop
<1>7. CASE DisconnectAgain
  BY <1>7, <1>i, <1>k, DisconnectAgainDoes DEF IsAt, Retains, WillDrop
<1>8. CASE Erase
  <2> DEFINE s == stack[1].self
             o == stack[1].other
  <2>1. /\ IsAt("disconnect", "enter") /\ UNCHANGED keyed
        /\ links' = [links EXCEPT ![s] = IF Exclusive(s) THEN {} ELSE @ \ {o}]
        /\ Pushes("called", {}, "disconnect", o, s)
    BY <1>8, <1>i, EraseDoes
  <2>2. CASE p = s /\ x = o
    <3>1. 2 \in DOMAIN stack'
      BY <1>d, <1>e, <2>1 DEF IsAt, Pushes
    <3>2. WillDrop(stack'[2], p, x)
      BY <2>1, <2>2 DEF IsAt, Pushes, WasTop, WillDrop
    <3> QED
      BY <3>1, <3>2 DEF Explained
  <2>3. CASE ~(p = s /\ x = o)
    <3>1. Retains(p, x)
      <4>1. CASE p = s
        BY <1>m, <1>t, <2>1, <2>3, <4>1 DEF IsAt, Retains
      <4>2. CASE p # s
        BY <1>t, <2>1, <4>2 DEF IsAt, Retains
      <4> QED
        BY <4>1, <4>2
    <3> QED
      BY <1>k, <2>1, <3>1 DEF IsAt, WillDrop
  <2> QED
    BY <2>2, <2>3
<1>9. CASE LeaveTheOne
  BY <1>9, <1>i, <1>k, LeaveTheOneDoes DEF IsAt, Retains, WillDrop
<1>10. CASE Disconnected
  <2>1. /\ IsAt("disconnect", "called") /\ Pops /\ UNCHANGED links
        /\ keyed' = [keyed EXCEPT ![stack[1].self] = @ \ {stack[1].other}]
    BY <1>10, <1>i, DisconnectedDoes
  <2>2. Retains(p, x) /\ ~WillDrop(stack[1], p, x)
    BY <1>t, <2>1 DEF IsAt, Retains, WillDrop
  <2> QED
    BY <1>k, <2>1, <2>2 DEF IsAt
<1>11. CASE TakeAll
  <2>1. /\ IsAt("disconnectAll", "enter") /\ UNCHANGED keyed
        /\ links' = [links EXCEPT ![stack[1].self] = {}]
        /\ Replaces("loop", links[stack[1].self])
    BY <1>11, <1>i, TakeAllDoes
  <2>2. CASE p = stack[1].self
    <3>1. 1 \in DOMAIN stack'
      BY <1>d, <1>e, <2>1 DEF IsAt, Replaces
    <3>2. WillDrop(stack'[1], p, x)
      BY <2>1, <2>2 DEF IsAt, Replaces, WasTop, WillDrop
    <3> QED
      BY <3>1, <3>2 DEF Explained
  <2>3. CASE p # stack[1].self
    BY <1>k, <1>t, <2>1, <2>3 DEF IsAt, Retains, WillDrop
  <2> QED
    BY <2>2, <2>3
<1>12. CASE Leave
  <2>1. PICK y \in stack[1].todo :
            /\ IsAt("disconnectAll", "loop") /\ UNCHANGED <<links, keyed>>
            /\ \E fn, q : Pushes("loop", stack[1].todo \ {y}, fn, y, q)
    BY <1>12, <1>i, LeaveDoes
  <2>2. CASE p = stack[1].self
    <3>1. 2 \in DOMAIN stack'
      BY <1>d, <1>e, <2>1 DEF IsAt, Pushes
    <3>2. WillDrop(stack'[2], p, x)
      BY <2>1, <2>2 DEF IsAt, Pushes, WasTop, WillDrop
    <3> QED
      BY <3>1, <3>2 DEF Explained
  <2>3. CASE p # stack[1].self
    BY <1>k, <2>1, <2>3 DEF IsAt, Retains, WillDrop
  <2> QED
    BY <2>2, <2>3
<1>13. CASE Left
  <2>1. /\ IsAt("disconnectAll", "loop") /\ Pops /\ UNCHANGED links
        /\ keyed' = [keyed EXCEPT ![stack[1].self] = {}]
    BY <1>13, <1>i, LeftDoes
  <2>2. Retains(p, x) /\ ~WillDrop(stack[1], p, x)
    BY <1>t, <2>1 DEF IsAt, Retains, WillDrop
  <2> QED
    BY <1>k, <2>1, <2>2 DEF IsAt
<1>14. CASE stack = <<>> /\ UNCHANGED <<links, keyed>>
  BY <1>14, <1>i DEF KeysAreSettled, Retains
\* The push of a producer finds its queue.
<1>15. ASSUME NEW q \in Ports, Send(q) PROVE FALSE
  <2>1. /\ stack = <<>> /\ UNCHANGED links
        /\ keyed'[p] = IF p \in links[q] /\ Kind[p] = "multi" THEN keyed[p] \cup {q} ELSE keyed[p]
    BY <1>15 DEF Send, AtRest
  <2>2. p \in links[q] /\ Kind[p] = "multi" => q \in links[p]
    <3>1. Kind[p] = "multi" => ~Refused(q, p)
      BY DEF PortConnectionsInv, RefusedAreKept, Refused
    <3> QED
      BY <1>i, <2>1, <3>1 DEF OneSidedIsSettled, OneSided
  <2>3. Retains(p, x)
    BY <2>1, <2>2 DEF Retains
  <2> QED
    BY <1>i, <2>1, <2>3 DEF KeysAreSettled
<1>16. CASE UNCHANGED <<links, keyed, stack>>
  BY <1>16, <1>i DEF KeysAreSettled, Retains, Explained
<1> QED
  BY <1>1, <1>2, <1>3, <1>4, <1>5, <1>6, <1>7, <1>8, <1>9, <1>10, <1>11, <1>12, <1>13, <1>14,
     <1>15, <1>16 DEF Next, Step, vars, Call, Request, AtRest

\* Both together.
LEMMA NextKeys ==
    PortConnectionsInv /\ TypeOK' /\ [Next]_vars => KeysAreSettled'
BY NextWillKey, NextWillDrop DEF KeysAreSettled

-----------------------------------------------------------------------------
\* The call from outside.

\* Every step of a call is one of the three moves.
LEMMA StepMoves ==
    ASSUME TypeOK, Step
    PROVE  /\ stack # <<>> /\ UNCHANGED <<call, before>>
           /\ \/ \E at \in {"called", "loop"} : \E todo : Replaces(at, todo)
              \/ Pops
              \/ \E at, todo, fn, q, y :
                    Pushes(at, todo, fn, q, y) /\ (fn = "connect" => Record)
<1>1. CASE ConnectAgain
  BY <1>1, ConnectAgainDoes DEF IsAt
<1>2. CASE Refuse
  BY <1>2, RefuseDoes DEF IsAt
<1>3. CASE LeaveFirst
  BY <1>3, LeaveFirstDoes DEF IsAt
<1>4. CASE Record
  BY <1>4, RecordDoes DEF IsAt
<1>5. CASE Connected
  BY <1>5, ConnectedDoes DEF IsAt
<1>6. CASE Unwind
  BY <1>6, UnwindDoes DEF IsAt
<1>7. CASE DisconnectAgain
  BY <1>7, DisconnectAgainDoes DEF IsAt
<1>8. CASE Erase
  BY <1>8, EraseDoes DEF IsAt
<1>9. CASE LeaveTheOne
  BY <1>9, LeaveTheOneDoes DEF IsAt
<1>10. CASE Disconnected
  BY <1>10, DisconnectedDoes DEF IsAt
<1>11. CASE TakeAll
  BY <1>11, TakeAllDoes DEF IsAt
<1>12. CASE Leave
  <2>1. PICK x \in stack[1].todo :
            /\ IsAt("disconnectAll", "loop") /\ UNCHANGED <<call, before>>
            /\ IF Managed(stack[1].self)
               THEN Pushes("loop", stack[1].todo \ {x}, "disconnect", x, stack[1].self)
               ELSE Pushes("loop", stack[1].todo \ {x}, "disconnectAll", x, None)
    BY <1>12, LeaveDoes
  <2> QED
    BY <2>1 DEF IsAt
<1>13. CASE Left
  BY <1>13, LeftDoes DEF IsAt
<1> QED
  BY <1>1, <1>2, <1>3, <1>4, <1>5, <1>6, <1>7, <1>8, <1>9, <1>10, <1>11, <1>12, <1>13 DEF Step

\* The outermost call stays the one from outside.
LEMMA NextOutermost ==
    TypeOK /\ TypeOK' /\ CallIsOutermost /\ [Next]_vars => CallIsOutermost'
<1> SUFFICES ASSUME TypeOK, TypeOK', CallIsOutermost, [Next]_vars, stack' # <<>>
             PROVE  LET f == stack'[Len(stack')]
                    IN  f.fn = call'.fn /\ f.self = call'.self /\ f.other = call'.other
  BY DEF CallIsOutermost
<1>1. CASE Step
  <2>1. stack # <<>> /\ call' = call
    BY <1>1, StepMoves
  <2>2. Len(stack) \in Nat /\ Len(stack) >= 1 /\ Len(stack') \in Nat /\ Len(stack') >= 1
    BY <2>1, TopTyped, SeqDomain, EmptySeq DEF TypeOK
  <2>3. CASE \E at, todo : Replaces(at, todo)
    BY <2>1, <2>2, <2>3 DEF Replaces, WasTop, CallIsOutermost
  <2>4. CASE Pops
    BY <2>1, <2>2, <2>4 DEF Pops, CallIsOutermost
  <2>5. CASE \E at, todo, fn, q, y : Pushes(at, todo, fn, q, y)
    BY <2>1, <2>2, <2>5 DEF Pushes, WasTop, CallIsOutermost
  <2> QED
    BY <1>1, <2>3, <2>4, <2>5, StepMoves
<1>2. ASSUME NEW c \in Calls, Call(c) PROVE CallIsOutermost'
  <2>1. Len(stack') = 1 /\ stack'[1] = Frame(c.fn, c.self, c.other) /\ call' = c
    BY <1>2, CallDoes
  <2> QED
    BY <2>1 DEF CallIsOutermost, Frame
<1>3. CASE UNCHANGED <<stack, call>>
  BY <1>3 DEF CallIsOutermost
<1> QED
  BY <1>1, <1>2, <1>3 DEF Next, vars, Request, Send, AtRest, CallIsOutermost

\* A call that is revealed at its start had been left by the client.
LEMMA RevealedIsMated ==
    ASSUME TypeOK, ConnectsComeFirst, Pops, 2 <= Len(stack),
           stack[2].fn = "connect", stack[2].at = "enter"
    PROVE  Mated(stack[2].self, stack[2].other)
<1>1. 1 \in DOMAIN stack /\ 2 \in DOMAIN stack
  BY SeqDomain DEF TypeOK
<1>2. FitsAbove(stack[1], stack[2])
  BY <1>1 DEF ConnectsComeFirst
<1> QED
  BY <1>2 DEF FitsAbove

\* What a connect() from outside has done so far, and where an exception can be.
LEMMA NextProgress ==
    PortConnectionsInv /\ TypeOK' /\ [Next]_vars => Progress'
<1> SUFFICES ASSUME PortConnectionsInv, TypeOK', [Next]_vars PROVE Progress'
  OBVIOUS
<1>i. TypeOK /\ ConnectsComeFirst /\ ToldIsRecorded /\ KeysAreSettled
      /\ CallIsOutermost /\ Progress
  BY DEF PortConnectionsInv
<1>e. Len(stack') \in Nat /\ (stack' # <<>> => Len(stack') >= 1)
  BY EmptySeq DEF TypeOK
<1> DEFINE Starts == stack[1].fn = "connect" /\ stack[1].at = "enter"
           Paired == Mated(stack[1].self, stack[1].other)
           Failing ==
               /\ Len(stack) = 1 /\ stack[1].fn = "connect" /\ stack[1].at = "called"
               /\ stack[1].self \notin links[stack[1].other]
               /\ Refuses(stack[1].other, stack[1].self)
               /\ ~Managed(stack[1].self) =>
                    Kind[stack[1].self] = "producer" /\ Kind[stack[1].other] = "single"
               /\ OnlyRecorded(stack[1])
<1>1. CASE Step
  <2>1. stack # <<>> /\ Len(stack) \in Nat /\ Len(stack) >= 1 /\ before' = before
    BY <1>1, <1>i, StepMoves, TopTyped
  <2>2. stack' # <<>> /\ thrown' => Failing'
    <3>1. CASE Refuse
      <4> SUFFICES ASSUME stack' # <<>> PROVE Failing'
        OBVIOUS
      <4>1. /\ Len(stack) = 2 /\ stack'[1] = stack[2]
            /\ stack[2].fn = "connect" /\ stack[2].at = "called"
            /\ stack[2].self \notin links[stack[2].other]
            /\ Refuses(stack[2].other, stack[2].self)
            /\ ~Managed(stack[2].self) =>
                 Kind[stack[2].self] = "producer" /\ Kind[stack[2].other] = "single"
            /\ OnlyRecorded(stack[2])
        BY <1>i, <3>1, RefuseProgress
      <4>2. Len(stack') = 1 /\ UNCHANGED <<links, keyed, before>>
        BY <1>i, <3>1, <4>1, RefuseDoes DEF Pops
      <4> QED
        BY <4>1, <4>2 DEF OnlyRecorded, Refuses
    <3>2. CASE Unwind
      <4>1. IsAt("connect", "called") /\ thrown /\ Pops
        BY <1>i, <3>2, UnwindDoes
      <4>2. Len(stack) = 1
        BY <1>i, <2>1, <4>1 DEF Progress
      <4> QED
        BY <1>e, <4>1, <4>2 DEF Pops
    <3>3. CASE ~thrown'
      BY <3>3
    <3> QED
      BY <1>1, <3>1, <3>2, <3>3 DEF Step, Runs, ConnectAgain, LeaveFirst, Record, Connected,
         DisconnectAgain, Erase, LeaveTheOne, Disconnected, TakeAll, Leave, Left
  <2>3. ASSUME Starts', Len(stack') \in {1, 2}
        PROVE  \/ Paired'
               \/ Len(stack') = 2 /\ OnlyRecorded(stack[2])'
    <3>1. CASE \E at \in {"called", "loop"} : \E todo : Replaces(at, todo)
      BY <2>3, <3>1 DEF Replaces, WasTop
    <3>2. CASE Pops
      BY <1>i, <2>1, <2>3, <3>2, RevealedIsMated DEF Pops
    <3>3. CASE \E at, todo, fn, q, y : Pushes(at, todo, fn, q, y) /\ (fn = "connect" => Record)
      <4>1. Record
        BY <2>3, <3>3 DEF Pushes, Frame
      <4> DEFINE s == stack[1].self
                 o == stack[1].other
      <4>2. /\ IsAt("connect", "enter") /\ o \notin links[s] /\ UNCHANGED keyed
            /\ links' = [links EXCEPT ![s] = @ \cup {o}]
            /\ Pushes("called", {}, "connect", o, s)
        BY <1>i, <4>1, RecordDoes
      <4>3. s \in Ports /\ o \in Ports /\ Len(stack) = 1 /\ Len(stack') = 2
        <5>1. Len(stack') = Len(stack) + 1
          BY <4>2 DEF Pushes
        <5> QED
          <6>1. \A n \in Nat : n >= 1 /\ n + 1 \in {1, 2} => n = 1
            OBVIOUS
          <6>2. Len(stack) = 1
            BY <2>1, <2>3, <5>1, <6>1, Zenon
          <6> QED
            BY <4>2, <5>1, <6>2 DEF IsAt
      <4>4. stack'[1] = Frame("connect", o, s) /\ stack'[2].self = s /\ stack'[2].other = o
        BY <4>2 DEF Pushes, WasTop
      <4>5. CASE Mated(s, o)
        BY <4>3, <4>4, <4>5, MatedFacts DEF Frame
      <4>6. CASE links = before
        <5>1. Keys(s) => o \notin keyed[s]
          <6>1. ~WillDrop(stack[1], s, o) /\ DOMAIN stack = {1}
            BY <1>i, <4>2, <4>3, SeqDomain DEF IsAt, WillDrop, TypeOK
          <6> QED
            BY <1>i, <4>2, <4>3, <6>1 DEF KeysAreSettled, Retains
        <5> QED
          BY <2>1, <4>2, <4>3, <4>4, <4>6, <5>1 DEF OnlyRecorded
      <4> QED
        BY <1>i, <4>2, <4>3, <4>5, <4>6 DEF IsAt, Progress
    <3> QED
      BY <1>1, <1>i, <3>1, <3>2, <3>3, StepMoves
  <2> HIDE DEF Failing, Starts, Paired
  <2> QED
    BY <2>2, <2>3 DEF Progress, Failing, Starts, Paired
<1>2. ASSUME NEW c \in Calls, Call(c) PROVE Progress'
  <2>1. /\ Len(stack') = 1 /\ stack'[1] = Frame(c.fn, c.self, c.other)
        /\ links' = links /\ before' = links /\ thrown' = FALSE
    BY <1>2, <1>i, CallDoes
  <2> QED
    BY <2>1 DEF Progress
<1>3. CASE stack' = <<>>
  BY <1>3 DEF Progress
<1>4. CASE UNCHANGED vars
  BY <1>4, <1>i DEF vars, Progress, OnlyRecorded, Refuses
<1> QED
  BY <1>1, <1>2, <1>3, <1>4 DEF Next, Request, Send, AtRest

-----------------------------------------------------------------------------
\* What the ports are like when the call has returned.

\* A step after which no call is left is the return of the call from outside.
LEMMA LastReturn ==
    ASSUME TypeOK, CallIsOutermost, Step, stack' = <<>>
    PROVE  /\ Refuse \/ Connected \/ Unwind \/ Disconnected \/ Left
           /\ stack # <<>> /\ Len(stack) = 1 /\ Pops
           /\ stack[1].fn = call.fn /\ stack[1].self = call.self /\ stack[1].other = call.other
           /\ UNCHANGED <<call, before>>
<1>1. stack # <<>> /\ Len(stack) \in Nat /\ Len(stack) >= 1 /\ UNCHANGED <<call, before>>
  BY StepMoves, TopTyped
<1>2. Len(stack') = 0
  OBVIOUS
<1>3. ~(\E at, todo : Replaces(at, todo)) /\ ~(\E at, todo, fn, q, y : Pushes(at, todo, fn, q, y))
  BY <1>1, <1>2 DEF Replaces, Pushes
<1>4. Pops
  BY <1>3, StepMoves
<1>5. Len(stack) = 1
  <2>1. Len(stack') = Len(stack) - 1
    BY <1>4 DEF Pops
  <2> QED
    BY <1>1, <1>2, <2>1
<1>6. stack[1].fn = call.fn /\ stack[1].self = call.self /\ stack[1].other = call.other
  BY <1>1, <1>5 DEF CallIsOutermost
<1>7. Refuse \/ Connected \/ Unwind \/ Disconnected \/ Left
  BY <1>3, ConnectAgainDoes, LeaveFirstDoes, RecordDoes, DisconnectAgainDoes, EraseDoes,
     LeaveTheOneDoes, TakeAllDoes, LeaveDoes DEF Step
<1> QED
  BY <1>1, <1>4, <1>5, <1>6, <1>7

\* Who is refused stays one that a producer keeps and a Single consumer does not
\* count.
LEMMA NextRefusedKept ==
    PortConnectionsInv /\ TypeOK' /\ [Next]_vars => RefusedAreKept'
<1> DEFINE IsKept(e, l) ==
        /\ Kind[e[1]] = "producer" /\ Kind[e[2]] = "single"
        /\ e[2] \in l[e[1]] /\ e[1] \notin l[e[2]]
<1> SUFFICES ASSUME PortConnectionsInv, TypeOK', [Next]_vars, NEW e \in refused'
             PROVE  IsKept(e, links')
  BY DEF RefusedAreKept
<1>i. TypeOK /\ Progress /\ \A f \in refused : IsKept(f, links)
  BY DEF PortConnectionsInv, RefusedAreKept
<1>1. CASE UNCHANGED <<links, refused>>
  BY <1>1, <1>i
<1>2. CASE e \in StillRefused(links')
  BY <1>2, <1>i DEF StillRefused
<1>3. CASE IsAt("connect", "called") /\ Unwind /\ e \in KeptBy(stack[1])
  <2> DEFINE s == stack[1].self
             o == stack[1].other
  <2>1. /\ thrown /\ stack # <<>> /\ s \in Ports
        /\ links' = [links EXCEPT ![s] =
                        IF ~Managed(s) THEN @ ELSE IF Exclusive(s) THEN {} ELSE @ \ {o}]
    BY <1>3, <1>i, UnwindDoes DEF IsAt
  <2>2. e = <<s, o>> /\ ~Managed(s)
    BY <1>3 DEF KeptBy
  <2>3. links' = links
    BY <1>i, <2>1, <2>2 DEF TypeOK
  <2>4. /\ s \notin links[o] /\ Kind[s] = "producer" /\ Kind[o] = "single"
        /\ links = [before EXCEPT ![s] = @ \cup {o}]
    BY <1>i, <2>1, <2>2 DEF Progress, OnlyRecorded
  <2>5. o \in links[s]
    BY <1>i, <2>1, <2>4 DEF TypeOK
  <2> QED
    BY <2>2, <2>3, <2>4, <2>5
<1> QED
  BY <1>1, <1>2, <1>3, <1>i, RefusedMoves

\* A call that fails has recorded one connection at most, and erases it; a producer
\* does not erase the Single consumer that has refused it.
LEMMA NextFailed ==
    PortConnectionsInv /\ TypeOK' /\ [Next]_vars => FailedConnectLeavesAtMostARefusal'
<1> DEFINE Kept(p, x, l, b) ==
        /\ Kind[p] = "producer" /\ Kind[x] = "single"
        /\ l[x] \notin {{}, {p}}
        /\ l = [b EXCEPT ![p] = @ \cup {x}]
<1> SUFFICES ASSUME PortConnectionsInv, TypeOK', [Next]_vars, stack' = <<>>, thrown'
             PROVE  IF <<call.self, call.other>>' \in refused'
                    THEN Kept(call'.self, call'.other, links', before')
                    ELSE links' = before'
  BY DEF FailedConnectLeavesAtMostARefusal, AtRest, Refused
<1>i. /\ TypeOK /\ AtMostOne /\ CallIsOutermost /\ Progress /\ RefusedAreKept
      /\ FailedConnectLeavesAtMostARefusal
  BY DEF PortConnectionsInv
<1>t. links \in [Ports -> SUBSET Ports] /\ before \in [Ports -> SUBSET Ports]
  BY <1>i DEF TypeOK
<1> DEFINE s == stack[1].self
           o == stack[1].other
<1>1. CASE Step
  <2>1. /\ Refuse \/ Connected \/ Unwind \/ Disconnected \/ Left
        /\ stack # <<>> /\ Len(stack) = 1
        /\ s = call.self /\ o = call.other /\ UNCHANGED <<call, before>>
    BY <1>1, <1>i, LastReturn
  <2>2. CASE Refuse
    <3>1. /\ IsAt("connect", "enter") /\ o \notin links[s] /\ Refuses(s, o)
          /\ UNCHANGED <<links, refused>>
      BY <1>i, <2>2, RefuseDoes DEF Refuse
    <3>2. ~Mated(s, o)
      BY <3>1, MatedFacts DEF IsAt, Refuses
    <3>3. links' = before'
      BY <1>i, <2>1, <3>1, <3>2 DEF IsAt, Progress
    <3>4. <<s, o>> \notin refused'
      BY <1>i, <3>1 DEF RefusedAreKept
    <3> QED
      BY <2>1, <3>3, <3>4
  <2>3. CASE Unwind
    <3>1. /\ IsAt("connect", "called") /\ thrown
          /\ links' = [links EXCEPT ![s] =
                          IF ~Managed(s) THEN @ ELSE IF Exclusive(s) THEN {} ELSE @ \ {o}]
          /\ refused' = StillRefused(links') \cup KeptBy(stack[1])
      <4>1. Top = stack[1]
        BY <1>i, <2>3, IsAtLemma DEF Unwind
      <4> QED
        BY <1>i, <2>3, <4>1, UnwindDoes DEF Unwind
    <3>2. /\ s \in Ports /\ o \in Ports /\ OnlyRecorded(stack[1])
          /\ s \notin links[o] /\ Refuses(o, s)
          /\ ~Managed(s) => Kind[s] = "producer" /\ Kind[o] = "single"
      BY <1>i, <2>1, <3>1 DEF IsAt, Progress
    <3>4. o \notin before[s] /\ links = [before EXCEPT ![s] = @ \cup {o}]
      BY <3>2 DEF OnlyRecorded
    <3>5. CASE Managed(s)
      <4>1. Exclusive(s) => links[s] \ {o} = {}
        BY <1>i, <1>t, <3>2, <3>4 DEF AtMostOne
      <4>2. links' = [links EXCEPT ![s] = @ \ {o}]
        BY <3>1, <3>5, <4>1
      <4>3. before[s] = (before[s] \cup {o}) \ {o}
        BY <3>4
      <4>4. links' = before'
        BY <1>t, <2>1, <3>2, <3>4, <4>2, <4>3
      <4>5. o \notin links'[s]
        BY <1>t, <3>2, <4>2
      <4>6. <<s, o>> \notin refused'
        BY <3>1, <3>5, <4>5 DEF StillRefused, KeptBy
      <4> QED
        BY <2>1, <4>4, <4>6
    <3>6. CASE ~Managed(s)
      <4>1. links' = links
        BY <1>t, <3>1, <3>2, <3>6
      <4>2. links[o] # {}
        BY <3>2, <3>6, CastsFacts DEF Refuses, Consumers
      <4>3. links[o] # {s}
        BY <3>2
      <4>4. Kept(call'.self, call'.other, links', before')
        BY <2>1, <3>2, <3>4, <3>6, <4>1, <4>2, <4>3
      <4>5. <<s, o>> \in refused'
        BY <3>1, <3>6 DEF KeptBy
      <4> QED
        BY <2>1, <4>4, <4>5
    <3> QED
      BY <3>5, <3>6
  <2>4. CASE Connected \/ Disconnected \/ Left
    BY <2>4 DEF Connected, Disconnected, Left, Runs
  <2> QED
    BY <2>1, <2>2, <2>3, <2>4
<1>2. ASSUME NEW c \in Calls, Call(c) PROVE FALSE
  BY <1>2 DEF Call
<1>3. CASE \E c \in Calls : Request(c)
  <2>1. PICK c \in Calls : Request(c)
    BY <1>3
  <2>2. links' = before' /\ call' = c /\ c.other = None /\ refused' = refused
    BY <2>1, PortConnectionsAssumption DEF Request
  <2>3. <<c.self, None>> \notin refused
    BY <1>i, PortConnectionsAssumption DEF TypeOK
  <2> QED
    BY <2>2, <2>3
<1>4. CASE UNCHANGED <<links, stack, thrown, call, before, refused>>
  BY <1>4, <1>i DEF FailedConnectLeavesAtMostARefusal, AtRest, Refused
<1> QED
  BY <1>1, <1>2, <1>3, <1>4 DEF Next, vars, Send

\* What disconnect() has left, nobody else counts as connected.
LEMMA NextIsolates ==
    PortConnectionsInv /\ TypeOK' /\ OneSidedIsSettled' /\ [Next]_vars => DisconnectIsolates'
<1> SUFFICES ASSUME PortConnectionsInv, TypeOK', OneSidedIsSettled', [Next]_vars,
                    stack' = <<>>, call'.fn = "disconnectAll"
             PROVE  /\ links'[call'.self] = {}
                    /\ \A x \in Ports : call'.self \in links'[x] => <<x, call'.self>> \in refused'
  BY DEF DisconnectIsolates, AtRest, Refused
<1>i. TypeOK /\ CallIsOutermost /\ ToldIsRecorded /\ DisconnectIsolates
  BY DEF PortConnectionsInv
<1>1. CASE Step
  <2>1. /\ Refuse \/ Connected \/ Unwind \/ Disconnected \/ Left
        /\ stack # <<>> /\ Len(stack) = 1
        /\ stack[1].fn = "disconnectAll" /\ stack[1].self = call.self /\ call' = call
    BY <1>1, <1>i, LastReturn
  <2>2. Left
    BY <1>i, <2>1, RefuseDoes, ConnectedDoes, UnwindDoes, DisconnectedDoes DEF IsAt
  <2>3. /\ stack[1].at = "loop" /\ UNCHANGED links /\ call.self \in Ports
    BY <1>i, <2>1, <2>2, LeftDoes DEF IsAt
  <2>4. 1 \in DOMAIN stack
    BY <1>i, <2>1, SeqDomain DEF TypeOK
  <2>5. links'[call.self] = {}
    BY <1>i, <2>1, <2>3, <2>4 DEF ToldIsRecorded, IsRecorded
  <2>6. ASSUME NEW x \in Ports, call.self \in links'[x]
        PROVE  <<x, call.self>> \in refused'
    <3>1. ~OneSided(x, call.self)'
      BY <2>1, <2>3 DEF OneSidedIsSettled
    <3> QED
      BY <2>1, <2>5, <2>6, <3>1 DEF OneSided, Refused
  <2> QED
    BY <2>1, <2>5, <2>6
<1>2. ASSUME NEW c \in Calls, Call(c) PROVE FALSE
  BY <1>2 DEF Call
<1>3. ASSUME NEW c \in Calls, Request(c) PROVE FALSE
  BY <1>3 DEF Request
<1>4. CASE UNCHANGED <<links, stack, call, refused>>
  BY <1>4, <1>i DEF DisconnectIsolates, AtRest, Refused
<1> QED
  BY <1>1, <1>2, <1>3, <1>4 DEF Next, vars, Send

\* Those who answer a port are those it is connected to.
LEMMA ConnectedAnswer ==
    ASSUME PortConnectionsInv, stack = <<>>, NEW p \in Ports, Kind[p] \in Asking
    PROVE  Answerers(p) = links[p]
<1>1. TypeOK /\ LinksFit /\ OneSidedIsSettled /\ KeysAreSettled /\ RefusedAreKept
  BY DEF PortConnectionsInv
<1>2. CASE Kind[p] = "requester"
  BY <1>2 DEF Answerers
<1>3. CASE Kind[p] = "multiRequester"
  <2>1. Answerers(p) = keyed[p] /\ Keys(p)
    BY <1>3 DEF Answerers, Keys
  <2>2. keyed[p] \subseteq Ports /\ links[p] \subseteq Ports
    BY <1>1 DEF TypeOK
  <2>3. \A x \in Ports : x \in links[p] <=> x \in keyed[p]
    BY <1>1, <2>1 DEF KeysAreSettled, Lacks, Retains
  <2> QED
    BY <2>1, <2>2, <2>3
<1>4. CASE Kind[p] = "client"
  <2>1. \A h \in links[p] : h \in Ports /\ ~Refused(p, h)
    BY <1>1, <1>4 DEF TypeOK, RefusedAreKept, Refused
  <2>2. \A h \in links[p] : p \in links[h]
    BY <1>1, <2>1 DEF OneSidedIsSettled, OneSided
  <2> QED
    BY <1>4, <2>2 DEF Answerers, OpenHosts
<1> QED
  BY <1>2, <1>3, <1>4 DEF Asking

\* A port that asks is answered by those it is connected to.
LEMMA NextServed ==
    PortConnectionsInv /\ TypeOK' /\ [Next]_vars => ConnectedIsServed'
<1> SUFFICES ASSUME PortConnectionsInv, TypeOK', [Next]_vars, stack' = <<>>, call'.fn = "request"
             PROVE  ConnectedIsServed'
  BY DEF ConnectedIsServed, AtRest
<1>i. TypeOK /\ CallIsOutermost /\ ConnectedIsServed
  BY DEF PortConnectionsInv
<1>1. CASE Step
  <2>1. stack # <<>> /\ stack[1].fn = "request"
    BY <1>1, <1>i, LastReturn
  <2> QED
    BY <1>i, <2>1, TopTyped DEF Functions
<1>2. ASSUME NEW c \in Calls, Call(c) PROVE FALSE
  BY <1>2 DEF Call
<1>3. ASSUME NEW c \in Calls, Request(c) PROVE ConnectedIsServed'
  <2>1. /\ stack = <<>> /\ call' = c /\ c.self \in Ports /\ Kind[c.self] \in Asking
        /\ UNCHANGED <<links, keyed>>
    BY <1>3, <1>i, RequestDoes
  <2>2. Answerers(c.self) = links[c.self]
    BY <2>1, ConnectedAnswer
  <2>3. thrown' = (links[c.self] = {} /\ Kind[c.self] # "multiRequester")
    <3>1. thrown' = (Answerers(c.self) = {} /\ Kind[c.self] # "multiRequester")
      BY <1>3, <1>i, RequestDoes, Zenon
    <3> QED
      BY <2>2, <3>1, Zenon
  <2>4. Answerers(c.self)' = links'[c.self]
    <3>1. Answerers(c.self)' = Answerers(c.self)
      BY <2>1 DEF Answerers, OpenHosts
    <3> QED
      BY <2>1, <2>2, <3>1
  <2> QED
    BY <2>1, <2>3, <2>4, Zenon DEF ConnectedIsServed
<1>4. ASSUME NEW q \in Ports, Send(q) PROVE ConnectedIsServed'
  <2> DEFINE p == call.self
  <2>1. /\ stack = <<>> /\ call' = call /\ UNCHANGED <<links, thrown>>
        /\ \A x \in Ports : Kind[x] # "multi" => keyed'[x] = keyed[x]
    BY <1>4 DEF Send, AtRest
  <2>2. call.fn = "request" /\ p \in Ports /\ Kind[p] \in Asking
    BY <1>i, <2>1, PortConnectionsAssumption DEF TypeOK, NoCall, CallSet
  <2>3. Answerers(p)' = Answerers(p)
    BY <2>1, <2>2 DEF Answerers, OpenHosts, Asking
  <2>4. /\ thrown = (links[p] = {} /\ Kind[p] # "multiRequester")
        /\ Answerers(p) = links[p]
    BY <1>i, <2>1, <2>2, Zenon DEF ConnectedIsServed, AtRest
  <2> QED
    BY <2>1, <2>3, <2>4, Zenon DEF ConnectedIsServed
<1>5. CASE UNCHANGED vars
  BY <1>5, <1>i DEF vars, ConnectedIsServed, AtRest, Answerers, OpenHosts
<1> QED
  BY <1>1, <1>2, <1>3, <1>4, <1>5 DEF Next

-----------------------------------------------------------------------------
\* The invariant, and what it says of the ports.

\* Without ports connected and without calls there is nothing to explain.
LEMMA InitInv == Init => PortConnectionsInv
<1> SUFFICES ASSUME Init PROVE PortConnectionsInv
  OBVIOUS
<1>1. stack = <<>> /\ DOMAIN stack = {} /\ Len(stack) = 0
  BY DEF Init
<1>2. TypeOK
  <2>1. call \in Calls \cup {NoCall}
    BY DEF Init
  <2>2. stack \in Seq(FrameSet)
    BY <1>1
  <2> QED
    BY <1>1, <2>1, <2>2 DEF Init, TypeOK
<1>3. LinksFit /\ AtMostOne
  BY DEF Init, LinksFit, AtMostOne
<1>4. ConnectsComeFirst /\ ToldIsRecorded /\ CallIsOutermost
  BY <1>1 DEF ConnectsComeFirst, ToldIsRecorded, CallIsOutermost
<1>5. OneSidedIsSettled /\ KeysAreSettled
  BY DEF Init, OneSidedIsSettled, OneSided, KeysAreSettled, Lacks, Retains
<1>6. Progress /\ RefusedAreKept
  BY <1>1 DEF Init, Progress, RefusedAreKept
<1>7. FailedConnectLeavesAtMostARefusal /\ DisconnectIsolates /\ ConnectedIsServed
  BY DEF Init, NoCall, FailedConnectLeavesAtMostARefusal, DisconnectIsolates, ConnectedIsServed
<1> QED
  BY <1>2, <1>3, <1>4, <1>5, <1>6, <1>7 DEF PortConnectionsInv

\* Every step keeps the invariant.
LEMMA NextInv == PortConnectionsInv /\ [Next]_vars => PortConnectionsInv'
<1> SUFFICES ASSUME PortConnectionsInv, [Next]_vars PROVE PortConnectionsInv'
  OBVIOUS
<1>1. TypeOK'
  BY NextTyped DEF PortConnectionsInv
<1>2. LinksFit' /\ AtMostOne'
  BY NextLinks DEF PortConnectionsInv
<1>3. ConnectsComeFirst'
  BY <1>1, NextOrder DEF PortConnectionsInv
<1>4. ToldIsRecorded'
  BY <1>1, NextTold DEF PortConnectionsInv
<1>5. OneSidedIsSettled' /\ KeysAreSettled'
  BY <1>1, NextSettled, NextKeys
<1>6. CallIsOutermost' /\ Progress' /\ RefusedAreKept'
  BY <1>1, NextOutermost, NextProgress, NextRefusedKept DEF PortConnectionsInv
<1>7. FailedConnectLeavesAtMostARefusal' /\ DisconnectIsolates' /\ ConnectedIsServed'
  BY <1>1, <1>5, NextFailed, NextIsolates, NextServed
<1> QED
  BY <1>1, <1>2, <1>3, <1>4, <1>5, <1>6, <1>7 DEF PortConnectionsInv

\* Every connection that only one side has is explained by a call in progress,
\* whatever calls are made from outside and however the two sides call each other.
THEOREM PortConnectionsSafety == Spec => []PortConnectionsInv
BY InitInv, NextInv, PTL DEF Spec

\* When no call is in progress the two sides agree, but for a producer that a
\* Single consumer has refused.
THEOREM SidesAgree == Spec => []Symmetric
<1>1. PortConnectionsInv => Symmetric
  BY DEF PortConnectionsInv, OneSidedIsSettled, OneSided, Symmetric, AtRest
<1> QED
  BY <1>1, PortConnectionsSafety, PTL

\* popAll() waits for the producers the port has, and request() asks the
\* responders it is connected to: what connect(), disconnect() and the pushes of
\* the producers do to the queues agrees.
THEOREM QueuesAreThoseOfTheProducers == Spec => []QueuesMatchConnections
<1>1. PortConnectionsInv => QueuesMatchConnections
  <2> SUFFICES ASSUME PortConnectionsInv, stack = <<>>, NEW p \in Ports, Keys(p)
               PROVE  keyed[p] = links[p]
    BY DEF QueuesMatchConnections, AtRest
  <2>1. keyed[p] \subseteq Ports /\ links[p] \subseteq Ports
    BY DEF PortConnectionsInv, TypeOK
  <2>2. \A x \in Ports : x \in links[p] <=> x \in keyed[p]
    BY DEF PortConnectionsInv, KeysAreSettled, Lacks, Retains
  <2> QED
    BY <2>1, <2>2
<1> QED
  BY <1>1, PortConnectionsSafety, PTL

\* connect() that throws has connected nothing, but for the record of the producer
\* that a Single consumer has refused, because it has another producer.
THEOREM FailedConnectLeavesNoMore == Spec => []FailedConnectLeavesAtMostARefusal
BY PortConnectionsSafety, PTL DEF PortConnectionsInv

\* What disconnect() was called for is disconnected, on both sides, but for the
\* producers that the port has refused.
THEOREM DisconnectedIsAlone == Spec => []DisconnectIsolates
BY PortConnectionsSafety, PTL DEF PortConnectionsInv

\* A port that says isConnected() is served when it asks.
THEOREM ConnectedPortIsServed == Spec => []ConnectedIsServed
BY PortConnectionsSafety, PTL DEF PortConnectionsInv

-----------------------------------------------------------------------------
\* What a call changes.

\* The frame at j was there before the step, with the same ports to call or with
\* todo.
WasThere(j, todo) ==
    \E i \in DOMAIN stack :
        /\ stack'[j].fn = stack[i].fn
        /\ stack'[j].self = stack[i].self /\ stack'[j].other = stack[i].other
        /\ stack'[j].todo \in {stack[i].todo, todo}

\* Every call on the stack was there before the step or has just been made.
LEMMA MovesKeepCalls ==
    ASSUME TypeOK, TypeOK', stack # <<>>, NEW j \in DOMAIN stack'
    PROVE  /\ \A at, todo : Replaces(at, todo) => WasThere(j, todo)
           /\ Pops => WasThere(j, {})
           /\ \A at, todo, fn, q, y :
                Pushes(at, todo, fn, q, y) => WasThere(j, todo) \/ stack'[j] = Frame(fn, q, y)
<1>d. /\ Len(stack) \in Nat /\ Len(stack) >= 1 /\ DOMAIN stack = 1..Len(stack)
      /\ Len(stack') \in Nat /\ DOMAIN stack' = 1..Len(stack')
  BY TopTyped, SeqDomain DEF TypeOK
<1>1. ASSUME NEW at, NEW todo, Replaces(at, todo) PROVE WasThere(j, todo)
  <2>1. j \in DOMAIN stack
    BY <1>1, <1>d DEF Replaces
  <2>2. CASE j = 1
    BY <1>1, <2>1, <2>2 DEF Replaces, WasTop, WasThere
  <2>3. CASE j # 1
    <3>1. stack'[j] = stack[j]
      BY <1>1, <1>d, <2>1, <2>3 DEF Replaces
    <3> QED
      BY <2>1, <3>1 DEF WasThere
  <2> QED
    BY <2>2, <2>3
<1>2. ASSUME Pops PROVE WasThere(j, {})
  <2>1. j + 1 \in DOMAIN stack /\ stack'[j] = stack[j + 1]
    BY <1>2, <1>d DEF Pops
  <2> QED
    BY <2>1 DEF WasThere
<1>3. ASSUME NEW at, NEW todo, NEW fn, NEW q, NEW y, Pushes(at, todo, fn, q, y)
      PROVE  WasThere(j, todo) \/ stack'[j] = Frame(fn, q, y)
  <2>1. CASE j = 1
    BY <1>3, <2>1 DEF Pushes
  <2>2. CASE j = 2
    <3>1. 1 \in DOMAIN stack
      BY <1>d
    <3> QED
      BY <1>3, <2>2, <3>1 DEF Pushes, WasTop, WasThere
  <2>3. CASE j \in 3..Len(stack')
    <3>1. j - 1 \in DOMAIN stack /\ stack'[j] = stack[j - 1]
      BY <1>3, <1>d, <2>3 DEF Pushes
    <3> QED
      BY <3>1 DEF WasThere
  <2> QED
    BY <1>d, <2>1, <2>2, <2>3
<1> QED
  BY <1>1, <1>2, <1>3

\* connect() stays with the two ports, if neither is a client.
LEMMA NextConnectLocal ==
    ASSUME PortConnectionsInv, TypeOK', ConnectIsLocal, [Next]_vars
    PROVE  ConnectIsLocal'
<1>i. TypeOK /\ AtMostOne /\ Progress
  BY DEF PortConnectionsInv
<1>t. links \in [Ports -> SUBSET Ports] /\ before \in [Ports -> SUBSET Ports]
  BY <1>i DEF TypeOK
<1>1. CASE Step
  <2>1. stack # <<>> /\ UNCHANGED <<call, before>>
    BY <1>1, <1>i, StepMoves
  <2> SUFFICES ASSUME ConnectIsTame PROVE ConnectIsLocal'
    BY <2>1 DEF ConnectIsLocal, ConnectIsTame
  <2>f. \A i \in DOMAIN stack : stack[i].fn = "connect" /\ IsNamed(stack[i].self, stack[i].other)
    BY DEF ConnectIsLocal
  <2>l. \A p, x \in Ports :
            /\ x \in before[p] => x \in links[p]
            /\ x \in links[p] /\ x \notin before[p] => IsNamed(p, x)
    BY DEF ConnectIsLocal
  <2>n. \A p, x : IsNamed(p, x)' <=> IsNamed(p, x)
    BY <2>1 DEF IsNamed
  <2>d. 1 \in DOMAIN stack
    BY <1>i, <2>1, TopTyped, SeqDomain
  <2>2. stack[1].fn = "connect" /\ IsNamed(stack[1].self, stack[1].other)
    BY <2>d, <2>f
  <2>3. ~LeaveFirst
    <3>1. Kind[stack[1].self] # "client"
      BY <2>2 DEF ConnectIsTame, IsNamed
    <3>2. LeaveFirst => Top = stack[1]
      BY <1>i, IsAtLemma DEF LeaveFirst, Runs
    <3> QED
      BY <3>1, <3>2 DEF LeaveFirst
  <2>b. ASSUME NEW j \in DOMAIN stack', NEW todo, WasThere(j, todo)
        PROVE  stack'[j].fn = "connect" /\ IsNamed(stack'[j].self, stack'[j].other)
    BY <2>b, <2>f DEF WasThere
  <2>4. ASSUME NEW j \in DOMAIN stack'
        PROVE  stack'[j].fn = "connect" /\ IsNamed(stack'[j].self, stack'[j].other)
    <3>1. CASE Record
      <4>1. Pushes("called", {}, "connect", stack[1].other, stack[1].self)
        BY <1>i, <3>1, RecordDoes
      <4>2. CASE stack'[j] = Frame("connect", stack[1].other, stack[1].self)
        BY <2>2, <4>2 DEF Frame, IsNamed
      <4> QED
        BY <1>i, <2>1, <2>b, <4>1, <4>2, MovesKeepCalls
    <3>2. CASE ~Record
      <4>1. (\E at, todo : Replaces(at, todo)) \/ Pops
        BY <1>1, <1>i, <2>2, <2>3, <3>2, ConnectAgainDoes, RefuseDoes, ConnectedDoes, UnwindDoes,
           DisconnectAgainDoes, EraseDoes, LeaveTheOneDoes, DisconnectedDoes, TakeAllDoes,
           LeaveDoes, LeftDoes DEF Step, IsAt
      <4> QED
        BY <1>i, <2>1, <2>b, <4>1, MovesKeepCalls
    <3> QED
      BY <3>1, <3>2
  <2>5. ASSUME NEW p \in Ports, NEW x \in Ports
        PROVE  /\ x \in before[p] => x \in links'[p]
               /\ x \in links'[p] /\ x \notin before[p] => IsNamed(p, x)
    <3>1. CASE Record
      <4>1. stack[1].self \in Ports
            /\ links' = [links EXCEPT ![stack[1].self] = @ \cup {stack[1].other}]
        BY <1>i, <3>1, RecordDoes DEF IsAt
      <4> QED
        BY <1>t, <2>2, <2>l, <4>1
    <3>2. CASE Unwind
      <4> DEFINE s == stack[1].self
                 o == stack[1].other
      <4>1. /\ IsAt("connect", "called") /\ thrown
            /\ links' = [links EXCEPT ![s] =
                            IF ~Managed(s) THEN @ ELSE IF Exclusive(s) THEN {} ELSE @ \ {o}]
        BY <1>i, <3>2, UnwindDoes
      <4>2. s \in Ports /\ o \in Ports /\ o \notin before[s] /\ o \in links[s]
        BY <1>i, <1>t, <4>1 DEF IsAt, Progress, OnlyRecorded
      <4>3. Exclusive(s) => links[s] \ {o} = {}
        BY <1>i, <1>t, <4>2 DEF AtMostOne
      <4>4. links'[p] = IF p = s /\ Managed(s) THEN links[p] \ {o} ELSE links[p]
        BY <1>t, <4>1, <4>3
      <4> QED
        BY <2>l, <4>2, <4>4
    <3>3. CASE UNCHANGED links
      BY <2>l, <3>3
    <3> QED
      BY <1>1, <1>i, <2>2, <3>1, <3>2, <3>3, EraseDoes, TakeAllDoes
      DEF Step, IsAt, ConnectAgain, Refuse, LeaveFirst, Connected, DisconnectAgain, LeaveTheOne,
          Disconnected, Leave, Left
  <2> QED
    BY <2>1, <2>4, <2>5, <2>n DEF ConnectIsLocal
<1>2. ASSUME NEW c \in Calls, Call(c) PROVE ConnectIsLocal'
  <2>1. /\ stack' \in Seq(FrameSet) /\ Len(stack') = 1 /\ stack'[1] = Frame(c.fn, c.self, c.other)
        /\ call' = c /\ links' = links /\ before' = links
    BY <1>2, <1>i, CallDoes
  <2>2. DOMAIN stack' = {1}
    BY <2>1, SeqDomain
  <2> QED
    BY <2>1, <2>2 DEF ConnectIsLocal, ConnectIsTame, IsNamed, Frame
<1>3. ASSUME NEW c \in Calls, Request(c) PROVE ConnectIsLocal'
  BY <1>3 DEF Request, ConnectIsLocal, ConnectIsTame
<1>4. CASE UNCHANGED <<links, stack, call, before>>
  BY <1>4 DEF ConnectIsLocal, ConnectIsTame, IsNamed
<1> QED
  BY <1>1, <1>2, <1>3, <1>4 DEF Next, vars, Send

\* disconnect() stays with the connections it is called for, if none of their ports
\* holds one port, and it is not a producer that leaves all its consumers.
LEMMA NextDisconnectLocal ==
    ASSUME PortConnectionsInv, TypeOK', DisconnectIsLocal, [Next]_vars
    PROVE  DisconnectIsLocal'
<1>i. TypeOK /\ AtMostOne /\ CallIsOutermost
  BY DEF PortConnectionsInv
<1>t. links \in [Ports -> SUBSET Ports] /\ before \in [Ports -> SUBSET Ports]
  BY <1>i DEF TypeOK
<1>1. CASE Step
  <2>1. stack # <<>> /\ UNCHANGED <<call, before>>
    BY <1>1, <1>i, StepMoves
  <2> SUFFICES ASSUME DisconnectIsTame PROVE DisconnectIsLocal'
    BY <2>1 DEF DisconnectIsLocal, DisconnectIsTame, CalledFor
  <2>t. /\ call.fn \in {"disconnect", "disconnectAll"}
        /\ \A p \in {call.self} \cup CalledFor : ~HoldsOne(p)
        /\ call.fn = "disconnectAll" => Kind[call.self] # "producer"
    BY DEF DisconnectIsTame
  <2> DEFINE Local(fn, p, x) ==
                 \/ fn = "disconnect" /\ IsNamed(p, x)
                 \/ fn = "disconnectAll" /\ call.fn = "disconnectAll" /\ p = call.self
             Free(S) == \A x \in S : ~HoldsOne(x)
             Fine(f) == Local(f.fn, f.self, f.other) /\ ~HoldsOne(f.self) /\ Free(f.todo)
  <2>f. \A i \in DOMAIN stack : Fine(stack[i])
    BY DEF DisconnectIsLocal
  <2>l. \A p, x \in Ports :
            /\ x \in links[p] => x \in before[p]
            /\ x \in before[p] /\ x \notin links[p] => IsNamed(p, x)
    BY DEF DisconnectIsLocal
  <2>n. \A p, x : IsNamed(p, x)' <=> IsNamed(p, x)
    BY <2>1 DEF IsNamed
  <2>d. 1 \in DOMAIN stack /\ Fine(stack[1])
    BY <1>i, <2>1, <2>f, TopTyped, SeqDomain
  <2>2. Local(stack[1].fn, stack[1].self, stack[1].other)
    BY <2>d
  <2>3. stack[1].fn # "connect"
    BY <2>2
  <2>a. \/ DisconnectAgain \/ Erase \/ Disconnected \/ TakeAll \/ Leave \/ Left
    BY <1>1, <1>i, <2>3, <2>d, ConnectAgainDoes, RefuseDoes, LeaveFirstDoes, RecordDoes,
       ConnectedDoes, UnwindDoes, LeaveTheOneDoes DEF Step, IsAt
  <2>b. ASSUME NEW j \in DOMAIN stack', NEW todo, Free(todo), WasThere(j, todo)
        PROVE  Fine(stack'[j])
    BY <2>b, <2>f DEF WasThere
  <2>4. ASSUME NEW j \in DOMAIN stack'
        PROVE  Fine(stack'[j])
    <3> HIDE DEF Local, Fine
    <3>1. CASE Erase
      <4>1. /\ Pushes("called", {}, "disconnect", stack[1].other, stack[1].self)
            /\ stack[1].fn = "disconnect" /\ stack[1].self \in Ports /\ stack[1].other \in Ports
            /\ stack[1].other \in links[stack[1].self]
        BY <1>i, <3>1, EraseDoes DEF IsAt
      <4>2. CASE stack'[j] = Frame("disconnect", stack[1].other, stack[1].self)
        <5>1. IsNamed(stack[1].self, stack[1].other)
          BY <2>2, <4>1 DEF Local
        <5>2. stack[1].other \in before[stack[1].self]
          BY <2>l, <4>1
        <5>3. ~HoldsOne(stack[1].self)
          BY <2>d DEF Fine
        <5>4. ~HoldsOne(stack[1].other)
          <6>1. CASE stack[1].other = call.self
            BY <2>t, <6>1
          <6>2. CASE stack[1].other # call.self
            <7>1. stack[1].self = call.self
                  /\ (call.fn = "disconnect" => stack[1].other = call.other)
              BY <5>1, <6>2 DEF IsNamed
            <7>2. stack[1].other \in CalledFor
              BY <2>t, <5>2, <7>1 DEF CalledFor
            <7> QED
              BY <2>t, <7>2
          <6> QED
            BY <6>1, <6>2
        <5> QED
          BY <4>2, <5>1, <5>4 DEF Frame, IsNamed, Local, Fine
      <4> QED
        BY <1>i, <2>1, <2>b, <4>1, <4>2, MovesKeepCalls
    <3>2. CASE Leave
      <4>1. PICK x \in stack[1].todo :
                /\ IsAt("disconnectAll", "loop")
                /\ IF Managed(stack[1].self)
                   THEN Pushes("loop", stack[1].todo \ {x}, "disconnect", x, stack[1].self)
                   ELSE Pushes("loop", stack[1].todo \ {x}, "disconnectAll", x, None)
        BY <1>i, <3>2, LeaveDoes
      <4>2. call.fn = "disconnectAll" /\ stack[1].self = call.self /\ stack[1].self \in Ports
        BY <2>2, <4>1 DEF Local, IsAt
      <4>3. Managed(stack[1].self)
        BY <2>t, <4>2, KindFacts
      <4>4. CASE stack'[j] = Frame("disconnect", x, stack[1].self)
        <5>1. ~HoldsOne(x)
          BY <2>d DEF Fine
        <5> QED
          BY <4>2, <4>4, <5>1 DEF Frame, IsNamed, Local, Fine
      <4>5. Free(stack[1].todo \ {x})
        BY <2>d DEF Fine
      <4> QED
        BY <1>i, <2>1, <2>b, <4>1, <4>3, <4>4, <4>5, MovesKeepCalls
    <3>3. CASE TakeAll
      <4>1. /\ Replaces("loop", links[stack[1].self]) /\ stack[1].self \in Ports
            /\ stack[1].fn = "disconnectAll"
        BY <1>i, <3>3, TakeAllDoes DEF IsAt
      <4>2. stack[1].self = call.self /\ call.fn = "disconnectAll"
        BY <2>2, <4>1 DEF Local
      <4>3. links[call.self] \subseteq CalledFor
        BY <1>t, <2>l, <4>1, <4>2 DEF CalledFor
      <4>4. Free(links[stack[1].self])
        BY <2>t, <4>2, <4>3
      <4> QED
        BY <1>i, <2>1, <2>b, <4>1, <4>4, MovesKeepCalls
    <3>4. CASE DisconnectAgain \/ Disconnected \/ Left
      <4>1. Replaces("called", stack[1].todo) \/ Pops
        BY <1>i, <3>4, DisconnectAgainDoes, DisconnectedDoes, LeftDoes
      <4>2. Free({}) /\ Free(stack[1].todo)
        BY <2>d DEF Fine
      <4> QED
        BY <1>i, <2>1, <2>b, <4>1, <4>2, MovesKeepCalls
    <3> QED
      BY <2>a, <3>1, <3>2, <3>3, <3>4
  <2>5. ASSUME NEW p \in Ports, NEW x \in Ports
        PROVE  /\ x \in links'[p] => x \in before[p]
               /\ x \in before[p] /\ x \notin links'[p] => IsNamed(p, x)
    <3>1. CASE Erase
      <4> DEFINE s == stack[1].self
                 o == stack[1].other
      <4>1. /\ IsAt("disconnect", "enter") /\ o \in links[s]
            /\ links' = [links EXCEPT ![s] = IF Exclusive(s) THEN {} ELSE @ \ {o}]
        BY <1>i, <3>1, EraseDoes
      <4>2. s \in Ports /\ IsNamed(s, o)
        BY <2>2, <4>1 DEF IsAt
      <4>3. Exclusive(s) => links[s] \ {o} = {}
        BY <1>i, <1>t, <4>1, <4>2 DEF AtMostOne
      <4>4. links'[p] = IF p = s THEN links[p] \ {o} ELSE links[p]
        BY <1>t, <4>1, <4>2, <4>3
      <4> QED
        BY <2>l, <4>2, <4>4
    <3>2. CASE TakeAll
      <4>1. stack[1].fn = "disconnectAll" /\ stack[1].self \in Ports
            /\ links' = [links EXCEPT ![stack[1].self] = {}]
        BY <1>i, <3>2, TakeAllDoes DEF IsAt
      <4>2. IsNamed(stack[1].self, x)
        BY <2>2, <4>1 DEF IsNamed
      <4> QED
        BY <1>t, <2>l, <4>1, <4>2
    <3>3. CASE UNCHANGED links
      BY <2>l, <3>3
    <3> QED
      BY <2>a, <3>1, <3>2, <3>3 DEF DisconnectAgain, Disconnected, Leave, Left
  <2> QED
    BY <2>1, <2>4, <2>5, <2>n DEF DisconnectIsLocal
<1>2. ASSUME NEW c \in Calls, Call(c) PROVE DisconnectIsLocal'
  <2>1. /\ stack' \in Seq(FrameSet) /\ Len(stack') = 1 /\ stack'[1] = Frame(c.fn, c.self, c.other)
        /\ call' = c /\ links' = links /\ before' = links
    BY <1>2, <1>i, CallDoes
  <2>2. DOMAIN stack' = {1}
    BY <2>1, SeqDomain
  <2> QED
    BY <2>1, <2>2 DEF DisconnectIsLocal, DisconnectIsTame, CalledFor, IsNamed, Frame
<1>3. ASSUME NEW c \in Calls, Request(c) PROVE DisconnectIsLocal'
  BY <1>3 DEF Request, DisconnectIsLocal, DisconnectIsTame
<1>4. CASE UNCHANGED <<links, stack, call, before>>
  BY <1>4 DEF DisconnectIsLocal, DisconnectIsTame, CalledFor, IsNamed
<1> QED
  BY <1>1, <1>2, <1>3, <1>4 DEF Next, vars, Send

\* A tame call makes no calls and no changes but those it is named for.
LEMMA LocalIsInvariant == Spec => [](PortConnectionsInv /\ LocalInv)
<1>1. Init => LocalInv
  BY DEF Init, NoCall, LocalInv, ConnectIsLocal, ConnectIsTame, DisconnectIsLocal, DisconnectIsTame
<1>2. PortConnectionsInv /\ LocalInv /\ [Next]_vars => LocalInv'
  <2> SUFFICES ASSUME PortConnectionsInv, LocalInv, [Next]_vars PROVE LocalInv'
    OBVIOUS
  <2>1. TypeOK'
    BY NextTyped DEF PortConnectionsInv
  <2> QED
    BY <2>1, NextConnectLocal, NextDisconnectLocal DEF LocalInv
<1> QED
  BY <1>1, <1>2, InitInv, NextInv, PTL DEF Spec

\* connect() takes no connection away, but for that of a client, which leaves the
\* host it has.
THEOREM ConnectTakesNothing == Spec => []ConnectLeavesOthersAlone
<1>1. PortConnectionsInv /\ LocalInv => ConnectLeavesOthersAlone
  <2> SUFFICES ASSUME PortConnectionsInv, LocalInv, ConnectIsTame, NEW p \in Ports
               PROVE  before[p] \subseteq links[p]
    BY DEF ConnectLeavesOthersAlone
  <2>1. before[p] \subseteq Ports
    BY DEF PortConnectionsInv, TypeOK
  <2>2. \A x \in Ports : x \in before[p] => x \in links[p]
    BY DEF LocalInv, ConnectIsLocal
  <2> QED
    BY <2>1, <2>2
<1> QED
  BY <1>1, LocalIsInvariant, PTL

\* disconnect() leaves the connections of other ports alone, unless it reaches a
\* requester, a client, or a producer that leaves all its consumers.
THEOREM DisconnectTakesItsOwn == Spec => []DisconnectLeavesOthersAlone
<1>1. PortConnectionsInv /\ LocalInv => DisconnectLeavesOthersAlone
  <2> SUFFICES ASSUME PortConnectionsInv, LocalInv, DisconnectIsTame,
                      NEW p \in Ports, NEW x \in Ports, x \in before[p], x \notin links[p]
               PROVE  /\ call.self \in {p, x}
                      /\ call.fn = "disconnect" => call.other \in {p, x}
    BY DEF DisconnectLeavesOthersAlone
  <2>1. IsNamed(p, x) /\ call.fn \in {"disconnect", "disconnectAll"}
    BY DEF LocalInv, DisconnectIsLocal, DisconnectIsTame
  <2> QED
    BY <2>1 DEF IsNamed
<1> QED
  BY <1>1, LocalIsInvariant, PTL

\* The calls on the stack and the changes made are those of the call from outside,
\* if it is a tame one.
THEOREM CallsAreLocal == Spec => []LocalInv
BY LocalIsInvariant, PTL

-----------------------------------------------------------------------------
\* The ports implement Connections.

TwoSided(l) == \A p, x \in Ports : x \in l[p] => p \in l[x]

\* No port is refused, and the connections before the call had two sides.
Wired == refused = {} /\ TwoSided(before)

\* The connections behind the records of the two sides, if they agree.
LEMMA EdgesOfFacts ==
    ASSUME NEW l \in [Ports -> SUBSET Ports], TwoSided(l)
    PROVE  /\ \A e : e \in EdgesOf(l) <=> \E p, x \in Ports : x \in l[p] /\ e = {p, x}
           /\ HalvesOf(l) = {}
<1>1. \A f : f \in PairsOf(l) <=> \E p, x \in Ports : x \in l[p] /\ f = <<p, x>>
  <2>1. ASSUME NEW p \in Ports, NEW x \in Ports, x \in l[p] PROVE <<p, x>> \in PairsOf(l)
    BY <2>1 DEF PairsOf
  <2>2. ASSUME NEW f \in PairsOf(l) PROVE \E p, x \in Ports : x \in l[p] /\ f = <<p, x>>
    <3>1. PICK p \in Ports : f \in {p} \X l[p]
      BY <2>2 DEF PairsOf
    <3>2. f = <<p, f[2]>> /\ f[2] \in l[p] /\ f[2] \in Ports
      BY <3>1
    <3> QED
      BY <3>2
  <2> QED
    BY <2>1, <2>2
<1> DEFINE S == {f \in PairsOf(l) : f[1] \in l[f[2]]}
<1>2. ASSUME NEW e PROVE e \in EdgesOf(l) <=> \E p, x \in Ports : x \in l[p] /\ e = {p, x}
  <2>1. ASSUME NEW f \in S, e = {f[1], f[2]} PROVE \E p, x \in Ports : x \in l[p] /\ e = {p, x}
    BY <1>1, <2>1
  <2>2. ASSUME NEW p \in Ports, NEW x \in Ports, x \in l[p], e = {p, x}
        PROVE  \E f \in S : e = {f[1], f[2]}
    <3>1. <<p, x>> \in S /\ <<p, x>>[1] = p /\ <<p, x>>[2] = x
      BY <1>1, <2>2 DEF TwoSided
    <3> QED
      BY <2>2, <3>1
  <2>3. e \in EdgesOf(l) <=> \E f \in S : e = {f[1], f[2]}
    BY DEF EdgesOf
  <2> QED
    BY <2>1, <2>2, <2>3
<1>3. HalvesOf(l) = {}
  BY <1>1 DEF HalvesOf, TwoSided
<1> QED
  BY <1>2, <1>3

\* The pairs that fit are those of which each side accepts the class of the other.
LEMMA FitsFacts ==
    ASSUME NEW p \in Ports, NEW x \in Ports
    PROVE  {p, x} \in FittingPairs <=> Casts(p, x) /\ Casts(x, p)
<1> DEFINE S == {f \in Ports \X Ports : Casts(f[1], f[2]) /\ Casts(f[2], f[1])}
<1>1. ASSUME Casts(p, x), Casts(x, p) PROVE \E e \in S : {p, x} = {e[1], e[2]}
  <2>1. <<p, x>> \in S /\ <<p, x>>[1] = p /\ <<p, x>>[2] = x
    BY <1>1
  <2> QED
    BY <2>1
<1>2. ASSUME NEW e \in S, {p, x} = {e[1], e[2]} PROVE Casts(p, x) /\ Casts(x, p)
  <2>1. (p = e[1] /\ x = e[2]) \/ (p = e[2] /\ x = e[1])
    BY <1>2
  <2> QED
    BY <2>1
<1>3. {p, x} \in FittingPairs <=> \E e \in S : {p, x} = {e[1], e[2]}
  BY DEF FittingPairs
<1> QED
  BY <1>1, <1>2, <1>3

\* Disciplined ports: none holds one other, and the exclusive ones are Single
\* consumers.
LEMMA DisciplinedFacts ==
    ASSUME Disciplined, NEW p \in Ports
    PROVE  /\ Kind[p] \notin {"client", "requester"} /\ ~HoldsOne(p)
           /\ Exclusive(p) => Kind[p] = "single"
BY DEF Disciplined, HoldsOne, Exclusive

\* When no call is in progress the two sides agree.
LEMMA WiredAtRest == PortConnectionsInv /\ Wired => (stack = <<>> => TwoSided(links))
BY DEF PortConnectionsInv, OneSidedIsSettled, OneSided, Refused, Wired, TwoSided

\* Disciplined calls refuse no producer: the exception leaves the connect() of a
\* ConnectionManager.
LEMMA NextWired ==
    ASSUME Disciplined, PortConnectionsInv, Wired, [Next]_vars
    PROVE  Wired'
<1>i. TypeOK /\ CallIsOutermost /\ Progress
  BY DEF PortConnectionsInv
<1>1. refused' = {}
  <2>1. CASE UNCHANGED refused
    BY <2>1 DEF Wired
  <2>2. CASE refused' = StillRefused(links')
    BY <2>2 DEF Wired, StillRefused
  <2>3. CASE IsAt("connect", "called") /\ Unwind /\ refused' = StillRefused(links') \cup KeptBy(stack[1])
    <3>1. thrown /\ stack # <<>> /\ stack[1].fn = "connect"
      BY <1>i, <2>3, UnwindDoes DEF IsAt
    <3>2. Len(stack) = 1
      BY <1>i, <3>1 DEF Progress
    <3>3. call.fn = "connect" /\ call.self = stack[1].self /\ call.other = stack[1].other
      BY <1>i, <3>1, <3>2 DEF CallIsOutermost
    <3>4. call \in Calls
      BY <1>i, <3>3 DEF TypeOK, NoCall
    <3>5. Managed(stack[1].self)
      BY <1>i, <3>1, <3>3, <3>4 DEF Progress, Disciplined
    <3> QED
      BY <2>3, <3>5 DEF KeptBy, StillRefused, Wired
  <2> QED
    BY <1>i, <2>1, <2>2, <2>3, RefusedMoves
<1>2. CASE UNCHANGED before
  BY <1>1, <1>2 DEF Wired, TwoSided
<1>3. ASSUME NEW c \in Calls, Call(c) \/ Request(c) PROVE Wired'
  <2>1. stack = <<>> /\ before' = links
    BY <1>3 DEF Call, Request, AtRest
  <2>2. TwoSided(links)
    BY <2>1, WiredAtRest
  <2> QED
    BY <1>1, <2>1, <2>2 DEF Wired, TwoSided
<1>4. CASE Step
  BY <1>2, <1>4, <1>i, StepMoves
<1> QED
  BY <1>2, <1>3, <1>4 DEF Next, vars, Send

\* A port that refuses the other cannot be connected to it.
LEMMA RefusesFacts ==
    ASSUME TypeOK, Wired, NEW p \in Ports, NEW x \in Ports, Refuses(p, x), x \notin before[p],
           links[p] = before[p]
    PROVE  \/ ~Casts(p, x)
           \/ Exclusive(p) /\ \E e \in EdgesOf(before) : p \in e /\ e # {p, x}
<1>1. CASE Exclusive(p) /\ links[p] # {}
  <2>1. PICK y \in before[p] : y \in Ports /\ y # x
    BY <1>1 DEF TypeOK
  <2>2. {p, y} \in EdgesOf(before)
    BY <2>1, EdgesOfFacts DEF TypeOK, Wired
  <2>3. {p, y} # {p, x}
    BY <2>1
  <2> QED
    BY <1>1, <2>2, <2>3
<1> QED
  BY <1>1 DEF Refuses

\* When connect() returns, the connection is there, or it could not be made and it
\* has thrown.
LEMMA ReturnOfConnect ==
    ASSUME Disciplined, PortConnectionsInv, LocalInv, Wired, PortConnectionsInv', LocalInv', Wired',
           Step, stack' = <<>>, call.fn = "connect"
    PROVE  LET Edge == {call.self, call.other}
               Connectable ==
                   /\ Casts(call.self, call.other) /\ Casts(call.other, call.self)
                   /\ \A p \in Edge : Exclusive(p) =>
                        \A e \in EdgesOf(before) : p \in e => e = Edge
           IN  /\ EdgesOf(links') = IF Connectable THEN EdgesOf(before) \cup {Edge} ELSE EdgesOf(before)
               /\ thrown' <=> ~Connectable
               /\ Edge \in EdgesOf(before) => ~thrown'
<1> DEFINE s == call.self
           o == call.other
           Edge == {s, o}
           Connectable ==
               /\ Casts(s, o) /\ Casts(o, s)
               /\ \A p \in Edge : Exclusive(p) => \A e \in EdgesOf(before) : p \in e => e = Edge
<1>i. TypeOK /\ CallIsOutermost /\ ToldIsRecorded /\ Progress /\ TypeOK' /\ LinksFit' /\ AtMostOne'
      /\ FailedConnectLeavesAtMostARefusal'
  BY DEF PortConnectionsInv
<1>t. links \in [Ports -> SUBSET Ports] /\ before \in [Ports -> SUBSET Ports]
      /\ links' \in [Ports -> SUBSET Ports]
  BY <1>i DEF TypeOK
<1>c. TwoSided(links') /\ \A p, x \in Ports : x \in links'[p] => p \in links'[x]
  <2>1. OneSidedIsSettled' /\ DOMAIN stack' = {} /\ refused' = {}
    BY DEF PortConnectionsInv, Wired
  <2>2. \A p, x \in Ports : ~OneSided(p, x)'
    BY <2>1 DEF OneSidedIsSettled
  <2> QED
    BY <2>1, <2>2 DEF OneSided, Refused, TwoSided
<1>e. /\ \A e : e \in EdgesOf(links') <=> \E p, x \in Ports : x \in links'[p] /\ e = {p, x}
      /\ \A e : e \in EdgesOf(before) <=> \E p, x \in Ports : x \in before[p] /\ e = {p, x}
  BY <1>c, <1>t, EdgesOfFacts DEF Wired
<1>1. /\ Refuse \/ Connected \/ Unwind \/ Disconnected \/ Left
      /\ stack # <<>> /\ Len(stack) = 1 /\ stack[1].fn = "connect"
      /\ stack[1].self = s /\ stack[1].other = o /\ UNCHANGED <<call, before>>
  BY <1>i, LastReturn
<1>2. s \in Ports /\ o \in Ports
  BY <1>1, <1>i, TopTyped
<1>3. \A p, x \in Ports :
        /\ x \in before[p] => x \in links'[p]
        /\ x \in links'[p] /\ x \notin before[p] => {p, x} = Edge
  <2>1. ConnectIsTame' /\ call' = call
    BY <1>1, <1>2, DisciplinedFacts DEF ConnectIsTame
  <2> QED
    BY <1>1, <2>1 DEF LocalInv, ConnectIsLocal, IsNamed
<1>4. CASE Connected
  <2>1. stack[1].at = "called" /\ ~thrown' /\ UNCHANGED links
    BY <1>4, <1>i, ConnectedDoes DEF IsAt
  <2>2. 1 \in DOMAIN stack
    BY <1>1, <1>i, SeqDomain DEF TypeOK
  <2>3. o \in links'[s] /\ s \in links'[o]
    BY <1>1, <1>2, <1>c, <1>i, <2>1, <2>2, DisciplinedFacts DEF ToldIsRecorded, IsRecorded, Mated
  <2>4. Casts(s, o) /\ Casts(o, s)
    BY <1>2, <1>i, <2>3 DEF LinksFit
  <2>5. ASSUME NEW p \in Edge, Exclusive(p), NEW e \in EdgesOf(before), p \in e PROVE e = Edge
    <3>1. PICK q, x \in Ports : x \in before[q] /\ e = {q, x}
      BY <1>e
    <3>2. x \in links'[q] /\ q \in links'[x]
      BY <1>3, <1>c, <3>1
    <3>3. PICK y \in Ports : e = {p, y} /\ y \in links'[p]
      BY <2>5, <3>1, <3>2
    <3>4. PICK z \in Ports : Edge = {p, z} /\ z \in links'[p]
      BY <1>2, <2>3, <2>5
    <3>5. y = z
      BY <1>2, <1>i, <2>5, <3>3, <3>4 DEF AtMostOne
    <3> QED
      BY <3>3, <3>4, <3>5
  <2>6. EdgesOf(links') = EdgesOf(before) \cup {Edge}
    <3>1. ASSUME NEW e \in EdgesOf(links') PROVE e \in EdgesOf(before) \cup {Edge}
      <4>1. PICK q, x \in Ports : x \in links'[q] /\ e = {q, x}
        BY <3>1, <1>e
      <4> QED
        BY <1>3, <4>1, <1>e
    <3>2. ASSUME NEW e \in EdgesOf(before) PROVE e \in EdgesOf(links')
      <4>1. PICK q, x \in Ports : x \in before[q] /\ e = {q, x}
        BY <3>2, <1>e
      <4> QED
        BY <1>3, <4>1, <1>e
    <3>3. Edge \in EdgesOf(links')
      BY <1>2, <2>3, <1>e
    <3> QED
      BY <3>1, <3>2, <3>3
  <2> QED
    BY <2>1, <2>4, <2>5, <2>6
<1>5. ASSUME thrown', links' = before', o \notin before[s], \E p, x \in Ports :
                 Edge = {p, x} /\ Refuses(p, x) /\ x \notin before[p] /\ links[p] = before[p]
      PROVE  /\ thrown' /\ ~Connectable /\ EdgesOf(links') = EdgesOf(before)
             /\ Edge \notin EdgesOf(before)
  <2>e. Edge \notin EdgesOf(before)
    BY <1>2, <1>5, <1>e DEF Wired, TwoSided
  <2>1. PICK p, x \in Ports :
            Edge = {p, x} /\ Refuses(p, x) /\ x \notin before[p] /\ links[p] = before[p]
    BY <1>5
  <2>2. CASE ~Casts(p, x)
    BY <1>1, <1>5, <2>1, <2>2, <2>e
  <2>3. CASE Exclusive(p) /\ \E e \in EdgesOf(before) : p \in e /\ e # {p, x}
    BY <1>1, <1>5, <2>1, <2>3, <2>e
  <2> QED
    BY <1>i, <2>1, <2>2, <2>3, RefusesFacts
<1>6. CASE Refuse
  <2>1. /\ IsAt("connect", "enter") /\ o \notin links[s] /\ Refuses(s, o) /\ thrown'
        /\ UNCHANGED links
    BY <1>1, <1>6, <1>i, RefuseDoes
  <2>2. links = before
    BY <1>1, <1>2, <1>i, <2>1, DisciplinedFacts DEF IsAt, Progress, Mated
  <2> QED
    BY <1>1, <1>2, <1>5, <2>1, <2>2
<1>7. CASE Unwind
  <2>1. IsAt("connect", "called") /\ thrown
    BY <1>7, <1>i, UnwindDoes
  <2>2. OnlyRecorded(stack[1]) /\ Refuses(o, s) /\ s \notin links[o]
    BY <1>1, <1>i, <2>1 DEF Progress
  <2>3. o \notin before[s] /\ links = [before EXCEPT ![s] = @ \cup {o}]
    BY <1>1, <2>2 DEF OnlyRecorded
  <2>4. s # o
    BY <1>2, <1>t, <2>2, <2>3
  <2>5. links[o] = before[o]
    BY <1>2, <1>t, <2>3, <2>4
  <2>6. thrown'
    BY <1>1, <1>7, <2>1 DEF Unwind
  <2>7. links' = before'
    <3>1. refused' = {}
      BY DEF Wired
    <3> QED
      BY <1>i, <2>6, <3>1 DEF FailedConnectLeavesAtMostARefusal, AtRest, Refused
  <2> QED
    BY <1>2, <1>5, <2>2, <2>3, <2>5, <2>6, <2>7
<1> QED
  BY <1>1, <1>4, <1>6, <1>7, <1>i, DisconnectedDoes, LeftDoes DEF IsAt

\* When disconnect() returns, the connections it was called for are gone, and no
\* others.
LEMMA ReturnOfDisconnect ==
    ASSUME Disciplined, PortConnectionsInv, LocalInv, Wired, PortConnectionsInv', LocalInv', Wired',
           Step, stack' = <<>>, call.fn \in {"disconnect", "disconnectAll"}
    PROVE  /\ call.fn = "disconnect" =>
                EdgesOf(links') = EdgesOf(before) \ {{call.self, call.other}}
           /\ call.fn = "disconnectAll" =>
                EdgesOf(links') = EdgesOf(before) \ {e \in EdgesOf(before) : call.self \in e}
           /\ ~thrown'
<1> DEFINE s == call.self
           o == call.other
<1>i. TypeOK /\ CallIsOutermost /\ ToldIsRecorded /\ TypeOK'
  BY DEF PortConnectionsInv
<1>t. links' \in [Ports -> SUBSET Ports] /\ before \in [Ports -> SUBSET Ports]
  BY <1>i DEF TypeOK
<1>c. TwoSided(links') /\ \A p, x \in Ports : x \in links'[p] => p \in links'[x]
  <2>1. OneSidedIsSettled' /\ DOMAIN stack' = {} /\ refused' = {}
    BY DEF PortConnectionsInv, Wired
  <2>2. \A p, x \in Ports : ~OneSided(p, x)'
    BY <2>1 DEF OneSidedIsSettled
  <2> QED
    BY <2>1, <2>2 DEF OneSided, Refused, TwoSided
<1>e. /\ \A e : e \in EdgesOf(links') <=> \E p, x \in Ports : x \in links'[p] /\ e = {p, x}
      /\ \A e : e \in EdgesOf(before) <=> \E p, x \in Ports : x \in before[p] /\ e = {p, x}
  BY <1>c, <1>t, EdgesOfFacts DEF Wired
<1>1. /\ Refuse \/ Connected \/ Unwind \/ Disconnected \/ Left
      /\ stack # <<>> /\ Len(stack) = 1 /\ stack[1].fn = call.fn
      /\ stack[1].self = s /\ stack[1].other = o /\ UNCHANGED <<call, before>>
  BY <1>i, LastReturn
<1>2. s \in Ports /\ 1 \in DOMAIN stack
  BY <1>1, <1>i, TopTyped, SeqDomain
<1>3. \A p, x \in Ports :
        /\ x \in links'[p] => x \in before[p]
        /\ x \in before[p] /\ x \notin links'[p] => IsNamed(p, x)
  <2>1. DisconnectIsTame'
    <3>1. call' = call /\ call \in Calls /\ CalledFor' \subseteq Ports
      BY <1>1, <1>2, <1>i, <1>t DEF TypeOK, NoCall, CalledFor
    <3> QED
      BY <1>2, <3>1, DisciplinedFacts DEF DisconnectIsTame, Disciplined
  <2> QED
    BY <1>1, <2>1 DEF LocalInv, DisconnectIsLocal, IsNamed
<1>4. Disconnected \/ Left
  BY <1>1, <1>i, RefuseDoes, ConnectedDoes, UnwindDoes DEF IsAt
<1>5. ~thrown' /\ UNCHANGED links
  BY <1>4 DEF Disconnected, Left, Runs
<1>6. ASSUME NEW E, \A p, x \in Ports : x \in links'[p] => {p, x} \notin E,
             \A p, x \in Ports : x \in before[p] /\ IsNamed(p, x) => {p, x} \in E
      PROVE  EdgesOf(links') = EdgesOf(before) \ E
  <2>1. ASSUME NEW e \in EdgesOf(links') PROVE e \in EdgesOf(before) \ E
    <3>1. PICK p, x \in Ports : x \in links'[p] /\ e = {p, x}
      BY <2>1, <1>e
    <3> QED
      BY <1>3, <1>6, <3>1, <1>e
  <2>2. ASSUME NEW e \in EdgesOf(before) \ E PROVE e \in EdgesOf(links')
    <3>1. PICK p, x \in Ports : x \in before[p] /\ e = {p, x}
      BY <2>2, <1>e
    <3>2. x \in links'[p]
      BY <1>3, <1>6, <2>2, <3>1
    <3> QED
      BY <3>1, <3>2, <1>e
  <2> QED
    BY <2>1, <2>2
<1>7. ASSUME call.fn = "disconnect" PROVE EdgesOf(links') = EdgesOf(before) \ {{s, o}}
  <2>1. Disconnected
    BY <1>1, <1>4, <1>7, <1>i, LeftDoes DEF IsAt
  <2>2. stack[1].at = "called" /\ o \in Ports
    BY <1>1, <1>i, <2>1, DisconnectedDoes DEF IsAt
  <2>3. o \notin links'[s] /\ s \notin links'[o]
    BY <1>1, <1>2, <1>5, <1>7, <1>c, <1>i, <2>2 DEF ToldIsRecorded, IsRecorded, Disciplined
  <2>4. ASSUME NEW p \in Ports, NEW x \in Ports, x \in links'[p], {p, x} = {s, o} PROVE FALSE
    <3>1. (p = s /\ x = o) \/ (p = o /\ x = s)
      BY <2>4
    <3> QED
      BY <2>3, <2>4, <3>1
  <2>5. \A p, x \in Ports : IsNamed(p, x) => {p, x} = {s, o}
    BY <1>7 DEF IsNamed
  <2> QED
    BY <1>6, <2>4, <2>5
<1>8. ASSUME call.fn = "disconnectAll"
      PROVE  EdgesOf(links') = EdgesOf(before) \ {e \in EdgesOf(before) : s \in e}
  <2>1. Left
    BY <1>1, <1>4, <1>8, <1>i, DisconnectedDoes DEF IsAt
  <2>2. stack[1].at = "loop"
    BY <1>i, <2>1, LeftDoes DEF IsAt
  <2>3. links'[s] = {}
    BY <1>1, <1>2, <1>5, <1>8, <1>i, <2>2 DEF ToldIsRecorded, IsRecorded
  <2>4. \A p, x \in Ports : x \in links'[p] => s \notin {p, x}
    BY <1>2, <1>c, <2>3
  <2>5. \A p, x \in Ports : x \in before[p] /\ IsNamed(p, x) =>
            {p, x} \in {e \in EdgesOf(before) : s \in e}
    <3> SUFFICES ASSUME NEW p \in Ports, NEW x \in Ports, x \in before[p], IsNamed(p, x)
                 PROVE  {p, x} \in EdgesOf(before) /\ s \in {p, x}
      OBVIOUS
    <3>1. s \in {p, x}
      BY <1>8 DEF IsNamed
    <3> QED
      BY <3>1, <1>e
  <2> QED
    BY <1>6, <2>4, <2>5
<1> QED
  BY <1>5, <1>7, <1>8

\* The last return is the abstract call; the steps before it change nothing
\* abstract.
LEMMA StepRefines ==
    ASSUME Disciplined, PortConnectionsInv, LocalInv, Wired,
           PortConnectionsInv', LocalInv', Wired', Step
    PROVE  [Abstract!Next]_(Abstract!vars)
<1> DEFINE s == call.self
           o == call.other
           Edge == {s, o}
<1>i. TypeOK /\ TypeOK' /\ CallIsOutermost
  BY DEF PortConnectionsInv
<1>h. HalvesOf(before) = {} /\ HalvesOf(before') = {}
  BY <1>i, EdgesOfFacts DEF TypeOK, Wired
<1>1. stack # <<>> /\ UNCHANGED <<call, before>>
  BY <1>i, StepMoves
<1>2. CASE stack' # <<>>
  <2>1. EdgesOf(before') = EdgesOf(before) /\ HalvesOf(before') = HalvesOf(before)
    BY <1>1
  <2> QED
    BY <1>1, <1>2, <2>1 DEF Abstract!vars, AtRest
<1>3. CASE stack' = <<>>
  <2>1. /\ Refuse \/ Connected \/ Unwind \/ Disconnected \/ Left
        /\ Len(stack) = 1 /\ stack[1].fn = call.fn /\ stack[1].self = s /\ stack[1].other = o
    BY <1>3, <1>i, LastReturn
  <2>2. call.fn \in Functions /\ s \in Ports /\ (call.fn # "disconnectAll" => o \in Ports)
    BY <1>1, <1>i, <2>1, TopTyped
  <2> DEFINE old == EdgesOf(IF AtRest THEN links ELSE before)
             halves == HalvesOf(IF AtRest THEN links ELSE before)
  <2>3. old = EdgesOf(before) /\ old' = EdgesOf(links')
    BY <1>1, <1>3 DEF AtRest
  <2>h. halves = {} /\ halves' = {}
    <3>1. TwoSided(links')
      <4>1. OneSidedIsSettled' /\ DOMAIN stack' = {} /\ refused' = {}
        BY <1>3 DEF PortConnectionsInv, Wired
      <4>2. \A p, x \in Ports : ~OneSided(p, x)'
        BY <4>1 DEF OneSidedIsSettled
      <4> QED
        BY <4>1, <4>2 DEF OneSided, Refused, TwoSided
    <3>2. HalvesOf(links') = {}
      BY <1>i, <3>1, EdgesOfFacts DEF TypeOK
    <3> QED
      BY <1>1, <1>3, <1>h, <3>2 DEF AtRest
  <2>k. call \in Calls
    BY <1>i, <2>2 DEF TypeOK, NoCall, Functions
  <2>n. {p \in Ports : HoldsOne(p)} = {} /\ {p \in Ports : Kind[p] = "client"} = {}
    BY DisciplinedFacts
  <2>4. Abstract!Finish(call.fn)
    BY <1>1, <1>3 DEF Abstract!Finish, AtRest
  <2>5. CASE call.fn = "disconnect"
    <3>1. EdgesOf(links') = EdgesOf(before) \ {Edge} /\ ~thrown'
      BY <1>3, <2>5, ReturnOfDisconnect
    <3> DEFINE around == UNION {Abstract!Around(p) : p \in Edge \cap {q \in Ports : HoldsOne(q)}}
    <3>2. old' = old \ (IF Edge \in old THEN {Edge} \cup around ELSE {})
      <4>1. around = {}
        BY <2>n
      <4>2. old' = old \ {Edge}
        BY <2>3, <3>1
      <4> HIDE DEF old, around, Edge
      <4>3. CASE Edge \in old
        BY <4>1, <4>2, <4>3
      <4>4. CASE Edge \notin old
        BY <4>2, <4>4
      <4> QED
        BY <4>3, <4>4
    <3>3. (AtRest /\ thrown)' = (AtRest /\ thrown)
      BY <1>1, <3>1 DEF AtRest
    <3>4. Abstract!Disconnect
      <4>1. halves' = halves \ {Abstract!Named}
        BY <2>h
      <4> HIDE DEF halves
      <4> QED
        BY <2>4, <2>5, <3>2, <3>3, <4>1, Zenon DEF Abstract!Disconnect, Abstract!Edge, halves
    <3> QED
      BY <3>4 DEF Abstract!Next
  <2>6. CASE call.fn = "disconnectAll"
    <3>1. EdgesOf(links') = EdgesOf(before) \ {e \in EdgesOf(before) : s \in e} /\ ~thrown'
      BY <1>3, <2>6, ReturnOfDisconnect
    <3>2. s \notin {p \in Ports : Kind[p] = "producer"} \cup {p \in Ports : HoldsOne(p)}
      BY <2>6, <2>k, <2>n DEF Disciplined
    <3>3. old' = old \ {e \in old : s \in e}
      BY <2>3, <3>1
    <3>4. (AtRest /\ thrown)' = (AtRest /\ thrown)
      BY <1>1, <3>1 DEF AtRest
    <3>5. halves' = {h \in halves : h[1] # s}
      BY <2>h
    <3>6. Abstract!DisconnectAll
      BY <2>4, <2>6, <3>2, <3>3, <3>4, <3>5 DEF Abstract!DisconnectAll, Abstract!EdgesAt
    <3> QED
      BY <3>6 DEF Abstract!Next
  <2>7. CASE call.fn = "connect"
    <3> DEFINE Connectable ==
                   /\ Casts(s, o) /\ Casts(o, s)
                   /\ \A p \in Edge : Exclusive(p) =>
                        \A e \in EdgesOf(before) : p \in e => e = Edge
    <3>1. /\ EdgesOf(links') = IF Connectable THEN EdgesOf(before) \cup {Edge} ELSE EdgesOf(before)
          /\ thrown' <=> ~Connectable
          /\ Edge \in EdgesOf(before) => ~thrown'
      BY <1>3, <2>7, ReturnOfConnect
    <3>2. Abstract!Connectable <=> Connectable
      <4>1. Edge \in FittingPairs <=> Casts(s, o) /\ Casts(o, s)
        BY <2>2, <2>7, FitsFacts
      <4>2. \A p : Abstract!EdgesAt(p) = {e \in EdgesOf(before) : p \in e}
        BY <2>3 DEF Abstract!EdgesAt
      <4>3. Edge \cap {p \in Ports : Exclusive(p)} = {p \in Edge : Exclusive(p)}
        BY <2>2, <2>7
      <4>4. (\A p \in {q \in Edge : Exclusive(q)} : {e \in EdgesOf(before) : p \in e} \subseteq {Edge})
               <=> \A p \in Edge : Exclusive(p) => \A e \in EdgesOf(before) : p \in e => e = Edge
        OBVIOUS
      <4> QED
        BY <4>1, <4>2, <4>3, <4>4 DEF Abstract!Connectable, Abstract!Edge
    <3>3. Abstract!IsThere <=> Edge \in old
      BY <2>h DEF Abstract!IsThere, Abstract!Edge
    <3>4. (AtRest /\ thrown)' = thrown'
      <4>1. thrown' \in BOOLEAN /\ AtRest'
        BY <1>3, <1>i DEF AtRest, TypeOK
      <4> QED
        BY <4>1, Zenon
    <3>5. CASE Edge \in old
      <4>1. Connectable /\ ~thrown' /\ old' = old
        <5>1. Edge \in EdgesOf(before)
          BY <2>3, <3>5
        <5>2. ~thrown'
          BY <3>1, <5>1
        <5> HIDE DEF Connectable, old
        <5>3. EdgesOf(before) \cup {Edge} = EdgesOf(before)
          BY <5>1
        <5> QED
          BY <2>3, <3>1, <5>2, <5>3
      <4>2. Abstract!ConnectAgain
        BY <2>4, <2>7, <2>h, <3>3, <3>4, <3>5, <4>1 DEF Abstract!ConnectAgain
      <4> QED
        BY <4>2 DEF Abstract!Next
    <3>6. CASE Edge \notin old /\ Connectable
      <4>1. ~thrown' /\ old' = old \cup {Edge}
        BY <2>3, <3>1, <3>6
      <4>2. old' = {Edge} \cup
                (old \ UNION {Abstract!Around(p) : p \in Edge \cap {q \in Ports : Kind[q] = "client"}})
        BY <2>n, <4>1
      <4>3. Abstract!Connect
        BY <2>4, <2>7, <2>h, <3>2, <3>3, <3>4, <3>6, <4>1, <4>2 DEF Abstract!Connect, Abstract!Edge
      <4> QED
        BY <4>3 DEF Abstract!Next
    <3>7. CASE Edge \notin old /\ ~Connectable
      <4>1. thrown' /\ old' = old
        BY <2>3, <3>1, <3>7
      <4>2. ASSUME Kind[s] = "producer", Edge \in FittingPairs PROVE FALSE
        <5>1. Casts(s, o) /\ Casts(o, s)
          BY <2>2, <2>7, <4>2, FitsFacts
        <5>2. PICK p \in Edge : Exclusive(p)
          BY <3>7, <5>1
        <5>3. Kind[p] = "single"
          BY <2>2, <2>7, <5>2, DisciplinedFacts
        <5>4. Kind[o] # "single"
          BY <2>7, <2>k, <4>2 DEF Disciplined
        <5> QED
          BY <4>2, <5>3, <5>4
      <4>3. ~(s \in {p \in Ports : Kind[p] = "producer"} /\ Edge \in FittingPairs)
        BY <4>2
      <4>4. Abstract!ConnectFails
        BY <2>4, <2>7, <2>h, <3>2, <3>3, <3>4, <3>7, <4>1, <4>3 DEF Abstract!ConnectFails, Abstract!Edge
      <4> QED
        BY <4>4 DEF Abstract!Next
    <3> QED
      BY <3>5, <3>6, <3>7
  <2> QED
    BY <2>2, <2>5, <2>6, <2>7 DEF Functions
<1> QED
  BY <1>2, <1>3

\* Disciplined calls of connect() and disconnect(), with all that the two sides
\* call in turn, are the changes of one set of connections, one at a time.
THEOREM PortConnectionsRefineConnections == ASSUME Disciplined PROVE Spec => Refinement
<1>1. Init => Abstract!Init /\ Wired
  <2> SUFFICES ASSUME Init PROVE Abstract!Init /\ Wired
    OBVIOUS
  <2>1. links \in [Ports -> SUBSET Ports] /\ TwoSided(links) /\ \A p \in Ports : links[p] = {}
    BY DEF Init, TwoSided
  <2>2. EdgesOf(links) = {} /\ HalvesOf(links) = {}
    BY <2>1, EdgesOfFacts
  <2> QED
    BY <2>1, <2>2 DEF Init, Abstract!Init, AtRest, Wired
<1>2. /\ PortConnectionsInv /\ LocalInv /\ Wired /\ PortConnectionsInv' /\ LocalInv' /\ Wired'
      /\ [Next]_vars
      => [Abstract!Next]_(Abstract!vars)
  <2> SUFFICES ASSUME PortConnectionsInv, LocalInv, Wired,
                      PortConnectionsInv', LocalInv', Wired', [Next]_vars
               PROVE  [Abstract!Next]_(Abstract!vars)
    OBVIOUS
  <2>1. ASSUME NEW c \in Calls, Call(c) PROVE Abstract!Begin
    <3>1. AtRest /\ ~AtRest' /\ call' = c /\ before' = links
      BY <2>1 DEF Call, AtRest
    <3>2. /\ EdgesOf(IF AtRest THEN links ELSE before)' = EdgesOf(IF AtRest THEN links ELSE before)
          /\ HalvesOf(IF AtRest THEN links ELSE before)' = HalvesOf(IF AtRest THEN links ELSE before)
      BY <3>1
    <3> QED
      BY <3>1, <3>2 DEF Abstract!Begin
  <2>2. ASSUME NEW c \in Calls, Request(c) PROVE FALSE
    BY <2>2 DEF Request, Disciplined, Functions
  <2>3. CASE UNCHANGED <<links, stack, thrown, call, before>>
    BY <2>3 DEF Abstract!vars, AtRest
  <2> QED
    BY <2>1, <2>2, <2>3, StepRefines DEF Next, vars, Send, Abstract!Next
<1>3. PortConnectionsInv /\ Wired /\ [Next]_vars => Wired'
  BY NextWired
<1> QED
  BY <1>1, <1>2, <1>3, LocalIsInvariant, PTL DEF Spec, Refinement, Abstract!Spec
=============================================================================
