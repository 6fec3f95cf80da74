---------------------------- MODULE SignalWaiter ----------------------------
(***************************************************************************)
(* flow::SignalWaiter (core/src/signal_waiter.cpp): each waiter registers  *)
(* itself for its signals in a table that all waiters of the process       *)
(* share, and a thread of its own waits until one has come or the waiter   *)
(* is destroyed, and takes it out of the table again.  mutex is            *)
(* handler_mutex, which protects the table; the mutex_ of a waiter is used *)
(* by its own thread only.  A signal interrupts any thread, anywhere, and  *)
(* its handler runs on that thread.  A waiter has the name of its thread.  *)
(***************************************************************************)
EXTENDS Workers

CONSTANTS
    Signals,
    Listens,        \* Listens[w]: the signals of waiter w
    MaxSignals      \* bound: how many signals come

ASSUME SignalWaiterAssumption == Listens \in [Runners -> SUBSET Signals] /\ MaxSignals \in Nat

SignalWaiterInit ==
    Created([class |-> "SignalWaiter",
             handlers |-> [s \in Signals |-> {}],   \* handlers
             ours |-> {},                           \* the signals whose handler is handle_signal
             live |-> {},                           \* the waiters with is_waiting_
             got |-> {},                            \* the waiters with got_signal_
             todo |-> [t \in Threads |-> {}],       \* what a waiter has still to (un)register
             making |-> User,                       \* the waiter the user makes or destroys
             gone |-> {},                           \* the waiters whose destructor has returned
             missed |-> {},                         \* those that did not hear a notification
             signals |-> 0,                         \* how many signals have come
             resume |-> [t \in Threads |-> "idle"], \* where the interrupted thread goes on
             signal |-> [t \in Threads |-> User]],  \* the signal that it handles
            "unborn")

\* The object is the table with its waiters.
IsSignalWaiter == obj.class = "SignalWaiter"

InHandler(t) == pc[t] \in {"handler", "handling"}

\* Where t is, or was when it was interrupted.
At(t) == IF InHandler(t) THEN obj.resume[t] ELSE pc[t]

-----------------------------------------------------------------------------
\* The constructor: register_handler() for each signal, and then the thread.

Construct(w) ==
    /\ IsSignalWaiter /\ pc[w] = "unborn"
    /\ Goes(User, "idle", "register")
    /\ obj' = [obj EXCEPT !.making = w, !.live = @ \cup {w}, !.todo[w] = Listens[w]]

LockTable(t, from, to) ==
    /\ IsSignalWaiter /\ Locks(t, from, to)
    /\ UNCHANGED obj

BeginRegister ==
    /\ IsSignalWaiter /\ obj.todo[obj.making] # {}
    /\ LockTable(User, "register", "registering")

Register ==
    /\ IsSignalWaiter /\ Unlocks(User, "registering", "register")
    /\ LET w == obj.making IN \E s \in obj.todo[w] :
        obj' = [obj EXCEPT !.handlers[s] = @ \cup {w}, !.ours = @ \cup {s}, !.todo[w] = @ \ {s}]

StartThread ==
    /\ IsSignalWaiter /\ obj.todo[obj.making] = {}
    /\ pc[User] = "register"
    /\ pc' = [pc EXCEPT ![User] = "idle", ![obj.making] = "test"]
    /\ obj' = [obj EXCEPT !.making = User]
    /\ UNCHANGED <<mutex, waiters>>

-----------------------------------------------------------------------------
\* await()

AwaitTests(w) ==
    /\ IsSignalWaiter /\ LET done == w \notin obj.live \/ w \in obj.got IN
             /\ Goes(w, "test", IF done THEN "unregister" ELSE "wait")
             /\ obj' = [obj EXCEPT !.todo[w] = IF done THEN Listens[w] ELSE {}]

AwaitSleeps(w) ==
    /\ IsSignalWaiter /\ Goto(w, "wait", "asleep")
    /\ waiters' = [waiters EXCEPT ![w] = {w}]
    /\ UNCHANGED <<mutex, obj>>

AwaitWakes(w) ==
    /\ IsSignalWaiter /\ ~Registered(w)
    /\ Goes(w, "asleep", "test")
    /\ UNCHANGED obj

BeginUnregister(w) ==
    /\ IsSignalWaiter /\ obj.todo[w] # {}
    /\ LockTable(w, "unregister", "unregistering")

\* Mutation: the default is restored while others listen.
UnregisterForAll(w) ==
    /\ IsSignalWaiter /\ Unlocks(w, "unregistering", "unregister")
    /\ \E s \in obj.todo[w] :
        obj' = [obj EXCEPT !.handlers[s] = {}, !.ours = @ \ {s}, !.todo[w] = @ \ {s}]

Unregister(w) ==
    /\ IsSignalWaiter /\ Unlocks(w, "unregistering", "unregister")
    /\ \E s \in obj.todo[w] :
        obj' = [obj EXCEPT !.handlers[s] = @ \ {w},
                           !.ours = IF obj.handlers[s] \subseteq {w} THEN @ \ {s} ELSE @,
                           !.todo[w] = @ \ {s}]

Finish(w) ==
    /\ IsSignalWaiter /\ obj.todo[w] = {}
    /\ Goes(w, "unregister", "end")
    /\ UNCHANGED obj

-----------------------------------------------------------------------------
\* The destructor: the flag and the notification without mutex_, and the wait
\* for the thread.

DestroyWaiter(w) ==
    /\ IsSignalWaiter /\ w \in obj.live /\ Goes(User, "idle", "notify")
    /\ obj' = [obj EXCEPT !.making = w, !.live = @ \ {w}]

\* The threads of S that have tested and are not registered yet.
Deaf(S) == {w \in S : At(w) = "wait"}

NotifyWaiter ==
    /\ IsSignalWaiter /\ Goto(User, "notify", "join")
    /\ NotifyOne(obj.making)
    /\ obj' = [obj EXCEPT !.missed = @ \cup Deaf({obj.making})]
    /\ UNCHANGED mutex

\* Mutation: the destructor does not wait for the thread.
LeaveThread ==
    /\ IsSignalWaiter /\ Goes(User, "join", "idle")
    /\ obj' = [obj EXCEPT !.gone = @ \cup {obj.making}, !.making = User]

JoinWaiter ==
    /\ IsSignalWaiter /\ pc[obj.making] = "end"
    /\ Goes(User, "join", "idle")
    /\ obj' = [obj EXCEPT !.gone = @ \cup {obj.making}, !.making = User]

-----------------------------------------------------------------------------
\* handle_signal(), on top of whatever t was doing.

Interrupt(t, s) ==
    /\ IsSignalWaiter /\ s \in obj.ours
    /\ obj.signals < MaxSignals
    /\ ~InHandler(t) /\ pc[t] \notin {"unborn", "end"}
    /\ pc' = [pc EXCEPT ![t] = "handler"]
    /\ obj' = [obj EXCEPT !.signals = @ + 1, !.resume[t] = pc[t], !.signal[t] = s]
    /\ UNCHANGED <<mutex, waiters>>

LockInHandler(t) == LockTable(t, "handler", "handling")

\* Mutation: the flags are set, and nobody is notified.
HandleSilently(t) ==
    /\ IsSignalWaiter /\ Unlocks(t, "handling", obj.resume[t])
    /\ obj' = [obj EXCEPT !.got = @ \cup obj.handlers[obj.signal[t]],
                          !.resume[t] = "idle", !.signal[t] = User]

\* handleSignal() of every waiter in the table, without its mutex_.
Handle(t) ==
    /\ IsSignalWaiter
    /\ Goto(t, "handling", obj.resume[t])
    /\ Releases
    /\ LET heard == obj.handlers[obj.signal[t]] IN
        /\ waiters' = [c \in Conditions |-> IF c \in heard THEN {} ELSE waiters[c]]
        /\ obj' = [obj EXCEPT !.got = @ \cup heard, !.missed = @ \cup Deaf(heard),
                              !.resume[t] = "idle", !.signal[t] = User]

-----------------------------------------------------------------------------
AwaitWakesSpuriously(w) == IsSignalWaiter /\ SpuriousWakeup(w)

\* What a thread does on its own.
SignalWaiterSteps(t) ==
    \/ t \in Runners /\ (AwaitTests(t) \/ AwaitSleeps(t) \/ AwaitWakes(t))
    \/ t \in Runners /\ (BeginUnregister(t) \/ Unregister(t) \/ Finish(t))
    \/ t = User /\ (BeginRegister \/ Register \/ StartThread \/ NotifyWaiter \/ JoinWaiter)
    \/ LockInHandler(t) \/ Handle(t)

SignalWaiterNext ==
    \/ \E t \in Threads : SignalWaiterSteps(t)
    \/ \E w \in Runners : Construct(w) \/ DestroyWaiter(w) \/ AwaitWakesSpuriously(w)
    \/ \E t \in Threads, s \in Signals : Interrupt(t, s)

-----------------------------------------------------------------------------
(***************************************************************************)
(* Properties.                                                             *)
(***************************************************************************)

\* A signal never meets the default action, or a table without the waiter, while
\* a waiter that has been made listens for it, whatever other waiters do.
ListenersAreRegistered ==
    IsSignalWaiter => \A w \in obj.live \ obj.got : At(w) # "unborn" =>
        \A s \in Listens[w] : w \in obj.handlers[s] /\ s \in obj.ours

\* The handler of a destroyed waiter is never called, and when nobody listens to
\* a signal any more its default action is back.
NoHandlerOfTheDead ==
    IsSignalWaiter => \A s \in Signals :
        /\ obj.handlers[s] \cap obj.gone = {}
        /\ obj.handlers[s] = {} => s \notin obj.ours

\* Where a thread can be when it is not in a handler, and where an interrupt
\* finds it.
UserStages == {"idle", "register", "registering", "notify", "join"}
AwaitStages == {"test", "wait", "asleep", "unregister", "unregistering"}

Positions == UserStages \cup AwaitStages

Tables ==
    [class : {"SignalWaiter"}, handlers : [Signals -> SUBSET Runners], ours : SUBSET Signals,
     live : SUBSET Runners, got : SUBSET Runners, gone : SUBSET Runners, missed : SUBSET Runners,
     todo : [Threads -> SUBSET Signals], making : Threads, signals : 0..MaxSignals,
     resume : [Threads -> Positions], signal : [Threads -> Signals \cup {User}]]

TableTypeOK ==
    /\ obj \in Tables
    /\ pc \in [Threads -> Positions \cup {"unborn", "end", "handler", "handling"}]
    /\ \A t \in Threads : InHandler(t) => obj.signal[t] \in Signals

\* The waiter that the user makes has no thread yet, and is in the table for the
\* signals that are done.
MakingInv ==
    At(User) \in {"register", "registering"} =>
        /\ obj.making \in Runners /\ pc[obj.making] = "unborn"
        /\ \A s \in Listens[obj.making] \ obj.todo[obj.making] :
                obj.making \in obj.handlers[s] /\ s \in obj.ours

\* A waiter that takes itself out of the table has heard its signal or is being
\* destroyed, and is in the table only for what is left to do.
LeavingInv ==
    \A w \in Runners : At(w) \in {"unregister", "unregistering", "end"} =>
        /\ w \notin obj.live \ obj.got
        /\ \A s \in Signals : w \in obj.handlers[s] => s \in obj.todo[w]
        /\ At(w) = "end" => obj.todo[w] = {}

\* The inductive invariant of the proofs.
SignalWaiterInv ==
    /\ TableTypeOK
    /\ MakingInv /\ LeavingInv
    /\ \A s \in Signals, w \in Runners : w \in obj.handlers[s] \/ s \in obj.todo[w] => s \in Listens[w]
    /\ \A w \in obj.gone : pc[w] = "end"
    /\ ListenersAreRegistered /\ NoHandlerOfTheDead

\* A signal came while the thread it interrupts was changing the table: the
\* handler waits for a mutex that its own thread holds.
SelfLocked == \E t \in Threads : pc[t] = "handler" /\ mutex = t

\* The future of a waiter that has got its signal, or that is destroyed, is
\* resolved, unless the notification was missed or a handler locked itself out.
WaiterEnding(w) ==
    IsSignalWaiter /\ w \in Runners /\ (w \in obj.got \/ (pc[User] = "join" /\ obj.making = w))

WaiterEnded(w) == IsSignalWaiter /\ (pc[w] = "end" \/ w \in obj.missed \/ SelfLocked)
=============================================================================
