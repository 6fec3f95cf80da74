------------------------------- MODULE Graph --------------------------------
(***************************************************************************)
(* The life of a Graph (core/src/graph.cpp): proxels are added, start()    *)
(* gives each of them a thread, the threads run, wait for each other and   *)
(* crash, stop() asks every proxel to stop and joins the threads, and the  *)
(* destructor stops the graph.  One thread, the owner, calls the graph.    *)
(*                                                                         *)
(* What a proxel does inside start() is the user's code.  The model lets   *)
(* it return, throw, or wait until the proxel downstream takes what it     *)
(* sends (a full buffer with LeakPolicy PushBlocking), at any time, and    *)
(* asks of it what proxel.h asks: once stop() has been called it returns.  *)
(* stop() of a proxel deactivates its ports, which terminates their queues *)
(* for good, so a request to stop is never withdrawn; but terminate() sets *)
(* its flag and broadcasts without the mutex, so a push that has tested    *)
(* the flag and does not sleep yet may miss it (LockQueue has that race).  *)
(* What crash_logger does is the user's code as well: it returns or throws.*)
(***************************************************************************)
EXTENDS Naturals

CONSTANTS
    Names,          \* the proxels, numbered in the order of the map's keys
    Crashing,       \* those whose start() may throw
    Downstream,     \* Downstream[n]: the proxel that n sends to, or Nobody
    Nobody,
    MaxStarts       \* bound: how often the owner starts the graph

ASSUME GraphAssumption ==
    /\ Names \subseteq Nat
    /\ Crashing \subseteq Names
    /\ Nobody \notin Names
    /\ Downstream \in [Names -> Names \cup {Nobody}]
    /\ MaxStarts \in Nat

VARIABLES
    proxels,        \* the names in proxels_
    threads,        \* the names in proxel_threads_
    crashes,        \* the names in crashes_
    call,           \* what the owner is doing
    left,           \* the names its loop has still to visit
    leaving,        \* it is in the destructor
    handle,         \* the handle_exceptions of the last start()
    starts,         \* how often start() has been called
    life,           \* life[n]: where the last thread of n is
    joined,         \* the threads in proxel_threads_ that were joined
    asked,          \* the proxels whose stop() has been called
    threw,          \* the proxels whose last start() threw
    missed,         \* the threads in a push that has missed the broadcast of terminate()
    raced,          \* two threads have written crashes_ at the same time
    killer          \* why the process has called std::terminate(), or "nobody"

owner == <<proxels, threads, call, left, leaving, handle, starts, joined, asked>>
bodies == <<life, missed, threw, crashes, raced>>
vars == <<owner, bodies, killer>>

Calls == {"idle", "starting", "asking", "joining", "gone"}
Stages == {"none", "ready", "running", "sending", "recording", "logging", "done"}
Killers == {"nobody", "proxel", "logger", "race", "unjoined"}

alive == killer = "nobody"

TypeOK ==
    /\ proxels \subseteq Names
    /\ threads \subseteq proxels
    /\ joined \subseteq threads
    /\ crashes \subseteq Names
    /\ threw \subseteq Names
    /\ asked \subseteq Names
    /\ left \subseteq Names
    /\ call \in Calls
    /\ leaving \in BOOLEAN /\ handle \in BOOLEAN /\ raced \in BOOLEAN
    /\ killer \in Killers
    /\ starts \in 0..MaxStarts
    /\ life \in [Names -> Stages]
    /\ missed \subseteq Names

Init ==
    /\ proxels = {} /\ threads = {} /\ joined = {}
    /\ crashes = {} /\ threw = {} /\ asked = {} /\ left = {}
    /\ call = "idle" /\ starts = 0
    /\ leaving = FALSE /\ handle = TRUE /\ raced = FALSE /\ killer = "nobody"
    /\ life = [n \in Names |-> "none"]
    /\ missed = {}

-----------------------------------------------------------------------------
(* The owner.                                                              *)

\* The next name that a loop over the map visits.
First(S) == CHOOSE n \in S : \A m \in S : n <= m

isRunning == threads # {}

Moves(from, to) == alive /\ call = from /\ call' = to

\* add(): throws, and changes nothing, if the name is taken.
add(n) ==
    /\ Moves("idle", "idle")
    /\ n \notin proxels
    /\ proxels' = proxels \cup {n}
    /\ UNCHANGED <<threads, left, leaving, handle, starts, joined, asked, bodies, killer>>

\* Mutation: start() does not look whether threads are running.
StartAgain(h) ==
    /\ Moves("idle", "starting")
    /\ starts < MaxStarts
    /\ starts' = starts + 1
    /\ handle' = h
    /\ left' = proxels
    /\ UNCHANGED <<proxels, threads, leaving, joined, asked, bodies, killer>>

\* start(): throws, and changes nothing, if the graph is running.
start(h) ==
    /\ Moves("idle", "starting")
    /\ ~isRunning
    /\ starts < MaxStarts
    /\ starts' = starts + 1
    /\ handle' = h
    /\ left' = proxels
    /\ UNCHANGED <<proxels, threads, leaving, joined, asked, bodies, killer>>

\* One thread of the loop: it may run before the next one is made.
Spawn ==
    /\ Moves("starting", "starting")
    /\ left # {}
    /\ LET n == First(left) IN
         /\ left' = left \ {n}
         /\ threads' = threads \cup {n}
         /\ joined' = joined \ {n}
         /\ life' = [life EXCEPT ![n] = "ready"]
         /\ threw' = threw \ {n}
    /\ UNCHANGED <<proxels, leaving, handle, starts, asked, missed, crashes, raced, killer>>

\* start() ends: the loop is done, or std::thread() has thrown.
Started ==
    /\ Moves("starting", "idle")
    /\ left' = {}
    /\ UNCHANGED <<proxels, threads, leaving, handle, starts, joined, asked, bodies, killer>>

\* Mutation: only the proxels with a thread are asked to stop.
StopThreadsOnly ==
    /\ Moves("idle", "asking")
    /\ isRunning
    /\ left' = threads
    /\ leaving' \in BOOLEAN
    /\ UNCHANGED <<proxels, threads, handle, starts, joined, asked, bodies, killer>>

\* stop(), and ~Graph(), which calls it, when there are threads.
stop ==
    /\ Moves("idle", "asking")
    /\ isRunning
    /\ left' = proxels
    /\ leaving' \in BOOLEAN
    /\ UNCHANGED <<proxels, threads, handle, starts, joined, asked, bodies, killer>>

\* ~Graph() of a graph without threads: stop() returns at once.
Destroy ==
    /\ Moves("idle", "gone")
    /\ ~isRunning
    /\ UNCHANGED <<proxels, threads, left, leaving, handle, starts, joined, asked, bodies, killer>>

\* The threads that are in a push to the proxel n, whose buffer is full.
Pushing(n) == {m \in Names : life[m] = "sending" /\ Downstream[m] = n}

\* Mutation: each proxel is asked and joined before the next is asked.
AskWhenPreviousIsDone ==
    /\ Moves("asking", "asking")
    /\ left # {}
    /\ \A n \in threads \ left : life[n] = "done"
    /\ asked' = asked \cup {First(left)}
    /\ left' = left \ {First(left)}
    /\ \E late \in SUBSET Pushing(First(left)) : missed' = missed \cup late
    /\ UNCHANGED <<proxels, threads, leaving, handle, starts, joined, life, threw, crashes, raced, killer>>

\* proxel->stop(), in the order of the map, terminates the buffers of the proxel:
\* of the threads that push to it some may miss it.
Ask ==
    /\ Moves("asking", "asking")
    /\ left # {}
    /\ asked' = asked \cup {First(left)}
    /\ left' = left \ {First(left)}
    /\ \E late \in SUBSET Pushing(First(left)) : missed' = missed \cup late
    /\ UNCHANGED <<proxels, threads, leaving, handle, starts, joined, life, threw, crashes, raced, killer>>

AllAsked ==
    /\ Moves("asking", "joining")
    /\ left = {}
    /\ left' = proxels
    /\ UNCHANGED <<proxels, threads, leaving, handle, starts, joined, asked, bodies, killer>>

\* Mutation: a proxel without a thread is joined as well.
JoinUnfound ==
    /\ Moves("joining", "joining")
    /\ left # {}
    /\ LET n == First(left) IN
         /\ n \in threads => life[n] = "done"
         /\ joined' = joined \cup {n}
         /\ left' = left \ {n}
    /\ UNCHANGED <<proxels, threads, leaving, handle, starts, asked, bodies, killer>>

\* Mutation: a thread that still runs is not waited for.
PassOver ==
    /\ Moves("joining", "joining")
    /\ left # {}
    /\ LET n == First(left) IN
         /\ joined' = joined \cup {m \in threads : m = n /\ life[n] = "done"}
         /\ left' = left \ {n}
    /\ UNCHANGED <<proxels, threads, leaving, handle, starts, asked, bodies, killer>>

\* Mutation: the threads are detached.
Detach ==
    /\ Moves("joining", "joining")
    /\ left # {}
    /\ joined' = joined \cup ({First(left)} \cap threads)
    /\ left' = left \ {First(left)}
    /\ UNCHANGED <<proxels, threads, leaving, handle, starts, asked, bodies, killer>>

\* join() waits for the thread; a proxel without a thread is passed over.
Join ==
    /\ Moves("joining", "joining")
    /\ left # {}
    /\ LET n == First(left) IN
         /\ n \in threads => life[n] = "done"
         /\ joined' = joined \cup ({n} \cap threads)
         /\ left' = left \ {n}
    /\ UNCHANGED <<proxels, threads, leaving, handle, starts, asked, bodies, killer>>

\* proxel_threads_.clear(): the destructor of a thread that has not been
\* joined calls std::terminate().
Clear ==
    /\ Moves("joining", IF leaving THEN "gone" ELSE "idle")
    /\ left = {}
    /\ threads' = {}
    /\ joined' = {}
    /\ killer' = IF threads \subseteq joined THEN killer ELSE "unjoined"
    /\ UNCHANGED <<proxels, left, leaving, handle, starts, asked, bodies>>

-----------------------------------------------------------------------------
(* The threads of the proxels.                                             *)

Goes(n, from, to) ==
    /\ alive
    /\ life[n] = from
    /\ life' = [life EXCEPT ![n] = to]

\* The thread calls proxel->start().
Begin(n) ==
    /\ Goes(n, "ready", "running")
    /\ UNCHANGED <<owner, missed, threw, crashes, raced, killer>>

\* The buffer of the proxel downstream is full, and it is not deactivated.
Send(n) ==
    /\ Goes(n, "running", "sending")
    /\ Downstream[n] \in proxels \ asked
    /\ UNCHANGED <<owner, missed, threw, crashes, raced, killer>>

\* The proxel downstream has taken an item, or it was asked to stop and the push
\* has noticed.
Sent(n) ==
    /\ Goes(n, "sending", "running")
    /\ IF Downstream[n] \in asked THEN n \notin missed ELSE life[Downstream[n]] = "running"
    /\ UNCHANGED <<owner, missed, threw, crashes, raced, killer>>

\* A push that has missed the broadcast wakes up for no reason and finds the flag.
WakesUp(n) ==
    /\ alive /\ n \in missed
    /\ missed' = missed \ {n}
    /\ UNCHANGED <<owner, life, threw, crashes, raced, killer>>

\* start() of the proxel returns.
Return(n) ==
    /\ Goes(n, "running", "done")
    /\ UNCHANGED <<owner, missed, threw, crashes, raced, killer>>

\* It throws, and the graph catches the exception and begins to record it, as
\* another thread may be doing.
Catch(n) ==
    /\ Goes(n, "running", "recording")
    /\ n \in Crashing
    /\ handle
    /\ threw' = threw \cup {n}
    /\ raced' = (raced \/ \E m \in Names : life[m] = "recording")
    /\ UNCHANGED <<owner, missed, crashes, killer>>

Dies(n, at, why) ==
    /\ alive
    /\ life[n] = at
    /\ killer' = why
    /\ UNCHANGED <<owner, bodies>>

\* Mutation: the exception is not caught.
AlwaysUncaught(n) == Dies(n, "running", "proxel") /\ n \in Crashing

\* It throws, and nobody catches it.
Uncaught(n) == Dies(n, "running", "proxel") /\ n \in Crashing /\ ~handle

\* Mutation: only the logger hears of the crash.
RecordLater(n) ==
    /\ Goes(n, "recording", "logging")
    /\ ~raced
    /\ UNCHANGED <<owner, missed, threw, crashes, raced, killer>>

\* crashes_[proxel_name] = what.
Record(n) ==
    /\ Goes(n, "recording", "logging")
    /\ ~raced
    /\ crashes' = crashes \cup {n}
    /\ UNCHANGED <<owner, missed, threw, raced, killer>>

\* There is no lock: once two threads have inserted at the same time the behaviour
\* is undefined.  The insertion ends, and entries are lost; or the process dies; or,
\* since no fairness is assumed of this step, the insertion never ends.
RecordRaces(n) ==
    /\ Goes(n, "recording", "logging")
    /\ raced
    /\ crashes' \in SUBSET (crashes \cup {n})
    /\ killer' \in {killer, "race"}
    /\ UNCHANGED <<owner, missed, threw, raced>>

\* The crash_logger has returned, or there is none.
Logged(n) ==
    /\ Goes(n, "logging", "done")
    /\ UNCHANGED <<owner, missed, threw, crashes, raced, killer>>

\* It throws, in the catch clause that has called it.
LoggerThrows(n) == Dies(n, "logging", "logger")

-----------------------------------------------------------------------------
Owner ==
    \/ \E n \in Names : add(n)
    \/ \E h \in BOOLEAN : start(h)
    \/ Spawn \/ Started
    \/ stop \/ Ask \/ AllAsked \/ Join \/ Clear
    \/ Destroy

Body(n) ==
    \/ Begin(n) \/ Send(n) \/ Sent(n) \/ WakesUp(n)
    \/ Return(n) \/ Catch(n) \/ Uncaught(n)
    \/ Record(n) \/ RecordRaces(n) \/ Logged(n) \/ LoggerThrows(n)

Next == Owner \/ \E n \in Names : Body(n)

Spec == Init /\ [][Next]_vars

(***************************************************************************)
(* The scheduler runs every thread that can run: the owner inside a call,  *)
(* a thread in the code of the graph, and a push that its queue has let    *)
(* go.  Of a proxel's own code only this is assumed: after stop() it does  *)
(* not stay away for ever from the end of start().  Nothing wakes a push   *)
(* that has missed the broadcast, and nothing is assumed of a thread that  *)
(* writes a map another one has written at the same time.                  *)
(***************************************************************************)
Fairness ==
    /\ WF_vars(Spawn \/ Ask \/ AllAsked \/ Join \/ Clear)
    /\ \A n \in Names :
         /\ WF_vars(Begin(n) \/ Record(n) \/ Logged(n))
         /\ WF_vars(Downstream[n] \in asked /\ Sent(n))
         /\ WF_vars(n \in asked /\ Return(n))

FairSpec == Spec /\ Fairness

-----------------------------------------------------------------------------
(* Properties.                                                             *)

\* A proxel's code is not done with while a thread of it is somewhere
\* between its creation and its end.
Busy(n) == life[n] \notin {"none", "done"}

\* What getProxelStatuses() reports as crashed.
Crashed(n) == n \in crashes

\* When stop() or the destructor has returned, no proxel's code runs, not
\* even a crash logger: whatever the proxels did, and also when start()
\* failed halfway or a proxel was added to a running graph.
NothingRunsAfterStop ==
    alive /\ call \in {"idle", "gone"} /\ ~isRunning => \A n \in Names : ~Busy(n)

\* The process never dies of a thread that stop() or the destructor did not join.
\* What kills it is an exception of a proxel that start() was told not to handle, a
\* crash logger that throws, or two insertions into crashes_ at the same time.
ProcessSurvives ==
    alive \/ killer = (IF handle THEN "logger" ELSE "proxel") \/ (killer = "race" /\ raced)

\* start() gives a proxel a thread only when it has none that runs: the
\* code of a proxel is never run by two threads of the graph.
StartsAtRest ==
    [][\A n \in Names : life'[n] = "ready" /\ life[n] # "ready" => ~Busy(n) /\ n \notin threads]_vars

\* The inductive invariant of the proofs: the code of a proxel runs only in a
\* thread that the graph knows of, a thread that was joined has ended, only a
\* caught crash is recorded, and stop() has joined the threads that it has passed.
GraphInv ==
    /\ TypeOK
    /\ \A n \in Names : Busy(n) => n \in threads
    /\ \A n \in joined : life[n] = "done"
    /\ \A n \in Names : life[n] \in {"recording", "logging"} => handle
    /\ call = "starting" => left \subseteq proxels \ threads
    /\ call = "joining" => threads \ left \subseteq joined
    /\ call = "gone" => threads = {}
    /\ ProcessSurvives

\* A crash that the graph has caught is reported by getProxelStatuses().
CaughtCrashIsReported ==
    \A n \in threw : life[n] \in {"logging", "done"} => Crashed(n)

\* A caught crash is reported unless two proxels crashed at the same time; and an
\* insertion that nobody else disturbs is alone.
CrashInv ==
    /\ \A n \in Names : life[n] = "recording" => n \in Crashing
    /\ \A n \in threw : life[n] \notin {"ready", "running", "sending"}
    /\ IF raced THEN \E m, n \in Crashing : m # n
       ELSE /\ \A m, n \in Names : life[m] = "recording" /\ life[n] = "recording" => m = n
            /\ CaughtCrashIsReported

\* stop() returns, unless the process dies, two crashes were recorded at the same
\* time, or a push has missed the broadcast of terminate(): although proxels wait for
\* each other, some of them have crashed or returned, some have not begun to run and
\* some never had a thread.
StopReturns ==
    call = "asking" ~> (call \in {"idle", "gone"} \/ ~alive \/ raced \/ missed # {})
=============================================================================
