---------------------------- MODULE GraphProofs -----------------------------
(***************************************************************************)
(* Theorems about Graph, for every set of proxels, whatever they send to   *)
(* each other and whichever of them crash.                                 *)
(***************************************************************************)
EXTENDS Graph, WellFoundedInduction, TLAPS

\* The loops over the map visit a name that is left.
LEMMA FirstIsLeft ==
    ASSUME NEW S \in SUBSET Names, S # {}
    PROVE  First(S) \in S
<1>1. S \subseteq Nat
  BY GraphAssumption
<1>2. PICK n \in S : \A m \in S : <<m, n>> \notin OpToRel(<, Nat)
  BY <1>1, NatLessThanWellFounded, WFMin
<1>3. \A m \in S : ~(m < n)
  BY <1>1, <1>2 DEF OpToRel
<1>4. \A m \in S : n <= m
  BY <1>1, <1>3
<1> QED
  BY <1>4 DEF First

\* A new graph satisfies the invariant.
LEMMA InitInv == Init => GraphInv
<1> SUFFICES ASSUME Init PROVE GraphInv
  OBVIOUS
<1>1. life \in [Names -> Stages] /\ killer \in Killers /\ alive
  BY DEF Init, Stages, Killers, alive
<1>2. starts \in 0..MaxStarts
  BY GraphAssumption DEF Init
<1>3. TypeOK
  BY <1>1, <1>2, Zenon DEF Init, TypeOK, Calls
<1>4. \A n \in Names : ~Busy(n)
  BY DEF Init, Busy
<1> QED
  BY <1>3, <1>4 DEF Init, GraphInv, ProcessSurvives, alive

\* No step of the owner breaks it: start() makes threads only where there are
\* none, and stop() passes a thread only when it has ended.
LEMMA OwnerInv == GraphInv /\ Owner => GraphInv'
<1> SUFFICES ASSUME GraphInv, Owner PROVE GraphInv'
  OBVIOUS
<1> USE DEF GraphInv, TypeOK, Busy, ProcessSurvives, Calls, Stages, Killers, Moves, alive, bodies, isRunning
<1>1. ASSUME NEW n \in Names, add(n) PROVE GraphInv'
  BY <1>1 DEF add
<1>2. ASSUME NEW h \in BOOLEAN, start(h) PROVE GraphInv'
  BY <1>2, GraphAssumption DEF start
<1>3. CASE Spawn
  <2>1. First(left) \in left
    BY <1>3, FirstIsLeft DEF Spawn
  <2> QED
    BY <1>3, <2>1 DEF Spawn
<1>4. CASE Started
  BY <1>4 DEF Started
<1>5. CASE stop
  BY <1>5 DEF stop
<1>6. CASE Ask
  <2>1. First(left) \in left
    BY <1>6, FirstIsLeft DEF Ask
  <2> QED
    BY <1>6, <2>1 DEF Ask, Pushing
<1>7. CASE AllAsked
  BY <1>7 DEF AllAsked
<1>8. CASE Join
  <2>1. First(left) \in left
    BY <1>8, FirstIsLeft DEF Join
  <2> QED
    BY <1>8, <2>1 DEF Join
<1>9. CASE Clear
  BY <1>9 DEF Clear
<1>10. CASE Destroy
  BY <1>10 DEF Destroy
<1> QED
  BY <1>1, <1>2, <1>3, <1>4, <1>5, <1>6, <1>7, <1>8, <1>9, <1>10 DEF Owner

\* No step of a proxel's thread breaks it: a thread that has ended stays so,
\* and the process dies of a proxel, of a crash logger or of a race only.
LEMMA BodyInv == ASSUME NEW n \in Names PROVE GraphInv /\ Body(n) => GraphInv'
<1> SUFFICES ASSUME GraphInv, Body(n) PROVE GraphInv'
  OBVIOUS
<1> USE DEF GraphInv, TypeOK, Busy, ProcessSurvives, Stages, Killers, Goes, Dies, alive, owner, bodies
<1>1. CASE Begin(n)
  BY <1>1 DEF Begin
<1>2. CASE Send(n)
  BY <1>2 DEF Send
<1>3. CASE Sent(n)
  BY <1>3 DEF Sent
<1>4. CASE Return(n)
  BY <1>4 DEF Return
<1>5. CASE Catch(n)
  BY <1>5 DEF Catch
<1>6. CASE Uncaught(n)
  BY <1>6 DEF Uncaught
<1>7. CASE Record(n)
  BY <1>7 DEF Record
<1>8. CASE Logged(n)
  BY <1>8 DEF Logged
<1>9. CASE WakesUp(n)
  BY <1>9 DEF WakesUp
<1>10. CASE RecordRaces(n)
  BY <1>10 DEF RecordRaces
<1>11. CASE LoggerThrows(n)
  BY <1>11 DEF LoggerThrows
<1> QED
  BY <1>1, <1>2, <1>3, <1>4, <1>5, <1>6, <1>7, <1>8, <1>9, <1>10, <1>11 DEF Body

\* The invariant holds throughout.
THEOREM GraphSafety == Spec => []GraphInv
<1>1. Init => GraphInv
  BY InitInv
<1>2. GraphInv /\ [Next]_vars => GraphInv'
  <2>1. GraphInv /\ UNCHANGED vars => GraphInv'
    BY DEF vars, owner, bodies, GraphInv, TypeOK, Busy, ProcessSurvives, alive
  <2> QED
    BY <2>1, OwnerInv, BodyInv DEF Next
<1> QED
  BY <1>1, <1>2, PTL DEF Spec

\* When stop() or the destructor has returned, no proxel's code runs.
THEOREM StopIsFinal == Spec => []NothingRunsAfterStop
<1>1. GraphInv => NothingRunsAfterStop
  BY DEF GraphInv, NothingRunsAfterStop, isRunning
<1> QED
  BY <1>1, GraphSafety, PTL

\* The process never dies of a thread that was not joined, whatever the proxels and
\* the crash loggers throw and whatever comes of two insertions at the same time.
THEOREM StopIsSafe == Spec => []ProcessSurvives
<1>1. GraphInv => ProcessSurvives
  BY DEF GraphInv
<1> QED
  BY <1>1, GraphSafety, PTL

\* No proxel is started by two threads of the graph.
THEOREM StartIsAtRest == Spec => StartsAtRest
<1> DEFINE AtRest(n) == life'[n] = "ready" /\ life[n] # "ready" => ~Busy(n) /\ n \notin threads
<1>1. GraphInv /\ [Next]_vars => [\A n \in Names : AtRest(n)]_vars
  <2> SUFFICES ASSUME GraphInv, Next, NEW n \in Names PROVE AtRest(n)
    OBVIOUS
  <2>1. CASE Spawn
    <3>1. First(left) \in left
      BY <2>1, FirstIsLeft DEF Spawn, GraphInv, TypeOK
    <3> QED
      BY <2>1, <3>1 DEF Spawn, Moves, GraphInv, TypeOK
  <2>2. CASE UNCHANGED life
    BY <2>2
  <2>3. ASSUME NEW m \in Names, NEW from, NEW to, Goes(m, from, to), to # "ready" PROVE AtRest(n)
    BY <2>3 DEF Goes, GraphInv, TypeOK
  <2> QED
    BY <2>1, <2>2, <2>3 DEF Next, Owner, add, start, Started, stop, Ask, AllAsked, Join, Clear, Destroy, bodies,
       Body, Begin, Send, Sent, WakesUp, Return, Catch, Uncaught, Record, RecordRaces, Logged,
       LoggerThrows, Dies
<1> QED
  BY <1>1, GraphSafety, PTL DEF Spec, StartsAtRest

-----------------------------------------------------------------------------
\* A thread that begins to write crashes_ while another one writes it has raced; one
\* that does not leaves what was reported before.
LEMMA NextCrashInv == GraphInv /\ CrashInv /\ [Next]_vars => CrashInv'
<1> SUFFICES ASSUME GraphInv, CrashInv, [Next]_vars PROVE CrashInv'
  OBVIOUS
<1> USE DEF CrashInv, CaughtCrashIsReported, Crashed
<1>1. life \in [Names -> Stages] /\ threw \subseteq Names /\ raced \in BOOLEAN
  BY DEF GraphInv, TypeOK
<1>2. CASE UNCHANGED <<life, threw, crashes, raced>>
  BY <1>2
<1>3. CASE Spawn
  <2>1. First(left) \in Names
    BY <1>3, FirstIsLeft DEF Spawn, GraphInv, TypeOK
  <2> QED
    BY <1>1, <1>3, <2>1 DEF Spawn
<1>4. ASSUME NEW n \in Names, Begin(n) \/ Send(n) \/ Sent(n) \/ Return(n) PROVE CrashInv'
  BY <1>1, <1>4 DEF Begin, Send, Sent, Return, Goes
<1>5. ASSUME NEW n \in Names, Catch(n) PROVE CrashInv'
  BY <1>1, <1>5 DEF Catch, Goes
<1>6. ASSUME NEW n \in Names, Record(n) PROVE CrashInv'
  BY <1>1, <1>6 DEF Record, Goes
<1>7. ASSUME NEW n \in Names, RecordRaces(n) PROVE CrashInv'
  BY <1>1, <1>7 DEF RecordRaces, Goes
<1>8. ASSUME NEW n \in Names, Logged(n) PROVE CrashInv'
  BY <1>1, <1>8 DEF Logged, Goes
<1> QED
  BY <1>2, <1>3, <1>4, <1>5, <1>6, <1>7, <1>8 DEF Next, Owner, Body, add, start, Started, stop,
     Ask, AllAsked, Join, Clear, Destroy, WakesUp, Uncaught, LoggerThrows, Dies, bodies, vars

\* Until two proxels have recorded a crash at the same time, every caught crash is
\* reported; and that takes two proxels that can crash.
THEOREM CrashesAreReportedUnlessRaced == Spec => []CrashInv
<1>1. Init => CrashInv
  BY DEF Init, CrashInv, CaughtCrashIsReported
<1>2. GraphInv /\ CrashInv /\ [Next]_vars => CrashInv'
  BY NextCrashInv
<1> QED
  BY <1>1, <1>2, GraphSafety, PTL DEF Spec

\* In a graph in which one proxel at most crashes, a crash that was caught is
\* reported: the unlocked crashes_ needs two writers to go wrong.
THEOREM SingleCrashIsReported ==
    ASSUME \A m, n \in Crashing : m = n
    PROVE  Spec => []CaughtCrashIsReported
<1>1. CrashInv => CaughtCrashIsReported
  BY DEF CrashInv
<1> QED
  BY <1>1, CrashesAreReportedUnlessRaced, PTL
=============================================================================
