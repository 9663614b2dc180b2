-------------------------- MODULE SupervisorProofs --------------------------
(***************************************************************************)
(* Theorems about Supervisor for any number of callers, commands,          *)
(* revisions and contexts, checked by TLAPS.                               *)
(***************************************************************************)
EXTENDS Supervisor, FiniteSetTheorems, TLAPS

\* What makes the safety properties inductive: done is only closed for a dead
\* process, the command in s.cmd is watched by a goroutine that has not yet
\* passed its first critical section, and restarts counts every sleeping
\* watcher and every automatic restart.
WatchersInPlace ==
  /\ \A p \in alive : watch[p].pc = "wait"
  /\ cmd # None => watch[cmd].pc \in {"wait", "closed"}

RestartsCounted ==
  /\ auto + Cardinality(Sleeping) <= restarts
  /\ auto + Cardinality(Sleeping) <= MaxRestarts

DownMeansUndesired == intent = "down" => ~desired

IInv == TypeOK /\ OneEndpoint /\ StatusTruthful /\ WatchersInPlace

-----------------------------------------------------------------------------
\* The number of sleeping watchers is a natural number.
LEMMA SleepingFinite ==
  /\ IsFiniteSet(Sleeping)
  /\ Cardinality(Sleeping) \in Nat
BY ConstantsAssumption, FS_Subset, FS_CardinalityType DEF Sleeping

\* What a caller does after Stop keeps its record well typed.
LEMMA AfterStopType ==
  ASSUME call \in [Callers -> CallRec], NEW c \in Callers, AfterStop(c)
  PROVE  call' \in [Callers -> CallRec]
BY DEF AfterStop, Return, Idle, CallRec, CallPcs, StopPcs

\* A step that moves only a caller keeps the inductive invariant.
LEMMA OnlyCallMoves ==
  ASSUME IInv, call' \in [Callers -> CallRec],
         UNCHANGED <<supVars, procVars, history>>, cancelled' \subseteq Contexts
  PROVE  IInv'
BY DEF IInv, TypeOK, StatusTruthful, OneEndpoint, WatchersInPlace, supVars, procVars, history

\* A step of a caller, outside of Start, keeps the inductive invariant.
LEMMA CallerKeepsIInv ==
  ASSUME IInv, NEW c \in Callers, CallerStep(c), ~Start(c)
  PROVE  IInv'
<1> USE ConstantsAssumption DEF IInv, TypeOK, StatusTruthful, OneEndpoint,
          WatchersInPlace, supVars, procVars, history, States
<1>1. ASSUME NEW x \in Contexts, NEW r \in Revisions \cup {None},
             NEW op \in {"restart", "reload", "stop"}, NEW pc \in {"stop", "reload"},
             Begin(c, op, pc, r, x)
      PROVE  IInv'
  BY <1>1 DEF Begin, CallRec, CallPcs, StopPcs
<1>2. ASSUME NEW x \in Contexts, CallReload(c, x) \/ CallStop(c, x) PROVE IInv'
  BY <1>1, <1>2 DEF CallReload, CallStop
<1>3. ASSUME NEW x \in Contexts, NEW r \in Revisions, CallRestart(c, r, x) PROVE IInv'
  BY <1>1, <1>3 DEF CallRestart
<1>4. CASE Stop(c)
  <2>1. call' \in [Callers -> CallRec]
    <3>1. CASE cmd = None
      BY <1>4, <3>1, AfterStopType DEF Stop
    <3>2. CASE cmd # None
      BY <1>4, <3>2 DEF Stop, CallRec, CallPcs, StopPcs
    <3>3. QED
      BY <3>1, <3>2
  <2>2. CASE cmd = None
    BY <1>4, <2>1, <2>2 DEF Stop
  <2>3. CASE cmd # None
    BY <1>4, <2>1, <2>3 DEF Stop
  <2>4. QED
    BY <2>2, <2>3
<1>5. CASE StopTerm(c) \/ StopDone(c)
  BY <1>5 DEF StopTerm, StopDone, Return, Goto, Idle, CallRec, CallPcs, StopPcs
<1>6. CASE StopTimeout(c) \/ StopCancelled(c)
  BY <1>6 DEF StopTimeout, StopCancelled, Goto, Kill, CallRec, CallPcs, StopPcs
<1>7. CASE StopCancelledDone(c)
  <2>1. call' \in [Callers -> CallRec]
    BY <1>7 DEF StopCancelledDone, Return, Idle, CallRec, CallPcs
  <2>2. QED
    BY <1>7, <2>1, OnlyCallMoves DEF StopCancelledDone
<1>8. CASE StopFinish(c)
  BY <1>8, AfterStopType DEF StopFinish
<1>9. CASE Reload(c)
  <2>1. call' \in [Callers -> CallRec]
    BY <1>9 DEF Reload, Return, Goto, Idle, CallRec, CallPcs, StopPcs
  <2>2. QED
    BY <1>9, <2>1, OnlyCallMoves DEF Reload
<1>10. CASE SupervisorReload(c)
  <2>1. call' \in [Callers -> CallRec]
    BY <1>10 DEF SupervisorReload, Return, Idle, CallRec, CallPcs
  <2>2. QED
    BY <1>10, <2>1, OnlyCallMoves DEF SupervisorReload
<1>11. CASE ReloadSignal(c)
  <2>1. call' \in [Callers -> CallRec]
    BY <1>11 DEF ReloadSignal, Return, Idle, CallRec, CallPcs
  <2>2. QED
    BY <1>11, <2>1, OnlyCallMoves DEF ReloadSignal
<1>12. CASE ProbeAccepted(c)
  <2>1. call' \in [Callers -> CallRec]
    BY <1>12 DEF ProbeAccepted, Goto, CallRec, CallPcs
  <2>2. QED
    BY <1>12, <2>1, OnlyCallMoves DEF ProbeAccepted
<1>13. CASE MarkReady(c)
  BY <1>13 DEF MarkReady, Marked, Return, Idle, CallRec, CallPcs
<1>14. CASE ProbeFails(c)
  BY <1>14 DEF ProbeFails, Marked, Return, Idle, CallRec, CallPcs
<1>15. QED
  BY <1>2, <1>3, <1>4, <1>5, <1>6, <1>7, <1>8, <1>9, <1>10, <1>11, <1>12,
     <1>13, <1>14 DEF CallerStep

\* startLocked under an empty s.cmd keeps everything that is about processes.
\* The goroutine that calls it may have left the watch function first (w).
LEMMA StartLockedKeeps ==
  ASSUME IInv, cmd = None, NEW w \in [Procs -> WatchRec],
         NEW r \in Revisions \cup {None}, NEW x \in Contexts \cup {None},
         startLocked(r, x, w)
  PROVE  /\ cmd' \in Procs \cup {None}
         /\ status' \in [state : States, revision : Revisions \cup {None}, pid : Procs \cup {None}]
         /\ alive' \subseteq Procs /\ killed' \subseteq Procs
         /\ watch' \in [Procs -> WatchRec]
         /\ status'.state \in {"starting", "stopped"}
         /\ OneEndpoint'
         /\ WatchersInPlace'
         /\ status'.pid = cmd'
         /\ cmd' # None => status'.revision = watch'[cmd'].rev
<1> USE ConstantsAssumption DEF IInv, TypeOK, StatusTruthful, OneEndpoint, WatchersInPlace, States
<1>1. alive = {}
  OBVIOUS
<1>2. CASE \E p \in Procs : Launch(p, r, x, w)
  BY <1>1, <1>2 DEF Launch, LaunchStatus, WatchRec
<1>3. CASE LaunchFails(w)
  BY <1>1, <1>3 DEF LaunchFails
<1>4. QED
  BY <1>2, <1>3 DEF startLocked

\* Start keeps the inductive invariant.
LEMMA StartKeepsIInv ==
  ASSUME IInv, NEW c \in Callers, Start(c)
  PROVE  IInv'
<1> USE ConstantsAssumption DEF IInv, TypeOK, StatusTruthful, OneEndpoint,
          WatchersInPlace, supVars, procVars, history, MayStart
<1>1. call' \in [Callers -> CallRec]
  BY DEF Start, Return, Goto, Idle, CallRec, CallPcs
<1>2. CASE cmd # None
  BY <1>1, <1>2 DEF Start
<1>3. CASE cmd = None
  <2>1. call[c].rev \in Revisions \cup {None} /\ call[c].ctx \in Contexts \cup {None}
    BY DEF CallRec
  <2>2. startLocked(call[c].rev, call[c].ctx, watch)
    BY <1>3 DEF Start
  <2>3. QED
    BY <1>1, <1>3, <2>1, <2>2, StartLockedKeeps DEF Start
<1>4. QED
  BY <1>2, <1>3

\* A step of a watch goroutine keeps the inductive invariant.
LEMMA WatchKeepsIInv ==
  ASSUME IInv, NEW p \in Procs, WatchStep(p)
  PROVE  IInv'
<1> USE ConstantsAssumption DEF IInv, TypeOK, StatusTruthful, OneEndpoint,
          WatchersInPlace, supVars, procVars, history
<1>1. CASE WatchWait(p)
  BY <1>1 DEF WatchWait, WatchRec
<1>2. CASE WatchExit(p)
  <2>1. watch' \in [Procs -> WatchRec]
    BY <1>2 DEF WatchExit, Ended, NoWatch, WatchRec
  <2>2. restarts' \in 0..(MaxRestarts + 1) /\ auto' \in Nat
    BY <1>2, SleepingFinite DEF WatchExit, Kept, Cap, AutoKept
  <2>3. CASE cmd # p
    BY <1>2, <2>1, <2>2, <2>3 DEF WatchExit, Ended, NoWatch
  <2>4. CASE cmd = p
    <3>1. alive = {} /\ cmd' = None
      BY <1>2, <2>4 DEF WatchExit
    <3>2. /\ status' \in [state : States, revision : Revisions \cup {None}, pid : Procs \cup {None}]
          /\ status'.pid = None
          /\ status'.state \in {"stopped", "starting", "crash-loop"}
          /\ status'.state = "crash-loop" => desired' = FALSE
      BY <1>2, <2>4 DEF WatchExit, States
    <3>3. desired' \in BOOLEAN
      BY <1>2, <2>4 DEF WatchExit
    <3>4. QED
      BY <1>2, <2>1, <2>2, <3>1, <3>2, <3>3 DEF WatchExit
  <2>5. QED
    BY <2>3, <2>4
<1>3. CASE WatchCancelled(p)
  BY <1>3 DEF WatchCancelled, Ended, NoWatch, WatchRec
<1>4. CASE WatchRestart(p)
  <2>1. Unwatched(p) \in [Procs -> WatchRec]
    BY DEF Unwatched, NoWatch, WatchRec
  <2>2. watch[p].rev \in Revisions \cup {None} /\ watch[p].ctx \in Contexts \cup {None}
    BY DEF WatchRec
  <2>3. CASE MayRestart
    <3>1. cmd = None /\ desired
      BY <2>3 DEF MayRestart
    <3>2. startLocked(watch[p].rev, watch[p].ctx, Unwatched(p))
      BY <1>4, <2>3 DEF WatchRestart
    <3>3. auto' \in Nat
      BY <1>4, <2>3 DEF WatchRestart
    <3>4. QED
      BY <1>4, <2>1, <2>2, <3>1, <3>2, <3>3, StartLockedKeeps DEF WatchRestart
  <2>4. CASE ~MayRestart
    BY <1>4, <2>1, <2>4 DEF WatchRestart, Unwatched, NoWatch
  <2>5. QED
    BY <2>3, <2>4
<1>5. QED
  BY <1>1, <1>2, <1>3, <1>4 DEF WatchStep

\* Every step keeps the inductive invariant.
LEMMA NextKeepsIInv ==
  ASSUME IInv, [Next]_vars
  PROVE  IInv'
<1> USE DEF IInv, TypeOK, StatusTruthful, OneEndpoint, WatchersInPlace, supVars, procVars, history
<1>1. ASSUME NEW c \in Callers, CallerStep(c) PROVE IInv'
  BY <1>1, CallerKeepsIInv, StartKeepsIInv
<1>2. ASSUME NEW p \in Procs, WatchStep(p) PROVE IInv'
  BY <1>2, WatchKeepsIInv
<1>3. ASSUME NEW p \in Procs, Exit(p) PROVE IInv'
  BY <1>3 DEF Exit
<1>4. ASSUME NEW x \in Contexts, Cancel(x) PROVE IInv'
  BY <1>4 DEF Cancel
<1>5. CASE UNCHANGED vars
  BY <1>5 DEF vars, Sleeping
<1>6. QED
  BY <1>1, <1>2, <1>3, <1>4, <1>5 DEF Next

\* The supervisor starts in the inductive invariant and never leaves it.
THEOREM Invariance == Spec => []IInv
<1>1. Init => IInv
  <2> SUFFICES ASSUME Init PROVE IInv
    OBVIOUS
  <2>1. watch \in [Procs -> WatchRec] /\ call \in [Callers -> CallRec]
    BY DEF Init, NoWatch, WatchRec, Idle, CallRec, CallPcs
  <2>2. restarts \in 0..(MaxRestarts + 1) /\ auto \in Nat
    BY ConstantsAssumption DEF Init
  <2>3. status \in [state : States, revision : Revisions \cup {None}, pid : Procs \cup {None}]
    BY DEF Init, States
  <2>4. TypeOK
    BY <2>1, <2>2, <2>3 DEF Init, TypeOK
  <2>5. QED
    BY <2>4 DEF Init, IInv, OneEndpoint, StatusTruthful, WatchersInPlace
<1>2. QED
  BY <1>1, NextKeepsIInv, PTL DEF Spec

\* Type correctness of the supervisor, its callers and its watch goroutines.
THEOREM TypeCorrect == Spec => []TypeOK
BY Invariance, PTL DEF IInv

\* At most one endpoint process runs, and it is the one in s.cmd: for any
\* number of concurrent Start, Stop, Restart and Reload calls and of watch
\* goroutines that are late.
THEOREM SingleEndpoint == Spec => []OneEndpoint
BY Invariance, PTL DEF IInv

\* Status() always describes the process there is.
THEOREM StatusIsTruthful == Spec => []StatusTruthful
BY Invariance, PTL DEF IInv

-----------------------------------------------------------------------------
\* No step starts a process between a Stop and the Start that follows it.
LEMMA StepRespectsStop ==
  ASSUME IInv, DownMeansUndesired, [Next]_vars
  PROVE  /\ DownMeansUndesired'
         /\ intent = "down" /\ intent' = "down" => alive' \subseteq alive
<1> USE DEF DownMeansUndesired, supVars, procVars, history
<1>1. ASSUME NEW c \in Callers, CallerStep(c), ~Start(c), ~Stop(c)
      PROVE  UNCHANGED <<desired, intent, alive>>
  BY <1>1 DEF CallerStep, CallReload, CallStop, CallRestart, Begin, StopTerm, StopDone,
     StopTimeout, StopCancelled, StopCancelledDone, StopFinish, Reload, SupervisorReload,
     ReloadSignal, ProbeAccepted, MarkReady, ProbeFails
<1>2. ASSUME NEW c \in Callers, Stop(c)
      PROVE  desired' = FALSE /\ alive' = alive
  BY <1>2 DEF Stop
<1>3. ASSUME NEW c \in Callers, Start(c)
      PROVE  intent' = "up" \/ UNCHANGED <<desired, intent, alive>>
  BY <1>3 DEF Start
<1>4. ASSUME NEW p \in Procs, WatchStep(p)
      PROVE  /\ intent' = intent
             /\ desired' = desired \/ desired' = FALSE
             /\ desired \/ alive' = alive
  BY <1>4 DEF WatchStep, WatchWait, WatchExit, WatchCancelled, WatchRestart, MayRestart
<1>5. ASSUME NEW p \in Procs, Exit(p)
      PROVE  UNCHANGED <<desired, intent>> /\ alive' \subseteq alive
  BY <1>5 DEF Exit
<1>6. ASSUME NEW x \in Contexts, Cancel(x)
      PROVE  UNCHANGED <<desired, intent, alive>>
  BY <1>6 DEF Cancel
<1>7. UNCHANGED vars => UNCHANGED <<desired, intent, alive>>
  BY DEF vars
<1>8. CASE \E c \in Callers : CallerStep(c)
  BY <1>1, <1>2, <1>3, <1>8
<1>9. CASE \E p \in Procs : WatchStep(p) \/ Exit(p)
  BY <1>4, <1>5, <1>9
<1>10. QED
  BY <1>6, <1>7, <1>8, <1>9 DEF Next

\* Stop is final: after Stop took effect no watch goroutine brings the endpoint
\* back, until a Start succeeds in passing its guard.
THEOREM StopFinal == Spec => StopIsFinal
<1>1. Init => DownMeansUndesired
  BY DEF Init, DownMeansUndesired
<1>2. QED
  BY <1>1, Invariance, StepRespectsStop, PTL DEF Spec, StopIsFinal

-----------------------------------------------------------------------------
\* Removing a sleeping watcher, and adding one that was awake.
LEMMA SleepingCount ==
  ASSUME NEW p \in Procs
  PROVE  /\ Cardinality(Sleeping \ {p}) \in Nat
         /\ Cardinality(Sleeping \ {p}) <= Cardinality(Sleeping)
         /\ p \in Sleeping => Cardinality(Sleeping \ {p}) = Cardinality(Sleeping) - 1
         /\ p \notin Sleeping => Cardinality(Sleeping \cup {p}) = Cardinality(Sleeping) + 1
<1>1. IsFiniteSet(Sleeping) /\ Cardinality(Sleeping) \in Nat
  BY SleepingFinite
<1>2. IsFiniteSet(Sleeping \ {p}) /\ Cardinality(Sleeping \ {p}) \in Nat
  BY <1>1, FS_RemoveElement, FS_CardinalityType
<1>3. p \in Sleeping => Cardinality(Sleeping \ {p}) = Cardinality(Sleeping) - 1
  BY <1>1, FS_RemoveElement
<1>4. p \notin Sleeping => Sleeping \ {p} = Sleeping
  OBVIOUS
<1>5. p \notin Sleeping => Cardinality(Sleeping \cup {p}) = Cardinality(Sleeping) + 1
  BY <1>1, FS_AddElement
<1>6. QED
  BY <1>1, <1>2, <1>3, <1>4, <1>5

\* Every step keeps the restarts counted.
LEMMA StepCountsRestarts ==
  ASSUME IInv, RestartsCounted, [Next]_vars
  PROVE  RestartsCounted'
<1> DEFINE Unmoved == UNCHANGED <<restarts, auto>> /\ Sleeping' = Sleeping
<1> USE ConstantsAssumption DEF supVars, procVars, history
<1>1. watch \in [Procs -> WatchRec] /\ restarts \in 0..(MaxRestarts + 1) /\ auto \in Nat
  BY DEF IInv, TypeOK
<1>2. Cardinality(Sleeping) \in Nat
  BY SleepingFinite
<1>3. UNCHANGED <<restarts, auto, watch>> => Unmoved
  BY DEF Sleeping
<1>4. ASSUME NEW c \in Callers, CallerStep(c) PROVE Unmoved
  <2>1. CASE Start(c)
    <3>1. UNCHANGED <<restarts, auto>>
      BY <2>1 DEF Start
    <3>2. CASE watch' = watch
      BY <3>1, <3>2, <1>3
    <3>3. CASE watch' # watch
      <4>1. PICK q \in Procs : Launch(q, call[c].rev, call[c].ctx, watch)
        BY <2>1, <3>3 DEF Start, startLocked, LaunchFails
      <4>2. QED
        BY <1>1, <3>1, <4>1 DEF Launch, Free, Sleeping
    <3>4. QED
      BY <3>2, <3>3
  <2>2. CASE ~Start(c)
    BY <1>3, <1>4, <2>2 DEF CallerStep, CallReload, CallStop, CallRestart, Begin, Stop,
       StopTerm, StopDone, StopTimeout, StopCancelled, StopCancelledDone, StopFinish,
       Reload, SupervisorReload, ReloadSignal, ProbeAccepted, MarkReady, ProbeFails
  <2>3. QED
    BY <2>1, <2>2
<1>5. ASSUME NEW p \in Procs, WatchWait(p) PROVE Unmoved
  BY <1>1, <1>5 DEF WatchWait, Sleeping
<1>6. ASSUME NEW p \in Procs, WatchExit(p) PROVE RestartsCounted'
  <2>1. p \notin Sleeping
    BY <1>6 DEF WatchExit, Sleeping
  <2>2. CASE Ended(p) /\ UNCHANGED <<restarts, auto>>
    <3>1. Sleeping' = Sleeping
      BY <1>1, <2>1, <2>2 DEF Ended, NoWatch, Sleeping
    <3>2. QED
      BY <2>2, <3>1 DEF RestartsCounted
  <2>3. CASE ~(Ended(p) /\ UNCHANGED <<restarts, auto>>)
    <3>1. PICK k \in Kept : restarts' = Cap(k + 1) /\ auto' = AutoKept(k)
      BY <1>6, <2>3 DEF WatchExit
    <3>2. /\ k \in Nat /\ Cardinality(Sleeping) <= k
          /\ auto' + Cardinality(Sleeping) <= k
          /\ auto' \in Nat /\ auto' <= auto
      BY <1>1, <1>2, <3>1 DEF Kept, AutoKept
    <3>3. CASE CircuitOpen(restarts')
      <4>1. Sleeping' = Sleeping
        BY <1>1, <1>6, <2>1, <2>3, <3>3 DEF WatchExit, Ended, NoWatch, Sleeping
      <4>2. k >= MaxRestarts /\ restarts' = MaxRestarts + 1
        BY <3>1, <3>2, <3>3 DEF CircuitOpen, Cap
      <4>3. auto' + Cardinality(Sleeping) <= MaxRestarts
        BY <1>1, <1>2, <3>2 DEF RestartsCounted
      <4>4. QED
        BY <1>2, <3>2, <4>1, <4>2, <4>3 DEF RestartsCounted
    <3>4. CASE ~CircuitOpen(restarts')
      <4>1. Sleeping' = Sleeping \cup {p}
        BY <1>1, <1>6, <2>3, <3>4 DEF WatchExit, Sleeping, WatchRec
      <4>2. restarts' = k + 1 /\ k + 1 <= MaxRestarts
        BY <3>1, <3>2, <3>4 DEF CircuitOpen, Cap
      <4>3. Cardinality(Sleeping') = Cardinality(Sleeping) + 1
        BY <2>1, <4>1, SleepingCount
      <4>4. QED
        BY <1>2, <3>2, <4>2, <4>3 DEF RestartsCounted
    <3>5. QED
      BY <3>3, <3>4
  <2>4. QED
    BY <2>2, <2>3
<1>7. ASSUME NEW p \in Procs, WatchCancelled(p) PROVE RestartsCounted'
  <2>1. Sleeping' = Sleeping \ {p}
    BY <1>1, <1>7 DEF WatchCancelled, Ended, NoWatch, Sleeping
  <2>2. UNCHANGED <<restarts, auto>>
    BY <1>7 DEF WatchCancelled
  <2>3. Cardinality(Sleeping') \in Nat /\ Cardinality(Sleeping') <= Cardinality(Sleeping)
    BY <2>1, SleepingCount
  <2>4. QED
    BY <1>1, <1>2, <2>2, <2>3 DEF RestartsCounted
<1>8. ASSUME NEW p \in Procs, WatchRestart(p) PROVE RestartsCounted'
  <2>1. p \in Sleeping /\ restarts' = restarts /\ auto' \in {auto, auto + 1}
    BY <1>8 DEF WatchRestart, Sleeping
  <2>2. Sleeping' = Sleeping \ {p}
    <3>1. CASE watch' = Unwatched(p)
      BY <1>1, <3>1 DEF Unwatched, NoWatch, Sleeping
    <3>2. CASE watch' # Unwatched(p)
      <4>1. PICK q \in Procs : Launch(q, watch[p].rev, watch[p].ctx, Unwatched(p))
        BY <1>8, <3>2 DEF WatchRestart, startLocked, LaunchFails
      <4>2. QED
        BY <1>1, <4>1 DEF Launch, Free, Unwatched, NoWatch, Sleeping
    <3>3. QED
      BY <3>1, <3>2
  <2>3. QED
    BY <1>1, <1>2, <2>1, <2>2, SleepingCount DEF RestartsCounted
<1>9. ASSUME NEW p \in Procs, Exit(p) PROVE Unmoved
  BY <1>3, <1>9 DEF Exit
<1>10. ASSUME NEW x \in Contexts, Cancel(x) PROVE Unmoved
  BY <1>3, <1>10 DEF Cancel
<1>11. UNCHANGED vars => Unmoved
  BY <1>3 DEF vars
<1>12. Unmoved => RestartsCounted'
  BY DEF RestartsCounted
<1>13. ASSUME NEW p \in Procs, WatchStep(p) PROVE RestartsCounted'
  BY <1>5, <1>6, <1>7, <1>8, <1>12, <1>13 DEF WatchStep
<1>14. QED
  BY <1>4, <1>9, <1>10, <1>11, <1>12, <1>13 DEF Next

\* The circuit breaker: within one restart window the watch goroutines restart
\* the endpoint at most MaxRestarts times, however many of them sleep and
\* whatever calls come in between.
THEOREM BreakerHolds == Spec => []BreakerBounds
<1>1. Init => RestartsCounted
  <2> SUFFICES ASSUME Init PROVE RestartsCounted
    OBVIOUS
  <2>1. Sleeping = {}
    BY DEF Init, NoWatch, Sleeping
  <2>2. QED
    BY <2>1, FS_EmptySet, ConstantsAssumption DEF Init, RestartsCounted
<1>2. IInv /\ RestartsCounted => BreakerBounds
  BY SleepingFinite, ConstantsAssumption DEF IInv, TypeOK, RestartsCounted, BreakerBounds
<1>3. QED
  BY <1>1, <1>2, Invariance, StepCountsRestarts, PTL DEF Spec

=============================================================================
