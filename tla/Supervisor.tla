----------------------------- MODULE Supervisor -----------------------------
(***************************************************************************)
(* The endpoint supervisor (internal/supervisor/supervisor.go) and the     *)
(* readiness wrapper through which the controller drives it (type          *)
(* readinessProcess of internal/app/app.go).                               *)
(*                                                                         *)
(* Every critical section of Supervisor.mu is one action.  What runs       *)
(* outside the lock (signals, the select of Stop, the wait and the backoff *)
(* of the watch goroutine, the TCP probe) is split at exactly the places   *)
(* where the code releases the lock, so that callers, watch goroutines,    *)
(* the endpoint process and context cancellation interleave as they do in  *)
(* the program.                                                            *)
(*                                                                         *)
(* A member of Procs is a *exec.Cmd together with its done channel and its *)
(* watch goroutine.  It may be reused once no goroutine refers to it, as   *)
(* the garbage collector may reuse the address, so the number of processes *)
(* started in a behaviour is not bounded, only how many are referred to    *)
(* at the same time.  Contexts are reused in the same way.                 *)
(***************************************************************************)
EXTENDS Integers, FiniteSets

CONSTANTS
  Procs,          \* commands that goroutines can refer to at the same time
  Callers,        \* goroutines that call the supervisor
  Revisions,      \* configuration revisions
  Contexts,       \* contexts passed by callers and kept by watch goroutines
  Cancellable,    \* the contexts that can be cancelled
  MaxRestarts,    \* Config.MaxRestarts
  ExecMayFail,    \* whether exec.Cmd.Start may return an error
  None

ASSUME ConstantsAssumption ==
  /\ IsFiniteSet(Procs)
  /\ MaxRestarts \in Nat \ {0}
  /\ Cancellable \subseteq Contexts
  /\ ExecMayFail \in BOOLEAN
  /\ None \notin Procs \cup Revisions \cup Contexts

VARIABLES
  cmd,        \* s.cmd (and s.done, which is replaced together with it)
  desired,    \* s.desired
  stopping,   \* s.stopping
  status,     \* s.status: State, Revision and PID
  restarts,   \* len(s.restarts), saturated at MaxRestarts + 1
  alive,      \* endpoint processes that the kernel still runs
  killed,     \* processes that were sent SIGKILL
  watch,      \* the watch goroutine of each command
  call,       \* what each caller is doing
  cancelled,  \* contexts whose Done channel is closed
  intent,     \* history: the last of Start ("up") and Stop ("down") to take effect
  auto        \* history: restarts by watch goroutines within the window

supVars == <<cmd, desired, stopping, status, restarts>>
procVars == <<alive, killed, watch>>
history == <<intent, auto>>
vars == <<supVars, procVars, call, cancelled, history>>

States == {"stopped", "starting", "ready", "degraded", "crash-loop"}
NoWatch == [pc |-> "none", rev |-> None, ctx |-> None]
Idle == [pc |-> "idle", op |-> "none", rev |-> None, ctx |-> None, target |-> None]

StopPcs == {"stop", "term", "await", "reap", "reapErr", "finish"}
CallPcs == {"idle", "start", "reload", "signal", "hup", "probe", "mark"} \cup StopPcs

WatchRec == [pc : {"none", "wait", "closed", "backoff"},
             rev : Revisions \cup {None}, ctx : Contexts \cup {None}]
CallRec == [pc : CallPcs, op : {"none", "restart", "reload", "stop"},
            rev : Revisions \cup {None}, ctx : Contexts \cup {None},
            target : Procs \cup {None}]

\* Every variable holds a value of its kind.
TypeOK ==
  /\ cmd \in Procs \cup {None}
  /\ desired \in BOOLEAN /\ stopping \in BOOLEAN
  /\ status \in [state : States, revision : Revisions \cup {None}, pid : Procs \cup {None}]
  /\ restarts \in 0..(MaxRestarts + 1)
  /\ alive \subseteq Procs /\ killed \subseteq Procs
  /\ watch \in [Procs -> WatchRec]
  /\ call \in [Callers -> CallRec]
  /\ cancelled \subseteq Contexts
  /\ intent \in {"up", "down"}
  /\ auto \in Nat

Init ==
  /\ cmd = None
  /\ desired = FALSE
  /\ stopping = FALSE
  /\ status = [state |-> "stopped", revision |-> None, pid |-> None]
  /\ restarts = 0
  /\ alive = {}
  /\ killed = {}
  /\ watch = [p \in Procs |-> NoWatch]
  /\ call = [c \in Callers |-> Idle]
  /\ cancelled = {}
  /\ intent = "down"
  /\ auto = 0

-----------------------------------------------------------------------------
(* Helpers                                                                 *)

\* A command that neither a goroutine of w nor a caller refers to.
Free(p, w) == w[p].pc = "none" /\ \A c \in Callers : call[c].target # p

\* A context nobody refers to: taking it is context.WithCancel or a new request.
Unused(x) ==
  /\ \A c \in Callers : call[c].ctx # x
  /\ \A p \in Procs : watch[p].ctx # x

\* The watch goroutines that sleep before a restart.
Sleeping == {p \in Procs : watch[p].pc = "backoff"}

Return(c) == call' = [call EXCEPT ![c] = Idle]
Goto(c, pc) == call' = [call EXCEPT ![c].pc = pc]

\* The status that startLocked reports for a new process.
LaunchStatus(p, r) == [state |-> "starting", revision |-> r, pid |-> p]

\* startLocked after a successful exec: a new command, status and watcher.
\* w is the watch function in which the new goroutine is entered.
Launch(p, r, x, w) ==
  /\ Free(p, w)
  /\ cmd' = p
  /\ status' = LaunchStatus(p, r)
  /\ alive' = alive \cup {p}
  /\ watch' = [w EXCEPT ![p] = [pc |-> "wait", rev |-> r, ctx |-> x]]
  /\ UNCHANGED killed

\* startLocked when exec.Cmd.Start fails: only the status changes.
LaunchFails(w) ==
  /\ ExecMayFail
  /\ status' = [status EXCEPT !.state = "stopped"]
  /\ watch' = w
  /\ UNCHANGED <<cmd, alive, killed>>

startLocked(r, x, w) == (\E p \in Procs : Launch(p, r, x, w)) \/ LaunchFails(w)

-----------------------------------------------------------------------------
(* Callers: readinessProcess.Restart and Reload, Supervisor.Stop            *)

Begin(c, op, pc, r, x) ==
  /\ call[c].pc = "idle"
  /\ call' = [call EXCEPT ![c] = [pc |-> pc, op |-> op, rev |-> r, ctx |-> x, target |-> None]]
  /\ cancelled' = IF Unused(x) THEN cancelled \ {x} ELSE cancelled
  /\ UNCHANGED <<supVars, procVars, history>>

CallRestart(c, r, x) == Begin(c, "restart", "stop", r, x)
CallReload(c, x) == Begin(c, "reload", "reload", None, x)
CallStop(c, x) == Begin(c, "stop", "stop", None, x)

\* Start refuses when there is a command already.
MayStartAlways == TRUE
MayStart == cmd = None

\* Start: the whole critical section, startLocked included.
Start(c) ==
  /\ call[c].pc = "start"
  /\ \/ /\ ~MayStart
        /\ Return(c)
        /\ UNCHANGED <<supVars, procVars, history>>
     \/ /\ MayStart
        /\ desired' = TRUE
        /\ stopping' = FALSE
        /\ intent' = "up"
        /\ startLocked(call[c].rev, call[c].ctx, watch)
        /\ IF cmd' = None THEN Return(c) ELSE Goto(c, "probe")
        /\ UNCHANGED <<restarts, auto>>
  /\ UNCHANGED cancelled

\* Where a caller of Stop continues: Restart goes on to Start.
AfterStop(c) ==
  IF call[c].op = "stop" THEN Return(c)
  ELSE call' = [call EXCEPT ![c].pc = "start", ![c].target = None]

\* Stop, first critical section.
Stop(c) ==
  /\ call[c].pc = "stop"
  /\ desired' = FALSE
  /\ intent' = "down"
  /\ IF cmd = None
     THEN /\ status' = [status EXCEPT !.state = "stopped"]
          /\ AfterStop(c)
          /\ UNCHANGED stopping
     ELSE /\ stopping' = TRUE
          /\ call' = [call EXCEPT ![c].pc = "term", ![c].target = cmd]
          /\ UNCHANGED status
  /\ UNCHANGED <<cmd, restarts, procVars, cancelled, auto>>

\* Stop sends SIGTERM.  An error other than os.ErrProcessDone returns at once.
StopTerm(c) ==
  /\ call[c].pc = "term"
  /\ \/ Goto(c, "await")
     \/ call[c].target \in alive /\ Return(c)
  /\ UNCHANGED <<supVars, procVars, cancelled, history>>

\* done is closed by the watch goroutine before it takes the lock.
DoneClosed(p) == watch[p].pc # "wait"

\* Stop, case <-done.
StopDone(c) ==
  /\ call[c].pc \in {"await", "reap"}
  /\ DoneClosed(call[c].target)
  /\ Goto(c, "finish")
  /\ UNCHANGED <<supVars, procVars, cancelled, history>>

\* Stop, case <-timer.C and case <-ctx.Done(): both kill, then wait for done.
KillNothing(p) == UNCHANGED killed
Kill(p) == killed' = killed \cup ({p} \cap alive)

StopTimeout(c) ==
  /\ call[c].pc = "await"
  /\ Kill(call[c].target)
  /\ Goto(c, "reap")
  /\ UNCHANGED <<supVars, alive, watch, cancelled, history>>

StopCancelled(c) ==
  /\ call[c].pc = "await"
  /\ call[c].ctx \in cancelled
  /\ Kill(call[c].target)
  /\ Goto(c, "reapErr")
  /\ UNCHANGED <<supVars, alive, watch, cancelled, history>>

\* After a cancelled wait Stop returns the context's error and touches nothing.
StopCancelledDone(c) ==
  /\ call[c].pc = "reapErr"
  /\ DoneClosed(call[c].target)
  /\ Return(c)
  /\ UNCHANGED <<supVars, procVars, cancelled, history>>

\* Stop, last critical section.
StopFinish(c) ==
  /\ call[c].pc = "finish"
  /\ stopping' = FALSE
  /\ status' = [status EXCEPT !.state = "stopped"]
  /\ AfterStop(c)
  /\ UNCHANGED <<cmd, desired, restarts, procVars, cancelled, history>>

\* readinessProcess.Reload: without a process it restarts the stored revision
\* (any revision here: the store belongs to another component).
Reload(c) ==
  /\ call[c].pc = "reload"
  /\ IF status.pid = None
     THEN \/ Return(c)
          \/ \E r \in Revisions :
               call' = [call EXCEPT ![c].pc = "stop", ![c].op = "restart", ![c].rev = r]
     ELSE Goto(c, "signal")
  /\ UNCHANGED <<supVars, procVars, cancelled, history>>

\* Supervisor.Reload: read the process under the lock ...
SupervisorReload(c) ==
  /\ call[c].pc = "signal"
  /\ IF cmd = None THEN Return(c)
     ELSE call' = [call EXCEPT ![c].pc = "hup", ![c].target = cmd]
  /\ UNCHANGED <<supVars, procVars, cancelled, history>>

\* ... and send SIGHUP after the unlock.
ReloadSignal(c) ==
  /\ call[c].pc = "hup"
  /\ \/ /\ call[c].ctx \notin cancelled
        /\ watch[call[c].target].pc = "wait"
        /\ call' = [call EXCEPT ![c].pc = "probe", ![c].target = None]
     \/ /\ call[c].ctx \in cancelled \/ call[c].target \notin alive
        /\ Return(c)
  /\ UNCHANGED <<supVars, procVars, cancelled, history>>

\* ready: waitTCP reaches the process that listens ...
ProbeAccepted(c) ==
  /\ call[c].pc = "probe"
  /\ alive # {}
  /\ Goto(c, "mark")
  /\ UNCHANGED <<supVars, procVars, cancelled, history>>

\* MarkReady and MarkDegraded touch the status only while there is a command.
MarkedAnyway(st) == [status EXCEPT !.state = st]
Marked(st) == IF cmd = None THEN status ELSE [status EXCEPT !.state = st]

\* ... and MarkReady marks whatever process there is by then.
MarkReady(c) ==
  /\ call[c].pc = "mark"
  /\ status' = Marked("ready")
  /\ Return(c)
  /\ UNCHANGED <<cmd, desired, stopping, restarts, procVars, cancelled, history>>

\* The probe times out or is cancelled: MarkDegraded.  When the listen address
\* cannot be read (Snapshot fails) ready returns without marking anything.
ProbeFails(c) ==
  /\ call[c].pc = "probe"
  /\ status' \in {status, Marked("degraded")}
  /\ Return(c)
  /\ UNCHANGED <<cmd, desired, stopping, restarts, procVars, cancelled, history>>

-----------------------------------------------------------------------------
(* The endpoint process, contexts and the watch goroutine                   *)

\* The endpoint exits: a crash, an exit after SIGTERM, or SIGKILL.
Exit(p) ==
  /\ p \in alive
  /\ alive' = alive \ {p}
  /\ killed' = killed \ {p}
  /\ UNCHANGED <<supVars, watch, call, cancelled, history>>

Cancel(x) ==
  /\ x \in Cancellable \ cancelled
  /\ ~Unused(x)
  /\ cancelled' = cancelled \cup {x}
  /\ UNCHANGED <<supVars, procVars, call, history>>

\* watch: cmd.Wait returns and done is closed, still without the lock.
WatchWait(p) ==
  /\ watch[p].pc = "wait"
  /\ p \notin alive
  /\ watch' = [watch EXCEPT ![p].pc = "closed"]
  /\ UNCHANGED <<supVars, alive, killed, call, cancelled, history>>

Ended(p) == watch' = [watch EXCEPT ![p] = NoWatch]

\* The exit was asked for, or the context of the Start is over.
Expected(p) == ~desired \/ stopping \/ watch[p].ctx \in cancelled

\* What may be left of s.restarts after dropping the entries that left the
\* window: the entry of a sleeping watcher is at most 3.2 s old and the window
\* is a minute, so it is kept.
Kept == Cardinality(Sleeping)..restarts
\* Of the k entries kept at most those of no sleeping watcher were restarts.
AutoKept(k) ==
  LET most == k - Cardinality(Sleeping) IN IF auto > most THEN most ELSE auto
Cap(n) == IF n > MaxRestarts THEN MaxRestarts + 1 ELSE n

\* The circuit breaker, asked after the new entry was appended.
CircuitOpenLate(n) == n > MaxRestarts + 1
CircuitOpen(n) == n > MaxRestarts

\* watch: the first critical section after the exit.
WatchExit(p) ==
  /\ watch[p].pc = "closed"
  /\ \/ /\ cmd # p
        /\ Ended(p)
        /\ UNCHANGED <<supVars, auto>>
     \/ /\ cmd = p
        /\ Expected(p)
        /\ cmd' = None
        /\ status' = [status EXCEPT !.pid = None, !.state = "stopped"]
        /\ Ended(p)
        /\ UNCHANGED <<desired, restarts, auto>>
     \/ /\ cmd = p
        /\ ~Expected(p)
        /\ cmd' = None
        /\ \E k \in Kept :
             /\ restarts' = Cap(k + 1)
             /\ auto' = AutoKept(k)
        /\ IF CircuitOpen(restarts')
           THEN /\ status' = [status EXCEPT !.pid = None, !.state = "crash-loop"]
                /\ desired' = FALSE
                /\ Ended(p)
           ELSE /\ status' = [status EXCEPT !.pid = None, !.state = "starting"]
                /\ watch' = [watch EXCEPT ![p].pc = "backoff"]
                /\ UNCHANGED desired
  /\ UNCHANGED <<stopping, alive, killed, call, cancelled, intent>>

\* watch: ctx.Done() during the backoff ends the goroutine silently.
WatchCancelled(p) ==
  /\ watch[p].pc = "backoff"
  /\ watch[p].ctx \in cancelled
  /\ Ended(p)
  /\ UNCHANGED <<supVars, alive, killed, call, cancelled, history>>

\* What watch checks after the backoff.
MayRestartUndesired == cmd = None /\ ~stopping
MayRestartNever == desired /\ cmd # None /\ ~stopping
MayRestart == desired /\ cmd = None /\ ~stopping

\* watch: the timer fires and the goroutine takes the lock again.  It starts
\* the revision of the process it watched.
Unwatched(p) == [watch EXCEPT ![p] = NoWatch]
WatchRestart(p) ==
  /\ watch[p].pc = "backoff"
  /\ IF MayRestart
     THEN /\ startLocked(watch[p].rev, watch[p].ctx, Unwatched(p))
          /\ auto' = IF cmd' = None THEN auto ELSE auto + 1
     ELSE /\ watch' = Unwatched(p)
          /\ UNCHANGED <<cmd, status, alive, killed, auto>>
  /\ UNCHANGED <<desired, stopping, restarts, call, cancelled, intent>>

-----------------------------------------------------------------------------
CallerStep(c) ==
  \/ \E x \in Contexts : CallReload(c, x) \/ CallStop(c, x)
  \/ \E x \in Contexts, r \in Revisions : CallRestart(c, r, x)
  \/ Start(c)
  \/ Stop(c) \/ StopTerm(c) \/ StopDone(c) \/ StopTimeout(c)
  \/ StopCancelled(c) \/ StopCancelledDone(c) \/ StopFinish(c)
  \/ Reload(c) \/ SupervisorReload(c) \/ ReloadSignal(c)
  \/ ProbeAccepted(c) \/ MarkReady(c) \/ ProbeFails(c)

WatchStep(p) ==
  WatchWait(p) \/ WatchExit(p) \/ WatchCancelled(p) \/ WatchRestart(p)

Next ==
  \/ \E c \in Callers : CallerStep(c)
  \/ \E p \in Procs : WatchStep(p) \/ Exit(p)
  \/ \E x \in Contexts : Cancel(x)

Spec == Init /\ [][Next]_vars

\* A goroutine that can run is eventually run, timers fire, and SIGKILL works.
\* Nothing is assumed of the endpoint otherwise: it may run for ever, exit at
\* any time, and ignore SIGTERM.  No call has to be made.
Fairness ==
  /\ \A c \in Callers :
       /\ WF_vars(Start(c) \/ Stop(c) \/ StopTerm(c) \/ StopFinish(c))
       /\ WF_vars(StopDone(c) \/ StopTimeout(c) \/ StopCancelledDone(c))
  /\ \A p \in Procs :
       /\ WF_vars(WatchWait(p) \/ WatchExit(p) \/ WatchRestart(p))
       /\ WF_vars(p \in killed /\ Exit(p))

FairSpec == Spec /\ Fairness

-----------------------------------------------------------------------------
(* Properties                                                               *)

\* There is never a second endpoint: a process that runs is the one s.cmd
\* names, whatever Start, Stop, crashes and late watch goroutines do.
OneEndpoint == alive \subseteq {cmd}

\* What Status() reports is about the process there is: the PID is that of
\* s.cmd, the revision the one it was launched with, "ready" and "degraded"
\* need a process, and "crash-loop" means that nothing runs or is wanted.
StatusTruthful ==
  /\ status.pid = cmd
  /\ cmd # None => status.revision = watch[cmd].rev
  /\ status.state \in {"ready", "degraded"} => cmd # None
  /\ status.state = "crash-loop" => cmd = None /\ ~desired

\* Stop is final: until the next Start takes effect no process is started, not
\* even by a watch goroutine that was sleeping when Stop came.
StopIsFinal ==
  [][intent = "down" /\ intent' = "down" => alive' \subseteq alive]_vars

\* The circuit breaker bounds the automatic restarts within one window, also
\* when several watch goroutines sleep and calls come in between.
BreakerBounds == auto <= MaxRestarts

\* Stop always comes back, even if the endpoint ignores SIGTERM.
StopReturns ==
  \A c \in Callers : call[c].pc \in StopPcs ~> call[c].pc \notin StopPcs

\* An endpoint that should run and has exited is started again by its watch
\* goroutine, unless the breaker opens or Stop is called.
CrashRecovered ==
  (intent = "up" /\ cmd = None)
    ~> (cmd # None \/ status.state = "crash-loop" \/ intent = "down")

\* The same as far as the code provides it: when the process of s.cmd is gone
\* an endpoint runs again, unless also the context of its Start ends.
RecoveredUnlessCancelled ==
  \A p \in Procs :
    (intent = "up" /\ cmd = p /\ p \notin alive /\ watch[p].ctx \notin cancelled)
      ~> (alive # {} \/ status.state = "crash-loop" \/ intent = "down"
            \/ watch[p].ctx \in cancelled)
=============================================================================
