------------------------------ MODULE Scheduler ------------------------------
(***************************************************************************)
(* The renewal worker (internal/certificate/scheduler.go, automatic.go)    *)
(* and how the controller stops it (internal/app/app.go): the context      *)
(* ends, Scheduler.Stop waits for the worker for a limited time, and then  *)
(* the HTTP-01 provider is shut down.                                      *)
(*                                                                         *)
(* The worker calls Ensure in a loop.  Ensure may present challenges, the  *)
(* ones in Own; it has cleaned them up when it returns.  The others belong *)
(* to requests of the TLS page, which use the same provider.  The fraction *)
(* by which a delay is jittered is a tenth, as in NewScheduler.            *)
(***************************************************************************)
EXTENDS HTTP01, Doubling

CONSTANTS
  Own,          \* the challenges of the worker's orders
  baseBackoff,
  maxBackoff,
  Poll,         \* the delay after an Ensure that worked
  MaxAttempts   \* bound: failures in a row that are counted

ASSUME SchedulerAssumption ==
  /\ Own \subseteq Challenges
  /\ baseBackoff \in Nat \ {0}
  /\ maxBackoff \in Nat /\ baseBackoff <= maxBackoff
  /\ Poll \in Nat
  \* From there on the delay is the longest one.
  /\ MaxAttempts \in Nat /\ baseBackoff * TwoTo[MaxAttempts] >= maxBackoff

VARIABLES
  worker,  \* the goroutine: what it does, failures in a row, the delay it waits
  live,    \* the context of the controller has not ended
  halt     \* Scheduler.Stop: not called or waiting, has returned, has timed out

schedulerVars == <<worker, live, halt>>
allVars == <<vars, schedulerVars>>

WorkerRec ==
  [pc : {"off", "ensure", "wait", "done"}, attempt : 0..(MaxAttempts + 1), delay : Nat]

\* Every variable of the scheduler and of the provider holds a value of its
\* kind: no slot of the semaphore is taken or returned twice.
SchedulerTypeOK ==
  /\ TypeOK
  /\ worker \in WorkerRec
  /\ live \in BOOLEAN
  /\ halt \in {"no", "stopped", "timeout"}

SchedulerInit ==
  /\ Init
  /\ worker = [pc |-> "off", attempt |-> 0, delay |-> 0]
  /\ live = TRUE
  /\ halt = "no"

-----------------------------------------------------------------------------
(* The delays                                                              *)

\* Backoff: the loop stops before a doubling would pass the maximum.
Doubled(delay) ==
  IF delay >= maxBackoff THEN delay
  ELSE IF delay > maxBackoff \div 2 THEN maxBackoff ELSE delay * 2
Backoff[attempt \in Nat] ==
  IF attempt = 0 THEN baseBackoff ELSE Doubled(Backoff[attempt - 1])

\* jitterBackoff, for the random number num/den.
JitterUncapped(delay, num, den) == (delay * (9 * den + 2 * num)) \div (10 * den)
jitterBackoff(delay, num, den) ==
  LET result == (delay * (9 * den + 2 * num)) \div (10 * den)
  IN IF result > maxBackoff THEN maxBackoff ELSE result

-----------------------------------------------------------------------------
(* The worker                                                              *)

\* renewal.Start, after the endpoint was recovered.
Start ==
  /\ worker.pc = "off" /\ live
  /\ worker' = [worker EXCEPT !.pc = "ensure"]
  /\ UNCHANGED <<vars, live, halt>>

\* Ensure returns; the worker ends if the context has ended meanwhile.
Quiet == \A c \in Own : call[c].pc = "idle"
Counted(attempt) == IF attempt > MaxAttempts THEN attempt ELSE attempt + 1
EnsureReturns ==
  /\ worker.pc = "ensure" /\ Quiet
  /\ \/ ~live /\ worker' = [worker EXCEPT !.pc = "done"]
     \/ live /\ worker' = [pc |-> "wait", attempt |-> 0, delay |-> Poll]
     \/ /\ live
        /\ \E num \in 0..2 :
             worker' = [pc |-> "wait", attempt |-> Counted(worker.attempt),
                        delay |-> jitterBackoff(Backoff[worker.attempt], num, 2)]
  /\ UNCHANGED <<vars, live, halt>>

\* waitScheduler: the timer fires, or the context ends.
WaitReturns ==
  /\ worker.pc = "wait"
  /\ worker' = [worker EXCEPT !.pc = IF live THEN "ensure" ELSE "done", !.delay = 0]
  /\ UNCHANGED <<vars, live, halt>>

-----------------------------------------------------------------------------
(* The end of the controller                                               *)

\* A signal, or a server that failed, ends the context.
Interrupt ==
  /\ live /\ worker.pc # "off"
  /\ live' = FALSE
  /\ UNCHANGED <<vars, worker, halt>>

\* Scheduler.Stop, in its select.
StopUnwaited ==
  /\ ~live /\ halt = "no"
  /\ halt' \in {"stopped", "timeout"}
  /\ UNCHANGED <<vars, worker, live>>
StopPatient ==
  /\ ~live /\ halt = "no"
  /\ worker.pc = "done" /\ halt' = "stopped"
  /\ UNCHANGED <<vars, worker, live>>
Stop ==
  /\ ~live /\ halt = "no"
  /\ \/ worker.pc = "done" /\ halt' = "stopped"
     \/ halt' = "timeout"
  /\ UNCHANGED <<vars, worker, live>>

-----------------------------------------------------------------------------
(* With the provider                                                       *)

\* The worker's challenges are presented by Ensure only.
PresentIn(c) == Present(c) /\ (c \in Own => worker.pc = "ensure")

Provider ==
  \/ \E c \in Challenges : PresentIn(c) \/ CleanUpStep(c)
  \/ halt # "no" /\ Shutdown
  \/ ShutdownStep
  \/ \E r \in Requests : Answer(r) \/ \E c \in Challenges : Accept(r, c)

SchedulerNext ==
  \/ Start \/ EnsureReturns \/ WaitReturns \/ Interrupt \/ Stop
  \/ Provider /\ UNCHANGED schedulerVars

SchedulerSpec == SchedulerInit /\ [][SchedulerNext]_allVars

\* Timers fire, Stop has its own timeout and the deferred calls run one after
\* the other.  Ensure is not assumed to return.
FairSchedulerSpec ==
  /\ SchedulerSpec
  /\ WF_allVars(WaitReturns) /\ WF_allVars(Stop)
  /\ WF_allVars(halt # "no" /\ Shutdown /\ UNCHANGED schedulerVars)
  /\ WF_allVars(ShutdownStep /\ UNCHANGED schedulerVars)
  /\ \A c \in Challenges : WF_allVars(CleanUpStep(c) /\ UNCHANGED schedulerVars)
  /\ \A r \in Requests : WF_allVars(Answer(r) /\ UNCHANGED schedulerVars)

-----------------------------------------------------------------------------
(* Properties                                                              *)

\* The delay before the retry after the k-th failure in a row is within a tenth
\* of baseBackoff doubled k - 1 times, and never above maxBackoff: the worker
\* neither hammers the authority nor sleeps too long.
RetryDelay ==
  worker.pc = "wait" /\ worker.attempt > 0 =>
    LET full == baseBackoff * TwoTo[worker.attempt - 1]
        want == IF full > maxBackoff THEN maxBackoff ELSE full
    IN /\ 10 * worker.delay > 9 * want - 10
       /\ 10 * worker.delay <= 11 * want
       /\ worker.delay <= maxBackoff

\* Once Stop has returned without an error no renewal is under way, and none of
\* the worker's challenges is presented, so that the provider can be shut down.
StoppedQuiet == halt = "stopped" => worker.pc = "done" /\ Quiet

\* The controller gets past the worker and the provider, even if Ensure never
\* returns.
StopCompletes == ~live ~> stop.pc = "done"
=============================================================================
