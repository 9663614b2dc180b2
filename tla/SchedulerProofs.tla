--------------------------- MODULE SchedulerProofs ---------------------------
(***************************************************************************)
(* Proofs about the HTTP-01 provider, for any number of challenges,        *)
(* servers and requests, and about the renewal worker that uses it, for    *)
(* any delays.                                                             *)
(***************************************************************************)
EXTENDS Scheduler, DoublingProofs, FiniteSetTheorems, TLAPS

-----------------------------------------------------------------------------
(* The provider                                                            *)

\* The types the argument needs.
Typed ==
  /\ tokens \subseteq Challenges
  /\ server \in Servers \cup {None}
  /\ open \subseteq Servers
  /\ call \in [Challenges -> CallRec]
  /\ stop \in StopRec

\* The provider has a server exactly while it has tokens, and that server's
\* listener is the one that holds the port.
ServerIffTokens ==
  /\ server # None => tokens # {} /\ open = {server}
  /\ server = None => tokens = {}

\* Tokens are those of challenges that are presented, and all of these until
\* Shutdown drops them.
TokensPresented ==
  /\ \A c \in tokens : call[c].pc = "presented"
  /\ \A c \in Challenges : call[c].pc = "presented" /\ stop.pc = "idle" => c \in tokens

\* A call that is about to close a listener closes one the provider gave up.
ClosesOwn ==
  /\ stop.pc = "close" => stop.srv \in Servers /\ stop.srv # server
  /\ \A c \in Challenges : call[c].pc = "close" => call[c].srv \in Servers /\ call[c].srv # server

\* An open listener is the provider's or is about to be closed.
OpenAccounted ==
  \A s \in open :
    \/ s = server
    \/ stop.pc = "close" /\ stop.srv = s
    \/ \E c \in Challenges : call[c].pc = "close" /\ call[c].srv = s

IInv == Typed /\ ServerIffTokens /\ TokensPresented /\ ClosesOwn /\ OpenAccounted

LEMMA InitIInv == Init => IInv
BY HTTP01Assumption DEF Init, IInv, Typed, ServerIffTokens, TokensPresented, ClosesOwn,
   OpenAccounted, Idle, CallRec, StopRec

\* Present keeps the invariant: a new server has a new listener on a free port.
LEMMA PresentIInv == ASSUME IInv, NEW c \in Challenges, Present(c) PROVE IInv'
<1> USE DEF IInv
<1>1. CASE /\ server # None
           /\ tokens' = tokens \cup {c}
           /\ call' = [call EXCEPT ![c].pc = "presented"]
           /\ UNCHANGED <<server, open, stop>>
  BY <1>1 DEF Present, Typed, ServerIffTokens, TokensPresented, ClosesOwn, OpenAccounted, CallRec
<1>2. ASSUME NEW s \in Servers, Free(s), server = None, open = {}, server' = s, open' = {s},
             tokens' = tokens \cup {c}, call' = [call EXCEPT ![c].pc = "presented"],
             UNCHANGED stop
      PROVE  IInv'
  <2>1. Typed' BY <1>2 DEF Typed, CallRec
  <2>2. ServerIffTokens' BY <1>2, HTTP01Assumption DEF ServerIffTokens
  <2>3. TokensPresented' BY <1>2 DEF Typed, TokensPresented, CallRec
  <2>4. ClosesOwn' BY <1>2 DEF Typed, ClosesOwn, CallRec, Free
  <2>5. OpenAccounted' BY <1>2 DEF OpenAccounted
  <2> QED BY <2>1, <2>2, <2>3, <2>4, <2>5
<1>3. CASE /\ server = None
           /\ call' = [call EXCEPT ![c].pc = "refused"]
           /\ UNCHANGED <<tokens, server, open, stop>>
  BY <1>3 DEF Present, Typed, ServerIffTokens, TokensPresented, ClosesOwn, OpenAccounted, CallRec
<1> QED BY <1>1, <1>2, <1>3 DEF Present

\* CleanUp keeps the invariant: the last token takes the server with it.
LEMMA CleanUpIInv == ASSUME IInv, NEW c \in Challenges, CleanUp(c) PROVE IInv'
<1> USE DEF IInv
<1>1. call[c] \in CallRec BY DEF Typed
<1>2. CASE tokens \ {c} # {} \/ server = None
  <2>1. call' = [call EXCEPT ![c] = Idle] /\ tokens' = tokens \ {c} /\ UNCHANGED <<server, open, stop>>
    BY <1>2 DEF CleanUp, StillUsed
  <2>2. Idle \in CallRec BY DEF Idle, CallRec
  <2>3. Typed' BY <2>1, <2>2 DEF Typed
  <2>4. ServerIffTokens' BY <1>2, <2>1 DEF ServerIffTokens
  <2>5. TokensPresented' BY <2>1 DEF Typed, TokensPresented, Idle
  <2>6. ClosesOwn' BY <2>1 DEF Typed, ClosesOwn, Idle
  <2>7. OpenAccounted' BY <2>1 DEF Typed, OpenAccounted, CleanUp
  <2> QED BY <2>3, <2>4, <2>5, <2>6, <2>7
<1>3. CASE tokens \ {c} = {} /\ server # None
  <2> DEFINE closing == [pc |-> "close", srv |-> server]
  <2>1. call' = [call EXCEPT ![c] = closing] /\ tokens' = {} /\ server' = None /\ UNCHANGED <<open, stop>>
    BY <1>3 DEF CleanUp, StillUsed
  <2>2. closing \in CallRec BY DEF Typed, CallRec
  <2>3. Typed' BY <2>1, <2>2 DEF Typed
  <2>4. ServerIffTokens' BY <2>1 DEF ServerIffTokens
  <2>5. TokensPresented'
    <3>1. tokens \subseteq {c} BY <1>3
    <3> QED BY <2>1, <3>1 DEF Typed, TokensPresented
  <2>6. ClosesOwn' BY <1>3, <2>1, HTTP01Assumption DEF Typed, ClosesOwn
  <2>7. OpenAccounted' BY <1>3, <2>1 DEF Typed, ServerIffTokens, OpenAccounted
  <2> QED BY <2>3, <2>4, <2>5, <2>6, <2>7
<1> QED BY <1>2, <1>3

\* Closing a listener that was given up leaves the provider's own alone.
LEMMA CloseIInv ==
  ASSUME IInv,
         (\E c \in Challenges : CleanUpClose(c) \/ CleanUpDrain(c)) \/ ShutdownClose \/ ShutdownDrain
  PROVE  IInv'
<1> USE DEF IInv
<1>1. ASSUME NEW c \in Challenges, CleanUpClose(c) PROVE IInv'
  <2>1. call[c] \in CallRec /\ call[c].srv # server
    BY <1>1 DEF CleanUpClose, Typed, ClosesOwn
  <2>2. Typed' BY <1>1 DEF CleanUpClose, ClosedListener, Typed, CallRec
  <2>3. ServerIffTokens' BY <1>1, <2>1 DEF CleanUpClose, ClosedListener, ServerIffTokens
  <2>4. TokensPresented' BY <1>1 DEF CleanUpClose, Typed, TokensPresented, CallRec
  <2>5. ClosesOwn' BY <1>1 DEF CleanUpClose, Typed, ClosesOwn, CallRec
  <2>6. OpenAccounted' BY <1>1 DEF CleanUpClose, ClosedListener, Typed, OpenAccounted, CallRec
  <2> QED BY <2>2, <2>3, <2>4, <2>5, <2>6
<1>2. ASSUME NEW c \in Challenges, CleanUpDrain(c) PROVE IInv'
  <2>1. Idle \in CallRec BY DEF Idle, CallRec
  <2>2. Typed' BY <1>2, <2>1 DEF CleanUpDrain, Typed
  <2> QED BY <1>2, <2>2 DEF CleanUpDrain, Typed, ServerIffTokens, TokensPresented, ClosesOwn,
             OpenAccounted, Idle
<1>3. CASE ShutdownClose
  <2>1. Typed' BY <1>3 DEF ShutdownClose, ClosedListener, Typed, StopRec
  <2>2. ServerIffTokens' BY <1>3 DEF ShutdownClose, ClosedListener, ServerIffTokens, ClosesOwn
  <2>3. TokensPresented' /\ ClosesOwn' BY <1>3 DEF ShutdownClose, Typed, StopRec, TokensPresented, ClosesOwn
  <2>4. OpenAccounted' BY <1>3 DEF ShutdownClose, ClosedListener, OpenAccounted
  <2> QED BY <2>1, <2>2, <2>3, <2>4
<1>4. CASE ShutdownDrain
  BY <1>4 DEF ShutdownDrain, Typed, StopRec, ServerIffTokens, TokensPresented, ClosesOwn, OpenAccounted
<1> QED BY <1>1, <1>2, <1>3, <1>4

LEMMA ShutdownIInv == ASSUME IInv, Shutdown PROVE IInv'
<1> USE DEF IInv, Shutdown
<1>1. Typed' BY DEF Typed, StopRec
<1>2. ServerIffTokens' BY DEF ServerIffTokens
<1>3. TokensPresented' BY DEF TokensPresented
<1>4. ClosesOwn' BY HTTP01Assumption DEF Typed, ClosesOwn
<1>5. OpenAccounted' BY HTTP01Assumption DEF Typed, OpenAccounted
<1> QED BY <1>1, <1>2, <1>3, <1>4, <1>5

LEMMA StepIInv == IInv /\ [Next]_vars => IInv'
<1> SUFFICES ASSUME IInv, [Next]_vars PROVE IInv' OBVIOUS
<1>1. CASE UNCHANGED <<tokens, server, open, call, stop>>
  BY <1>1 DEF IInv, Typed, ServerIffTokens, TokensPresented, ClosesOwn, OpenAccounted
<1>2. ASSUME NEW r \in Requests, Answer(r) \/ \E c \in Challenges : Accept(r, c) PROVE IInv'
  BY <1>1, <1>2 DEF Answer, Accept
<1> QED BY <1>1, <1>2, PresentIInv, CleanUpIInv, CloseIInv, ShutdownIInv
    DEF Next, CleanUpStep, ShutdownStep, vars

LEMMA Invariance == Spec => []IInv
BY InitIInv, StepIInv, PTL DEF Spec

\* A presented challenge can be answered, whatever else is cleaned up.
THEOREM AlwaysAnswerable == Spec => []Answerable
<1>1. IInv => Answerable
  BY DEF IInv, Typed, ServerIffTokens, TokensPresented, Answerable
<1> QED BY Invariance, <1>1, PTL

\* Without a challenge and without a call in progress TCP 80 is closed.
THEOREM PortAlwaysReleased == Spec => []PortReleased
<1>1. IInv => PortReleased
  <2> SUFFICES ASSUME IInv, \A c \in Challenges : call[c].pc \in {"idle", "refused"},
                      stop.pc \in {"idle", "done"}
               PROVE  open = {}
    BY DEF PortReleased
  <2>1. tokens = {} BY DEF IInv, Typed, TokensPresented
  <2>2. server = None BY <2>1 DEF IInv, ServerIffTokens
  <2>3. None \notin open BY HTTP01Assumption DEF IInv, Typed
  <2> QED BY <2>2, <2>3 DEF IInv, OpenAccounted
<1> QED BY Invariance, <1>1, PTL

-----------------------------------------------------------------------------
(* The semaphore of the provider                                           *)

\* SlotsCounted with what the provers need to count.
SlotsInv ==
  /\ handler \in [Requests -> Challenges \cup {None}]
  /\ slots \in 0..MaxParallel
  /\ IsFiniteSet(Busy) /\ SlotsCounted

LEMMA SlotsInit == Init => SlotsInv
<1> SUFFICES ASSUME Init PROVE SlotsInv
  OBVIOUS
<1>1. Busy = {}
  BY DEF Init, Busy
<1> QED BY <1>1, FS_EmptySet, HTTP01Assumption DEF Init, SlotsInv, SlotsCounted

LEMMA SlotsStep == SlotsInv /\ [Next]_vars => SlotsInv'
<1> SUFFICES ASSUME SlotsInv, [Next]_vars PROVE SlotsInv'
  OBVIOUS
<1>1. CASE UNCHANGED <<handler, slots>>
  BY <1>1 DEF SlotsInv, SlotsCounted, Busy
<1>2. ASSUME NEW r \in Requests, NEW c \in Challenges, Accept(r, c) PROVE SlotsInv'
  <2>1. handler' = [handler EXCEPT ![r] = c] /\ slots' = slots + 1 /\ slots < MaxParallel
    BY <1>2 DEF Accept
  <2>2. Busy' = Busy \cup {r} /\ r \notin Busy
    BY <1>2, <2>1, HTTP01Assumption DEF Accept, Busy, SlotsInv
  <2>3. IsFiniteSet(Busy') /\ Cardinality(Busy') = Cardinality(Busy) + 1
    BY <2>2, FS_AddElement DEF SlotsInv
  <2>4. handler' \in [Requests -> Challenges \cup {None}]
    BY <2>1 DEF SlotsInv
  <2>5. slots' \in 0..MaxParallel
    BY <2>1, HTTP01Assumption DEF SlotsInv
  <2> QED BY <2>1, <2>3, <2>4, <2>5 DEF SlotsInv, SlotsCounted
<1>3. ASSUME NEW r \in Requests, Answer(r) PROVE SlotsInv'
  <2>1. handler' = [handler EXCEPT ![r] = None] /\ slots' = slots - 1
    BY <1>3 DEF Answer, Returned
  <2>2. Busy' = Busy \ {r} /\ r \in Busy
    BY <1>3, <2>1 DEF Answer, Busy, SlotsInv
  <2>3. IsFiniteSet(Busy') /\ Cardinality(Busy') = Cardinality(Busy) - 1
    BY <2>2, FS_RemoveElement DEF SlotsInv
  <2>4. handler' \in [Requests -> Challenges \cup {None}]
    BY <2>1 DEF SlotsInv
  <2>5. Cardinality(Busy') \in Nat
    BY <2>3, FS_CardinalityType
  <2>6. slots' \in 0..MaxParallel
    BY <2>1, <2>3, <2>5, HTTP01Assumption DEF SlotsInv, SlotsCounted
  <2> QED BY <2>1, <2>3, <2>4, <2>6 DEF SlotsInv, SlotsCounted
<1> QED
  BY <1>1, <1>2, <1>3
  DEF Next, vars, Present, CleanUpStep, CleanUp, CleanUpClose, CleanUpDrain, Shutdown, ShutdownStep,
      ShutdownClose, ShutdownDrain

\* Whatever is asked, found or not, and whoever closes the listener meanwhile: the
\* slots taken are as many as the requests being answered (serveHTTP), so that none
\* is lost and none is returned twice.
THEOREM SlotsAlwaysCounted == Spec => []SlotsCounted
<1>1. SlotsInv => SlotsCounted
  BY DEF SlotsInv
<1> QED BY <1>1, SlotsInit, SlotsStep, PTL DEF Spec

\* Every variable of the provider keeps its kind.
THEOREM ProviderTypeCorrect == Spec => []TypeOK
<1>1. IInv /\ SlotsInv => TypeOK
  BY DEF IInv, Typed, SlotsInv, TypeOK
<1> QED BY <1>1, Invariance, SlotsInit, SlotsStep, PTL DEF Spec

-----------------------------------------------------------------------------
(* The worker with the provider                                            *)

\* The worker and the order in which the controller ends do not let the provider
\* do anything it does not do by itself: what is proved of it above holds of the
\* controller.
THEOREM ProviderUsed == SchedulerSpec => Spec
<1>1. SchedulerInit => Init
  BY DEF SchedulerInit
<1>2. [SchedulerNext]_allVars => [Next]_vars
  <2> SUFFICES ASSUME [SchedulerNext]_allVars PROVE [Next]_vars
    OBVIOUS
  <2>1. CASE Provider
    BY <2>1 DEF Provider, PresentIn, Next
  <2>2. CASE Start \/ EnsureReturns \/ WaitReturns \/ Interrupt \/ Stop
    BY <2>2 DEF Start, EnsureReturns, WaitReturns, Interrupt, Stop
  <2>3. CASE UNCHANGED allVars
    BY <2>3 DEF allVars
  <2> QED BY <2>1, <2>2, <2>3 DEF SchedulerNext
<1> QED BY <1>1, <1>2, PTL DEF SchedulerSpec, Spec

\* While the worker is not in Ensure none of its challenges is presented, and
\* Stop has seen the end of the worker when it returns without an error.
WorkerInv ==
  /\ worker.pc # "ensure" => Quiet
  /\ halt = "stopped" => worker.pc = "done"

LEMMA WorkerInit == SchedulerInit => WorkerInv
BY SchedulerAssumption DEF SchedulerInit, Init, WorkerInv, Quiet, Idle

\* Only Present ends the idleness of a challenge.
LEMMA IdleUnlessPresent ==
  ASSUME Typed, NEW c \in Challenges, call[c].pc = "idle", Provider, call'[c].pc # "idle"
  PROVE  PresentIn(c)
<1>1. ASSUME NEW d \in Challenges, Present(d), d # c PROVE call'[c] = call[c]
  BY <1>1 DEF Present, Typed
<1>2. ASSUME NEW d \in Challenges, CleanUpStep(d) PROVE call'[c] = call[c]
  BY <1>2 DEF CleanUpStep, CleanUp, CleanUpClose, CleanUpDrain, Typed
<1>3. ASSUME Shutdown \/ ShutdownStep PROVE call' = call
  BY <1>3 DEF Shutdown, ShutdownStep, ShutdownClose, ShutdownDrain
<1>4. ASSUME NEW r \in Requests, Answer(r) \/ \E d \in Challenges : Accept(r, d) PROVE call' = call
  BY <1>4 DEF Answer, Accept
<1>5. PICK d \in Challenges : PresentIn(d)
  BY <1>2, <1>3, <1>4 DEF Provider
<1> QED BY <1>1, <1>5 DEF PresentIn

LEMMA WorkerStep == Typed /\ WorkerInv /\ [SchedulerNext]_allVars => WorkerInv'
<1> SUFFICES ASSUME Typed, WorkerInv, [SchedulerNext]_allVars PROVE WorkerInv'
  OBVIOUS
<1> USE DEF WorkerInv
<1>1. CASE Provider /\ UNCHANGED schedulerVars
  <2>1. ASSUME worker.pc # "ensure", NEW c \in Own PROVE call'[c].pc = "idle"
    BY <1>1, <2>1, IdleUnlessPresent, SchedulerAssumption DEF Quiet, PresentIn
  <2> QED BY <1>1, <2>1 DEF Quiet, schedulerVars
<1>2. CASE Start
  BY <1>2 DEF Start, Quiet
<1>3. CASE EnsureReturns
  BY <1>3 DEF EnsureReturns, Quiet, vars
<1>4. CASE WaitReturns
  BY <1>4 DEF WaitReturns, Quiet, vars
<1>5. CASE Interrupt \/ Stop
  BY <1>5 DEF Interrupt, Stop, Quiet, vars
<1>6. CASE UNCHANGED allVars
  BY <1>6 DEF allVars, schedulerVars, vars, Quiet
<1> QED BY <1>1, <1>2, <1>3, <1>4, <1>5, <1>6 DEF SchedulerNext

\* When Scheduler.Stop returns without an error the worker has ended and none of
\* its challenges is presented, however long Ensure took and whatever the other
\* users of the provider do.
THEOREM StoppedAlwaysQuiet == SchedulerSpec => []StoppedQuiet
<1>1. WorkerInv => StoppedQuiet
  BY DEF WorkerInv, StoppedQuiet
<1>2. IInv => Typed
  BY DEF IInv
<1> QED BY <1>1, <1>2, ProviderUsed, Invariance, WorkerInit, WorkerStep, PTL DEF SchedulerSpec

-----------------------------------------------------------------------------
(* The delays                                                              *)

\* The loop of Backoff, n times.
LEMMA BackoffLoop ==
  /\ Backoff \in [Nat -> Nat]
  /\ Backoff[0] = baseBackoff
  /\ \A n \in Nat : Backoff[n + 1] = Doubled(Backoff[n])
<1> DEFINE F == [x \in Nat |-> Doubled(x)]
           Is(g) == g = [n \in Nat |-> IF n = 0 THEN baseBackoff ELSE Doubled(g[n - 1])]
<1>1. F \in [Nat -> Nat] /\ baseBackoff \in Nat
  BY SchedulerAssumption DEF Doubled
<1>2. PICK f \in [Nat -> Nat] : f[0] = baseBackoff /\ \A n \in Nat : f[n + 1] = F[f[n]]
  <2> DEFINE V == Nat
  <2>1. F \in [V -> V] /\ baseBackoff \in V
    BY <1>1
  <2> HIDE DEF F, V
  <2>2. \E f \in [Nat -> V] : f[0] = baseBackoff /\ \A n \in Nat : f[n + 1] = F[f[n]]
    BY <2>1, Recursion
  <2> QED BY <2>2 DEF V
<1>3. ASSUME NEW n \in Nat PROVE f[n] = IF n = 0 THEN baseBackoff ELSE Doubled(f[n - 1])
  <2>1. CASE n # 0
    <3>1. n - 1 \in Nat /\ (n - 1) + 1 = n
      BY <2>1
    <3>2. f[n] = F[f[n - 1]]
      BY <1>2, <3>1
    <3>3. f[n - 1] \in Nat
      BY <1>2, <3>1
    <3> QED BY <2>1, <3>2, <3>3
  <2> QED BY <1>2, <2>1
<1>4. Is(f)
  BY <1>3
<1>5. Is(Backoff)
  <2>1. Backoff = CHOOSE g : Is(g)
    BY DEF Backoff
  <2> HIDE DEF Is
  <2> QED BY <1>4, <2>1
<1>6. \A n \in Nat : Backoff[n] = IF n = 0 THEN baseBackoff ELSE Doubled(Backoff[n - 1])
  BY <1>5
<1>7. Backoff[0] = baseBackoff /\ \A n \in Nat : Backoff[n + 1] = Doubled(Backoff[n])
  BY <1>6
<1>8. \A n \in Nat : Backoff[n] \in Nat
  <2> DEFINE S == {n \in Nat : Backoff[n] \in Nat}
  <2>1. 0 \in S
    BY <1>1, <1>7
  <2>2. ASSUME NEW n \in Nat, n \in S PROVE n + 1 \in S
    <3>1. F[Backoff[n]] \in Nat
      BY <1>1, <2>2
    <3> QED BY <1>7, <2>2, <3>1
  <2> HIDE DEF S
  <2>3. \A n \in Nat : n \in S
    BY <2>1, <2>2, SetInduction
  <2> QED BY <2>3 DEF S
<1> QED BY <1>5, <1>7, <1>8

\* baseBackoff doubled n times, capped.
Capped(n) == IF baseBackoff * TwoTo[n] > maxBackoff THEN maxBackoff ELSE baseBackoff * TwoTo[n]

\* One doubling of a capped delay: the test for half of the maximum, rounded
\* down, neither passes the maximum nor stops short of it.
LEMMA DoubledCapped ==
  ASSUME NEW x \in Nat \ {0}, NEW d \in Nat,
         d = IF x > maxBackoff THEN maxBackoff ELSE x
  PROVE  Doubled(d) = IF 2 * x > maxBackoff THEN maxBackoff ELSE 2 * x
<1> DEFINE half == maxBackoff \div 2
<1>1. maxBackoff \in Nat /\ half \in Nat /\ 2 * half <= maxBackoff /\ maxBackoff <= 2 * half + 1
  BY SchedulerAssumption
<1> HIDE DEF half
<1>2. Doubled(d) = IF d >= maxBackoff THEN d ELSE IF d > half THEN maxBackoff ELSE d * 2
  BY DEF Doubled, half
<1> QED BY <1>1, <1>2

\* Backoff is the capped exponential, for every number of failures.
THEOREM BackoffIsCapped == \A n \in Nat : Backoff[n] = Capped(n)
<1> DEFINE S == {n \in Nat : Backoff[n] = Capped(n)}
<1>1. 0 \in S
  <2>1. baseBackoff * TwoTo[0] = baseBackoff
    BY TwoToValues, SchedulerAssumption
  <2> QED BY <2>1, BackoffLoop, SchedulerAssumption DEF Capped
<1>2. ASSUME NEW n \in Nat, n \in S PROVE n + 1 \in S
  <2> DEFINE x == baseBackoff * TwoTo[n]
  <2>1. TwoTo[n] \in Nat \ {0} /\ TwoTo[n + 1] = 2 * TwoTo[n]
    BY TwoToValues
  <2>2. x \in Nat \ {0} /\ baseBackoff * TwoTo[n + 1] = 2 * x
    BY <2>1, SchedulerAssumption
  <2>3. Backoff[n] = (IF x > maxBackoff THEN maxBackoff ELSE x) /\ Backoff[n] \in Nat
    BY <1>2, BackoffLoop DEF Capped
  <2> HIDE DEF x
  <2>4. Backoff[n + 1] = IF 2 * x > maxBackoff THEN maxBackoff ELSE 2 * x
    BY <2>2, <2>3, BackoffLoop, DoubledCapped
  <2> QED BY <2>2, <2>4 DEF Capped
<1> HIDE DEF S
<1>3. \A n \in Nat : n \in S
  BY <1>1, <1>2, SetInduction
<1> QED BY <1>3 DEF S

\* The jitter keeps a delay within a tenth, and under the maximum.
LEMMA JitterBounds ==
  ASSUME NEW d \in Nat, d <= maxBackoff, NEW num \in 0..2
  PROVE  LET j == jitterBackoff(d, num, 2)
         IN j \in Nat /\ 10 * j > 9 * d - 10 /\ 10 * j <= 11 * d /\ j <= maxBackoff
<1> DEFINE all == d * (9 * 2 + 2 * num)
           res == all \div (10 * 2)
<1>1. all \in Nat /\ 18 * d <= all /\ all <= 22 * d
  <2>1. CASE num = 0
    BY <2>1
  <2>2. CASE num = 1
    BY <2>2
  <2>3. CASE num = 2
    BY <2>3
  <2> QED BY <2>1, <2>2, <2>3
<1> HIDE DEF all
<1>2. res \in Nat /\ 20 * res <= all /\ all < 20 * res + 20
  BY <1>1
<1>3. jitterBackoff(d, num, 2) = IF res > maxBackoff THEN maxBackoff ELSE res
  BY DEF jitterBackoff, all
<1> HIDE DEF res
<1> QED BY <1>1, <1>2, <1>3, SchedulerAssumption

\* The kinds of the worker's variables, with what the delay is.
WorkerTyped ==
  /\ worker \in WorkerRec
  /\ live \in BOOLEAN
  /\ halt \in {"no", "stopped", "timeout"}
  /\ RetryDelay

USE DEF WorkerRec

\* The delay that a failed Ensure sets.
LEMMA FailedDelay ==
  ASSUME WorkerTyped, NEW num \in 0..2,
         worker' = [pc |-> "wait", attempt |-> Counted(worker.attempt),
                    delay |-> jitterBackoff(Backoff[worker.attempt], num, 2)]
  PROVE  /\ worker' \in WorkerRec
         /\ RetryDelay'
<1> DEFINE a == worker.attempt
           d == Backoff[a]
           k == Counted(a) - 1
<1>1. a \in Nat /\ a <= MaxAttempts + 1 /\ MaxAttempts \in Nat
  BY SchedulerAssumption DEF WorkerTyped
<1>2. d = Capped(a) /\ d \in Nat /\ d <= maxBackoff
  BY <1>1, BackoffIsCapped, BackoffLoop, SchedulerAssumption DEF Capped
<1>3. k \in Nat /\ Counted(a) \in 0..(MaxAttempts + 1) /\ Counted(a) = k + 1
  BY <1>1 DEF Counted
<1>4. Capped(k) = d
  <2>1. CASE a <= MaxAttempts
    BY <1>1, <1>2, <2>1 DEF Counted
  <2>2. CASE a = MaxAttempts + 1
    <3>1. k = MaxAttempts
      BY <1>1, <2>2 DEF Counted
    <3>2. TwoTo[MaxAttempts] \in Nat /\ TwoTo[MaxAttempts + 1] = 2 * TwoTo[MaxAttempts]
      BY <1>1, TwoToValues
    <3> DEFINE x == baseBackoff * TwoTo[MaxAttempts]
    <3>3. x \in Nat /\ x >= maxBackoff /\ baseBackoff * TwoTo[MaxAttempts + 1] = 2 * x
      BY <3>2, SchedulerAssumption
    <3> HIDE DEF x
    <3>4. Capped(MaxAttempts + 1) = maxBackoff /\ Capped(MaxAttempts) = maxBackoff
      BY <3>3, SchedulerAssumption DEF Capped, x
    <3> QED BY <1>2, <2>2, <3>1, <3>4
  <2> QED BY <1>1, <2>1, <2>2
<1>5. /\ worker'.pc = "wait" /\ worker'.attempt = k + 1 /\ worker'.delay \in Nat
      /\ 10 * worker'.delay > 9 * d - 10 /\ 10 * worker'.delay <= 11 * d
      /\ worker'.delay <= maxBackoff
  <2> HIDE DEF d
  <2>1. worker'.delay = jitterBackoff(d, num, 2)
    BY DEF d
  <2>2. worker'.delay \in Nat /\ 10 * worker'.delay > 9 * d - 10 /\ 10 * worker'.delay <= 11 * d
        /\ worker'.delay <= maxBackoff
    BY <1>2, <2>1, JitterBounds
  <2> QED BY <1>3, <2>2
<1> HIDE DEF a, d, k
<1>6. RetryDelay'
  <2>1. worker'.attempt - 1 = k
    BY <1>3, <1>5
  <2> QED BY <1>4, <1>5, <2>1 DEF RetryDelay, Capped
<1> QED BY <1>3, <1>5, <1>6 DEF a

LEMMA WorkerTypedStep == WorkerTyped /\ [SchedulerNext]_allVars => WorkerTyped'
<1> SUFFICES ASSUME WorkerTyped, [SchedulerNext]_allVars PROVE WorkerTyped'
  OBVIOUS
<1>1. CASE UNCHANGED worker /\ live' \in BOOLEAN /\ halt' \in {"no", "stopped", "timeout"}
  BY <1>1 DEF WorkerTyped, RetryDelay
<1>2. CASE Provider /\ UNCHANGED schedulerVars
  BY <1>1, <1>2 DEF schedulerVars, WorkerTyped
<1>3. CASE Interrupt \/ Stop \/ UNCHANGED allVars
  BY <1>1, <1>3 DEF Interrupt, Stop, allVars, schedulerVars, WorkerTyped
<1>4. CASE Start \/ WaitReturns
  <2>1. worker'.pc # "wait" /\ UNCHANGED <<live, halt>>
    BY <1>4 DEF Start, WaitReturns, WorkerTyped
  <2>2. worker' \in WorkerRec
    <3>1. ASSUME NEW pc \in {"ensure", "done"}
          PROVE  /\ [worker EXCEPT !.pc = pc] \in WorkerRec
                 /\ [worker EXCEPT !.pc = pc, !.delay = 0] \in WorkerRec
      BY DEF WorkerTyped
    <3>2. CASE live
      BY <1>4, <3>1, <3>2 DEF Start, WaitReturns
    <3>3. CASE ~live
      BY <1>4, <3>1, <3>3 DEF Start, WaitReturns
    <3> QED BY <3>2, <3>3
  <2> QED BY <2>1, <2>2 DEF WorkerTyped, RetryDelay
<1>5. CASE EnsureReturns
  <2>1. UNCHANGED <<live, halt>>
    BY <1>5 DEF EnsureReturns
  <2>2. CASE worker' = [worker EXCEPT !.pc = "done"]
    BY <2>1, <2>2 DEF WorkerTyped, RetryDelay
  <2>3. CASE worker' = [pc |-> "wait", attempt |-> 0, delay |-> Poll]
    <3>1. worker'.attempt = 0 /\ worker' \in WorkerRec
      BY <2>3, SchedulerAssumption
    <3> QED BY <2>1, <3>1 DEF WorkerTyped, RetryDelay
  <2>4. ASSUME NEW num \in 0..2,
               worker' = [pc |-> "wait", attempt |-> Counted(worker.attempt),
                          delay |-> jitterBackoff(Backoff[worker.attempt], num, 2)]
        PROVE  WorkerTyped'
    BY <2>1, <2>4, FailedDelay DEF WorkerTyped
  <2> QED BY <1>5, <2>2, <2>3, <2>4 DEF EnsureReturns
<1> QED BY <1>2, <1>3, <1>4, <1>5 DEF SchedulerNext

LEMMA WorkerTypedHolds == SchedulerSpec => []WorkerTyped
<1>1. SchedulerInit => WorkerTyped
  BY SchedulerAssumption DEF SchedulerInit, WorkerTyped, RetryDelay
<1> QED BY <1>1, WorkerTypedStep, PTL DEF SchedulerSpec

\* The k-th retry in a row (runAutomatic) waits baseBackoff doubled k - 1 times,
\* capped at maxBackoff, give or take a tenth, whatever the two delays are.
THEOREM RetryAlwaysDelayed == SchedulerSpec => []RetryDelay
<1>1. WorkerTyped => RetryDelay
  BY DEF WorkerTyped
<1> QED BY <1>1, WorkerTypedHolds, PTL

\* Every variable of the worker and of the provider keeps its kind.
THEOREM SchedulerTypeCorrect == SchedulerSpec => []SchedulerTypeOK
<1>1. WorkerTyped /\ TypeOK => SchedulerTypeOK
  BY DEF WorkerTyped, SchedulerTypeOK
<1> QED BY <1>1, WorkerTypedHolds, ProviderUsed, ProviderTypeCorrect, PTL
=============================================================================
