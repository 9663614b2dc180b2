------------------------------- MODULE HTTP01 -------------------------------
(***************************************************************************)
(* The HTTP-01 provider (internal/certificate/http01.go): the temporary    *)
(* listener on TCP 80 that answers the challenges of the ACME server.      *)
(*                                                                         *)
(* Present and the handler's lookup are critical sections of the           *)
(* provider's mutex.  CleanUp and Shutdown take the server out of the      *)
(* provider under the mutex and close the listener and drain the server    *)
(* after the unlock, so other calls come in between.  A challenge is its   *)
(* token; a server may be reused once nothing refers to it.                *)
(***************************************************************************)
EXTENDS Integers, FiniteSets

CONSTANTS
  Challenges,   \* tokens, each with the goroutine that solves the challenge
  Servers,      \* http.Server values with their listener
  Requests,     \* HTTP requests that can be under way at the same time
  MaxParallel,  \* capacity of sem
  None

ASSUME HTTP01Assumption ==
  /\ MaxParallel \in Nat \ {0}
  /\ None \notin Challenges \cup Servers

VARIABLES
  tokens,   \* p.tokens
  server,   \* p.server, and p.listener, which is set together with it
  open,     \* the servers whose listener holds the port
  call,     \* what the goroutine of each challenge is doing
  stop,     \* the call of Shutdown when the controller ends
  handler,  \* the token each request in serveHTTP asks for
  slots     \* len(p.sem)

vars == <<tokens, server, open, call, stop, handler, slots>>

Idle == [pc |-> "idle", srv |-> None]
CallRec == [pc : {"idle", "presented", "refused", "close", "drain"}, srv : Servers \cup {None}]
StopRec == [pc : {"idle", "close", "drain", "done"}, srv : Servers \cup {None}]

\* Every variable holds a value of its kind.
TypeOK ==
  /\ tokens \subseteq Challenges
  /\ server \in Servers \cup {None}
  /\ open \subseteq Servers
  /\ call \in [Challenges -> CallRec]
  /\ stop \in StopRec
  /\ handler \in [Requests -> Challenges \cup {None}]
  /\ slots \in 0..MaxParallel

Init ==
  /\ tokens = {}
  /\ server = None
  /\ open = {}
  /\ call = [c \in Challenges |-> Idle]
  /\ stop = Idle
  /\ handler = [r \in Requests |-> None]
  /\ slots = 0

-----------------------------------------------------------------------------
\* A server value that nothing refers to.
Free(s) ==
  /\ s # server /\ s \notin open
  /\ s # stop.srv
  /\ \A c \in Challenges : call[c].srv # s

\* Present: the token is entered; without a server one is started.  The port
\* is taken while the listener of another server is still open, or by others.
Present(c) ==
  /\ call[c].pc = "idle"
  /\ \/ /\ server # None
        /\ tokens' = tokens \cup {c}
        /\ call' = [call EXCEPT ![c].pc = "presented"]
        /\ UNCHANGED <<server, open>>
     \/ /\ server = None /\ open = {}
        /\ \E s \in Servers :
             /\ Free(s)
             /\ server' = s
             /\ open' = {s}
        /\ tokens' = tokens \cup {c}
        /\ call' = [call EXCEPT ![c].pc = "presented"]
     \/ /\ server = None
        /\ call' = [call EXCEPT ![c].pc = "refused"]
        /\ UNCHANGED <<tokens, server, open>>
  /\ UNCHANGED <<stop, handler, slots>>

\* CleanUp, the critical section: with the last token the server goes.  The
\* ACME client calls it for a challenge that could not be presented, too.
StillUsedNever(c) == FALSE
StillUsed(c) == tokens \ {c} # {}
CleanUp(c) ==
  /\ call[c].pc \in {"presented", "refused"}
  /\ tokens' = tokens \ {c}
  /\ IF StillUsed(c) \/ server = None
     THEN /\ call' = [call EXCEPT ![c] = Idle]
          /\ UNCHANGED server
     ELSE /\ call' = [call EXCEPT ![c] = [pc |-> "close", srv |-> server]]
          /\ server' = None
  /\ UNCHANGED <<open, stop, handler, slots>>

\* After the unlock: listener.Close ...
ClosedListenerKept(s) == open
ClosedListener(s) == open \ {s}
CleanUpClose(c) ==
  /\ call[c].pc = "close"
  /\ open' = ClosedListener(call[c].srv)
  /\ call' = [call EXCEPT ![c].pc = "drain"]
  /\ UNCHANGED <<tokens, server, stop, handler, slots>>

\* ... and server.Shutdown, which waits for the requests for a limited time.
CleanUpDrain(c) ==
  /\ call[c].pc = "drain"
  /\ call' = [call EXCEPT ![c] = Idle]
  /\ UNCHANGED <<tokens, server, open, stop, handler, slots>>

\* Shutdown: every token goes, and the server, if there is one.
Shutdown ==
  /\ stop.pc = "idle"
  /\ tokens' = {}
  /\ stop' = [pc |-> IF server = None THEN "done" ELSE "close", srv |-> server]
  /\ server' = None
  /\ UNCHANGED <<open, call, handler, slots>>

ShutdownClose ==
  /\ stop.pc = "close"
  /\ open' = ClosedListener(stop.srv)
  /\ stop' = [stop EXCEPT !.pc = "drain"]
  /\ UNCHANGED <<tokens, server, call, handler, slots>>

ShutdownDrain ==
  /\ stop.pc = "drain"
  /\ stop' = [pc |-> "done", srv |-> None]
  /\ UNCHANGED <<tokens, server, open, call, handler, slots>>

\* serveHTTP: a request takes a slot, or is told that the provider is busy.
AcceptBusy(r, c) ==
  /\ open # {} /\ handler[r] = None
  /\ slots' = slots + 1
  /\ handler' = [handler EXCEPT ![r] = c]
  /\ UNCHANGED <<tokens, server, open, call, stop>>
Accept(r, c) ==
  /\ open # {} /\ handler[r] = None
  /\ slots < MaxParallel
  /\ slots' = slots + 1
  /\ handler' = [handler EXCEPT ![r] = c]
  /\ UNCHANGED <<tokens, server, open, call, stop>>

\* The lookup and the answer, the key or 404; either way the slot is returned.
ReturnedFound(c) == IF c \in tokens THEN slots - 1 ELSE slots
Returned(c) == slots - 1
Answer(r) ==
  /\ handler[r] # None
  /\ slots' = Returned(handler[r])
  /\ handler' = [handler EXCEPT ![r] = None]
  /\ UNCHANGED <<tokens, server, open, call, stop>>

CleanUpStep(c) == CleanUp(c) \/ CleanUpClose(c) \/ CleanUpDrain(c)
ShutdownStep == ShutdownClose \/ ShutdownDrain

Next ==
  \/ \E c \in Challenges : Present(c) \/ CleanUpStep(c)
  \/ Shutdown \/ ShutdownStep
  \/ \E r \in Requests : Answer(r) \/ \E c \in Challenges : Accept(r, c)

Spec == Init /\ [][Next]_vars

\* A challenge is cleaned up, valid or not; a call that is in progress goes on;
\* a handler ends (the server has read and write timeouts).
Fairness ==
  /\ \A c \in Challenges : WF_vars(CleanUpStep(c))
  /\ WF_vars(ShutdownStep)
  /\ \A r \in Requests : WF_vars(Answer(r))

FairSpec == Spec /\ Fairness

-----------------------------------------------------------------------------
(* Properties                                                               *)

\* Once Present has returned without an error the ACME server can get the
\* answer until CleanUp (or Shutdown): the token is known and the listener is
\* open, whatever other challenges are cleaned up meanwhile.
Answerable ==
  /\ tokens # {} => server \in open
  /\ \A c \in Challenges : call[c].pc = "presented" /\ stop.pc = "idle" => c \in tokens

\* TCP 80 is open only for active challenges: when no challenge is presented
\* and no call is in progress the port is free.
PortReleased ==
  /\ \A c \in Challenges : call[c].pc \in {"idle", "refused"}
  /\ stop.pc \in {"idle", "done"}
  => open = {}

\* A listener that no token needs any more does not stay open: CleanUp or
\* Shutdown closes it, unless another challenge is presented before.
PortFreed == open # {} ~> (open = {} \/ tokens # {})

Busy == {r \in Requests : handler[r] # None}
\* The slots taken are those of the requests being answered, whether the token
\* was there or not and whoever closed the listener meanwhile: none is lost.
SlotsCounted == slots = Cardinality(Busy)

\* The provider does not stay busy: the slots of the handlers come back.
NotStuckBusy == slots = MaxParallel ~> slots < MaxParallel
=============================================================================
