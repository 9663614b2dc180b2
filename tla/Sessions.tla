------------------------------ MODULE Sessions ------------------------------
(***************************************************************************)
(* The administrator's account and sessions: internal/auth/session.go and  *)
(* bootstrap.go, the handlers in internal/webui/auth.go and bootstrap.go   *)
(* and the statements of internal/persistence/sqlite.go behind them.       *)
(*                                                                         *)
(* HTTP requests run concurrently; each statement or transaction, and each *)
(* critical section of the limiter, is a step of its own.  A password is   *)
(* the number of times that it has been set, and 0 while there is no       *)
(* administrator.  Tokens are random and are never given out twice.  A     *)
(* row that has expired is never found again, whether SessionAdmin has     *)
(* deleted it by now or not: it counts as gone.                            *)
(***************************************************************************)
EXTENDS LoginLimiter, FiniteSets

CONSTANTS
  Admin,       \* the administrator's account
  Requests,    \* HTTP requests that can be under way at the same time
  MaxTokens,   \* bound: sessions created in a behaviour
  MaxChanges,  \* bound: changes of the password in a behaviour
  None

ASSUME SessionsAssumption ==
  /\ Admin \in Accounts
  /\ IsFiniteSet(Requests) /\ Requests # {}
  /\ MaxTokens \in Nat
  /\ MaxChanges \in Nat
  /\ None \notin Accounts \cup Addresses

VARIABLES
  password,  \* password_hash in the row of admins
  sessions,  \* the rows of sessions, by token
  request    \* what each request is doing

vars == <<entries, password, sessions, request>>

Tokens == 1..MaxTokens
Passwords == 0..(MaxChanges + 1)
\* A row, with the password that its login compared or its change set.
Row == [live : {TRUE}, made : Passwords]
Gone == [live |-> FALSE, made |-> 0]
Pcs == {"idle", "bootstrap", "login", "create", "failed", "succeeded",
        "logout", "change", "update", "recreate"}
\* made: the password that the request has compared or set.
RequestRec ==
  [pc : Pcs, who : Accounts \cup {None}, ip : Addresses \cup {None}, token : Tokens \cup {0},
   made : Passwords]
Idle == [pc |-> "idle", who |-> None, ip |-> None, token |-> 0, made |-> 0]

\* Every variable holds a value of its kind, and the limiter no more entries than
\* its limit.
TypeOK ==
  /\ LimiterTypeOK
  /\ password \in Passwords
  /\ sessions \in Seq(Row \cup {Gone}) /\ Len(sessions) <= MaxTokens
  /\ request \in [Requests -> RequestRec]

\* A new database.
Init ==
  /\ LimiterInit
  /\ password = 0
  /\ sessions = <<>>
  /\ request = [r \in Requests |-> Idle]

-----------------------------------------------------------------------------
At(r, pc) == request[r].pc = pc
Goto(r, pc) == request' = [request EXCEPT ![r].pc = pc]
\* The request goes on with a password that it has compared or set.
Proven(r, pc, made) == request' = [request EXCEPT ![r] = [@ EXCEPT !.pc = pc, !.made = made]]
Done(r) == request' = [request EXCEPT ![r] = Idle]

\* The statement CreateSession, for whichever row of admins was read before.
CreateSession(made) ==
  /\ Len(sessions) < MaxTokens
  /\ sessions' = Append(sessions, [live |-> TRUE, made |-> made])

\* SessionAdmin finds the row of a token.
Found(token) == token \in DOMAIN sessions /\ sessions[token].live

-----------------------------------------------------------------------------
(* The first administrator                                                 *)

\* BootstrapHandler asks whether an administrator is required ...
Bootstrap(r) ==
  /\ At(r, "idle") /\ password = 0
  /\ request' = [request EXCEPT ![r] = [Idle EXCEPT !.pc = "bootstrap"]]
  /\ UNCHANGED <<entries, password, sessions>>

\* ... and CreateFirstAdmin asks again, in the transaction that inserts the row.
CreateFirstAdminUpsert(r) ==
  /\ At(r, "bootstrap")
  /\ password' \in {password, IF password <= MaxChanges THEN password + 1 ELSE password}
  /\ Done(r)
  /\ UNCHANGED <<entries, sessions>>
CreateFirstAdmin(r) ==
  /\ At(r, "bootstrap")
  /\ password' \in {password, IF password = 0 THEN 1 ELSE password}
  /\ Done(r)
  /\ UNCHANGED <<entries, sessions>>

-----------------------------------------------------------------------------
(* Logging in                                                              *)

\* The handler asks the limiter; a request that is refused changes nothing.
LoginCounted(r, ip, who) ==
  /\ At(r, "idle") /\ password # 0
  /\ IF Allow(ip, who)
     THEN /\ request' = [request EXCEPT ![r] = [Idle EXCEPT !.pc = "login", !.ip = ip, !.who = who]]
          /\ UNCHANGED entries
     ELSE Failure(ip, who) /\ UNCHANGED request
  /\ UNCHANGED <<password, sessions>>
Login(r, ip, who) ==
  /\ At(r, "idle") /\ password # 0
  /\ Allow(ip, who)
  /\ request' = [request EXCEPT ![r] = [Idle EXCEPT !.pc = "login", !.ip = ip, !.who = who]]
  /\ UNCHANGED <<entries, password, sessions>>

\* AdminByUsername and VerifyPassword: the administrator's name and password
\* were typed, or something else was, or the statement failed.
Verify(r) ==
  /\ At(r, "login")
  /\ \/ request[r].who = Admin /\ Proven(r, "create", password)
     \/ Goto(r, "failed")
  /\ UNCHANGED <<entries, password, sessions>>

\* SessionService.create, for a login and after a change of the password.
Create(r) ==
  /\ request[r].pc \in {"create", "recreate"}
  /\ \/ CreateSession(request[r].made) /\ (IF At(r, "create") THEN Goto(r, "succeeded") ELSE Done(r))
     \/ UNCHANGED sessions /\ (IF At(r, "create") THEN Goto(r, "failed") ELSE Done(r))
  /\ UNCHANGED <<entries, password>>

\* The handler counts every error as a failure, and forgets them on success.
LoginFailed(r) ==
  /\ At(r, "failed")
  /\ Failure(request[r].ip, request[r].who)
  /\ Done(r)
  /\ UNCHANGED <<password, sessions>>
LoginSucceeded(r) ==
  /\ At(r, "succeeded")
  /\ Success(request[r].ip, request[r].who)
  /\ Done(r)
  /\ UNCHANGED <<password, sessions>>

-----------------------------------------------------------------------------
(* Requests with a session                                                 *)

\* Require: a request whose token is found goes on to its handler, any other
\* one is sent to the login page.
Require(r, token, handler) ==
  /\ At(r, "idle")
  /\ Found(token)
  /\ request' = [request EXCEPT ![r] = [Idle EXCEPT !.pc = handler, !.token = token]]
  /\ UNCHANGED <<entries, password, sessions>>

\* Logout deletes the row; an error is ignored.
Logout(r) ==
  /\ At(r, "logout")
  /\ sessions' \in {sessions, [sessions EXCEPT ![request[r].token] = Gone]}
  /\ Done(r)
  /\ UNCHANGED <<entries, password>>

\* ChangePassword asks for the session again and compares the password ...
ChangePassword(r) ==
  /\ At(r, "change")
  /\ \/ Found(request[r].token) /\ Goto(r, "update")
     \/ Done(r)
  /\ UNCHANGED <<entries, password, sessions>>

\* ... then UpdateAdminPassword sets another one and deletes every session, or
\* is rolled back.
RevokeOwn(r) == [sessions EXCEPT ![request[r].token] = Gone]
Revoke(r) == [t \in DOMAIN sessions |-> Gone]
UpdateAdminPassword(r) ==
  /\ At(r, "update")
  /\ \/ /\ password <= MaxChanges
        /\ password' = password + 1
        /\ sessions' = Revoke(r)
        /\ Proven(r, "recreate", password')
     \/ Done(r) /\ UNCHANGED <<password, sessions>>
  /\ UNCHANGED entries

-----------------------------------------------------------------------------
(* Time, and a restart of the controller                                   *)

Expire(t) ==
  /\ Found(t)
  /\ sessions' = [sessions EXCEPT ![t] = Gone]
  /\ UNCHANGED <<entries, password, request>>
Tick ==
  /\ LimiterTick
  /\ UNCHANGED <<password, sessions, request>>

\* Requests end where they are; the limiter is in memory.
Restart ==
  /\ entries' = <<>>
  /\ request' = [r \in Requests |-> Idle]
  /\ UNCHANGED <<password, sessions>>

Step(r) ==
  \/ CreateFirstAdmin(r)
  \/ Verify(r) \/ Create(r) \/ LoginFailed(r) \/ LoginSucceeded(r)
  \/ Logout(r) \/ ChangePassword(r) \/ UpdateAdminPassword(r)
Arrive(r) ==
  \/ Bootstrap(r)
  \/ \E who \in Accounts, ip \in Addresses : Login(r, ip, who)
  \/ \E t \in Tokens, handler \in {"logout", "change"} : Require(r, t, handler)
Next ==
  \/ \E r \in Requests : Step(r) \/ Arrive(r)
  \/ \E t \in Tokens : Expire(t)
  \/ Tick \/ Restart

Spec == Init /\ [][Next]_vars

\* Time passes; nothing is assumed of the clients.
FairSpec == Spec /\ WF_vars(Tick)

-----------------------------------------------------------------------------
(* Properties                                                              *)

\* Sessions of an older password than the one there is.
Older == {t \in DOMAIN sessions : sessions[t].live /\ sessions[t].made # password}

\* Requests that have compared or set another password than the one there is, and
\* are about to insert a session.
Stale == {r \in Requests : request[r].pc \in {"create", "recreate"} /\ request[r].made # password}

\* A change of the password revokes all other sessions, as the account page says.
\* (Not that of a login, or of another change, that has passed its check and has not
\* yet inserted its row.)
SessionsSinceChange == Older = {}

\* Those are all that escape it: however many sessions there were and however many
\* changes there are, the sessions of an older password that are left, and the requests
\* that are still about to insert one, are together no more than the requests that were
\* under way beside the one that made the last change.
OnlyUnderWayEscape == Cardinality(Older) + Cardinality(Stale) < Cardinality(Requests)

\* The first administrator stays: of two requests that both found that one is
\* required, the second does not replace the one whose creation the first was
\* told.  Only a change of the password does.
FirstAdminKept ==
  [][password \notin {0, password'} =>
       \E r \in Requests : At(r, "update") /\ request'[r].pc = "recreate"]_vars

\* A failed login delays the next one of the account from this address by at
\* least one unit, and never by less than it was delayed before, at the limit
\* of entries and across the end of a window too.
FailureDelays ==
  [][\A r \in Requests, who \in Accounts, ip \in Addresses :
       request[r].who = who /\ request[r].ip = ip /\ LoginFailed(r)
         => WaitOf(ip, who)' >= WaitOf(ip, who) /\ ~Allow(ip, who)']_vars

\* Nobody is locked out for good: delays end, however many logins go on
\* failing and wherever they come from.
NotLockedOut ==
  \A who \in Accounts, ip \in Addresses : ~Allow(ip, who) ~> Allow(ip, who)
=============================================================================
