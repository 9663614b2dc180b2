--------------------------- MODULE SessionsProofs ---------------------------
(***************************************************************************)
(* Theorems about Sessions: for any accounts, addresses, requests and      *)
(* bounds.  The first part says nothing of the login limiter, the second   *)
(* is about it.                                                            *)
(***************************************************************************)
EXTENDS Sessions, DoublingProofs, FiniteSetTheorems, TLAPS

\* What the steps of the requests rely on of the variables other than entries.
TypeInv ==
  /\ password \in Passwords
  /\ sessions \in Seq(Row \cup {Gone})
  /\ request \in [Requests -> RequestRec]

\* While there is no administrator nobody has a session, and no request is past
\* the checks that need one: CreateFirstAdmin, which sets the password without
\* revoking anything, finds nothing to revoke.
Early == {"idle", "bootstrap"}
NobodyYet ==
  password = 0 =>
    /\ \A t \in DOMAIN sessions : ~sessions[t].live
    /\ \A r \in Requests : request[r].pc \in Early

IInv == TypeInv /\ NobodyYet

LEMMA InitIInv == Init => IInv
BY SessionsAssumption
   DEF Init, IInv, TypeInv, NobodyYet, RequestRec, Idle, Pcs, Early, Passwords

\* A step of a request that only moves its program counter, with the account,
\* the address and the token it was given.
LEMMA Moved ==
  ASSUME IInv, NEW r \in Requests, NEW rec \in RequestRec,
         request' = [request EXCEPT ![r] = rec],
         password' = password, sessions' = sessions,
         password = 0 => rec.pc \in Early
  PROVE  IInv'
BY DEF IInv, TypeInv, NobodyYet

\* A request that is over has the record Idle.
LEMMA IdleRec == Idle \in RequestRec /\ Idle.pc = "idle"
BY SessionsAssumption DEF Idle, RequestRec, Pcs, Passwords

\* Goto changes the program counter only.
LEMMA GotoRec ==
  ASSUME IInv, NEW r \in Requests, NEW pc \in Pcs, Goto(r, pc)
  PROVE  \E rec \in RequestRec : /\ rec.pc = pc /\ rec.made = request[r].made
                                /\ request' = [request EXCEPT ![r] = rec]
<1> DEFINE rec == [request[r] EXCEPT !.pc = pc]
<1>1. request[r] \in RequestRec BY DEF IInv, TypeInv
<1>2. rec \in RequestRec /\ rec.pc = pc /\ rec.made = request[r].made BY <1>1 DEF RequestRec
<1>3. request' = [request EXCEPT ![r] = rec] BY DEF Goto
<1> QED BY <1>2, <1>3

\* Proven changes the program counter and the password compared or set.
LEMMA ProvenRec ==
  ASSUME IInv, NEW r \in Requests, NEW pc \in Pcs, NEW m \in Passwords, Proven(r, pc, m)
  PROVE  \E rec \in RequestRec : /\ rec.pc = pc /\ rec.made = m
                                /\ rec.who = request[r].who /\ rec.ip = request[r].ip
                                /\ request' = [request EXCEPT ![r] = rec]
<1> DEFINE rec == [request[r] EXCEPT !.pc = pc, !.made = m]
<1>1. request[r] \in RequestRec BY DEF IInv, TypeInv
<1>2. /\ rec \in RequestRec /\ rec.pc = pc /\ rec.made = m
      /\ rec.who = request[r].who /\ rec.ip = request[r].ip
  BY <1>1 DEF RequestRec
<1>3. request' = [request EXCEPT ![r] = rec] BY DEF Proven
<1> QED BY <1>2, <1>3

\* CreateFirstAdmin sets the password where there is none, or nothing.
LEMMA FirstIInv ==
  ASSUME IInv, NEW r \in Requests, CreateFirstAdmin(r)
  PROVE  IInv'
BY IdleRec, SessionsAssumption
   DEF IInv, TypeInv, NobodyYet, CreateFirstAdmin, Done, Early, At, Passwords

\* A new row has the password that the request has compared or set.
LEMMA CreateIInv ==
  ASSUME IInv, NEW r \in Requests, Create(r)
  PROVE  IInv'
<1> DEFINE row == [live |-> TRUE, made |-> request[r].made]
<1>1. password # 0 /\ password' = password
  BY DEF IInv, NobodyYet, Create, Early
<1>2. request' \in [Requests -> RequestRec]
  <2>1. ASSUME NEW pc \in Pcs, Goto(r, pc) PROVE request' \in [Requests -> RequestRec]
    BY <2>1, GotoRec DEF IInv, TypeInv
  <2>2. ASSUME Done(r) PROVE request' \in [Requests -> RequestRec]
    BY <2>2, IdleRec DEF IInv, TypeInv, Done
  <2> QED BY <2>1, <2>2 DEF Create, Pcs
<1>3. CASE sessions' = sessions
  BY <1>1, <1>2, <1>3 DEF IInv, TypeInv, NobodyYet
<1>4. CASE sessions' = Append(sessions, row)
  <2>1. row \in Row BY DEF IInv, TypeInv, Row, RequestRec
  <2>2. sessions \in Seq(Row \cup {Gone}) BY DEF IInv, TypeInv
  <2>3. sessions' \in Seq(Row \cup {Gone}) BY <1>4, <2>1, <2>2
  <2>4. \A t \in DOMAIN sessions' :
          \/ t \in DOMAIN sessions /\ sessions'[t] = sessions[t]
          \/ sessions'[t] = row
    BY <1>4, <2>2
  <2> QED BY <1>1, <1>2, <2>1, <2>3, <2>4 DEF IInv, TypeInv, NobodyYet
<1> QED BY <1>3, <1>4 DEF Create, CreateSession

\* Deleting rows, all or one, leaves the others as they are.
LEMMA Deleted ==
  ASSUME IInv, NEW t
  PROVE  LET one == [sessions EXCEPT ![t] = Gone]
         IN /\ one \in Seq(Row \cup {Gone}) /\ DOMAIN one = DOMAIN sessions
            /\ \A u \in DOMAIN one : one[u] \in {sessions[u], Gone}
<1> DEFINE one == [sessions EXCEPT ![t] = Gone]
<1>1. sessions \in Seq(Row \cup {Gone}) BY DEF IInv, TypeInv
<1>2. sessions \in [1..Len(sessions) -> Row \cup {Gone}] /\ Len(sessions) \in Nat BY <1>1
<1>3. one \in [1..Len(sessions) -> Row \cup {Gone}] BY <1>2
<1>4. one \in Seq(Row \cup {Gone}) BY <1>2, <1>3
<1>5. \A u \in DOMAIN one : one[u] \in {sessions[u], Gone} OBVIOUS
<1> QED BY <1>4, <1>5

LEMMA LogoutIInv ==
  ASSUME IInv, NEW r \in Requests, Logout(r)
  PROVE  IInv'
<1>1. request' \in [Requests -> RequestRec]
  BY IdleRec DEF IInv, TypeInv, Logout, Done
<1>2. \A q \in Requests : request'[q].pc \in Early \cup {request[q].pc}
  BY IdleRec DEF IInv, TypeInv, Logout, Done, Early
<1> QED BY <1>1, <1>2, Deleted
        DEF Logout, IInv, TypeInv, NobodyYet, Gone

LEMMA ExpireIInv ==
  ASSUME IInv, NEW t \in Tokens, Expire(t)
  PROVE  IInv'
BY Deleted DEF Expire, IInv, TypeInv, NobodyYet, Gone

\* With the password every session goes.
LEMMA UpdateIInv ==
  ASSUME IInv, NEW r \in Requests, UpdateAdminPassword(r)
  PROVE  IInv'
<1>1. password \in Passwords /\ password # 0
  BY DEF IInv, TypeInv, NobodyYet, UpdateAdminPassword, At, Early
<1>2. CASE /\ password <= MaxChanges /\ password' = password + 1
           /\ sessions' = Revoke(r) /\ Proven(r, "recreate", password')
  <2>3. password' \in Passwords /\ password' # 0
    BY <1>1, <1>2, SessionsAssumption DEF Passwords
  <2>1. request' \in [Requests -> RequestRec]
    BY <1>2, <2>3, ProvenRec DEF IInv, TypeInv, Pcs
  <2>2. sessions' \in Seq(Row \cup {Gone}) /\ \A t \in DOMAIN sessions' : ~sessions'[t].live
    BY <1>2 DEF IInv, TypeInv, Revoke, Gone
  <2> QED BY <2>1, <2>2, <2>3 DEF IInv, TypeInv, NobodyYet
<1>3. CASE Done(r) /\ UNCHANGED <<password, sessions>>
  BY <1>3, IdleRec, Moved DEF Done, Early
<1> QED BY <1>2, <1>3 DEF UpdateAdminPassword

\* The other steps of a request change nothing but its record.
LEMMA OtherIInv ==
  ASSUME IInv, NEW r \in Requests,
         Verify(r) \/ LoginFailed(r) \/ LoginSucceeded(r) \/ ChangePassword(r)
  PROVE  IInv'
<1>1. password' = password /\ sessions' = sessions
  BY DEF Verify, LoginFailed, LoginSucceeded, ChangePassword
<1>2. password # 0
  BY DEF IInv, NobodyYet, Verify, LoginFailed, LoginSucceeded, ChangePassword, At, Early
<1>3. (\E pc \in Pcs : Goto(r, pc)) \/ Proven(r, "create", password) \/ Done(r)
  BY DEF Verify, LoginFailed, LoginSucceeded, ChangePassword, Pcs
<1>4. \E rec \in RequestRec : request' = [request EXCEPT ![r] = rec]
  BY <1>3, GotoRec, ProvenRec, IdleRec DEF Done, IInv, TypeInv, Pcs
<1> QED BY <1>1, <1>2, <1>4, Moved

LEMMA ArriveIInv ==
  ASSUME IInv, NEW r \in Requests, Arrive(r)
  PROVE  IInv'
<1>1. CASE Bootstrap(r)
  BY <1>1, Moved, IdleRec, SessionsAssumption DEF Bootstrap, Idle, RequestRec, Pcs, Early, Passwords
<1>2. ASSUME NEW who \in Accounts, NEW ip \in Addresses, Login(r, ip, who) PROVE IInv'
  <2> DEFINE rec == [Idle EXCEPT !.pc = "login", !.ip = ip, !.who = who]
  <2>1. rec \in RequestRec BY IdleRec DEF RequestRec, Pcs
  <2>2. password # 0 BY <1>2 DEF Login
  <2> QED BY <1>2, <2>1, <2>2, Moved DEF Login
<1>3. ASSUME NEW t \in Tokens, NEW handler \in {"logout", "change"}, Require(r, t, handler)
      PROVE  IInv'
  <2> DEFINE rec == [Idle EXCEPT !.pc = handler, !.token = t]
  <2>1. rec \in RequestRec BY IdleRec DEF RequestRec, Pcs
  <2>2. password # 0 BY <1>3 DEF Require, Found, IInv, NobodyYet
  <2> QED BY <1>3, <2>1, <2>2, Moved DEF Require
<1> QED BY <1>1, <1>2, <1>3 DEF Arrive

LEMMA StepIInv == IInv /\ [Next]_vars => IInv'
<1> SUFFICES ASSUME IInv, [Next]_vars PROVE IInv' OBVIOUS
<1>1. ASSUME NEW r \in Requests, Step(r) PROVE IInv'
  BY <1>1, FirstIInv, CreateIInv, LogoutIInv, UpdateIInv, OtherIInv DEF Step
<1>2. ASSUME NEW r \in Requests, Arrive(r) PROVE IInv'
  BY <1>2, ArriveIInv
<1>3. ASSUME NEW t \in Tokens, Expire(t) PROVE IInv'
  BY <1>3, ExpireIInv
<1>4. CASE Tick \/ UNCHANGED vars
  BY <1>4 DEF Tick, vars, IInv, TypeInv, NobodyYet
<1>5. CASE Restart
  BY <1>5, IdleRec DEF Restart, IInv, TypeInv, NobodyYet, Early
<1> QED BY <1>1, <1>2, <1>3, <1>4, <1>5 DEF Next

LEMMA Invariance == Spec => []IInv
BY InitIInv, StepIInv, PTL DEF Spec

\* Both sets are finite.
LEMMA Finite ==
  ASSUME TypeInv
  PROVE  /\ IsFiniteSet(Older) /\ Cardinality(Older) \in Nat
         /\ IsFiniteSet(Stale) /\ Cardinality(Stale) \in Nat
         /\ IsFiniteSet(Requests) /\ Cardinality(Requests) \in Nat
<1>1. Len(sessions) \in Nat /\ DOMAIN sessions = 1..Len(sessions)
  BY DEF TypeInv
<1>2. IsFiniteSet(DOMAIN sessions)
  BY <1>1, FS_Interval
<1>3. IsFiniteSet(Older)
  BY <1>2, FS_Subset DEF Older
<1>4. IsFiniteSet(Stale)
  BY SessionsAssumption, FS_Subset DEF Stale
<1> QED BY <1>3, <1>4, SessionsAssumption, FS_CardinalityType

\* Where neither set grows, the sum does not.
LEMMA NoneMore ==
  ASSUME IInv, OnlyUnderWayEscape, IInv', Older' \subseteq Older, Stale' \subseteq Stale
  PROVE  OnlyUnderWayEscape'
<1>1. /\ Cardinality(Older) \in Nat /\ Cardinality(Stale) \in Nat
      /\ IsFiniteSet(Older) /\ IsFiniteSet(Stale) /\ Cardinality(Requests) \in Nat
  BY Finite DEF IInv
<1>2. Cardinality(Older') <= Cardinality(Older) /\ Cardinality(Stale') <= Cardinality(Stale)
  BY <1>1, FS_Subset
<1>3. Cardinality(Older') \in Nat /\ Cardinality(Stale') \in Nat
  BY <1>1, FS_Subset, FS_CardinalityType
<1> QED BY <1>1, <1>2, <1>3 DEF OnlyUnderWayEscape

\* The request that makes a change is not itself stale, and no older session is left.
LEMMA ChangeEscaping ==
  ASSUME IInv, IInv', NEW r \in Requests, password' = password + 1, sessions' = Revoke(r),
         Proven(r, "recreate", password')
  PROVE  OnlyUnderWayEscape'
<1>1. Older' = {}
  BY DEF Older, Revoke, Gone
<1>2. Stale' \subseteq Requests \ {r}
  <2>1. request'[r].made = password'
    BY ProvenRec DEF IInv, TypeInv, Pcs
  <2> QED BY <2>1 DEF Stale
<1>3. IsFiniteSet(Requests) /\ Cardinality(Requests) \in Nat
  BY Finite DEF IInv
<1>4. Cardinality(Requests \ {r}) = Cardinality(Requests) - 1 /\ IsFiniteSet(Requests \ {r})
  BY <1>3, FS_RemoveElement
<1>5. Cardinality(Stale') <= Cardinality(Requests) - 1 /\ Cardinality(Stale') \in Nat
  BY <1>2, <1>4, FS_Subset, FS_CardinalityType
<1>6. Cardinality(Older') = 0
  BY <1>1, FS_EmptySet
<1> QED BY <1>3, <1>5, <1>6 DEF OnlyUnderWayEscape

\* A stale request that inserts its session is not stale any more.
LEMMA CreateEscaping ==
  ASSUME IInv, IInv', OnlyUnderWayEscape, NEW r \in Requests, Create(r)
  PROVE  OnlyUnderWayEscape'
<1> DEFINE m == request[r].made
           row == [live |-> TRUE, made |-> m]
           n == Len(sessions) + 1
<1>1. password' = password /\ request[r].pc \in {"create", "recreate"}
  BY DEF Create
<1>2. \E rec \in RequestRec : /\ rec.pc \notin {"create", "recreate"}
                             /\ request' = [request EXCEPT ![r] = rec]
  BY GotoRec, IdleRec DEF Create, Done, Pcs
<1>3. Stale' = Stale \ {r}
  BY <1>1, <1>2 DEF Stale, IInv, TypeInv
<1>4. sessions \in Seq(Row \cup {Gone}) /\ Len(sessions) \in Nat /\ DOMAIN sessions = 1..Len(sessions)
  BY DEF IInv, TypeInv
<1>5. CASE sessions' = sessions
  BY <1>1, <1>3, <1>5, NoneMore DEF Older
<1>6. CASE sessions' = Append(sessions, row)
  <2>1. /\ DOMAIN sessions' = 1..n /\ n \in DOMAIN sessions' /\ n \notin DOMAIN sessions
        /\ \A t \in DOMAIN sessions : t \in DOMAIN sessions' /\ sessions'[t] = sessions[t]
        /\ sessions'[n] = row /\ \A t \in DOMAIN sessions' : t = n \/ t \in DOMAIN sessions
    BY <1>4, <1>6
  <2> HIDE DEF n
  <2>2. CASE m = password
    <3>1. Older' = Older
      BY <1>1, <2>1, <2>2 DEF Older
    <3> QED BY <1>3, <3>1, NoneMore
  <2>3. CASE m # password
    <3>0. row.live /\ row.made = m
      OBVIOUS
    <3>1. Older' = Older \cup {n} /\ n \notin Older
      <4> HIDE DEF row, m
      <4>1. n \in Older' /\ n \notin Older
        BY <1>1, <2>1, <2>3, <3>0 DEF Older
      <4>2. \A t \in DOMAIN sessions : t \in Older' <=> t \in Older
        BY <1>1, <2>1 DEF Older
      <4>3. Older \subseteq DOMAIN sessions /\ \A t \in Older' : t = n \/ t \in DOMAIN sessions
        BY <2>1 DEF Older
      <4> QED BY <4>1, <4>2, <4>3
    <3>2. r \in Stale
      BY <1>1, <2>3 DEF Stale
    <3>3. /\ IsFiniteSet(Older) /\ IsFiniteSet(Stale) /\ Cardinality(Older) \in Nat
          /\ Cardinality(Stale) \in Nat /\ Cardinality(Requests) \in Nat
      BY Finite DEF IInv
    <3>4. Cardinality(Older') = Cardinality(Older) + 1
      BY <3>1, <3>3, FS_AddElement
    <3>5. Cardinality(Stale') = Cardinality(Stale) - 1
      BY <1>3, <3>2, <3>3, FS_RemoveElement
    <3> QED BY <3>3, <3>4, <3>5 DEF OnlyUnderWayEscape
  <2> QED BY <2>2, <2>3
<1> QED BY <1>5, <1>6 DEF Create, CreateSession

\* No step lets more escape.
LEMMA EscapingStep ==
  ASSUME IInv, IInv', OnlyUnderWayEscape, [Next]_vars
  PROVE  OnlyUnderWayEscape'
<1>0. request \in [Requests -> RequestRec] /\ sessions \in Seq(Row \cup {Gone})
  BY DEF IInv, TypeInv
<1>1. ASSUME password' = password,
             \A q \in Requests : request'[q] = request[q] \/ request'[q].pc \notin {"create", "recreate"}
                                 \/ request'[q].made = password
      PROVE  Stale' \subseteq Stale
  BY <1>1 DEF Stale
<1>2. ASSUME password' = password, DOMAIN sessions' = DOMAIN sessions,
             \A t \in DOMAIN sessions : sessions'[t] \in {sessions[t], Gone}
      PROVE  Older' \subseteq Older
  BY <1>2 DEF Older, Gone
<1>3. ASSUME NEW r \in Requests, NEW rec, request' = [request EXCEPT ![r] = rec],
             rec.pc \notin {"create", "recreate"} \/ rec.made = password,
             password' = password, Older' \subseteq Older
      PROVE  OnlyUnderWayEscape'
  BY <1>0, <1>1, <1>3, NoneMore
<1>4. ASSUME NEW r \in Requests, CreateFirstAdmin(r) PROVE OnlyUnderWayEscape'
  <2>1. request' = [request EXCEPT ![r] = Idle] /\ sessions' = sessions
    BY <1>4 DEF CreateFirstAdmin, Done
  <2>2. CASE password' = password
    <3>1. Older' = Older
      BY <2>1, <2>2 DEF Older
    <3> QED BY <1>3, <2>1, <2>2, <3>1, IdleRec
  <2>3. CASE password = 0
    <3>1. Older' = {}
      BY <2>1, <2>3 DEF Older, IInv, NobodyYet
    <3>2. Stale' = {}
      BY <1>0, <2>1, <2>3, IdleRec DEF Stale, IInv, NobodyYet, Early
    <3> QED BY <3>1, <3>2, NoneMore
  <2> QED BY <1>4, <2>2, <2>3 DEF CreateFirstAdmin
<1>5. ASSUME NEW r \in Requests, Logout(r) PROVE OnlyUnderWayEscape'
  <2>1. Older' \subseteq Older
    BY <1>2, <1>5, Deleted DEF Logout
  <2> QED BY <1>3, <1>5, <2>1, IdleRec DEF Logout, Done
<1>6. ASSUME NEW r \in Requests, UpdateAdminPassword(r) PROVE OnlyUnderWayEscape'
  <2>1. CASE password' = password + 1 /\ sessions' = Revoke(r) /\ Proven(r, "recreate", password')
    BY <2>1, ChangeEscaping
  <2>2. CASE Done(r) /\ UNCHANGED <<password, sessions>>
    <3>1. Older' = Older
      BY <2>2 DEF Older
    <3> QED BY <1>3, <2>2, <3>1, IdleRec DEF Done
  <2> QED BY <1>6, <2>1, <2>2 DEF UpdateAdminPassword
<1>7. ASSUME NEW r \in Requests, Verify(r) \/ LoginFailed(r) \/ LoginSucceeded(r) \/ ChangePassword(r)
      PROVE  OnlyUnderWayEscape'
  <2>1. password' = password /\ Older' = Older
    BY <1>7 DEF Verify, LoginFailed, LoginSucceeded, ChangePassword, Older
  <2>2. CASE Goto(r, "failed") \/ Goto(r, "update")
    BY <1>3, <2>1, <2>2, GotoRec DEF Pcs
  <2>3. CASE Proven(r, "create", password)
    BY <1>3, <2>1, <2>3, ProvenRec DEF Pcs, IInv, TypeInv
  <2>4. CASE Done(r)
    BY <1>3, <2>1, <2>4, IdleRec DEF Done
  <2> QED BY <1>7, <2>2, <2>3, <2>4 DEF Verify, LoginFailed, LoginSucceeded, ChangePassword
<1>8. ASSUME NEW r \in Requests, Arrive(r) PROVE OnlyUnderWayEscape'
  <2>1. password' = password /\ Older' = Older
    BY <1>8 DEF Arrive, Bootstrap, Login, Require, Older
  <2>2. \E rec : request' = [request EXCEPT ![r] = rec] /\ rec.pc \notin {"create", "recreate"}
    <3>1. /\ [Idle EXCEPT !.pc = "bootstrap"].pc = "bootstrap"
          /\ \A who, ip : [Idle EXCEPT !.pc = "login", !.ip = ip, !.who = who].pc = "login"
          /\ \A h, t : [Idle EXCEPT !.pc = h, !.token = t].pc = h
      BY DEF Idle
    <3>2. CASE Bootstrap(r)
      BY <3>1, <3>2 DEF Bootstrap
    <3>3. ASSUME NEW who, NEW ip, Login(r, ip, who)
          PROVE  \E rec : request' = [request EXCEPT ![r] = rec] /\ rec.pc \notin {"create", "recreate"}
      BY <3>1, <3>3 DEF Login
    <3>4. ASSUME NEW t, NEW h \in {"logout", "change"}, Require(r, t, h)
          PROVE  \E rec : request' = [request EXCEPT ![r] = rec] /\ rec.pc \notin {"create", "recreate"}
      BY <3>1, <3>4 DEF Require
    <3> QED BY <1>8, <3>2, <3>3, <3>4 DEF Arrive
  <2> QED BY <1>3, <2>1, <2>2
<1>9. ASSUME NEW t \in Tokens, Expire(t) PROVE OnlyUnderWayEscape'
  <2>1. Older' \subseteq Older
    BY <1>2, <1>9, Deleted DEF Expire
  <2>2. Stale' = Stale
    BY <1>9 DEF Expire, Stale
  <2> QED BY <2>1, <2>2, NoneMore
<1>10. CASE Tick \/ UNCHANGED vars
  BY <1>10, NoneMore DEF Tick, vars, Older, Stale
<1>11. CASE Restart
  <2>1. Older' = Older /\ Stale' = {}
    BY <1>11, IdleRec DEF Restart, Older, Stale
  <2> QED BY <2>1, NoneMore
<1> QED BY <1>4, <1>5, <1>6, <1>7, <1>8, <1>9, <1>10, <1>11, CreateEscaping DEF Next, Step

\* A change of the password (SessionService.ChangePassword, Store.UpdateAdminPassword)
\* leaves no session of an older password but those of requests that had passed their
\* check at the time, for any number of requests, sessions and changes.
THEOREM OnlyUnderWayAlwaysEscape == Spec => []OnlyUnderWayEscape
<1>1. Init => OnlyUnderWayEscape
  <2>1. ASSUME Init PROVE Older = {} /\ Stale = {}
    BY <2>1, IdleRec DEF Init, Older, Stale
  <2>2. Cardinality(Requests) \in Nat /\ Cardinality(Requests) # 0
    BY SessionsAssumption, FS_CardinalityType, FS_EmptySet
  <2> QED BY <2>1, <2>2, FS_EmptySet DEF OnlyUnderWayEscape
<1>2. IInv /\ IInv' /\ OnlyUnderWayEscape /\ [Next]_vars => OnlyUnderWayEscape'
  BY EscapingStep
<1> QED BY <1>1, <1>2, Invariance, PTL DEF Spec

\* An administrator there is keeps the account: only a change of the password
\* replaces it (Store.CreateFirstAdmin).
THEOREM FirstAdminStays == Spec => FirstAdminKept
<1> DEFINE Kept == password \notin {0, password'} =>
             \E r \in Requests : At(r, "update") /\ request'[r].pc = "recreate"
<1>1. IInv /\ [Next]_vars => [Kept]_vars
  <2> SUFFICES ASSUME IInv, Next, password \notin {0, password'}
               PROVE  \E r \in Requests : At(r, "update") /\ request'[r].pc = "recreate"
    BY DEF vars
  <2>1. ASSUME NEW r \in Requests, Arrive(r) PROVE FALSE
    BY <2>1 DEF Arrive, Bootstrap, Login, Require
  <2>2. PICK r \in Requests : Step(r)
    BY <2>1 DEF Next, Expire, Tick, Restart
  <2>3. UpdateAdminPassword(r)
    BY <2>2 DEF Step, CreateFirstAdmin, Verify, Create, LoginFailed, LoginSucceeded, Logout,
                ChangePassword
  <2>4. /\ At(r, "update") /\ Proven(r, "recreate", password')
        /\ password <= MaxChanges /\ password' = password + 1
    BY <2>3 DEF UpdateAdminPassword
  <2>5. request'[r].pc = "recreate"
    <3>1. password' \in Passwords
      BY <2>4, SessionsAssumption DEF IInv, TypeInv, Passwords
    <3> QED BY <2>4, <3>1, ProvenRec DEF Pcs, IInv, TypeInv
  <2> QED BY <2>4, <2>5
<1> QED BY <1>1, Invariance, PTL DEF Spec, FirstAdminKept

-----------------------------------------------------------------------------
(* The login limiter                                                       *)

\* No key has two entries.
Apart(es) == \A i, j \in DOMAIN es : es[i].key = es[j].key => i = j

\* What RemoveAt leaves of a sequence.
LEMMA Removed ==
  ASSUME NEW V, NEW s \in Seq(V), NEW i \in 1..Len(s)
  PROVE  /\ RemoveAt(s, i) \in Seq(V)
         /\ Len(RemoveAt(s, i)) = Len(s) - 1
         /\ \A j \in 1..(Len(s) - 1) : RemoveAt(s, i)[j] = IF j < i THEN s[j] ELSE s[j + 1]
<1> DEFINE a == SubSeq(s, 1, i - 1)
           b == SubSeq(s, i + 1, Len(s))
<1>1. a \in Seq(V) /\ Len(a) = i - 1 /\ \A j \in 1..(i - 1) : a[j] = s[j]
  OBVIOUS
<1>2. b \in Seq(V) /\ Len(b) = Len(s) - i /\ \A j \in 1..(Len(s) - i) : b[j] = s[i + j]
  OBVIOUS
<1>3. RemoveAt(s, i) = a \o b
  BY DEF RemoveAt
<1> HIDE DEF a, b
<1>4. RemoveAt(s, i) \in Seq(V) /\ Len(RemoveAt(s, i)) = Len(s) - 1
  BY <1>1, <1>2, <1>3
<1>5. ASSUME NEW j \in 1..(Len(s) - 1) PROVE (a \o b)[j] = IF j < i THEN s[j] ELSE s[j + 1]
  <2>1. CASE j < i
    BY <2>1, <1>1, <1>2
  <2>2. CASE ~(j < i)
    <3>1. (a \o b)[j] = b[j - (i - 1)]
      BY <2>2, <1>1, <1>2
    <3>2. b[j - (i - 1)] = s[i + (j - (i - 1))]
      BY <2>2, <1>2
    <3>3. i \in Int /\ j \in Int
      OBVIOUS
    <3>4. i + (j - (i - 1)) = j + 1
      BY <3>3
    <3> QED BY <3>1, <3>2, <3>4, <2>2
  <2> QED BY <2>1, <2>2
<1> QED BY <1>3, <1>4, <1>5

\* delete takes the entry of the key and no other.
LEMMA Deletes ==
  ASSUME NEW es \in Seq(Entry), Apart(es), NEW k
  PROVE  /\ Delete(es, k) \in Seq(Entry)
         /\ Len(Delete(es, k)) <= Len(es)
         /\ Apart(Delete(es, k))
         /\ \A i \in DOMAIN Delete(es, k) :
              /\ Delete(es, k)[i].key # k
              /\ \E j \in DOMAIN es : Delete(es, k)[i] = es[j]
<1>1. CASE ~\E i \in DOMAIN es : es[i].key = k
  <2>1. Delete(es, k) = es
    BY <1>1 DEF Delete
  <2> QED BY <1>1, <2>1
<1>2. CASE \E i \in DOMAIN es : es[i].key = k
  <2> DEFINE at == CHOOSE i \in DOMAIN es : es[i].key = k
             ds == RemoveAt(es, at)
  <2>1. at \in DOMAIN es /\ es[at].key = k
    BY <1>2
  <2>2. Delete(es, k) = ds
    BY <1>2 DEF Delete
  <2> HIDE DEF at
  <2>3. at \in 1..Len(es) /\ Len(es) \in Nat
    BY <2>1
  <2>4. /\ ds \in Seq(Entry) /\ Len(ds) = Len(es) - 1
        /\ \A j \in 1..(Len(es) - 1) : ds[j] = IF j < at THEN es[j] ELSE es[j + 1]
    BY <2>3, Removed
  <2> HIDE DEF ds
  <2> DEFINE Old(j) == IF j < at THEN j ELSE j + 1
  <2>5. DOMAIN ds = 1..(Len(es) - 1) /\ DOMAIN es = 1..Len(es)
    BY <2>4
  <2>6. \A j \in DOMAIN ds : Old(j) \in DOMAIN es /\ Old(j) # at /\ ds[j] = es[Old(j)]
    BY <2>3, <2>4, <2>5
  <2>7. \A i, j \in DOMAIN ds : Old(i) = Old(j) => i = j
    BY <2>3, <2>5
  <2> HIDE DEF Old
  <2>8. \A i \in DOMAIN ds : ds[i].key # k
    BY <2>1, <2>6 DEF Apart
  <2>9. Apart(ds)
    BY <2>6, <2>7 DEF Apart
  <2> QED BY <2>2, <2>3, <2>4, <2>6, <2>8, <2>9
<1> QED BY <1>1, <1>2

\* What is left of the entries has neither of the two keys.
LEMMA OthersFit ==
  ASSUME LimiterTypeOK, NEW ip, NEW who
  PROVE  /\ Others(ip, who) \in Seq(Entry)
         /\ Len(Others(ip, who)) <= MaxEntries
         /\ Apart(Others(ip, who))
         /\ \A i \in DOMAIN Others(ip, who) :
              Others(ip, who)[i].key \notin {loginKey(ip, who), accountKey(who)}
<1> DEFINE one == Delete(entries, loginKey(ip, who))
           two == Delete(one, accountKey(who))
<1>1. entries \in Seq(Entry) /\ Apart(entries) /\ Len(entries) <= MaxEntries
  BY DEF LimiterTypeOK, Apart
<1>2. /\ one \in Seq(Entry) /\ Len(one) <= Len(entries) /\ Apart(one)
      /\ \A i \in DOMAIN one : one[i].key # loginKey(ip, who)
  BY <1>1, Deletes
<1> HIDE DEF one
<1>3. /\ two \in Seq(Entry) /\ Len(two) <= Len(one) /\ Apart(two)
      /\ \A i \in DOMAIN two : two[i].key # accountKey(who) /\ \E j \in DOMAIN one : two[i] = one[j]
  BY <1>2, Deletes
<1> HIDE DEF two
<1>4. Len(two) <= MaxEntries
  <2>1. Len(two) \in Nat /\ Len(one) \in Nat /\ Len(entries) \in Nat /\ MaxEntries \in Nat
    BY <1>1, <1>2, <1>3, LimiterAssumption
  <2> QED BY <2>1, <1>1, <1>2, <1>3
<1>5. Others(ip, who) = two
  BY DEF Others, one, two
<1> QED BY <1>2, <1>3, <1>4, <1>5

LEMMA DelayFits == MaxDelay \in Nat \ {0} /\ \A f \in Nat \ {0} : TwoTo[f - 1] \in Nat \ {0}
BY TwoToValues, LimiterAssumption DEF MaxDelay

\* An entry that is found is one of its key; a key without one has no failures
\* and its window is over.
LEMMA LookupFits ==
  ASSUME LimiterTypeOK, NEW k
  PROVE  /\ Lookup(k).key = k
         /\ Lookup(k).failures \in 0..(MaxShift + 1)
         /\ Lookup(k).age \in 0..Window
         /\ Lookup(k).idle \in 0..MaxDelay
         /\ Lookup(k).failures = 0 => Lookup(k).age = Window
<1>1. CASE \E i \in DOMAIN entries : entries[i].key = k
  <2> DEFINE at == CHOOSE i \in DOMAIN entries : entries[i].key = k
  <2>1. at \in DOMAIN entries /\ entries[at].key = k
    BY <1>1
  <2>2. Lookup(k) = entries[at]
    BY <1>1 DEF Lookup
  <2> HIDE DEF at
  <2>3. entries[at] \in Entry
    BY <2>1 DEF LimiterTypeOK
  <2> QED BY <2>1, <2>2, <2>3, LimiterAssumption DEF Entry
<1>2. CASE ~\E i \in DOMAIN entries : entries[i].key = k
  <2>1. Lookup(k) = [key |-> k, failures |-> 0, age |-> Window, idle |-> MaxDelay]
    BY <1>2 DEF Lookup
  <2> QED BY <2>1, LimiterAssumption, DelayFits
<1> QED BY <1>1, <1>2

\* A failure makes an entry of its key, in a window that is not over.
LEMMA BumpFits ==
  ASSUME LimiterTypeOK, NEW k \in Keys
  PROVE  Bump(k) \in Entry /\ Bump(k).key = k /\ Bump(k).idle = 0 /\ Bump(k).age < Window
<1>1. /\ Lookup(k).failures \in 0..(MaxShift + 1)
      /\ Lookup(k).age \in 0..Window
  BY LookupFits
<1>2. /\ Bump(k) = [key |-> k, idle |-> 0, failures |-> Bump(k).failures, age |-> Bump(k).age]
      /\ Bump(k).failures \in 1..(MaxShift + 1)
      /\ Bump(k).age \in 0..Window /\ Bump(k).age < Window
  BY <1>1, LimiterAssumption DEF Bump
<1> QED BY <1>2, DelayFits DEF Entry

\* It delays for a unit at least, and no less than the entry of before did.
LEMMA BumpDelays ==
  ASSUME LimiterTypeOK, NEW k \in Keys
  PROVE  /\ Wait(Bump(k)) \in Nat \ {0}
         /\ Wait(Lookup(k)) \in Nat
         /\ Wait(Lookup(k)) <= Wait(Bump(k))
<1> DEFINE e == Lookup(k)
           b == Bump(k)
<1>1. /\ e.failures \in 0..(MaxShift + 1) /\ e.age \in 0..Window /\ e.idle \in 0..MaxDelay
      /\ e.failures = 0 => e.age = Window
  BY LookupFits
<1>2. /\ b.failures \in 1..(MaxShift + 1) /\ b.idle = 0 /\ b.age \in 0..Window /\ b.age < Window
  BY BumpFits DEF Entry
<1>3. MaxDelay \in Nat /\ MaxShift \in Nat /\ Window \in Nat
  BY DelayFits, LimiterAssumption
<1>4. Delay(b) \in Nat \ {0} /\ (e.failures > 0 => Delay(e) \in Nat \ {0})
  BY <1>1, <1>2, <1>3, DelayFits DEF Delay
<1>5. Wait(b) = Delay(b)
  BY <1>2, <1>3, <1>4 DEF Wait
<1>6. CASE e.age >= Window
  <2>1. Wait(e) = 0
    BY <1>1, <1>3, <1>6 DEF Wait
  <2> QED BY <2>1, <1>4, <1>5
<1>7. CASE e.age < Window
  <2>1. e.failures > 0
    BY <1>1, <1>3, <1>7
  <2>2. b.failures \in {e.failures, e.failures + 1}
    BY <1>1, <1>3, <1>7 DEF Bump
  <2>3. Delay(e) <= Delay(b)
    <3>1. e.failures - 1 \in Nat /\ (e.failures - 1) + 1 = (e.failures + 1) - 1
      BY <1>1, <1>3, <2>1
    <3>2. TwoTo[(e.failures - 1) + 1] = 2 * TwoTo[e.failures - 1] /\ TwoTo[e.failures - 1] \in Nat
      BY <3>1, TwoToValues
    <3> QED BY <2>2, <3>1, <3>2 DEF Delay
  <2>4. Wait(e) \in Nat /\ Wait(e) <= Delay(e)
    BY <1>1, <1>3, <1>4, <2>1 DEF Wait
  <2> QED BY <1>4, <1>5, <2>1, <2>3, <2>4
<1> QED BY <1>1, <1>3, <1>6, <1>7

\* Two entries put in front of others of other keys, and the end cut off: the two
\* are there, however many there were, since the limit is at least two.
LEMMA Counted ==
  ASSUME NEW x \in Entry, NEW y \in Entry, x.key # y.key,
         NEW os \in Seq(Entry), Apart(os),
         \A i \in DOMAIN os : os[i].key \notin {x.key, y.key}
  PROVE  LET es == Evict(<<x, y>> \o os)
         IN /\ es \in Seq(Entry) /\ Len(es) <= MaxEntries /\ Apart(es)
            /\ 1 \in DOMAIN es /\ es[1] = x /\ 2 \in DOMAIN es /\ es[2] = y
<1> DEFINE all == <<x, y>> \o os
           es == Evict(all)
<1>1. /\ all \in Seq(Entry) /\ Len(all) = Len(os) + 2 /\ Len(os) \in Nat
      /\ all[1] = x /\ all[2] = y
      /\ \A i \in DOMAIN all : i \in {1, 2} \/ (i - 2 \in DOMAIN os /\ all[i] = os[i - 2])
  OBVIOUS
<1> HIDE DEF all
<1>2. Apart(all)
  <2> SUFFICES ASSUME NEW i \in DOMAIN all, NEW j \in DOMAIN all, all[i].key = all[j].key
               PROVE  i = j
    BY DEF Apart
  <2>1. i \in Nat /\ j \in Nat
    BY <1>1
  <2>2. CASE i \in {1, 2} \/ j \in {1, 2}
    BY <1>1, <2>2
  <2>3. CASE i \notin {1, 2} /\ j \notin {1, 2}
    <3>1. i - 2 = j - 2
      BY <1>1, <2>3 DEF Apart
    <3> QED BY <2>1, <3>1
  <2> QED BY <2>2, <2>3
<1>3. MaxEntries \in Nat /\ MaxEntries >= 2 /\ Len(all) \in Nat /\ Len(all) >= 2
  BY <1>1, LimiterAssumption
<1>4. /\ es \in Seq(Entry) /\ Len(es) <= MaxEntries /\ Len(es) \in Nat /\ Len(es) >= 2
      /\ Len(es) <= Len(all)
      /\ \A i \in 1..Len(es) : es[i] = all[i]
  <2>1. CASE Len(all) > MaxEntries
    <3>1. es = SubSeq(all, 1, MaxEntries)
      BY <2>1 DEF Evict
    <3>2. 1 \in 1..(Len(all) + 1) /\ MaxEntries \in 0..Len(all)
      BY <1>3, <2>1
    <3>3. es \in Seq(Entry) /\ Len(es) = MaxEntries
      BY <1>1, <1>3, <3>1, <3>2
    <3>4. \A i \in 1..MaxEntries : es[i] = all[i]
      BY <1>1, <1>3, <3>1, <3>2
    <3> QED BY <1>3, <2>1, <3>3, <3>4
  <2>2. CASE ~(Len(all) > MaxEntries)
    <3>1. es = all
      BY <2>2 DEF Evict
    <3> QED BY <1>1, <1>3, <2>2, <3>1
  <2> QED BY <2>1, <2>2
<1> HIDE DEF es
<1>5. DOMAIN es = 1..Len(es) /\ DOMAIN es \subseteq DOMAIN all
  BY <1>1, <1>3, <1>4
<1>6. Apart(es)
  BY <1>2, <1>4, <1>5 DEF Apart
<1>7. 1 \in DOMAIN es /\ es[1] = x /\ 2 \in DOMAIN es /\ es[2] = y
  BY <1>1, <1>4, <1>5
<1> QED BY <1>4, <1>6, <1>7 DEF es, all

\* The two keys of a login are not the same.
LEMMA TwoKeys ==
  ASSUME NEW ip \in Addresses, NEW who \in Accounts
  PROVE  loginKey(ip, who) \in Keys /\ accountKey(who) \in Keys /\ loginKey(ip, who) # accountKey(who)
BY LimiterAssumption DEF loginKey, accountKey, Keys

\* A failure is counted under both keys, and whatever is evicted is neither.
LEMMA FailureFits ==
  ASSUME LimiterTypeOK, NEW ip \in Addresses, NEW who \in Accounts, Failure(ip, who)
  PROVE  /\ LimiterTypeOK'
         /\ Lookup(loginKey(ip, who))' = Bump(loginKey(ip, who))
         /\ Lookup(accountKey(who))' = Bump(accountKey(who))
<1> DEFINE own == Bump(loginKey(ip, who))
           all == Bump(accountKey(who))
           os == Others(ip, who)
<1>1. /\ own \in Entry /\ own.key = loginKey(ip, who)
      /\ all \in Entry /\ all.key = accountKey(who)
  BY TwoKeys, BumpFits
<1>2. own.key # all.key
  BY <1>1, TwoKeys
<1>3. /\ os \in Seq(Entry) /\ Apart(os)
      /\ \A i \in DOMAIN os : os[i].key \notin {own.key, all.key}
  BY <1>1, OthersFit
<1>4. entries' = Evict(<<own, all>> \o os) \/ entries' = Evict(<<all, own>> \o os)
  BY DEF Failure
<1> HIDE DEF own, all, os
<1>5. /\ entries' \in Seq(Entry) /\ Len(entries') <= MaxEntries /\ Apart(entries')
      /\ \E i \in DOMAIN entries' : entries'[i] = own
      /\ \E i \in DOMAIN entries' : entries'[i] = all
  <2>1. CASE entries' = Evict(<<own, all>> \o os)
    BY <1>1, <1>2, <1>3, <2>1, Counted
  <2>2. CASE entries' = Evict(<<all, own>> \o os)
    <3>1. all.key # own.key /\ \A i \in DOMAIN os : os[i].key \notin {all.key, own.key}
      BY <1>2, <1>3
    <3> QED BY <1>1, <1>3, <2>2, <3>1, Counted
  <2> QED BY <1>4, <2>1, <2>2
<1>6. ASSUME NEW n \in DOMAIN entries', NEW k, k = entries'[n].key
      PROVE  Lookup(k)' = entries'[n]
  <2>1. \E i \in DOMAIN entries' : entries'[i].key = k
    BY <1>6
  <2>2. (CHOOSE i \in DOMAIN entries' : entries'[i].key = k) = n
    BY <1>5, <1>6, <2>1 DEF Apart
  <2> QED BY <2>1, <2>2 DEF Lookup
<1>7. LimiterTypeOK'
  BY <1>5 DEF LimiterTypeOK, Apart
<1> QED BY <1>1, <1>5, <1>6, <1>7 DEF own, all

\* Time passes for every entry.
LEMMA TickFits ==
  ASSUME LimiterTypeOK, LimiterTick
  PROVE  LimiterTypeOK'
<1>1. ASSUME NEW e \in Entry PROVE Aged(e) \in Entry /\ Aged(e).key = e.key
  <2>1. /\ e.key \in Keys /\ e.failures \in 1..(MaxShift + 1)
        /\ e.age \in 0..Window /\ e.idle \in 0..MaxDelay
        /\ MaxDelay \in Nat /\ Window \in Nat /\ MaxShift \in Nat
    BY LimiterAssumption, DelayFits DEF Entry
  <2>2. CASE e.age + 1 >= Window
    BY <2>1, <2>2 DEF Entry, Aged
  <2>3. CASE ~(e.age + 1 >= Window)
    <3> DEFINE idle == IF e.idle < MaxDelay THEN e.idle + 1 ELSE e.idle
    <3>1. Aged(e) = [e EXCEPT !.age = e.age + 1, !.idle = idle]
      BY <2>3 DEF Aged
    <3>2. idle \in 0..MaxDelay /\ e.age + 1 \in 0..Window
      BY <2>1, <2>3
    <3> HIDE DEF idle
    <3> QED BY <3>1, <3>2 DEF Entry
  <2> QED BY <2>2, <2>3
<1>2. \A i \in DOMAIN entries : entries[i] \in Entry
  BY DEF LimiterTypeOK
<1>3. /\ Len(entries) \in Nat /\ DOMAIN entries = 1..Len(entries)
      /\ entries' \in [1..Len(entries) -> Entry]
      /\ \A i \in 1..Len(entries) : entries'[i].key = entries[i].key
  BY <1>1, <1>2 DEF LimiterTypeOK, LimiterTick
<1>4. entries' \in Seq(Entry) /\ Len(entries') = Len(entries)
  BY <1>3
<1> QED BY <1>3, <1>4 DEF LimiterTypeOK

-----------------------------------------------------------------------------
(* The requests and the limiter                                            *)

\* A request that is logging in knows the account and the address that its
\* outcome is counted under.
Asked ==
  \A r \in Requests :
    request[r].pc \in {"login", "create", "failed", "succeeded"} =>
      request[r].who \in Accounts /\ request[r].ip \in Addresses

Limited == LimiterTypeOK /\ Len(sessions) <= MaxTokens /\ Asked

LEMMA AskedStep ==
  ASSUME IInv, Asked, [Next]_vars
  PROVE  Asked'
<1> DEFINE Ready(rec) == rec.pc \in {"login", "create", "failed", "succeeded"} =>
                           rec.who \in Accounts /\ rec.ip \in Addresses
<1>1. \A q \in Requests : Ready(request[q])
  BY DEF Asked
<1>2. ASSUME NEW r \in Requests, NEW rec, Ready(rec), request' = [request EXCEPT ![r] = rec]
      PROVE  Asked'
  BY <1>1, <1>2 DEF Asked, IInv, TypeInv
<1>3. ASSUME NEW r \in Requests, Done(r) PROVE Asked'
  BY <1>2, <1>3, IdleRec DEF Done
<1>4. ASSUME NEW r \in Requests, NEW pc, Goto(r, pc),
             pc \in {"create", "failed", "succeeded"} =>
               request[r].pc \in {"login", "create", "failed", "succeeded"},
             pc # "login"
      PROVE  Asked'
  <2> DEFINE rec == [request[r] EXCEPT !.pc = pc]
  <2>1. request[r] \in RequestRec
    BY DEF IInv, TypeInv
  <2>2. rec.pc = pc /\ rec.who = request[r].who /\ rec.ip = request[r].ip
    BY <2>1 DEF RequestRec
  <2>3. request' = [request EXCEPT ![r] = rec]
    BY <1>4 DEF Goto
  <2> HIDE DEF rec
  <2>4. Ready(rec)
    BY <1>1, <1>4, <2>2
  <2> QED BY <1>2, <2>3, <2>4
<1>p. ASSUME NEW r \in Requests, NEW pc, NEW m, Proven(r, pc, m),
             pc = "recreate" \/ request[r].pc = "login"
      PROVE  Asked'
  <2> DEFINE rec == [request[r] EXCEPT !.pc = pc, !.made = m]
  <2>1. request[r] \in RequestRec
    BY DEF IInv, TypeInv
  <2>2. rec.pc = pc /\ rec.who = request[r].who /\ rec.ip = request[r].ip
    BY <2>1 DEF RequestRec
  <2>3. request' = [request EXCEPT ![r] = rec]
    BY <1>p DEF Proven
  <2> HIDE DEF rec
  <2>4. Ready(rec)
    BY <1>1, <1>p, <2>2
  <2> QED BY <1>2, <2>3, <2>4
<1>5. ASSUME NEW r \in Requests, Step(r) PROVE Asked'
  BY <1>3, <1>4, <1>p, <1>5 DEF Step, At, CreateFirstAdmin, Verify, Create, LoginFailed, LoginSucceeded,
                          Logout, ChangePassword, UpdateAdminPassword
<1>6. ASSUME NEW r \in Requests, Arrive(r) PROVE Asked'
  <2>1. CASE Bootstrap(r)
    BY <1>2, <2>1 DEF Bootstrap, Idle
  <2>2. ASSUME NEW who \in Accounts, NEW ip \in Addresses, Login(r, ip, who) PROVE Asked'
    BY <1>2, <2>2 DEF Login, Idle
  <2>3. ASSUME NEW t \in Tokens, NEW h \in {"logout", "change"}, Require(r, t, h) PROVE Asked'
    BY <1>2, <2>3 DEF Require, Idle
  <2> QED BY <1>6, <2>1, <2>2, <2>3 DEF Arrive
<1>7. CASE UNCHANGED request
  BY <1>7 DEF Asked
<1>8. CASE Restart
  BY <1>8 DEF Restart, Asked, Idle
<1> QED BY <1>5, <1>6, <1>7, <1>8 DEF Next, Expire, Tick, vars

\* Only CreateSession adds a row.
LEMMA RowsStep ==
  ASSUME IInv, Len(sessions) <= MaxTokens, [Next]_vars
  PROVE  Len(sessions)' <= MaxTokens
<1>1. sessions \in Seq(Row \cup {Gone}) /\ MaxTokens \in Nat /\ Len(sessions) \in Nat
  BY SessionsAssumption DEF IInv, TypeInv
<1>2. ASSUME NEW t PROVE Len([sessions EXCEPT ![t] = Gone]) = Len(sessions)
  BY <1>1
<1>3. ASSUME NEW r PROVE Len(Revoke(r)) = Len(sessions)
  BY <1>1 DEF Revoke
<1>4. CASE UNCHANGED sessions
  BY <1>4
<1>5. CASE \E m : CreateSession(m)
  <2>1. Len(sessions)' = Len(sessions) + 1 /\ Len(sessions) < MaxTokens
    BY <1>1, <1>5 DEF CreateSession
  <2> QED BY <1>1, <2>1
<1>6. CASE \E t : sessions' = [sessions EXCEPT ![t] = Gone]
  BY <1>2, <1>6
<1>7. CASE \E r : sessions' = Revoke(r)
  BY <1>3, <1>7
<1>8. UNCHANGED sessions \/ (\E m : CreateSession(m)) \/ (\E t : sessions' = [sessions EXCEPT ![t] = Gone])
        \/ \E r : sessions' = Revoke(r)
  BY DEF Next, Step, Arrive, Expire, Tick, Restart, vars, CreateFirstAdmin, Verify, Create,
         LoginFailed, LoginSucceeded, Logout, ChangePassword, UpdateAdminPassword, Bootstrap, Login,
         Require
<1> QED BY <1>4, <1>5, <1>6, <1>7, <1>8

LEMMA LimiterStep ==
  ASSUME IInv, LimiterTypeOK, Asked, [Next]_vars
  PROVE  LimiterTypeOK'
<1>1. CASE UNCHANGED entries
  BY <1>1 DEF LimiterTypeOK
<1>2. ASSUME NEW r \in Requests, LoginFailed(r) PROVE LimiterTypeOK'
  <2>1. request[r].ip \in Addresses /\ request[r].who \in Accounts
    BY <1>2 DEF Asked, LoginFailed, At
  <2>2. Failure(request[r].ip, request[r].who)
    BY <1>2 DEF LoginFailed
  <2> QED BY <2>1, <2>2, FailureFits
<1>3. ASSUME NEW r \in Requests, LoginSucceeded(r) PROVE LimiterTypeOK'
  <2>1. entries' = Others(request[r].ip, request[r].who)
    BY <1>3 DEF LoginSucceeded, Success
  <2> QED BY <2>1, OthersFit DEF LimiterTypeOK, Apart
<1>4. CASE Tick
  BY <1>4, TickFits DEF Tick
<1>5. CASE Restart
  BY <1>5, LimiterAssumption DEF Restart, LimiterTypeOK
<1>6. ASSUME NEW r \in Requests, Step(r), ~LoginFailed(r), ~LoginSucceeded(r)
      PROVE  UNCHANGED entries
  BY <1>6 DEF Step, CreateFirstAdmin, Verify, Create, Logout, ChangePassword, UpdateAdminPassword
<1>7. ASSUME NEW r \in Requests, Arrive(r) PROVE UNCHANGED entries
  BY <1>7 DEF Arrive, Bootstrap, Login, Require
<1> QED BY <1>1, <1>2, <1>3, <1>4, <1>5, <1>6, <1>7 DEF Next, Expire, vars

LEMMA LimitedHolds == Spec => []Limited
<1>1. Init => Limited
  BY LimiterAssumption, SessionsAssumption
     DEF Init, LimiterInit, Limited, LimiterTypeOK, Asked, Idle
<1>2. IInv /\ Limited /\ [Next]_vars => Limited'
  BY AskedStep, RowsStep, LimiterStep DEF Limited
<1> QED BY <1>1, <1>2, Invariance, PTL DEF Spec

\* Every variable holds a value of its kind; in particular the limiter never
\* holds more than maxEntries, and no key twice (LoginLimiter.Failure).
THEOREM SessionsTypeCorrect == Spec => []TypeOK
<1>1. IInv /\ Limited => TypeOK
  BY DEF IInv, TypeInv, Limited, TypeOK
<1> QED BY <1>1, Invariance, LimitedHolds, PTL

\* A login that fails delays the next one of its account and address, by no less
\* than it was delayed before (LoginLimiter.Failure, Allow), for any window, any
\* number of doublings and any limit of at least two entries.
THEOREM FailureAlwaysDelays == Spec => FailureDelays
<1> DEFINE Delays ==
      \A r \in Requests, who \in Accounts, ip \in Addresses :
        request[r].who = who /\ request[r].ip = ip /\ LoginFailed(r)
          => WaitOf(ip, who)' >= WaitOf(ip, who) /\ ~Allow(ip, who)'
<1>1. ASSUME LimiterTypeOK PROVE Delays
  <2> SUFFICES ASSUME NEW r \in Requests, NEW who \in Accounts, NEW ip \in Addresses,
                      Failure(ip, who)
               PROVE  WaitOf(ip, who)' >= WaitOf(ip, who) /\ ~Allow(ip, who)'
    BY DEF LoginFailed
  <2> DEFINE k == loginKey(ip, who)
             a == accountKey(who)
  <2>1. Lookup(k)' = Bump(k) /\ Lookup(a)' = Bump(a)
    BY <1>1, FailureFits
  <2>2. /\ Wait(Bump(k)) \in Nat \ {0} /\ Wait(Lookup(k)) \in Nat
        /\ Wait(Lookup(k)) <= Wait(Bump(k))
        /\ Wait(Bump(a)) \in Nat \ {0} /\ Wait(Lookup(a)) \in Nat
        /\ Wait(Lookup(a)) <= Wait(Bump(a))
    BY <1>1, TwoKeys, BumpDelays
  <2>3. WaitOf(ip, who)' = IF Wait(Bump(k)) > Wait(Bump(a)) THEN Wait(Bump(k)) ELSE Wait(Bump(a))
    BY <2>1 DEF WaitOf, Wait, Delay
  <2>4. WaitOf(ip, who) = IF Wait(Lookup(k)) > Wait(Lookup(a)) THEN Wait(Lookup(k)) ELSE Wait(Lookup(a))
    BY DEF WaitOf
  <2>5. WaitOf(ip, who)' >= WaitOf(ip, who) /\ WaitOf(ip, who)' # 0
    BY <2>2, <2>3, <2>4
  <2> QED BY <2>5 DEF Allow
<1>2. Limited => [Delays]_vars
  BY <1>1 DEF Limited
<1> QED BY <1>2, LimitedHolds, PTL DEF FailureDelays
=============================================================================
