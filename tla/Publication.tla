----------------------------- MODULE Publication -----------------------------
(***************************************************************************)
(* How a change reaches the endpoint: SQLite, the configuration and TLS    *)
(* stores, the endpoint process and the AdminUI certificate, changed by    *)
(*   - user operations (internal/service/users.go through apply.go),       *)
(*   - publication of a certificate (internal/service/tls_apply.go, and    *)
(*     the metadata step around it in internal/certificate/issue.go),      *)
(*   - recovery when the controller starts (internal/app/app.go).          *)
(*                                                                         *)
(* The first two hold the shared apply lock from their first write to      *)
(* their last, so one variable, job, is the holder of the lock.  Recovery  *)
(* does not take the lock, and requests are served while it runs.  Between *)
(* two steps the request's context may end, the endpoint may exit and the  *)
(* controller may stop.                                                    *)
(*                                                                         *)
(* A configuration revision is identified with what it renders: revision   *)
(* directories are immutable and named by a hash of their content.  The    *)
(* stores are used through their atomic promise (AtomicStore).             *)
(***************************************************************************)
EXTENDS Naturals, FiniteSets

CONSTANTS
  Users,      \* VPN user names
  Pairs,      \* TLS revisions
  MaxCred,    \* bound: how many credentials are generated
  Faults,     \* which faults occur: subset of FaultKinds
  MaxFaults,  \* bound: how many faults occur in a behaviour
  None

FaultKinds == {"cancel", "db", "files", "endpoint", "exit", "stop"}

\* What has gone wrong while a change was being undone, or unnoticed, and that
\* nothing has put right since:
\*   undo    SQLite refused a write that puts an old value back
\*   start   the endpoint could not be started by a rollback or by recovery
\*   cancel  a rollback was refused because the request it runs for had ended
\*   files   a file operation failed that the code does not undo, or an undoing one
\*   exit    the endpoint has exited
\*   void    apply was rolled back although it had switched nothing
\*   raced   recovery or the supervisor worked while an operation was under way
\*   pair    a publication left the TLS store at a pair that is not confirmed
Harms == {"undo", "start", "cancel", "files", "exit", "void", "raced", "pair"}

ASSUME PublicationAssumption ==
  /\ MaxCred \in Nat /\ MaxFaults \in Nat
  /\ Faults \subseteq FaultKinds
  /\ None \notin Pairs

VARIABLES
  users,    \* vpn_users
  minted,   \* how many credentials randomCredential has returned, all different
  active,   \* settings.active_revision
  meta,     \* the TLS revision in tls_certificate
  cfg,      \* the configuration store: current and previous
  tls,      \* current of the TLS store
  proc,     \* the endpoint: state, the revision in its arguments (vpn.toml,
            \* hosts.toml) and the one in its working directory, config/current
            \* at the start (vpn.toml names credentials.toml relatively)
  admin,    \* the certificate AdminUI serves
  job,      \* the operation that holds the apply lock
  boot,     \* recovery at start
  faults,   \* how many faults have occurred
  harm      \* history: those of Harms that nothing has put right

db == <<users, active, meta>>
stores == <<cfg, tls>>
vars == <<db, minted, stores, proc, admin, job, boot, faults, harm>>

Statuses == {"absent", "active", "disabled", "revoked"}
Rows == [status : Statuses, cred : 0..MaxCred]
Contents == [creds : SUBSET (Users \X (0..MaxCred)), tls : Pairs \cup {None}]
Revs == Contents \cup {None}
ASSUME NoRevision == None \notin Contents
Absent == [status |-> "absent", cred |-> 0]
NoJob == [pc |-> "idle", kind |-> "none", live |-> TRUE, user |-> None, before |-> Absent,
          new |-> None, old |-> None, pair |-> None, oldPair |-> None, undo |-> "none", ok |-> TRUE,
          early |-> FALSE]
JobPcs == {"idle", "apply", "setActive", "restart", "rollFiles", "rollActive", "rollProcess",
           "undoUser", "reload", "save", "complete", "backConfig", "backPair", "backActive",
           "backProcess"}
JobRec == [pc : JobPcs, kind : {"none", "user", "tls"}, live : BOOLEAN,
           user : Users \cup {None}, before : Rows, new : Revs, old : Revs,
           pair : Pairs \cup {None}, oldPair : Pairs \cup {None},
           undo : {"none", "files", "all", "publish", "reload", "revert"}, ok : BOOLEAN,
           early : BOOLEAN]   \* taken before recovery was over
BootPcs == {"off", "snapshot", "apply", "setActive", "restart", "done"}
Down == [state |-> "down", rev |-> None, dir |-> None]

\* Every variable holds a value of its kind.
TypeOK ==
  /\ users \in [Users -> Rows]
  /\ minted \in 0..MaxCred
  /\ active \in Revs
  /\ meta \in Pairs \cup {None} /\ tls \in Pairs \cup {None} /\ admin \in Pairs \cup {None}
  /\ cfg \in [current : Revs, previous : Revs]
  /\ proc \in [state : {"down", "up", "backoff"}, rev : Revs, dir : Revs]
  /\ job \in JobRec
  /\ boot \in [pc : BootPcs, rev : Revs]
  /\ faults \in 0..MaxFaults /\ harm \subseteq Harms

\* A fresh volume whose hostname is configured and whose controller is not up.
Init ==
  /\ users = [u \in Users |-> Absent]
  /\ minted = 0
  /\ active = None /\ meta = None
  /\ cfg = [current |-> None, previous |-> None]
  /\ tls = None
  /\ proc = Down
  /\ admin = None
  /\ job = NoJob
  /\ boot = [pc |-> "off", rev |-> None]
  /\ faults = 0 /\ harm = {}

-----------------------------------------------------------------------------
(* Helpers                                                                 *)

Fault(kind) == kind \in Faults /\ faults < MaxFaults /\ faults' = faults + 1
NoFault == UNCHANGED faults
Harm(kinds) == harm' = harm \cup kinds
NoHarm == UNCHANGED harm

\* A database call on the job's context fails.
DBFails == (~job.live /\ NoFault) \/ (job.live /\ Fault("db"))
DBWorks == job.live /\ NoFault

Present(t) == {u \in Users : t[u].status # "absent"}
Active(t) == {u \in Users : t[u].status = "active"}

\* config.Render: only active users are written, and the TLS paths.
Render(t, pair) == [creds |-> {<<u, t[u].cred>> : u \in Active(t)}, tls |-> pair]

\* Materializer.Apply, Rollback and Restore as one step each, and what a call
\* that returns an error may leave: any prefix of its changes of the links.
Applied(s, r) ==
  IF s.current = r THEN s
  ELSE [current |-> r, previous |-> IF s.current = None THEN s.previous ELSE s.current]
ApplyLeaves(s, r) ==
  {s, [s EXCEPT !.previous = Applied(s, r).previous], Applied(s, r)}
RolledBack(s) ==
  IF s.previous = None \/ s.current = None THEN s
  ELSE [current |-> s.previous, previous |-> s.current]
RollbackLeaves(s) ==
  {s, [s EXCEPT !.current = RolledBack(s).current], RolledBack(s)}
Restored(s, r) ==
  IF r = None THEN [current |-> None, previous |-> None] ELSE [s EXCEPT !.current = r]
RestoreLeaves(s, r) == {s, [s EXCEPT !.current = r], Restored(s, r)}

\* readinessProcess.Restart.  It fails with the old process gone and the new
\* one either not started or not ready.  Without a working directory nothing
\* starts; a revision that was never written ("" as old revision) makes the
\* endpoint exit at once, again and again.
Started(st, r) == [state |-> st, rev |-> r, dir |-> cfg.current]
Startable(r) == r # None /\ cfg.current # None
RestartWorks(r) == Startable(r) /\ proc' = Started("up", r)
RestartFails(r) ==
  proc' \in {Down} \cup
    (IF cfg.current = None THEN {} ELSE {Started(IF r = None THEN "backoff" ELSE "up", r)})

\* readinessProcess.Reload: SIGHUP makes the endpoint read the files named in
\* its arguments again, which are those of the revision it was started with.
ReloadWorks == IF proc.state = "up" THEN UNCHANGED proc ELSE RestartWorks(active)
ReloadFails == IF proc.state = "up" THEN UNCHANGED proc ELSE RestartFails(active)

EndpointWorks == job.live /\ NoFault
EndpointFails == (~job.live /\ NoFault) \/ (job.live /\ Fault("endpoint"))

\* A call on the job's context works, or a call that undoes something fails.
Undoes == job.live /\ NoFault /\ NoHarm
UndoFails(kind, harmed) ==
  \/ ~job.live /\ NoFault /\ Harm({"cancel"})
  \/ job.live /\ Fault(kind) /\ Harm({harmed})

Goto(pc) == job' = [job EXCEPT !.pc = pc]
Done == job' = NoJob

\* The UI serves from before recovery on, over TLS only; the scheduler starts
\* after recovery.
Requests == boot.pc # "off" /\ admin # None
Scheduled == boot.pc = "done"
Early == boot.pc # "done"
Raced == Harm(IF Early THEN {"raced"} ELSE {})

-----------------------------------------------------------------------------
(* User operations                                                         *)

\* Enable, Disable and Revoke; a revoked user stays revoked and its credential
\* is overwritten by a constant (0 here).
Statused(row) ==
  IF row.status \in {"absent", "revoked"} THEN {}
  ELSE {[row EXCEPT !.status = s] : s \in {"active", "disabled"}}
         \cup {[status |-> "revoked", cred |-> 0]}

\* Create and Rotate write a new random credential.
Renewed(row) ==
  IF row.status \notin {"absent", "active"} \/ minted = MaxCred THEN {}
  ELSE {[status |-> "active", cred |-> minted + 1]}

\* UserManager.Create and mutate take the lock and write the row.
UserWrite(u) ==
  /\ Requests /\ job = NoJob
  /\ \/ \E row \in Statused(users[u]) :
          users' = [users EXCEPT ![u] = row] /\ UNCHANGED minted
     \/ \E row \in Renewed(users[u]) :
          users' = [users EXCEPT ![u] = row] /\ minted' = minted + 1
  /\ job' = [NoJob EXCEPT !.pc = "apply", !.kind = "user", !.user = u, !.before = users[u],
                         !.early = Early]
  /\ Raced
  /\ UNCHANGED <<active, meta, stores, proc, admin, boot, faults>>

\* ApplyManager.apply: read the snapshot, render, and files.Apply.  An error
\* returns at once, also one of the last sync, when current was switched.
UserApply ==
  /\ job.pc = "apply" /\ job.kind = "user"
  /\ LET new == Render(users, meta) IN
     \/ /\ DBWorks /\ NoHarm
        /\ cfg' = Applied(cfg, new)
        /\ job' = [job EXCEPT !.pc = "setActive", !.old = active, !.new = new]
     \/ /\ DBFails /\ NoHarm
        /\ Goto("undoUser")
        /\ UNCHANGED cfg
     \/ /\ job.live /\ Fault("files") /\ Harm({"files"})
        /\ cfg' \in ApplyLeaves(cfg, new)
        /\ Goto("undoUser")
  /\ UNCHANGED <<db, minted, tls, proc, admin, boot>>

UserSetActive ==
  /\ job.pc = "setActive" /\ job.kind = "user"
  /\ \/ /\ DBWorks
        /\ active' = job.new
        /\ Goto("restart")
     \/ /\ DBFails
        /\ job' = [job EXCEPT !.pc = "rollFiles", !.undo = "files"]
        /\ UNCHANGED active
  /\ UNCHANGED <<users, minted, meta, stores, proc, admin, boot, harm>>

\* A change that goes through leaves everything as the database says.
UserRestart ==
  /\ job.pc = "restart"
  /\ \/ /\ EndpointWorks
        /\ RestartWorks(job.new)
        /\ harm' = IF job.early THEN harm ELSE harm \cap {"pair"}
        /\ Done
     \/ /\ EndpointFails /\ NoHarm
        /\ RestartFails(job.new)
        /\ job' = [job EXCEPT !.pc = "rollFiles", !.undo = "all"]
  /\ UNCHANGED <<db, minted, stores, admin, boot>>

\* The rollback of apply: swap the links, and, unless it was SetActiveRevision
\* that failed, store and start the old revision.
RollFiles ==
  /\ job.pc = "rollFiles"
  /\ \/ /\ NoFault /\ cfg' = RolledBack(cfg)
        /\ Harm(IF job.new = job.old THEN {"void"} ELSE {})
     \/ Fault("files") /\ cfg' \in RollbackLeaves(cfg) /\ Harm({"files"})
  /\ Goto(IF job.undo = "files" THEN "undoUser" ELSE "rollActive")
  /\ UNCHANGED <<db, minted, tls, proc, admin, boot>>

RollActive ==
  /\ job.pc = "rollActive"
  /\ \/ Undoes /\ active' = job.old
     \/ UndoFails("db", "undo") /\ UNCHANGED active
  /\ Goto("rollProcess")
  /\ UNCHANGED <<users, minted, meta, stores, proc, admin, boot>>

RollProcessNew ==
  /\ job.pc = "rollProcess"
  /\ \/ Undoes /\ RestartWorks(job.new)
     \/ UndoFails("endpoint", "start") /\ RestartFails(job.new)
  /\ Goto("undoUser")
  /\ UNCHANGED <<db, minted, stores, admin, boot>>
RollProcess ==
  /\ job.pc = "rollProcess"
  /\ \/ Undoes /\ RestartWorks(job.old)
     \/ Undoes /\ ~Startable(job.old) /\ RestartFails(job.old)
     \/ UndoFails("endpoint", "start") /\ RestartFails(job.old)
  /\ Goto("undoUser")
  /\ UNCHANGED <<db, minted, stores, admin, boot>>

\* The row is put back (or deleted) with a context that does not end.
UserUndo ==
  /\ job.pc = "undoUser"
  /\ \/ NoFault /\ NoHarm /\ users' = [users EXCEPT ![job.user] = job.before]
     \/ Fault("db") /\ Harm({"undo"}) /\ UNCHANGED users
  /\ Done
  /\ UNCHANGED <<active, meta, minted, stores, proc, admin, boot>>

-----------------------------------------------------------------------------
(* Publication of a certificate                                            *)

\* TLSCoordinator.Publish: remember the old pair, publish the new one and
\* prepare it for AdminUI.
PublishPair(p) ==
  /\ Requests \/ Scheduled
  /\ job = NoJob
  /\ \/ /\ NoFault /\ Raced
        /\ tls' = p
        /\ job' = [NoJob EXCEPT !.pc = "apply", !.kind = "tls", !.pair = p, !.old = active,
                               !.oldPair = meta, !.early = Early]
     \/ /\ Fault("files") /\ Harm({"pair"})
        /\ tls' \in {tls, p}      \* TLSStore.Publish fails, at the latest in its last sync
        /\ UNCHANGED job
     \/ /\ Fault("files") /\ Harm({"pair"})
        /\ tls' \in {meta, p}     \* AdminCertificate.Prepare fails, restoreTLS may too
        /\ UNCHANGED job
  /\ UNCHANGED <<db, minted, cfg, proc, admin, boot>>

\* Render with the new pair, configs.Apply; on an error both stores go back.
TLSApply ==
  /\ job.pc = "apply" /\ job.kind = "tls"
  /\ LET new == Render(users, job.pair) IN
     \/ /\ NoFault
        /\ cfg' = Applied(cfg, new)
        /\ job' = [job EXCEPT !.pc = "setActive", !.new = new]
     \/ /\ Fault("files")
        /\ cfg' \in ApplyLeaves(cfg, new)
        /\ job' = [job EXCEPT !.pc = "backConfig", !.undo = "publish"]
  /\ UNCHANGED <<db, minted, tls, proc, admin, boot, harm>>

TLSSetActive ==
  /\ job.pc = "setActive" /\ job.kind = "tls"
  /\ \/ /\ DBWorks
        /\ active' = job.new
        /\ Goto(IF Active(users) = {} THEN "save" ELSE "reload")
     \/ /\ DBFails
        /\ job' = [job EXCEPT !.pc = "backConfig", !.undo = "publish"]
        /\ UNCHANGED active
  /\ UNCHANGED <<users, minted, meta, stores, proc, admin, boot, harm>>

TLSReloadActivates ==
  /\ job.pc = "reload"
  /\ EndpointWorks /\ ReloadWorks /\ Goto("save")
  /\ admin' = job.pair
  /\ UNCHANGED <<db, minted, stores, boot, harm>>
TLSReload ==
  /\ job.pc = "reload"
  /\ \/ EndpointWorks /\ ReloadWorks /\ Goto("save")
     \/ /\ EndpointFails
        /\ ReloadFails
        /\ job' = [job EXCEPT !.pc = "backConfig", !.undo = "reload"]
  /\ UNCHANGED <<db, minted, stores, admin, boot, harm>>

\* Manager saves the metadata.  On an error RevertLast undoes the publication
\* with a context of its own.
SaveMetadata ==
  /\ job.pc = "save"
  /\ \/ DBWorks /\ meta' = job.pair /\ Goto("complete")
     \/ /\ DBFails
        /\ job' = [job EXCEPT !.pc = "backConfig", !.undo = "revert", !.live = TRUE]
        /\ UNCHANGED meta
  /\ UNCHANGED <<users, minted, active, stores, proc, admin, boot, harm>>

\* CompletePublished: only now AdminUI switches to the new pair.
CompletePublished ==
  /\ job.pc = "complete"
  /\ admin' = job.pair
  /\ harm' = harm \ {"pair"}
  /\ Done
  /\ UNCHANGED <<db, minted, stores, proc, boot, faults>>

\* restoreConfig, restoreTLS, SetActiveRevision(old), Reload.
BackConfig ==
  /\ job.pc = "backConfig"
  /\ \/ NoFault /\ NoHarm /\ cfg' = Restored(cfg, job.old) /\ Goto("backPair")
     \/ /\ Fault("files") /\ Harm({"files"})
        /\ cfg' \in RestoreLeaves(cfg, job.old)
        /\ job' = [job EXCEPT !.pc = "backPair", !.ok = FALSE]
  /\ UNCHANGED <<db, minted, tls, proc, admin, boot>>

AfterBackPair == IF job.undo = "publish" THEN NoJob ELSE [job EXCEPT !.pc = "backActive"]
RestoredPairNone == None
RestoredPair == job.oldPair
BackPair ==
  /\ job.pc = "backPair"
  /\ \/ /\ NoFault /\ harm' = harm \ {"pair"}
        /\ tls' = RestoredPair
        /\ job' = AfterBackPair
     \/ /\ Fault("files") /\ Harm({"pair"})
        /\ tls' \in {tls, RestoredPair}
        /\ job' = IF job.undo = "publish" THEN NoJob ELSE [AfterBackPair EXCEPT !.ok = FALSE]
  /\ UNCHANGED <<db, minted, cfg, proc, admin, boot>>

BackActive ==
  /\ job.pc = "backActive"
  /\ \/ Undoes /\ active' = job.old /\ Goto("backProcess")
     \/ /\ UndoFails("db", "undo")
        /\ job' = [job EXCEPT !.pc = "backProcess", !.ok = FALSE]
        /\ UNCHANGED active
  /\ UNCHANGED <<users, minted, meta, stores, proc, admin, boot>>

\* RevertLast reloads only if there are active users and all went well so far.
BackProcess ==
  /\ job.pc = "backProcess"
  /\ IF job.undo = "revert" /\ (Active(users) = {} \/ ~job.ok)
     THEN NoFault /\ NoHarm /\ UNCHANGED proc
     ELSE \/ Undoes /\ ReloadWorks
          \/ Undoes /\ proc.state # "up" /\ ~Startable(active) /\ ReloadFails
          \/ UndoFails("endpoint", "start") /\ ReloadFails
  /\ Done
  /\ UNCHANGED <<db, minted, stores, admin, boot>>

-----------------------------------------------------------------------------
(* Start of the controller, without the apply lock.  An error of SQLite or  *)
(* of the files during recovery ends the controller: ControllerStop.       *)

\* The certificate in the metadata is loaded, then the servers listen.  If it
\* cannot be loaded (it expired, or its files cannot be read) that is logged,
\* and they listen without one.
BootServe ==
  /\ boot.pc = "off"
  /\ admin' \in {meta, None}
  /\ boot' = [pc |-> "snapshot", rev |-> None]
  /\ UNCHANGED <<db, minted, stores, proc, job, faults, harm>>

BootSnapshot ==
  /\ boot.pc = "snapshot"
  /\ boot' = IF Present(users) = {} THEN [pc |-> "done", rev |-> None]
             ELSE [pc |-> "apply", rev |-> Render(users, meta)]
  /\ UNCHANGED <<db, minted, stores, proc, admin, job, faults, harm>>

BootApply ==
  /\ boot.pc = "apply"
  /\ cfg' = Applied(cfg, boot.rev)
  /\ boot' = [boot EXCEPT !.pc = "setActive"]
  /\ UNCHANGED <<db, minted, tls, proc, admin, job, faults, harm>>

BootSetActiveSkipped ==
  /\ boot.pc = "setActive"
  /\ boot' = [boot EXCEPT !.pc = "restart"]
  /\ UNCHANGED <<db, minted, stores, proc, admin, job, faults, harm>>
BootSetActive ==
  /\ boot.pc = "setActive"
  /\ active' = boot.rev
  /\ boot' = [boot EXCEPT !.pc = "restart"]
  /\ UNCHANGED <<users, minted, meta, stores, proc, admin, job, faults, harm>>

BootRestartSkipped ==
  /\ boot.pc = "restart"
  /\ boot' = [pc |-> "done", rev |-> None]
  /\ UNCHANGED <<db, minted, stores, proc, admin, job, faults, harm>>
BootRestart ==
  /\ boot.pc = "restart"
  /\ \/ NoFault /\ NoHarm /\ RestartWorks(boot.rev)
     \/ Fault("endpoint") /\ Harm({"start"}) /\ RestartFails(boot.rev)
  /\ boot' = [pc |-> "done", rev |-> None]
  /\ UNCHANGED <<db, minted, stores, admin, job>>

-----------------------------------------------------------------------------
(* The environment                                                         *)

\* The client of the request goes away or the operation runs into its timeout.
Cancel ==
  /\ job.pc # "idle" /\ job.live
  /\ Fault("cancel")
  /\ job' = [job EXCEPT !.live = FALSE]
  /\ UNCHANGED <<db, minted, stores, proc, admin, boot, harm>>

\* The endpoint exits; the supervisor starts it again with the same arguments
\* in what is the current directory by then, or gives up (the circuit breaker,
\* or the context of the Start is over).
Exit ==
  /\ proc.state = "up"
  /\ Fault("exit") /\ Harm({"exit"})
  /\ proc' = [proc EXCEPT !.state = "backoff"]
  /\ UNCHANGED <<db, minted, stores, admin, job, boot>>

AutoRestart ==
  /\ proc.state = "backoff"
  /\ \/ proc' = Down /\ NoHarm
     \/ /\ Startable(proc.rev) /\ proc' = Started("up", proc.rev)
        /\ harm' = (harm \ {"exit"}) \cup (IF job = NoJob THEN {} ELSE {"raced"})
  /\ UNCHANGED <<db, minted, stores, admin, job, boot, faults>>

\* The controller stops, and with it, as PID 1, the endpoint.  The next start
\* goes by the database; only a pair that was being published is left over.
ControllerStop ==
  /\ boot.pc # "off"
  /\ Fault("stop")
  /\ harm' = (harm \cap {"pair"}) \cup
       (IF job.kind = "tls" /\ job.pc \notin {"complete", "backActive", "backProcess"}
        THEN {"pair"} ELSE {})
  /\ boot' = [pc |-> "off", rev |-> None]
  /\ job' = NoJob
  /\ proc' = Down
  /\ admin' = None
  /\ UNCHANGED <<db, minted, stores>>

UserStep ==
  \/ UserApply \/ UserSetActive \/ UserRestart
  \/ RollFiles \/ RollActive \/ RollProcess \/ UserUndo
TLSStep ==
  \/ TLSApply \/ TLSSetActive \/ TLSReload \/ SaveMetadata \/ CompletePublished
  \/ BackConfig \/ BackPair \/ BackActive \/ BackProcess
BootStep == BootServe \/ BootSnapshot \/ BootApply \/ BootSetActive \/ BootRestart

Next ==
  \/ \E u \in Users : UserWrite(u)
  \/ UserStep
  \/ \E p \in Pairs : PublishPair(p)
  \/ TLSStep
  \/ BootStep
  \/ Cancel \/ Exit \/ AutoRestart \/ ControllerStop

Spec == Init /\ [][Next]_vars

-----------------------------------------------------------------------------
(* Properties                                                               *)

\* Nobody is at work: recovery is over and the apply lock is free.
Quiet == boot.pc = "done" /\ job = NoJob
\* Nothing of these kinds has gone wrong that was not put right since.
Unharmed(kinds) == harm \cap kinds = {}
\* The file revision and the state in SQLite are one pair.
Agreed == cfg.current = active /\ active = Render(users, meta)

\* After apply, its rollback or recovery, config/current is the revision in
\* active_revision, and it is what the database renders to: whatever step a
\* change failed or the controller stopped at, and whichever call failed, unless
\* undoing failed itself, nothing had been switched that could be swapped back,
\* or recovery ran into the change.
PublishedAgrees ==
  /\ Quiet /\ Present(users) # {}
  /\ Unharmed({"undo", "cancel", "files", "void", "raced"})
  => Agreed

\* The endpoint accepts exactly the credentials of the active users, in the
\* revision its arguments name and in the directory it runs in, from which it
\* resolves credentials_file: a disabled, revoked or rotated one is not left by
\* a change that failed half-way, and none that a rollback restored is missing.
ServesDatabase ==
  /\ Quiet /\ proc.state = "up" /\ Present(users) # {}
  /\ Unharmed({"undo", "cancel", "files", "void", "raced"})
  => proc.rev.creds = Render(users, meta).creds /\ proc.dir.creds = proc.rev.creds

\* A controller with active users is serving them: neither recovery, nor a
\* change that fails at whatever step, nor its rollback leaves the endpoint down,
\* unless the endpoint itself cannot be started or the request had ended.
KeepsServing ==
  Quiet /\ Active(users) # {} /\ Unharmed({"undo", "start", "cancel", "exit"})
    => proc.state = "up"

\* AdminUI serves the pair in the metadata or, if that could not be loaded, none,
\* also while a publication is under way or being undone: it never shows a pair
\* that was not confirmed.
AdminFollowsMetadata == job.pc # "complete" => admin \in {meta, None}

\* When Publish or RevertLast has undone a publication, at whatever step it
\* failed, the current pair of the TLS store is the confirmed one, unless the
\* controller stopped or a file operation failed in between.
TLSPairConfirmed == Quiet /\ Unharmed({"pair"}) => tls = meta

\* The next three say of the code what it does not keep.

\* A change that fails leaves the endpoint running, also one whose request ends.
RollbackServes ==
  Quiet /\ Active(users) # {} /\ harm \subseteq {"cancel"} => proc.state = "up"

\* A change that fails leaves files and SQLite in agreement, also one that
\* renders to what was published already.
RollbackAgrees == Quiet /\ Present(users) # {} /\ harm \subseteq {"void"} => Agreed

\* Applies are serialised, so that parallel changes do not mix revisions: also
\* recovery and the requests that are served meanwhile.
StartupAgrees == Quiet /\ Present(users) # {} /\ harm \subseteq {"raced"} => Agreed

\* After CompletePublished the endpoint and AdminUI use the same certificate.
SharedCertificate == Quiet /\ proc.state = "up" => proc.rev.tls = admin
=============================================================================
