---------------------------- MODULE CertLifecycle ----------------------------
(***************************************************************************)
(* The life of the TLS certificate: the row tls_certificate and who may    *)
(* change it.  certificate.Manager (issue.go, automatic.go, self_signed.go *)
(* and provided.go) works under Manager.mu; the renewal scheduler calls    *)
(* Ensure in a loop; the TLS page (service/tls_settings.go) saves settings *)
(* and asks for an issue or a renewal; app/automatic_tls.go seeds an empty *)
(* installation.                                                           *)
(*                                                                         *)
(* op is the operation that holds Manager.mu.  Every write of the row is a *)
(* step of its own, so that a request may end and the controller may stop  *)
(* between any two of them.  Publishing a pair is one step that works or   *)
(* changes nothing (Publication has its parts).  A pair is abstracted to   *)
(* its source, its hostname and its age.                                   *)
(***************************************************************************)
EXTENDS Naturals

CONSTANTS
  Hosts,      \* hostnames
  Requests,   \* which requests the TLS page sends: subset of RequestKinds
  Faults,     \* which faults occur: subset of FaultKinds
  MaxFaults,  \* bound: how many faults occur in a behaviour
  None

RequestKinds == {"save", "issue", "renew"}
FaultKinds == {"cancel", "db", "acme", "publish", "stop"}

ASSUME LifecycleAssumption ==
  /\ Requests \subseteq RequestKinds
  /\ Faults \subseteq FaultKinds
  /\ MaxFaults \in Nat
  /\ None \notin Hosts

VARIABLES
  meta,      \* tls_certificate: state, source, hostname and the active pair
  hostname,  \* settings.hostname, which the endpoint's configuration uses
  op,        \* the operation under Manager.mu
  viewed,    \* the hostname that a request to issue has read, not yet locked
  mounted,   \* the PEM files of the source "provided"
  up,        \* whether the controller runs
  faults,    \* how many faults have occurred
  apart      \* history: since hostname and the row were last saved together, a save
             \* broke off between its two writes, or an issue wrote a hostname that
             \* was not the saved one any more

vars == <<meta, hostname, op, viewed, mounted, up, faults, apart>>

States == {"unconfigured", "issuing", "active", "renewing", "degraded"}
\* What an administrator selects, and the source of a migrated installation:
\* "provided" too, but without paths of mounted files.
Selectable == {"letsencrypt", "self-signed", "provided"}
Sources == Selectable \cup {"imported"}
Ages == {"fresh", "due", "expired"}
Names == Hosts \cup {None}
PairRec == [source : Sources, host : Hosts, age : Ages]
NoPair == [source |-> "none", host |-> None, age |-> "expired"]
Pairs == PairRec \cup {NoPair}
MetaRec == [state : States, source : Sources, host : Names, pair : Pairs]
Pcs == {"idle", "ensure", "decide", "issue", "renew", "obtain", "publish", "save", "fail",
        "settings", "seed"}
OpRec == [pc : Pcs, live : BOOLEAN, host : Names, cur : MetaRec, next : MetaRec, bundle : Pairs]
Nothing == [state |-> "unconfigured", source |-> "letsencrypt", host |-> None, pair |-> NoPair]
Idle == [pc |-> "idle", live |-> TRUE, host |-> None, cur |-> Nothing, next |-> Nothing,
         bundle |-> NoPair]

\* Every variable holds a value of its kind.
TypeOK ==
  /\ meta \in MetaRec
  /\ hostname \in Names /\ viewed \in Names
  /\ op \in OpRec
  /\ mounted \in Pairs
  /\ up \in BOOLEAN
  /\ faults \in 0..MaxFaults
  /\ apart \in BOOLEAN

\* What the import of an older installation leaves (migration/legacy.go).
Migrated(h) ==
  [state |-> "active", source |-> "imported", host |-> h,
   pair |-> [source |-> "imported", host |-> h, age |-> "fresh"]]

\* An empty installation, or a migrated one.
Init ==
  /\ \/ meta = Nothing /\ hostname = None
     \/ \E h \in Hosts : meta = Migrated(h) /\ hostname = h
  /\ op = Idle
  /\ viewed = None
  /\ mounted = NoPair
  /\ up = FALSE
  /\ faults = 0
  /\ apart = FALSE

-----------------------------------------------------------------------------
(* Helpers                                                                 *)

Fault(kind) == kind \in Faults /\ faults < MaxFaults /\ faults' = faults + 1
NoFault == UNCHANGED faults

\* A call on the operation's context works, or fails: always, once it ended.
Works == op.live /\ NoFault
Fails(kind) == (~op.live /\ NoFault) \/ (op.live /\ Fault(kind))

Release == op' = Idle
Goto(pc) == op' = [op EXCEPT !.pc = pc]
InState(s) == [meta EXCEPT !.state = s]

\* CanTransition, to the two states that are entered through Transition.
MayIssue == meta.state \in {"unconfigured", "degraded", "issuing"}
MayRenew == meta.state \in {"active", "degraded", "renewing"}

Interrupted == {"issuing", "renewing"}
\* A pair was published and the settings have not changed since.
Published == meta.pair # NoPair /\ meta.state # "unconfigured"
\* ValidateBundle for the hostname in the row.
Valid(pair) == pair # NoPair /\ pair.host = meta.host /\ pair.age # "expired"
\* Ensure keeps a pair that is valid and not yet due.
KeepDue == Published /\ Valid(meta.pair)
Keep == Published /\ Valid(meta.pair) /\ meta.pair.age = "fresh"

\* The operation writes the row first and goes on, or gives up.
WriteThen(rec, next) ==
  \/ Works /\ meta' = rec /\ op' = next
  \/ Fails("db") /\ UNCHANGED meta /\ Release

-----------------------------------------------------------------------------
(* The scheduler: Ensure                                                   *)

\* runAutomatic calls Ensure, which takes the lock.
Ensure ==
  /\ up /\ op = Idle
  /\ op' = [Idle EXCEPT !.pc = "ensure"]
  /\ UNCHANGED <<meta, hostname, viewed, mounted, up, faults, apart>>

\* An operation that a stop has interrupted is marked degraded.
EnsureMarkRefuses ==
  /\ op.pc = "ensure"
  /\ IF meta.host = None \/ meta.state \in Interrupted THEN Release ELSE Goto("decide")
  /\ UNCHANGED <<meta, hostname, viewed, mounted, up, faults, apart>>
EnsureMark ==
  /\ op.pc = "ensure"
  /\ IF meta.host = None
     THEN Release /\ NoFault /\ UNCHANGED meta
     ELSE IF meta.source # "provided" /\ meta.state \in Interrupted
          THEN WriteThen(InState("degraded"), [op EXCEPT !.pc = "decide"])
          ELSE Goto("decide") /\ NoFault /\ UNCHANGED meta
  /\ UNCHANGED <<hostname, viewed, mounted, up, apart>>

\* The pair is kept: the row becomes active, if it is not already.
EnsureKeep ==
  /\ op.pc = "decide"
  /\ \/ meta.source \in {"letsencrypt", "self-signed"} /\ Keep
     \/ meta.source = "provided" /\ Valid(mounted) /\ Published /\ mounted = meta.pair
     \/ meta.source = "imported" /\ Valid(meta.pair)
  /\ WriteThen(InState("active"), Idle)
  /\ UNCHANGED <<hostname, viewed, mounted, up, apart>>

\* Let's Encrypt: the first pair is issued, a later one renewed.
EnsureACME ==
  /\ op.pc = "decide" /\ meta.source = "letsencrypt" /\ ~Keep
  /\ op' = IF Published THEN [op EXCEPT !.pc = "renew"]
           ELSE [op EXCEPT !.pc = "issue", !.host = meta.host]
  /\ UNCHANGED <<meta, hostname, viewed, mounted, up, faults, apart>>

\* Self-signed and provided: the row is marked, the bundle is at hand.
Working == InState(IF Published THEN "renewing" ELSE "issuing")
EnsureUnmanaged(bundle) ==
  /\ op.pc = "decide"
  /\ WriteThen(Working, [op EXCEPT !.pc = "publish", !.cur = meta, !.next = Working, !.bundle = bundle])
  /\ UNCHANGED <<hostname, viewed, mounted, up, apart>>

EnsureSelfSigned ==
  /\ meta.source = "self-signed" /\ ~Keep
  /\ EnsureUnmanaged([source |-> "self-signed", host |-> meta.host, age |-> "fresh"])
EnsureProvided ==
  /\ meta.source = "provided"
  /\ Valid(mounted)
  /\ ~(Published /\ mounted = meta.pair)
  /\ EnsureUnmanaged(mounted)

\* The mounted files, or those of the import, cannot be read or are not valid.
EnsureProvidedFails ==
  /\ op.pc = "decide"
  /\ \/ meta.source = "provided" /\ ~Valid(mounted)
     \/ meta.source = "imported" /\ ~Valid(meta.pair)
  /\ op' = [op EXCEPT !.pc = "fail", !.next = meta]
  /\ UNCHANGED <<meta, hostname, viewed, mounted, up, faults, apart>>

-----------------------------------------------------------------------------
(* Manager.issue, renew and publishUnmanaged                               *)

\* issue and renew: check the source and the transition, write the row.
Issue ==
  /\ op.pc = "issue"
  /\ LET rec == [InState("issuing") EXCEPT !.host = op.host] IN
     IF meta.source = "letsencrypt" /\ MayIssue
     THEN WriteThen(rec, [op EXCEPT !.pc = "obtain", !.cur = meta, !.next = rec])
     ELSE Release /\ NoFault /\ UNCHANGED meta
  /\ apart' = (apart \/ meta'.host # meta.host)
  /\ UNCHANGED <<hostname, viewed, mounted, up>>

Renew ==
  /\ op.pc = "renew"
  /\ LET rec == InState("renewing") IN
     IF meta.source = "letsencrypt" /\ meta.host # None /\ MayRenew
     THEN WriteThen(rec, [op EXCEPT !.pc = "obtain", !.cur = meta, !.next = rec])
     ELSE Release /\ NoFault /\ UNCHANGED meta
  /\ UNCHANGED <<hostname, viewed, mounted, up, apart>>

\* The ACME client: an account, an order, and the checks of what came back.
Obtain ==
  /\ op.pc = "obtain"
  /\ \/ /\ Works
        /\ op' = [op EXCEPT !.pc = "publish",
                            !.bundle = [source |-> "letsencrypt", host |-> op.next.host, age |-> "fresh"]]
     \/ Fails("acme") /\ Goto("fail")
  /\ UNCHANGED <<meta, hostname, viewed, mounted, up, apart>>

\* Publisher.Publish under the apply lock.
Publish ==
  /\ op.pc = "publish"
  /\ \/ Works /\ Goto("save")
     \/ Fails("publish") /\ Goto("fail")
  /\ UNCHANGED <<meta, hostname, viewed, mounted, up, apart>>

\* The new pair is confirmed by the row; otherwise the publication is reverted
\* and the operation fails with the row as it was before.
Confirmed == [op.next EXCEPT !.state = "active", !.pair = op.bundle]
SaveMetadata ==
  /\ op.pc = "save"
  /\ \/ Works /\ meta' = Confirmed /\ Release
     \/ Fails("db") /\ UNCHANGED meta /\ op' = [op EXCEPT !.pc = "fail", !.next = op.cur]
  /\ UNCHANGED <<hostname, viewed, mounted, up, apart>>

\* fail and failUnmanaged: an error of this write is ignored.
FailedRecordLost == [op.next EXCEPT !.state = "degraded", !.pair = NoPair]
FailedRecordReset == [op.next EXCEPT !.state = "degraded", !.source = "letsencrypt"]
FailedRecord == [op.next EXCEPT !.state = "degraded"]
Fail ==
  /\ op.pc = "fail"
  /\ \/ Works /\ meta' = FailedRecord
     \/ Fails("db") /\ UNCHANGED meta
  /\ Release
  /\ UNCHANGED <<hostname, viewed, mounted, up, apart>>

-----------------------------------------------------------------------------
(* The TLS page                                                            *)

\* TLSSettingsService.Issue reads the settings before it asks for the lock.
RequestIssue ==
  /\ up /\ "issue" \in Requests /\ op.pc # "seed"
  /\ viewed = None /\ meta.host # None /\ meta.source = "letsencrypt"
  /\ viewed' = meta.host
  /\ UNCHANGED <<meta, hostname, op, mounted, up, faults, apart>>
\* It has the lock; they may have been saved anew in between.
LockIssue ==
  /\ viewed # None /\ op = Idle
  /\ op' = [Idle EXCEPT !.pc = "issue", !.host = viewed]
  /\ viewed' = None
  /\ UNCHANGED <<meta, hostname, mounted, up, faults, apart>>

RequestRenew ==
  /\ up /\ "renew" \in Requests /\ op = Idle
  /\ op' = [Idle EXCEPT !.pc = "renew"]
  /\ UNCHANGED <<meta, hostname, viewed, mounted, up, faults, apart>>

\* The row after settings were saved: a change of source or hostname makes it
\* unconfigured, the pair stays.
SavedActive(s, h) == [meta EXCEPT !.source = s, !.host = h]
Saved(s, h) ==
  [meta EXCEPT !.source = s, !.host = h,
               !.state = IF meta.source # s \/ meta.host # h THEN "unconfigured" ELSE @]

\* SaveConfiguration under both locks: the row first ...
RequestSave(s, h) ==
  /\ up /\ "save" \in Requests /\ op = Idle
  /\ meta.state \notin Interrupted
  /\ meta' = Saved(s, h)
  /\ op' = [Idle EXCEPT !.pc = "settings", !.host = h]
  /\ UNCHANGED <<hostname, viewed, mounted, up, faults, apart>>

\* ... then settings.hostname.
SetHostnameSkipped ==
  /\ op.pc = "settings"
  /\ Release
  /\ UNCHANGED <<meta, hostname, viewed, mounted, up, faults, apart>>
SetHostname ==
  /\ op.pc = "settings"
  /\ \/ Works /\ hostname' = op.host /\ apart' = FALSE
     \/ Fails("db") /\ UNCHANGED hostname /\ apart' = TRUE
  /\ Release
  /\ UNCHANGED <<meta, viewed, mounted, up>>

-----------------------------------------------------------------------------
(* The controller and its environment                                      *)

\* seedTLS before the servers listen: an empty installation is seeded from the
\* environment by ConfigureInitial, and only then.
Start(s, h) ==
  /\ ~up
  /\ up' = TRUE
  /\ IF meta.host = None
     THEN /\ meta' = [meta EXCEPT !.source = s, !.host = h]
          /\ op' = [Idle EXCEPT !.pc = "seed", !.host = h]
     ELSE UNCHANGED <<meta, op>>
  /\ UNCHANGED <<hostname, viewed, mounted, faults, apart>>

\* Its second write; an error ends the controller.
Seed ==
  /\ op.pc = "seed"
  /\ \/ Works /\ hostname' = op.host /\ apart' = FALSE /\ UNCHANGED up
     \/ Fails("db") /\ UNCHANGED hostname /\ apart' = TRUE /\ up' = FALSE
  /\ Release
  /\ UNCHANGED <<meta, viewed, mounted>>

Stop ==
  /\ up /\ Fault("stop")
  /\ up' = FALSE
  /\ op' = Idle
  /\ viewed' = None
  /\ apart' = (apart \/ op.pc \in {"settings", "seed"})
  /\ UNCHANGED <<meta, hostname, mounted>>

\* The client of the request goes away; the scheduler's context ends when the
\* controller shuts down.  (A timeout is a failure of the call that meets it.)
Cancel ==
  /\ op # Idle /\ op.live
  /\ Fault("cancel")
  /\ op' = [op EXCEPT !.live = FALSE]
  /\ UNCHANGED <<meta, hostname, viewed, mounted, up, apart>>

\* Time passes for the certificates there are.
Older(pair) ==
  [pair EXCEPT !.age = IF @ = "fresh" THEN "due" ELSE "expired"]
Tick ==
  /\ op = Idle
  /\ meta' = [meta EXCEPT !.pair = Older(@)]
  /\ mounted' = Older(mounted)
  /\ UNCHANGED <<hostname, op, viewed, up, faults, apart>>

\* The operator replaces the mounted files.
Mount(h) ==
  /\ mounted' \in {NoPair, [source |-> "provided", host |-> h, age |-> "fresh"]}
  /\ UNCHANGED <<meta, hostname, op, viewed, up, faults, apart>>

EnsureStep ==
  \/ EnsureMark \/ EnsureKeep \/ EnsureACME
  \/ EnsureSelfSigned \/ EnsureProvided \/ EnsureProvidedFails
OpStep ==
  \/ EnsureStep
  \/ Issue \/ Renew \/ Obtain \/ Publish \/ SaveMetadata \/ Fail
  \/ SetHostname \/ Seed

Next ==
  \/ Ensure \/ OpStep
  \/ RequestIssue \/ LockIssue \/ RequestRenew
  \/ \E s \in Selectable, h \in Hosts : RequestSave(s, h) \/ Start(s, h)
  \/ Stop \/ Cancel \/ Tick
  \/ \E h \in Hosts : Mount(h)

Spec == Init /\ [][Next]_vars

\* An operation goes on until it ends, the container is restarted
\* (docker-compose.yml), and the scheduler calls Ensure again and again: a
\* waiter of a Go mutex is not passed over for ever.
Fairness ==
  /\ WF_vars(OpStep)
  /\ WF_vars(\E s \in Selectable, h \in Hosts : Start(s, h))
  /\ SF_vars(Ensure)

FairSpec == Spec /\ Fairness

-----------------------------------------------------------------------------
(* Properties                                                              *)

\* "active" is never claimed for a pair of another hostname, nor without one.
ActiveCoversHost == meta.state = "active" => meta.pair # NoPair /\ meta.pair.host = meta.host

\* A confirmed pair stays, whatever fails and whoever changes the settings,
\* until a valid pair of the selected source and hostname replaces it.
PairStep ==
  \/ meta'.pair \in {meta.pair, Older(meta.pair)}
  \/ /\ meta'.state = "active"
     /\ meta'.pair.source = meta'.source
     /\ meta'.pair.host = meta'.host
     /\ meta'.pair.age # "expired"
PairKept == [][PairStep]_vars

\* Renewals, failures, stops and restarts never change the source that an
\* administrator saved.  They change the hostname only back and forth between
\* the saved one and the one that an issue had read before.
SettingsKept ==
  [][meta.host # None /\ <<meta'.source, meta'.host>> # <<meta.source, meta.host>>
       => \/ op'.pc = "settings"
          \/ /\ meta'.source = meta.source
             /\ op.pc \in {"issue", "fail"}
             /\ op.host \in {meta.host, meta'.host}]_vars

\* With nothing under way, the configuration and the certificate are about the
\* same hostname, whatever failed and whoever was under way with whom, unless a
\* save broke off between its two writes or an issue came late; and then the next
\* save puts it right.
SettingsAgree == up /\ op = Idle /\ ~apart => hostname = meta.host

\* The hostname that profiles are exported with is that of the active certificate,
\* if no call fails and nothing stops.  (It is not: an issue may come late.)
ExportsCertificateHost ==
  up /\ op = Idle /\ faults = 0 /\ meta.state = "active" => hostname = meta.pair.host

\* A row left in issuing or renewing, by a stop or by a request that ended,
\* does not stay so: settings could not be saved any more.
InterruptedResolved == meta.state \in Interrupted ~> meta.state \notin Interrupted

\* An installation whose controller makes its own pairs gets one, and a due
\* pair is replaced.
PairObtained ==
  (meta.host # None /\ meta.source \in {"letsencrypt", "self-signed"} /\ meta.pair.age # "fresh")
    ~> (meta.pair.age = "fresh" \/ meta.source \in {"provided", "imported"})
=============================================================================
