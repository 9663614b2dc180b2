# TLA+ models of the trusttunnel controller

The repository is a controller, written in Go, that runs the TrustTunnel VPN
endpoint as a child process in a container. It keeps its state in SQLite and in
two versioned directories on a volume, renders the endpoint's configuration,
supervises the endpoint, obtains and renews the TLS certificate, and serves an
administration UI. This directory models the parts of it where concurrency,
partial failure and restarts meet: what is supervised, what is published, in
which order, and what is left when a step in the middle fails.

`PROJECT.json` lists the components, the runs, the source lines each definition
stands for, the hazards and the theorems. The sections below give the inventory,
the modules, the runs, the proofs, the divergences that were found, and the plan.

## 1. Inventory

| Component | State | Operations | What is hard | What makes it correct |
|---|---|---|---|---|
| Endpoint supervisor, `internal/supervisor` | `cmd`, `done`, `desired`, `stopping`, status, restart times; one watch goroutine per process | Start, Stop, Restart, Reload, MarkReady, MarkDegraded; watch | Watch goroutines outlive their process; `done` is closed before the lock is taken; backoff timers; contexts of callers | one endpoint; truthful status; Stop final; bounded restarts; Stop returns; crashes recovered |
| Readiness wrapper, `internal/app/app.go` | none | Restart, Reload, ready | the probe and the mark are two steps | ready means a process there is |
| Configuration store, `internal/config/materializer.go`; TLS store, `internal/certificate/tls_store.go` | immutable `revisions/<id>`, links `current`, `previous` | Apply/Publish, Rollback, Restore | an error, a kill or a stop of the machine between two file-system calls | links never dangle, never name an unvalidated revision |
| Apply manager and users, `internal/service/{apply,users}.go` | rows in `vpn_users`, `active_revision` | Create, Enable, Disable, Revoke, Rotate; apply and its rollback | four stores of one truth (row, files, `active_revision`, process), written one after the other | the endpoint has exactly the active users' credentials |
| TLS coordinator, `internal/service/tls_apply.go`, `internal/certificate/admin_certificate.go` | TLS store, configuration, AdminUI certificate | Publish, RevertLast, CompletePublished | undone step by step, every step may fail | AdminUI never serves an unconfirmed pair; the store goes back to the confirmed one |
| Controller start, `internal/app/app.go` | | load the AdminUI pair, listen, recover the endpoint | recovery holds no lock while the UI already serves | after a stop everything agrees again |
| Certificate manager, TLS settings, scheduler, `internal/certificate`, `internal/service/tls_settings.go` | row `tls_certificate`, `settings.hostname` | Ensure for three sources, issue, renew, SaveConfiguration, ConfigureInitial, seedTLS | scheduler, requests and stops interleave; the row is written before and after the external call | active means a pair of the hostname; a confirmed pair is never lost; nothing stays in issuing |
| HTTP-01 provider, `internal/certificate/http01.go` | tokens, server, listener, semaphore | Present, CleanUp, Shutdown, serveHTTP | the listener is closed after the unlock | a presented challenge can be answered; TCP 80 is released |
| Renewal worker, `internal/certificate/{scheduler,automatic}.go` | attempts in a row, the timer, `done` | Start, runAutomatic, waitScheduler, Stop, Backoff, jitterBackoff | the end of the context races the timer; Stop gives up while an order runs; doubling a duration | retries after the right delay; a Stop without an error leaves nothing under way; stopping ends |
| Sessions, login limiter, first administrator, `internal/auth`, `internal/webui/{auth,bootstrap}.go` | rows of `admins` and `sessions`, the limiter's entries | Login, Logout, Require, ChangePassword, Allow, Failure, Success, CreateFirstAdmin | two SQL statements with another request in between; eviction at the limit | a change of the password revokes the other sessions; the first administrator stays; failures delay, delays end |
| Backup, restore, migration, data lock, `internal/{backup,migration,datalock}` | the volume, archive, marker, flock | Create, Verify, Restore, Run, ImportManual, Acquire | a copy of a moving target; kills between renames or writes; reruns | an archive names nothing it lacks; a reported restore is complete; the marker means a complete import |
| Client profiles, web handlers, probes, metrics, log ring, command line | | | | not modelled: formatting, forms and read-only views; their state changes are operations of the components above |

How they interact. HTTP handlers call the users and the TLS settings services.
`UserManager` writes a row, `ApplyManager` renders a snapshot, publishes it in the
configuration store, stores `active_revision` and restarts the endpoint through
the readiness wrapper. `certificate.Manager` obtains a pair and calls
`TLSCoordinator`, which publishes it in the TLS store, renders and publishes a
configuration, stores `active_revision` and reloads the endpoint; only when the
manager has saved its row does AdminUI switch. User operations and publications
share one apply lock; the manager has its own mutex around Ensure, issue, renew
and the settings. Recovery at start takes neither.

## 2. Modules

| Module | Models | Composition |
|---|---|---|
| `Supervisor` | supervisor and readiness wrapper: every critical section of `Supervisor.mu` is one action, what runs outside of the lock is split where the lock is released | |
| `AtomicStore` | abstract: what a store of revisions promises | |
| `RevisionStore` | both stores, one action per file-system call, `BreakOff` and `Crash` anywhere | refines `AtomicStore` (`Promise`, `Atomic`) |
| `Publication` | user operations, TLS publication, recovery, with SQLite, both stores, the endpoint and AdminUI | uses the stores through what `AtomicStore` promises and the supervisor through its results |
| `CertLifecycle` | the certificate row, the manager, the scheduler, the settings, the seeding | uses a publication as one step; its parts are in `Publication` |
| `HTTP01` | the challenge listener | |
| `Doubling` | powers of two as a recursive function, for the delays that double | |
| `Scheduler` | the renewal worker and the end of the controller | EXTENDS `Doubling` and `HTTP01`: the worker's orders and the requests of the TLS page share the provider |
| `LoginLimiter` | the delays after failed logins | EXTENDS `Doubling` |
| `Sessions` | administrator, sessions and the requests on them | EXTENDS `LoginLimiter` |
| `DataDirectory` | the volume and the commands that work on it: controller, migration, backup, restore, under the lock | uses the stores through what `AtomicStore` promises, and the controller by the order of its writes |
| `SupervisorProofs`, `RevisionStoreProofs`, `PublicationProofs`, `CertLifecycleProofs`, `SchedulerProofs`, `SessionsProofs`, `DataDirectoryProofs`, `DoublingProofs` | theorems | each EXTENDS its component; `SchedulerProofs` is about the provider too, and it and `SessionsProofs` EXTEND `DoublingProofs` |
| `MCSupervisor`, `MCRevisionStore`, `MCPublication`, `MCCertLifecycle`, `MCScheduler`, `MCSessions`, `MCDataDirectory` | instances for TLC | each EXTENDS its component |

**Supervisor.** `cmd`, `desired`, `stopping`, `status` are the fields of the struct;
`restarts` is `len(s.restarts)`: how many entries left the window by the time of
an exit is a choice (`Kept`), except those of watchers that still sleep, which
are too young. `watch[p]` is the goroutine of process `p`: `wait` (in `cmd.Wait`),
`closed` (`done` closed, the lock not yet taken), `backoff`. `call[c]` is what a
caller is doing: Stop is split at SIGTERM, the select, the kill and the last
critical section. `intent` and `auto` are history variables. A process value is
reused when nothing refers to it, so the number of starts is unbounded.

**RevisionStore.** `dirs` is what can be seen, `durable` what was synced,
`diskCurrent` and `diskPrevious` are the values of the links one of which is found
after a stop of the machine. `BreakOff` ends an operation before any of its calls, because
the call failed or because the controller was killed and started again: what was
renamed stays, synced or not. `Crash` is a stop of the machine, which
chooses among what was not synced. `unsynced` (history) are the revisions whose
publication broke off between the rename and the sync, `linked` those that
were ever linked. The two implementations differ only
in a Rollback without a previous revision (`RollbackClears`); the operations of
the configuration store are a subset of those of the TLS store in every other
respect, so the run takes `RollbackClears = TRUE`, and the proofs hold for both.

**Publication.** `job` is the holder of the apply lock with its program counter:
`apply`, `setActive`, `restart`, then `rollFiles`, `rollActive`, `rollProcess`,
`undoUser` for a user operation; `apply`, `setActive`, `reload`, `save`, `complete`
and `backConfig`, `backPair`, `backActive`, `backProcess` for a publication. A
revision is identified with what it renders (credentials of the active users and
the TLS pair), because directories are named by a hash of their content. `boot`
is recovery. `proc` keeps two revisions: the one named in the arguments and the
one that was `config/current` when the process started, which is its working
directory, against which it resolves `credentials_file`. Requests are served from
the first step of recovery on, if AdminUI has a certificate; the scheduler starts
after it. The faults are named (`cancel`, `db`, `files`, `endpoint`, `exit`,
`stop`); a run says which of them occur and how often. A fault by itself excuses nothing:
the history variable `harm` has what went wrong while something was being undone, or
unnoticed (its kinds are listed at `Harms`), and loses it when a later step has put
it right, for instance the next change that goes through.

**CertLifecycle.** `meta` is the row; `op` the operation under `Manager.mu` with the
record it read (`cur`), the one it will write (`next`) and the pair it obtained
(`bundle`); `viewed` is the hostname a request to issue has read before it has the
mutex. A pair is source, hostname and age (`fresh`, `due`, `expired`); `Tick` ages.
The source `imported` is the provided source without mounted files, which the
migration leaves. `apart` (history) is set by a save that breaks off between its two writes and by
an issue that writes an older hostname than the saved one, and reset by a save.

**HTTP01.** `call[c]` is the goroutine that solves challenge `c`; CleanUp and
Shutdown take the server out under the mutex (`CleanUp`, `Shutdown`) and then close
the listener and drain the server (`CleanUpClose`, `CleanUpDrain`, ...). `slots` is
`len(sem)`.

**Scheduler.** `worker` is the goroutine of runAutomatic with the number of failures
in a row and the delay it waits; `live` the controller's context; `halt` how
Scheduler.Stop came out of its select. The deferred calls of `app.Run` are in the
order of the code: Stop, and only then (`halt # "no"`) the Shutdown of the provider.
Ensure is the time in which the worker's own challenges can be presented. A
random number is one of 0, 1/2 and 1; the arithmetic of Backoff and jitterBackoff is
the code's, on whole units.

**LoginLimiter, Sessions.** The limiter's map is a sequence, the last seen first,
with times as distances from now, so that its states are finitely many however
long it runs. `request[r]` is an HTTP request between two SQL statements or two
critical sections of the limiter: `login` (allowed, the hash not yet read),
`create`, `failed`, `succeeded`, `change`, `update`, `recreate`, ... A request and the
session row it inserts remember (history) the password that the request has compared or set.

**DataDirectory.** `vol` is the volume: the database (`is`, whether there is one;
hostname, credentials, `active_revision`, TLS row), the links and revisions of
both stores, the marker, and what else lies there (`scrap`). Each process is a
program counter: `ctl` (start, user operations, publications and their
undo), `boot` (recovery, next to the requests), `mig`, `res`, `bak`; each can be ended between any two steps, which for
the first three frees `lock`. The backup holds no lock: it copies the parts
in the order of the code while the others write. NewVolume is the operator who
attaches the volume that the archive is restored to. `origin` and `kept` are
history variables: a volume is `torn` from the first rename of a restore to the
last, and an archive is `mixed` when a migration finished between the copy of
the database and the copy of the marker.

### Assumptions about code that is not in the repository

* The endpoint reads on SIGHUP the files named in its arguments; it resolves the
  relative `credentials_file` against its working directory or the directory of
  its own `vpn.toml` (`ServesDatabase` asks the same of both).
* The ACME library calls CleanUp for every challenge it has presented.
* A rename or a link is atomic, and survives a stop of the machine for sure only
  after an fsync of its directory. SQLite statements are atomic and durable.
* flock excludes the processes of one volume and goes with its holder. That one
  controller works on a volume is assumed in `Publication` and `CertLifecycle`;
  `DataDirectory` has the lock and those who compete for it.

## 3. Runs

Twelve runs. Eight of them check properties that hold, four show divergences.

| Run | Checks | Bounds |
|---|---|---|
| `supervisor_races` | `OneEndpoint`, `StatusTruthful`, `BreakerBounds`, `StopIsFinal` | 3 processes, 2 callers, 2 revisions, 1 restart per window, execs fail, contexts end |
| `supervisor_progress` | `StopReturns`, `RecoveredUnlessCancelled` | 3 processes, 1 caller, 2 revisions, 2 restarts per window, contexts end |
| `supervisor_crash_lost` | violates `CrashRecovered` | as above |
| `revision_store` | `LinksSurvive`, `CurrentValidated`, `Atomic` | 3 revisions, any number of operations, failures, kills and stops |
| `publication_faults` | `PublishedAgrees`, `ServesDatabase`, `KeepsServing`, `TLSPairConfirmed`, `AdminFollowsMetadata` | 2 users, 2 pairs, 2 credentials, 2 of: request ends, SQLite error, endpoint failure, exit, file error, stop |
| `publication_cancel` | violates `RollbackServes` | 1 ended request |
| `publication_startup` | violates `StartupAgrees` | 2 users, 1 stop |
| `publication_certificate` | violates `SharedCertificate` | no fault at all |
| `certificate_lifecycle` | `ActiveCoversHost`, `SettingsAgree`, `PairKept`, `SettingsKept`, `InterruptedResolved`, `PairObtained` | 2 hostnames, all requests, 2 faults of any kind |
| `renewal` | `SchedulerTypeOK`, `Answerable`, `PortReleased`, `RetryDelay`, `StoppedQuiet`, `SlotsCounted`, `PortFreed`, `NotStuckBusy`, `StopCompletes` | 3 challenges (2 of the worker), 4 servers, 2 requests, 1 slot, delays 10, 20, 40, 70, 70 |
| `sessions` | `TypeOK`, `OnlyUnderWayEscape`, `FirstAdminKept`, `FailureDelays`, `NotLockedOut` | 1 account from 2 addresses, 2 entries for 3 keys, a window of 3 and delays up to 2, 2 requests, 2 sessions, 1 change of the password |
| `data_directory` | `VolumeResolves`, `ArchiveResolves`, `RestoreComplete`, `MarkerMeansImported`, `ReportedKept` | 1 user, 2 pairs, 1 change by the controller, any number of migrations, starts, kills and restores, 1 archive |

Why the bounds are enough. In the supervisor the hard cases need the current
process, the one whose watcher still sleeps and one more that started in
between: three. Two callers race for the lock; a third waits like the second.
The breaker is off by one at any limit, so 1 and 2 are taken; the theorem holds
for every limit. In the store the links name at most two revisions while a third
is published. In `Publication` every rollback involves the new and the old
revision; one fault is in the operation and one in its rollback, in the recovery or in the
next operation; two users make tables that differ in a user the job does not touch.
In `CertLifecycle` an operation has one
hostname and the settings another; one fault is in the operation and one in writing
back the row or in the next operation. In `Scheduler` one challenge is cleaned up, one
is presented meanwhile and one stays; each may have a server that drains; the
delays double twice, are cut once and then stay. In `Sessions` a request
that reads and writes races with one other, and one change of the password separates
the sessions before it from those after it; two entries are fewer
than the keys, and a failure that adds two meets a full map. Delays are at most
two units in a window of three, so that it is not the window that ends every delay,
and failures from one address extend the delay of the account at the other. In
`DataDirectory` the migration writes users, pair, configuration and marker as often
as it is run, next to the one change of the controller: one operation spans
the whole backup, and the others are the migration's. The archive and the old
volume do not depend on each other once the archive is complete, and the
restored volume not on the archive once its database is in place, so that work
on the one is not followed further (`InUse`).

With execs that succeed, `CrashRecovered` fails for one reason only:
`RecoveredUnlessCancelled` is the same promise minus the end of the context, and
holds. An exec that fails in the watch goroutine is not retried (supervisor.go:137
drops the error; the status is stopped and nothing tries again); both liveness runs leave it out
(`ExecMayFail = FALSE`), `supervisor_races` has it.

What the exceptions say. The properties of `Publication` about agreement name the
kinds of `harm` they allow for (`Unharmed`): things that went wrong while a failure was being
dealt with. `RollbackServes` and `StartupAgrees` are the same promises without
the exception that the code should not need, and are violated. In
the same way `SettingsAgree` allows for `apart`, `LinksSurvive` for `unsynced` and
`OnlyUnderWayEscape` for requests under way; section 5 names the formulas without
these exceptions, which the code does not keep either.

The type invariants are proved. Two of them are part of a run as well, because they
say more than the kinds of the values: the limiter keeps its limit and one entry
per key, and the semaphore its slots.
Symmetry is used for safety properties only, over sets whose members are
interchangeable; runs with a liveness or refinement property have none.
Deadlock is checked in every
run: a new operation can always begin, or time pass.

### Fairness

* Supervisor: a goroutine that can run is run, timers fire, SIGKILL ends a
  process. Nothing is assumed of the endpoint otherwise, and nobody has to call.
  The actions of one goroutine are joined in one weak fairness condition where
  the code has a select, so that no branch of it is preferred.
* CertLifecycle: an operation goes on (`WF` of `OpStep`: ACME and SQLite calls have
  timeouts), the container is restarted (`restart: unless-stopped`,
  docker-compose.yml), and the scheduler comes back to Ensure (`SF`: it competes
  for `Manager.mu` with requests, and a Go mutex hands itself over to a waiter that
  has starved for a millisecond). Faults are bounded, requests are not.
* Scheduler, HTTP01: a presented challenge is cleaned up, calls in progress go on,
  and a handler ends because the server has read and write timeouts. The worker's
  timer fires, Stop's own context ends, and the deferred calls of `app.Run` follow one
  another. Ensure is not assumed to return: `StopCompletes` holds without it.
* Sessions: time passes (`WF` of `Tick`). No client has to do anything, and
  clients may fail to log in for ever: `NotLockedOut` holds all the same.

## 4. Proofs

Every theorem is proved for all values of the constants under the named
assumption of its module.

* **SupervisorProofs** (`ConstantsAssumption`). `TypeCorrect`, `SingleEndpoint` and
  `StatusIsTruthful` come from `IInv`: `OneEndpoint` is not inductive alone, because a
  late watcher could clear `s.cmd` while its successor runs. `WatchersInPlace` adds
  that a living process has a waiting watcher and the process of `s.cmd` one that
  waits or is about to take the lock. `StopFinal` adds `DownMeansUndesired` (after Stop
  `desired` is false, so that `MayRestart` refuses). `BreakerHolds` adds
  `RestartsCounted`: the restarts made plus the watchers that sleep are covered by
  entries of the window, and are at most `MaxRestarts`.
* **RevisionStoreProofs** (`StoreAssumption`). `TypeCorrect` and `OnlyValidated`:
  `Checked` adds that every directory that can be seen was validated, and so was what
  an operation is about to rename or link and what a link may be found to be after
  a stop. `LinksAlwaysSurvive`: `IInv` adds `Ordered`, that what the operation is about to
  link is durable, or was left unsynced by an operation that broke off, whenever its
  program counter is past the sync. `Refinement`: every step is a
  step of `AtomicStore` or changes nothing of it; both links and the revisions in doubt
  (`unsure`) are part of it. None has a hypothesis on what fails.
* **PublicationProofs** (`PublicationAssumption`, `NoRevision`). All theorems are about
  every fault and about requests during recovery. `TypeCorrect`, and
  `AdminAlwaysConfirmed`: `AdminInv` adds that
  no job runs while the controller is down and that between saving the row and
  CompletePublished the pair of the job is the one in the row.
  `PairAlwaysConfirmed`: `PairHeld` says that a publication which
  has put its pair into the TLS store remembers the confirmed one until it is saved
  or put back. `AlwaysKeepsServing`, `PublishedAlwaysAgrees` and `AlwaysServesDatabase` look at states in which nobody
  is at work, so each needs to know what a job, and recovery, owe at each of their steps: which
  revision is in the files, in `active_revision` and in the process, by the program counter, and that
  each of them has the credentials of the table there will be when
  the job is over, which is the table of before it once it goes back. A job that began
  before recovery was over is marked (`early`), and until another change goes through
  `harm` says that the two may have run into each other.
* **CertLifecycleProofs** (`LifecycleAssumption`). `ActiveAlwaysCovers` and the action
  property `PairNeverLost` need what an operation carries between its steps:
  `OpCarriesPair` (the record to write back holds the pair of the row), `BundleFits` (a
  pair obtained is of the hostname and the source to be written) and `OrderFits`.
  `SettingsStayTogether` adds `HInv`: unless `apart`, the hostname of the row differs from
  the settings' only between the two writes of the operation in hand, and what an operation
  carries has the hostname of the row.
  `SettingsAlwaysKept`, under every fault, adds `CarriesSettings`: what an operation writes back has the
  source of the row, and its hostname unless an issue has put another one there.
* **SchedulerProofs** (`HTTP01Assumption`, `SchedulerAssumption`). Of the provider:
  `AlwaysAnswerable`, `PortAlwaysReleased`:
  a server exists iff a token does, every token belongs to a presented
  challenge, who closes a listener closes one the provider has let go of, and every
  open listener is the provider's or belongs to a call in progress. `SlotsAlwaysCounted`:
  the slots taken are the number of the requests being answered; `ProviderTypeCorrect` needs it,
  because it is what keeps them from going below zero. `ProviderUsed`: every step of the scheduler
  and of the end of the controller is a step of the provider or leaves it alone,
  so that these hold of the whole. `StoppedAlwaysQuiet` adds that outside of Ensure none of the
  worker's challenges is presented. `BackoffIsCapped`: the loop of Backoff, which stops
  before a doubling would pass the maximum, computes the smaller of base * 2^attempt
  and the maximum. `RetryAlwaysDelayed` follows from it with the rounding of jitterBackoff and,
  because failures are counted up to a bound only, from `MaxAttempts` being so large that the
  delay is the maximum there. `SchedulerTypeCorrect`.
* **DoublingProofs** (no assumption). `TwoToValues`. The library's induction takes an
  operator, which the provers cannot instantiate; `SetInduction` takes a set instead and
  follows from the numbers being well-founded (`WFMin`). `Recursion` builds the
  function from its prefixes (`PrefixExists`, `PrefixUnique`), so that the CHOOSE behind a
  recursive definition has something to choose. `Backoff` uses the same two lemmas.
* **SessionsProofs** (`SessionsAssumption`, `LimiterAssumption`). `OnlyUnderWayAlwaysEscape`, `FirstAdminStays`.
  The first is a count that is inductive with the types: the change that makes
  sessions and requests old deletes all rows and is a request of its own that is not among
  them, and a request that inserts an old session is no longer about to. `NobodyYet` adds that while there is no administrator there
  is no session and no request past the checks that need one. The limiter plays no
  part in these. `SessionsTypeCorrect` and `FailureAlwaysDelays` are about it: deleting
  keeps the order and the keys apart (`Removed`, `Deletes`), so that the two new entries in front
  of the others are the only ones of their keys, and the eviction, which cuts at the end, keeps
  both because `MaxEntries` is at least 2. `Asked` adds that a login under way has an
  account and an address to be counted under.
* **DataDirectoryProofs** (`DataDirectoryAssumption`). `VolumeAlwaysResolves`,
  `ArchiveAlwaysResolves`, `RestoreAlwaysComplete`, `ReportedAlwaysKept`,
  `TypeCorrect`, from one `IInv` that says what each command
  carries between its steps: `JobHeld`, `BootHeld` and `MigHeld` (only revisions and pairs that
  exist), `BakHeld` (a name copied so far has its target in what is still to be
  copied), `ResHeld` (the entries moved so far are the archive's), `Locked` (who is
  under way holds the lock) and `KeptHeld` (a kept change means a marker, and no
  migration is started where one is). The backup has no lock; its
  part of the proof relies on the steps of the controller and of the migration only
  adding to the stores (`Grows`). `MarkerAlwaysMeansImported` (`NoneAssumption`: None is not
  a rendered revision) adds `ImportHeld`: how far the migration is by its program counter
  (`MigImported`), that an operation of the controller puts nothing back that is less than what
  the import left (`JobImported`), and the same of the copy being made and of the archive.

Every invariant and every action property of the passing runs is stated by a theorem.
Only model-checked: the liveness properties `StopReturns`, `RecoveredUnlessCancelled`,
`InterruptedResolved`, `PairObtained`, `PortFreed`, `NotStuckBusy`, `StopCompletes` and `NotLockedOut`,
because the installed provers do not reason about fairness and ENABLED; and that the
bounds of a run let every action occur.

## 5. Divergences

With a run:

1. `supervisor_crash_lost`: the watch goroutine keeps the context of the call that
   started the process. After a user operation that is the context of a finished
   HTTP request, and the next crash is not recovered from.
2. `publication_cancel`: the rollback of `apply` uses the context whose end may have
   been the failure; the old endpoint is then not started again.
3. `publication_certificate`: the endpoint is started with the paths of one immutable
   revision; SIGHUP after a renewal makes it read the old `hosts.toml` again, while
   AdminUI switches.
4. `publication_startup`: a user operation during recovery is overwritten by recovery's
   older snapshot (app.go:185, 191).

Without a run. For 5 to 8 the module has the formula that the code does not keep; put it
in place of the properties in the named configuration to see a behaviour:

5. Apply ends between the rename and `syncDir(revisions)`
   (materializer.go:97, 101), by an error or a kill. The directory stays, and a
   second Apply finds it (:62), skips the sync and links it, although
   plans/done/controller-core.md:47 has it synced. `LinksDurable`, MCRevisionStore.cfg.
6. The rollback of an apply whose revision was already current
   swaps the links to an older one (apply.go:111), while `active_revision` goes back to the
   one there was. `RollbackAgrees`, MCPubFault.cfg. (If the first start fails, the rollback starts
   the endpoint with the revision `""`, apply.go:115.)
7. `TLSSettingsService.Issue` reads the settings before the mutex
   (tls_settings.go:145); after a save in between it writes the older hostname into the row
   and obtains a pair for it, while profiles are exported with the saved one
   (client_configs.go:56). Row and settings differ until the next save.
   `ExportsCertificateHost`, MCCertLifecycle.cfg.
8. A login that has compared the old password and creates its session after a change
   of the password keeps it (session.go:71), although the page says "Password changed
   and all other sessions were revoked." (webui/auth.go:96). `SessionsSinceChange`,
   MCSessions.cfg.
9. After a change of source whose first attempt fails, the next Ensure takes the old
   source's pair, still valid for the hostname, for its own (self_signed.go:66).
10. Stop can return while the status still shows the PID, because `done` is closed
    before the lock is taken (supervisor.go:93); MarkReady marks the process there is
    by then, not the probed one (app.go:282); a watcher that slept through a Stop and a
    Start whose process exited restarts the older revision (supervisor.go:137).
11. A stop, or a file error, between the publication of a pair and the saving of the row leaves
    the TLS store at an unconfirmed pair until the next publication; `TLSPairConfirmed` allows
    for it (harm `pair`).
12. ConfigureInitial and SaveConfiguration write the row and then the hostname
    (tls_settings.go:95, 128). A stop in between during the first start is not
    repaired, because the next start finds a configured installation; `SettingsAgree` allows
    for it (`apart`).
13. UpdateAdminPassword is committed before the new session is created
    (session.go:116). If that fails the page says "Password change failed"
    (webui/auth.go:92), the password is changed and every session is gone.
14. `expires_at` is compared as RFC3339Nano text (sqlite.go:399), which drops trailing
    zeros of the fraction: it is exact to the second only.
15. A restore that is killed between two renames leaves a target that is not empty, so
    that it cannot be repeated there (backup.go:147), and that a controller or a
    migration starts on all the same; where the database is missing they create an
    empty one. `VolumeResolves` excludes such a volume (`origin = "torn"`).
16. After an import that broke off, changes that an administrator made in the meantime
    are overwritten when it is run again; docs/data-layout.md:34 says "a rerun after a
    partial attempt safely upserts the same logical data". `ReportedKept` starts with
    the marker.
17. A migration that ends between the copy of the database and the copy of its marker
    (backup.go:32, 63) gives an archive with the marker and without the users; after
    its restore the import refuses to run. `MarkerMeansImported` excludes it
    (`origin = "mixed"`).

## 6. Not modelled

* X.509 contents, TOML syntax, address and name validation: no property reads them.
* ACME itself (the lego library): obtaining a pair works or fails. The ACME mode
  (production, staging) is part of neither the settings nor the row.
* SQL, the schema and its migrations, the tables of events and client profiles: a
  statement or a transaction is one step that works or fails.
* tar, gzip, the checksums' computation, file modes and path checks of the backup;
  parsing of the legacy files. Rules of the legacy volume are upserted like users.
* Password hashing, cookies, the CSRF checks of the handlers.
* No caller in the program: `ApplyManager.Apply`, `ApplyCurrent` and the actions sighup
  and none, `Scheduler.run` without automatic, `RenewalAt`, `DeleteAdmin`, `AdminByID`.
* `tls/previous` in `DataDirectory`: only TLSStore.Rollback reads it, which the program
  does not call (tls_apply.go:185 is for stores without Restore); `RevisionStore` has it.
* The shutdown of the two HTTP servers; the rest of the end of the controller is in
  `Scheduler`.
* Client profiles, web handlers, probes, metrics, the log ring, the flags of the
  command line: formatting, forms and read-only views.

## 7. Plan

1. `CertLifecycle`: an abstract specification of the row (confirmed pair, settings)
   that the detailed one implements; the ACME mode.
2. `DataDirectory` as an implementation of an abstract archive: a backup is the
   database of one moment with stores that contain what it names.
