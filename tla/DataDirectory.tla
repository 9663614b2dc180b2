---------------------------- MODULE DataDirectory ----------------------------
(***************************************************************************)
(* One data directory and the four commands that work on it:               *)
(*   - the controller (internal/app/app.go with the publications of        *)
(*     internal/service, at the level of the order of their writes),       *)
(*   - the import of a legacy volume (internal/migration/legacy.go),       *)
(*   - restore of a backup and the backup itself (internal/backup),        *)
(* each a process of its own that may be killed between any two steps.     *)
(* All but the backup hold the flock of internal/datalock while they run.  *)
(*                                                                         *)
(* A configuration revision is identified with what it renders; a          *)
(* directory of a revision is never changed or removed (RevisionStore).    *)
(* What the undo of a publication does when it fails itself is the subject *)
(* of Publication.                                                         *)
(***************************************************************************)
EXTENDS Naturals, Sequences

CONSTANTS
  Users,        \* VPN users
  LegacyUsers,  \* the users in the legacy credentials.toml
  Pairs,        \* TLS revisions
  LegacyPair,   \* the one of the legacy volume, None if hosts.toml names none
  MaxChanges,   \* bound: how many changes administrators and renewal make
  None

ASSUME DataDirectoryAssumption ==
  /\ LegacyUsers \subseteq Users /\ LegacyUsers # {}
  /\ None \notin Users \cup Pairs \cup {"controller", "migration", "restore"}
  /\ LegacyPair \in Pairs \cup {None}
  /\ MaxChanges \in Nat

VARIABLES
  vol,      \* the data directory
  lock,     \* the holder of the flock on .controller.lock
  ctl,      \* the controller: the request it serves, and the operation in hand
  boot,     \* its recovery, which runs beside the requests
  mig,      \* the migration
  res,      \* the restore: how far its renames are
  bak,      \* the backup: its work directory
  archive,  \* the backup
  target,   \* whether vol is the separate volume that the backup is restored to
  changes,  \* how many changes have been started
  kept      \* history: users whose change was reported after the import was over

vars == <<vol, lock, ctl, boot, mig, res, bak, archive, target, changes, kept>>

\* A credential is absent, the one of the legacy volume, or one set here.
Creds == [Users -> {"absent", "legacy", "new"}]
PairOrNone == Pairs \cup {None}
Revs == [creds : Creds, pair : PairOrNone]
\* None, which stands for what is not there, is not a revision either.
ASSUME NoneAssumption == None \notin Revs
RevOrNone == Revs \cup {None}
NoDb == [is |-> FALSE, host |-> FALSE, creds |-> [u \in Users |-> "absent"],
         active |-> None, pair |-> None]
NoConfig == [cur |-> None, prev |-> None, revs |-> {}]
NoTLS == [cur |-> None, revs |-> {}]

\* scrap stands for what else may lie there (.restore-stage, the manifest of a
\* backup), origin (history) for where the content comes from: regular work,
\* a restore that is not complete, or a backup that a migration overtook.
EmptyVol == [db |-> NoDb, config |-> NoConfig, tls |-> NoTLS, marker |-> FALSE,
             scrap |-> FALSE, origin |-> "whole"]

\* The entries a restore moves, in the order of the directory's listing.
Entries == <<"config", "db", "marker", "tls">>

DbRec == [is : BOOLEAN, host : BOOLEAN, creds : Creds, active : RevOrNone, pair : PairOrNone]
\* tls/previous, which only TLSStore.Rollback reads and nothing here calls, is left out.
TLSRec == [cur : PairOrNone, revs : SUBSET Pairs]
IsVol(v) ==
  /\ DOMAIN v = DOMAIN EmptyVol
  /\ v.db \in DbRec /\ v.tls \in TLSRec
  /\ v.config.cur \in RevOrNone /\ v.config.prev \in RevOrNone /\ v.config.revs \subseteq Revs
  /\ v.marker \in BOOLEAN /\ v.scrap \in BOOLEAN
  /\ v.origin \in {"whole", "torn", "mixed"}

NoJob == [kind |-> "none", user |-> None, before |-> "absent", new |-> None, old |-> None,
          pair |-> None, oldPair |-> None, undo |-> "none"]
JobRec == [kind : {"none", "user", "tls"}, user : Users \cup {None},
           before : {"absent", "legacy", "new"}, new : RevOrNone, old : RevOrNone,
           pair : PairOrNone, oldPair : PairOrNone, undo : {"none", "files", "all"}]
CtlPcs == {"off", "serve", "apply", "setActive", "endpoint", "save", "rollFiles", "rollActive",
           "undoRow", "backConfig", "backPair", "backActive"}
BootPcs == {"off", "snapshot", "apply", "setActive"}
MigPcs == {"off", "host", "users", "import", "metadata", "apply", "setActive", "marker"}
BakPcs == {"off", "configCurrent", "configPrevious", "configRevs", "tlsCurrent", "tlsRevs",
           "marker", "archive"}
CtlOff == [pc |-> "off", job |-> NoJob]
BootOff == [pc |-> "off", new |-> None]
MigOff == [pc |-> "off", todo |-> {}, new |-> None]
ResOff == [pc |-> "off", moved |-> 0]
BakOff == [pc |-> "off", work |-> EmptyVol]
NoArchive == [intact |-> FALSE, content |-> EmptyVol]

\* Every variable holds a value of its kind.
TypeOK ==
  /\ IsVol(vol)
  /\ lock \in {None, "controller", "migration", "restore"}
  /\ ctl.pc \in CtlPcs /\ ctl.job \in JobRec
  /\ boot.pc \in BootPcs /\ boot.new \in RevOrNone
  /\ mig.pc \in MigPcs /\ mig.todo \subseteq Users /\ mig.new \in RevOrNone
  /\ res.pc \in {"off", "stage", "move", "restored"}
  /\ res.moved \in 0..Len(Entries)
  /\ bak.pc \in BakPcs /\ IsVol(bak.work)
  /\ archive.intact \in BOOLEAN /\ IsVol(archive.content)
  /\ target \in BOOLEAN
  /\ changes \in 0..MaxChanges
  /\ kept \subseteq Users

\* A new volume.
Init ==
  /\ vol = EmptyVol
  /\ lock = None
  /\ ctl = CtlOff /\ boot = BootOff /\ mig = MigOff /\ res = ResOff /\ bak = BakOff
  /\ archive = NoArchive /\ target = FALSE
  /\ changes = 0
  /\ kept = {}

-----------------------------------------------------------------------------
(* Helpers                                                                 *)

\* datalock.Acquire does not wait: who does not get the lock gives up, and the
\* lock goes with the process that holds it.
Acquire(p) == lock = None /\ lock' = p
Release(p) == lock = p /\ lock' = None

\* Bound: a volume is worked on until its backup is complete, and the target of
\* the restore once its database is in place.  (In between the volume and the
\* archive do not depend on each other.)
InUse == IF target THEN vol.db.is ELSE archive = NoArchive

Present(d) == {u \in Users : d.creds[u] # "absent"}

\* config.Render and Materializer.Apply, Rollback and restore, by the promise
\* of the store: a whole revision and then the links.
Render(d, pair) == [creds |-> d.creds, pair |-> pair]
Applied(c, r) ==
  [cur |-> r, revs |-> c.revs \cup {r},
   prev |-> IF c.cur \in {r, None} THEN c.prev ELSE c.cur]
RolledBack(c) ==
  IF None \in {c.cur, c.prev} THEN c ELSE [c EXCEPT !.cur = c.prev, !.prev = c.cur]
Restored(c, r) == IF r = None THEN [c EXCEPT !.cur = None, !.prev = None] ELSE [c EXCEPT !.cur = r]
\* TLSStore.Publish.
Published(t, p) == [cur |-> p, revs |-> t.revs \cup {p}]

-----------------------------------------------------------------------------
(* The controller                                                          *)

Controller(pc) == ctl.pc = pc
CtlGoto(pc) == ctl' = [ctl EXCEPT !.pc = pc]
CtlServe == ctl' = [pc |-> "serve", job |-> NoJob]
CtlOnly == UNCHANGED <<lock, boot, mig, res, bak, archive, target, changes, kept>>

\* app.Run: the lock, persistence.Open, which makes an empty database where
\* there is none, and seedTLS, which sets the hostname if the environment names
\* one and the settings have none.  The AdminUI serves before recovery starts.
CtlStart ==
  /\ InUse /\ Controller("off") /\ Acquire("controller")
  /\ \E host \in {vol.db.host, TRUE} : vol' = [vol EXCEPT !.db.is = TRUE, !.db.host = host]
  /\ CtlServe
  /\ boot' = [BootOff EXCEPT !.pc = "snapshot"]
  /\ UNCHANGED <<mig, res, bak, archive, target, changes, kept>>

BootOnly == UNCHANGED <<lock, ctl, mig, res, bak, archive, target, changes, kept>>

\* Recovery: with a hostname and a user the database is rendered and published.
BootSnapshot ==
  /\ boot.pc = "snapshot"
  /\ boot' = IF vol.db.host /\ Present(vol.db) # {}
             THEN [pc |-> "apply", new |-> Render(vol.db, vol.db.pair)] ELSE BootOff
  /\ BootOnly /\ UNCHANGED vol

BootApply ==
  /\ boot.pc = "apply"
  /\ vol' = [vol EXCEPT !.config = Applied(vol.config, boot.new)]
  /\ boot' = [boot EXCEPT !.pc = "setActive"]
  /\ BootOnly

BootSetActive ==
  /\ boot.pc = "setActive"
  /\ vol' = [vol EXCEPT !.db.active = boot.new]
  /\ boot' = BootOff
  /\ BootOnly

\* UserManager: the row first.
UserWrite(u) ==
  /\ InUse /\ Controller("serve") /\ changes < MaxChanges /\ vol.db.creds[u] # "new"
  /\ vol' = [vol EXCEPT !.db.creds[u] = "new"]
  /\ ctl' = [pc |-> "apply", job |-> [NoJob EXCEPT !.kind = "user", !.user = u,
               !.before = vol.db.creds[u], !.old = vol.db.active]]
  /\ changes' = changes + 1
  /\ UNCHANGED <<lock, boot, mig, res, bak, archive, target, kept>>

\* TLSCoordinator.Publish: the pair first.
PublishPair(p) ==
  /\ InUse /\ Controller("serve") /\ changes < MaxChanges /\ vol.db.host
  /\ vol' = [vol EXCEPT !.tls = Published(vol.tls, p)]
  /\ ctl' = [pc |-> "apply", job |-> [NoJob EXCEPT !.kind = "tls", !.pair = p,
               !.old = vol.db.active, !.oldPair = vol.db.pair]]
  /\ changes' = changes + 1
  /\ UNCHANGED <<lock, boot, mig, res, bak, archive, target, kept>>

\* Where an operation goes on after its first failure.
GivesUp(undo) ==
  ctl' = [ctl EXCEPT !.job.undo = undo,
            !.pc = IF ctl.job.kind = "tls" THEN "backConfig"
                   ELSE IF undo = "none" THEN "undoRow" ELSE "rollFiles"]

\* Render, which refuses a snapshot without a hostname, and configs.Apply.
JobApply ==
  /\ Controller("apply")
  /\ LET job == ctl.job
         new == Render(vol.db, IF job.kind = "tls" THEN job.pair ELSE vol.db.pair)
     IN \/ /\ vol.db.host
           /\ vol' = [vol EXCEPT !.config = Applied(vol.config, new)]
           /\ ctl' = [ctl EXCEPT !.pc = "setActive", !.job.new = new]
        \/ UNCHANGED vol /\ GivesUp("none")
  /\ CtlOnly

JobSetActive ==
  /\ Controller("setActive")
  /\ \/ vol' = [vol EXCEPT !.db.active = ctl.job.new] /\ CtlGoto("endpoint")
     \/ UNCHANGED vol /\ GivesUp("files")
  /\ CtlOnly

\* The endpoint takes the revision or not.  With it a user operation is over;
\* the metadata of a certificate is still to be saved.
JobEndpoint ==
  /\ Controller("endpoint")
  /\ \/ /\ IF ctl.job.kind = "tls" THEN CtlGoto("save") ELSE CtlServe
        /\ kept' = IF ctl.job.kind = "user" /\ vol.marker THEN kept \cup {ctl.job.user} ELSE kept
     \/ GivesUp("all") /\ UNCHANGED kept
  /\ UNCHANGED <<vol, lock, boot, mig, res, bak, archive, target, changes>>

SaveMetadata ==
  /\ Controller("save")
  /\ \/ vol' = [vol EXCEPT !.db.pair = ctl.job.pair] /\ CtlServe
     \/ UNCHANGED vol /\ GivesUp("all")
  /\ CtlOnly

\* The rollback of ApplyManager.apply and the undo of the row.
RollFiles ==
  /\ Controller("rollFiles")
  /\ vol' = [vol EXCEPT !.config = RolledBack(vol.config)]
  /\ CtlGoto(IF ctl.job.undo = "files" THEN "undoRow" ELSE "rollActive")
  /\ CtlOnly

RollActive ==
  /\ Controller("rollActive")
  /\ vol' = [vol EXCEPT !.db.active = ctl.job.old]
  /\ CtlGoto("undoRow")
  /\ CtlOnly

UndoRow ==
  /\ Controller("undoRow")
  /\ vol' = [vol EXCEPT !.db.creds[ctl.job.user] = ctl.job.before]
  /\ CtlServe
  /\ CtlOnly

\* The undo of TLSCoordinator: restoreConfig, restoreTLS, SetActiveRevision.
BackConfig ==
  /\ Controller("backConfig")
  /\ vol' = [vol EXCEPT !.config = Restored(vol.config, ctl.job.old)]
  /\ CtlGoto("backPair")
  /\ CtlOnly

BackPair ==
  /\ Controller("backPair")
  /\ vol' = [vol EXCEPT !.tls.cur = ctl.job.oldPair]
  /\ IF ctl.job.undo = "all" THEN CtlGoto("backActive") ELSE CtlServe
  /\ CtlOnly

BackActive ==
  /\ Controller("backActive")
  /\ vol' = [vol EXCEPT !.db.active = ctl.job.old]
  /\ CtlServe
  /\ CtlOnly

\* The controller stops, is killed, or gives up its start on an error.
CtlEnd ==
  /\ ~Controller("off") /\ Release("controller")
  /\ ctl' = CtlOff /\ boot' = BootOff
  /\ UNCHANGED <<vol, mig, res, bak, archive, target, changes, kept>>

CtlStep ==
  \/ CtlStart \/ BootSnapshot \/ BootApply \/ BootSetActive
  \/ \E u \in Users : UserWrite(u)
  \/ \E p \in Pairs : PublishPair(p)
  \/ JobApply \/ JobSetActive \/ JobEndpoint \/ SaveMetadata
  \/ RollFiles \/ RollActive \/ UndoRow \/ BackConfig \/ BackPair \/ BackActive
  \/ CtlEnd

-----------------------------------------------------------------------------
(* Migration of a legacy volume                                            *)

MigGoto(pc) == mig' = [mig EXCEPT !.pc = pc]
MigOnly == UNCHANGED <<lock, ctl, boot, res, bak, archive, target, changes, kept>>

\* The lock, the marker of an import that is complete, and the database.
MigStartUnmarked ==
  /\ InUse /\ mig.pc = "off" /\ Acquire("migration")
  /\ vol' = [vol EXCEPT !.db.is = TRUE]
  /\ MigGoto("host")
  /\ UNCHANGED <<ctl, boot, res, bak, archive, target, changes, kept>>
MigStart ==
  /\ InUse /\ mig.pc = "off" /\ Acquire("migration")
  /\ ~vol.marker
  /\ vol' = [vol EXCEPT !.db.is = TRUE]
  /\ MigGoto("host")
  /\ UNCHANGED <<ctl, boot, res, bak, archive, target, changes, kept>>

MigHost ==
  /\ mig.pc = "host"
  /\ vol' = [vol EXCEPT !.db.host = TRUE]
  /\ mig' = [mig EXCEPT !.pc = "users", !.todo = LegacyUsers]
  /\ MigOnly

\* Users (and rules, which are alike) are upserted one by one.
MigUser(u) ==
  /\ mig.pc = "users" /\ u \in mig.todo
  /\ vol' = [vol EXCEPT !.db.creds[u] = "legacy"]
  /\ mig' = [mig EXCEPT !.todo = @ \ {u},
               !.pc = IF mig.todo # {u} THEN "users"
                      ELSE IF LegacyPair = None THEN "apply" ELSE "import"]
  /\ MigOnly

\* ImportManual with a bare TLSStore: publish, then save.  There is no
\* RevertLast: a pair whose metadata cannot be saved stays published.
MigImportSaved ==
  /\ mig.pc = "import"
  /\ vol' = [vol EXCEPT !.db.pair = LegacyPair]
  /\ MigGoto("metadata")
  /\ MigOnly
MigImport ==
  /\ mig.pc = "import"
  /\ vol' = [vol EXCEPT !.tls = Published(vol.tls, LegacyPair)]
  /\ MigGoto("metadata")
  /\ MigOnly

MigMetadata ==
  /\ mig.pc = "metadata"
  /\ vol' = [vol EXCEPT !.db.pair = LegacyPair]
  /\ MigGoto("apply")
  /\ MigOnly

MigApply ==
  /\ mig.pc = "apply"
  /\ LET new == Render(vol.db, vol.db.pair) IN
       /\ vol' = [vol EXCEPT !.config = Applied(vol.config, new)]
       /\ mig' = [mig EXCEPT !.pc = "setActive", !.new = new]
  /\ MigOnly

MigSetActive ==
  /\ mig.pc = "setActive"
  /\ vol' = [vol EXCEPT !.db.active = mig.new]
  /\ MigGoto("marker")
  /\ MigOnly

\* writeMarker, the last thing done.
MigMarkerEarly ==
  /\ mig.pc \in {"apply", "marker"} /\ Release("migration")
  /\ vol' = [vol EXCEPT !.marker = TRUE]
  /\ mig' = MigOff
  /\ UNCHANGED <<ctl, boot, res, bak, archive, target, changes, kept>>
MigMarker ==
  /\ mig.pc = "marker" /\ Release("migration")
  /\ vol' = [vol EXCEPT !.marker = TRUE]
  /\ mig' = MigOff
  /\ UNCHANGED <<ctl, boot, res, bak, archive, target, changes, kept>>

\* A step fails or the process is killed: what was done stays.
MigEnd ==
  /\ mig.pc # "off" /\ Release("migration")
  /\ mig' = MigOff
  /\ UNCHANGED <<vol, ctl, boot, res, bak, archive, target, changes, kept>>

MigStep ==
  \/ MigStart \/ MigHost \/ (\E u \in Users : MigUser(u)) \/ MigImport \/ MigMetadata
  \/ MigApply \/ MigSetActive \/ MigMarker \/ MigEnd

-----------------------------------------------------------------------------
(* Backup, which takes no lock                                             *)

BakOnly == UNCHANGED <<vol, lock, ctl, boot, mig, res, target, changes, kept>>

\* Where the copy goes on: the stores in the order of included, and in each the
\* links before the revisions, as WalkDir sorts them.
BackupNextTLSFirst ==
  [configCurrent |-> "configPrevious", configPrevious |-> "tlsCurrent", tlsCurrent |-> "tlsRevs",
   tlsRevs |-> "configRevs", configRevs |-> "marker", marker |-> "archive"]
BackupNext ==
  [configCurrent |-> "configPrevious", configPrevious |-> "configRevs", configRevs |-> "tlsCurrent",
   tlsCurrent |-> "tlsRevs", tlsRevs |-> "marker", marker |-> "archive"]

\* What the copy of one part adds to the work directory.  The history notes
\* when the marker of an import appeared after the copy of the database.
Copied(work, pc) ==
  CASE pc = "configCurrent"  -> [work EXCEPT !.config.cur = vol.config.cur]
    [] pc = "configPrevious" -> [work EXCEPT !.config.prev = vol.config.prev]
    [] pc = "configRevs"     -> [work EXCEPT !.config.revs = vol.config.revs]
    [] pc = "tlsCurrent"     -> [work EXCEPT !.tls.cur = vol.tls.cur]
    [] pc = "tlsRevs"        -> [work EXCEPT !.tls.revs = vol.tls.revs]
    [] pc = "marker"         ->
         [work EXCEPT !.marker = vol.marker,
            !.origin = IF vol.marker # work.marker /\ @ = "whole" THEN "mixed" ELSE @]

\* VACUUM INTO, on a volume that has a database.  Bound: one backup.
BackupDatabase ==
  /\ archive = NoArchive /\ bak.pc = "off" /\ vol.db.is
  /\ bak' = [pc |-> "configCurrent",
             work |-> [EmptyVol EXCEPT !.db = vol.db, !.marker = vol.marker, !.origin = vol.origin]]
  /\ BakOnly /\ UNCHANGED archive

BackupCopy ==
  /\ bak.pc \in DOMAIN BackupNext
  /\ bak' = [pc |-> BackupNext[bak.pc], work |-> Copied(bak.work, bak.pc)]
  /\ BakOnly /\ UNCHANGED archive

\* The archive is renamed into place and verified.
BackupArchive ==
  /\ bak.pc = "archive"
  /\ archive' = [intact |-> TRUE, content |-> bak.work]
  /\ bak' = BakOff
  /\ BakOnly

\* The copy fails, for example on a stage directory that vanishes, or is killed.
BackupEnd ==
  /\ bak.pc # "off"
  /\ bak' = BakOff
  /\ BakOnly /\ UNCHANGED archive

\* The archive is damaged where it was kept until its restore.
Damage ==
  /\ archive.intact /\ target /\ vol = EmptyVol
  /\ archive' = [archive EXCEPT !.intact = FALSE]
  /\ BakOnly /\ UNCHANGED bak

BackupStep == BackupDatabase \/ BackupCopy \/ BackupArchive \/ BackupEnd

-----------------------------------------------------------------------------
(* Restore                                                                 *)

ResOnly == UNCHANGED <<ctl, boot, mig, bak, archive, target, changes, kept>>

\* The lock, the check that nothing but the lock file is there, and the stage.
RestoreStart ==
  /\ target /\ res.pc = "off" /\ Acquire("restore")
  /\ vol = EmptyVol
  /\ vol' = [vol EXCEPT !.scrap = TRUE]
  /\ res' = [ResOff EXCEPT !.pc = "stage"]
  /\ ResOnly

\* extract and verifyDir, which a damaged archive does not pass.
RestoreVerifyUnlocked ==
  /\ res.pc = "stage" /\ archive.intact
  /\ res' = [res EXCEPT !.pc = "move"]
  /\ Release("restore")
  /\ ResOnly /\ UNCHANGED vol
RestoreVerify ==
  /\ res.pc = "stage" /\ archive.intact
  /\ res' = [res EXCEPT !.pc = "move"]
  /\ ResOnly /\ UNCHANGED <<vol, lock>>

\* One rename per entry; the manifest of the backup stays.
RestoreMove ==
  /\ res.pc = "move"
  /\ LET e == Entries[res.moved + 1]
         last == res.moved + 1 = Len(Entries)
     IN /\ vol' = [vol EXCEPT ![e] = archive.content[e],
                     !.origin = IF last THEN archive.content.origin ELSE "torn"]
        /\ res' = [res EXCEPT !.moved = @ + 1, !.pc = IF last THEN "restored" ELSE "move"]
  /\ ResOnly /\ UNCHANGED lock

\* Restore returns, with an error if it is not through, or is killed: only an
\* error before the first rename can leave the volume as it was.
RestoreEnd ==
  /\ res.pc # "off" /\ Release("restore")
  /\ \E scrap \in {TRUE, res.moved > 0} : vol' = [vol EXCEPT !.scrap = scrap]
  /\ res' = ResOff
  /\ ResOnly

RestoreStep == RestoreStart \/ RestoreVerify \/ RestoreMove \/ RestoreEnd

-----------------------------------------------------------------------------

\* The operator attaches a separate volume to restore to.
NewVolume ==
  /\ lock = None /\ archive # NoArchive /\ vol # EmptyVol
  /\ vol' = EmptyVol
  /\ target' = TRUE
  /\ kept' = {}
  /\ UNCHANGED <<lock, ctl, boot, mig, res, bak, archive, changes>>

Next == CtlStep \/ MigStep \/ BackupStep \/ Damage \/ RestoreStep \/ NewVolume

Spec == Init /\ [][Next]_vars

-----------------------------------------------------------------------------
(* Properties                                                              *)

\* Everything that is named by the database, a link or a rendered file exists.
Resolves(v) ==
  /\ {v.config.cur, v.config.prev, v.db.active} \subseteq v.config.revs \cup {None}
  /\ {v.tls.cur, v.db.pair} \cup {r.pair : r \in v.config.revs} \subseteq v.tls.revs \cup {None}

\* No order of writes and no kill leaves a volume in which the database, a link
\* or a configuration names a revision or a pair that is not there, unless a
\* restore broke off after its first rename (app.go, legacy.go, backup.go).
VolumeResolves == vol.origin # "torn" => Resolves(vol)

\* A backup taken while the controller or a migration goes on writing is
\* closed all the same: what is named is copied after what names it
\* (backup.go:34, the order database, config, tls and links before revisions).
ArchiveResolves == archive.content.origin # "torn" => Resolves(archive.content)

\* When Restore reports success the volume is the archive, entry by entry, and
\* the archive is one that passed the checksums: no other command got at the
\* volume between the check that it is empty and the last rename
\* (backup.go:112, lock.go:25).
RestoreComplete ==
  res.pc = "restored" =>
    /\ archive.intact
    /\ \A i \in DOMAIN Entries : vol[Entries[i]] = archive.content[Entries[i]]

\* Where the marker of the import is, the import is complete: hostname, users,
\* certificate and an active configuration, also after later failures, kills,
\* backups and restores (legacy.go:199; docs/data-layout.md "only after the
\* database, TLS and rendered configuration are valid").  Left out are a volume
\* that a restore left half-way and the restore of a backup that a migration
\* overtook, which has the marker and a database from before it ("mixed").
MarkerMeansImported ==
  vol.marker /\ vol.origin = "whole" =>
    /\ vol.db.host /\ LegacyUsers \subseteq Present(vol.db)
    /\ LegacyPair # None => vol.db.pair # None
    /\ vol.db.active # None

\* A change an administrator was told is done, after the import was complete,
\* is not undone by running the import again, nor by any other command on that
\* volume (legacy.go:77).
ReportedKept == \A u \in kept : vol.db.creds[u] = "new"
==============================================================================
