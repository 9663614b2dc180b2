------------------------ MODULE DataDirectoryProofs ------------------------
(***************************************************************************)
(* Theorems about DataDirectory: for any users, pairs and number of        *)
(* changes, any number of kills and whatever the four commands interleave. *)
(*                                                                         *)
(* The inductive invariant IInv says of each command what it carries from  *)
(* step to step: an operation of the controller and the migration only     *)
(* revisions and pairs that exist, the backup only names whose targets are *)
(* still to be copied, the restore the entries it has moved.  The lock     *)
(* keeps the others away from these; the backup, which has no lock, relies *)
(* on revisions never being removed (Grows).                               *)
(***************************************************************************)
EXTENDS DataDirectory, TLAPS

ConfigRec == [cur : RevOrNone, prev : RevOrNone, revs : SUBSET Revs]
VolRec == [db : DbRec, config : ConfigRec, tls : TLSRec, marker : BOOLEAN, scrap : BOOLEAN,
           origin : {"whole", "torn", "mixed"}]

TypeInv ==
  /\ vol \in VolRec
  /\ lock \in {None, "controller", "migration", "restore"}
  /\ ctl \in [pc : CtlPcs, job : JobRec]
  /\ boot \in [pc : BootPcs, new : RevOrNone]
  /\ mig \in [pc : MigPcs, todo : SUBSET Users, new : RevOrNone]
  /\ res \in [pc : {"off", "stage", "move", "restored"}, moved : 0..4]
  /\ bak \in [pc : BakPcs, work : VolRec]
  /\ archive \in [intact : BOOLEAN, content : VolRec]
  /\ target \in BOOLEAN
  /\ changes \in 0..MaxChanges
  /\ kept \subseteq Users

\* Who is under way holds the lock.
Locked ==
  /\ ctl.pc # "off" => lock = "controller"
  /\ mig.pc # "off" => lock = "migration"
  /\ res.pc # "off" => lock = "restore"

\* What the controller has in hand exists; at rest it has nothing.
JobHeld ==
  /\ ctl.pc \in {"off", "serve"} => ctl.job = NoJob
  /\ ctl.pc # "off" /\ vol.origin # "torn" =>
       /\ ctl.job.new \in vol.config.revs \cup {None}
       /\ ctl.job.old \in vol.config.revs \cup {None}
       /\ {ctl.job.pair, ctl.job.oldPair} \subseteq vol.tls.revs \cup {None}

\* Recovery is the controller's.  What it has rendered may be out of date by the
\* time it is published, but the pair in it exists, and then the revision does.
BootHeld ==
  /\ boot.pc # "off" => ctl.pc # "off"
  /\ boot.pc \in {"apply", "setActive"} => boot.new \in Revs
  /\ boot.pc = "apply" /\ vol.origin # "torn" => boot.new.pair \in vol.tls.revs \cup {None}
  /\ boot.pc = "setActive" /\ vol.origin # "torn" => boot.new \in vol.config.revs

\* So does what the migration has in hand.
MigHeld ==
  /\ mig.pc = "off" => mig = MigOff
  /\ mig.pc \in {"import", "metadata"} => LegacyPair # None
  /\ mig.pc # "off" /\ vol.origin # "torn" =>
       /\ mig.new \in vol.config.revs \cup {None}
       /\ mig.pc = "metadata" => LegacyPair \in vol.tls.revs

\* A restore has the volume for itself, and what it has moved is in place.
ResHeld ==
  /\ res.pc = "off" => res.moved = 0
  /\ res.pc # "off" => target /\ vol.scrap
  /\ res.pc \in {"move", "restored"} => archive.intact
  /\ res.pc = "stage" => res.moved = 0
  /\ res.pc = "move" => res.moved < 4
  /\ res.pc = "restored" => res.moved = 4
  /\ \A i \in 1..4 : i <= res.moved => vol[Entries[i]] = archive.content[Entries[i]]

\* The revisions a backup has copied, or will copy.
BakConfigs ==
  IF bak.pc \in {"configCurrent", "configPrevious", "configRevs"}
  THEN vol.config.revs ELSE bak.work.config.revs
BakPairs ==
  IF bak.pc \in {"configCurrent", "configPrevious", "configRevs", "tlsCurrent", "tlsRevs"}
  THEN vol.tls.revs ELSE bak.work.tls.revs
BakHeld ==
  bak.pc # "off" =>
    /\ archive = NoArchive /\ ~target /\ bak.work.db.is
    /\ bak.pc \in {"configCurrent", "configPrevious", "configRevs"} => bak.work.config.revs = {}
    /\ bak.work.origin # "torn" =>
         /\ vol.origin # "torn"
         /\ {bak.work.config.cur, bak.work.config.prev, bak.work.db.active}
              \subseteq BakConfigs \cup {None}
         /\ {bak.work.tls.cur, bak.work.db.pair} \cup {r.pair : r \in bak.work.config.revs}
              \subseteq BakPairs \cup {None}

\* The archive is there once, and the other volume only with it.
ArchiveHeld ==
  /\ archive = NoArchive \/ archive.content.db.is
  /\ target => archive.content.db.is
  /\ ArchiveResolves

\* Changes are noted as kept only on a volume with the marker, which no
\* migration is started on; the user of the operation in hand is not among them.
KeptHeld ==
  /\ ReportedKept
  /\ kept # {} => vol.marker
  /\ mig.pc # "off" => ~vol.marker
  /\ res.pc # "off" => kept = {}
  /\ ctl.job.user \notin kept
  /\ ctl.job.kind = "user" /\ ctl.pc \in {"apply", "setActive", "endpoint"}
       => ctl.job.user \in Users /\ vol.db.creds[ctl.job.user] = "new"

IInv ==
  /\ TypeInv /\ Locked /\ VolumeResolves
  /\ JobHeld /\ BootHeld /\ MigHeld /\ ResHeld /\ BakHeld /\ ArchiveHeld /\ KeptHeld

-----------------------------------------------------------------------------
(* The parts of a volume                                                   *)

\* All but one part of the volume w is as in v.
DbOnly(v, w) ==
  /\ w.config = v.config /\ w.tls = v.tls
  /\ w.marker = v.marker /\ w.scrap = v.scrap /\ w.origin = v.origin
ConfigOnly(v, w) ==
  /\ w.db = v.db /\ w.tls = v.tls
  /\ w.marker = v.marker /\ w.scrap = v.scrap /\ w.origin = v.origin
TLSOnly(v, w) ==
  /\ w.db = v.db /\ w.config = v.config
  /\ w.marker = v.marker /\ w.scrap = v.scrap /\ w.origin = v.origin

LEMMA DbSet ==
  ASSUME NEW v \in VolRec, NEW d \in DbRec
  PROVE  LET w == [v EXCEPT !.db = d] IN w \in VolRec /\ w.db = d /\ DbOnly(v, w)
BY DEF VolRec, DbOnly

LEMMA ConfigSet ==
  ASSUME NEW v \in VolRec, NEW c \in ConfigRec
  PROVE  LET w == [v EXCEPT !.config = c] IN w \in VolRec /\ w.config = c /\ ConfigOnly(v, w)
BY DEF VolRec, ConfigOnly

LEMMA TLSSet ==
  ASSUME NEW v \in VolRec, NEW t \in TLSRec
  PROVE  LET w == [v EXCEPT !.tls = t] IN w \in VolRec /\ w.tls = t /\ TLSOnly(v, w)
BY DEF VolRec, TLSOnly

\* What the operations of the stores give is a store with every revision it had.
LEMMA AppliedRec ==
  ASSUME NEW c \in ConfigRec, NEW r \in Revs
  PROVE  LET a == Applied(c, r)
         IN /\ a \in ConfigRec /\ a.cur = r /\ a.revs = c.revs \cup {r}
            /\ a.prev \in {c.cur, c.prev}
BY DEF ConfigRec, Applied, RevOrNone

LEMMA RolledBackRec ==
  ASSUME NEW c \in ConfigRec
  PROVE  LET a == RolledBack(c)
         IN a \in ConfigRec /\ a.revs = c.revs /\ {a.cur, a.prev} \subseteq {c.cur, c.prev}
BY DEF ConfigRec, RolledBack

LEMMA RestoredRec ==
  ASSUME NEW c \in ConfigRec, NEW r \in RevOrNone
  PROVE  LET a == Restored(c, r)
         IN a \in ConfigRec /\ a.revs = c.revs /\ {a.cur, a.prev} \subseteq {None, c.prev, r}
BY DEF ConfigRec, Restored, RevOrNone

LEMMA PublishedRec ==
  ASSUME NEW t \in TLSRec, NEW p \in Pairs
  PROVE  LET a == Published(t, p) IN a \in TLSRec /\ a.cur = p /\ a.revs = t.revs \cup {p}
BY DEF TLSRec, Published, PairOrNone

LEMMA RenderRec ==
  ASSUME NEW d \in DbRec, NEW p \in PairOrNone
  PROVE  Render(d, p) \in Revs /\ Render(d, p).pair = p
BY DEF DbRec, Render, Revs

\* The empty volume is one, and names nothing.
LEMMA EmptyRec ==
  /\ EmptyVol \in VolRec /\ Resolves(EmptyVol)
  /\ ~EmptyVol.db.is /\ ~EmptyVol.marker /\ ~EmptyVol.scrap /\ EmptyVol.origin = "whole"
  /\ EmptyVol.config = NoConfig /\ EmptyVol.tls = NoTLS
BY DEF EmptyVol, VolRec, NoDb, NoConfig, NoTLS, DbRec, ConfigRec, TLSRec, Creds, RevOrNone,
       PairOrNone, Resolves

LEMMA InitIInv == Init => IInv
<1> SUFFICES ASSUME Init PROVE IInv OBVIOUS
<1>1. TypeInv
  <2>1. vol \in VolRec /\ lock = None /\ target \in BOOLEAN /\ kept \subseteq Users
    BY EmptyRec DEF Init
  <2>2. changes \in 0..MaxChanges BY DataDirectoryAssumption DEF Init
  <2>3. ctl \in [pc : CtlPcs, job : JobRec]
    BY DEF Init, CtlOff, CtlPcs, NoJob, JobRec, RevOrNone, PairOrNone
  <2>4. mig \in [pc : MigPcs, todo : SUBSET Users, new : RevOrNone]
    BY DEF Init, MigOff, MigPcs, RevOrNone
  <2>5. res \in [pc : {"off", "stage", "move", "restored"}, moved : 0..4]
    BY DEF Init, ResOff
  <2>6. bak \in [pc : BakPcs, work : VolRec] BY EmptyRec DEF Init, BakOff, BakPcs
  <2>7. archive \in [intact : BOOLEAN, content : VolRec] BY EmptyRec DEF Init, NoArchive
  <2>8. boot \in [pc : BootPcs, new : RevOrNone] BY DEF Init, BootOff, BootPcs, RevOrNone
  <2> QED BY <2>1, <2>2, <2>3, <2>4, <2>5, <2>6, <2>7, <2>8 DEF TypeInv
<1>2. Locked /\ VolumeResolves /\ JobHeld /\ BootHeld /\ MigHeld
  BY EmptyRec
  DEF Init, Locked, VolumeResolves, JobHeld, BootHeld, MigHeld, CtlOff, BootOff, MigOff, ResOff
<1>3. ResHeld /\ BakHeld /\ ArchiveHeld /\ KeptHeld
  BY EmptyRec
  DEF Init, ResHeld, BakHeld, ArchiveHeld, KeptHeld, CtlOff, MigOff, ResOff, BakOff, NoArchive,
      ArchiveResolves, ReportedKept, NoJob
<1> QED BY <1>1, <1>2, <1>3 DEF IInv

-----------------------------------------------------------------------------
(* The controller and the migration                                        *)

\* What they do to the volume: nothing that is there goes away.
Grows ==
  /\ vol' \in VolRec
  /\ vol'.origin = vol.origin /\ vol'.scrap = vol.scrap
  /\ vol.config.revs \subseteq vol'.config.revs /\ vol.tls.revs \subseteq vol'.tls.revs

\* A part of the volume that grows does not disturb the backup under way, and
\* while the lock is not the restore's there is no restore to disturb.
LEMMA Frame ==
  ASSUME IInv, Grows, res.pc = "off", UNCHANGED <<res, bak, archive, target>>
  PROVE  ResHeld' /\ BakHeld' /\ ArchiveHeld'
<1>1. ResHeld'
  <2>1. res'.pc = "off" /\ res'.moved = 0 BY DEF IInv, ResHeld
  <2> QED BY <2>1 DEF ResHeld
<1>2. ArchiveHeld' BY DEF IInv, ArchiveHeld, ArchiveResolves
<1>3. BakHeld'
  <2>1. BakConfigs \subseteq BakConfigs' /\ BakPairs \subseteq BakPairs'
    BY DEF Grows, BakConfigs, BakPairs
  <2> QED BY <2>1 DEF IInv, BakHeld, Grows
<1> QED BY <1>1, <1>2, <1>3

\* The parts of the volume one at a time: what they name has to be there, unless
\* the volume is torn anyway.
LEMMA DbWrite ==
  ASSUME IInv, NEW d \in DbRec, vol' = [vol EXCEPT !.db = d],
         vol.origin # "torn" => /\ d.active \in vol.config.revs \cup {None}
                                /\ d.pair \in vol.tls.revs \cup {None}
  PROVE  Grows /\ VolumeResolves' /\ vol'.db = d /\ DbOnly(vol, vol')
<1>1. vol' \in VolRec /\ vol'.db = d /\ DbOnly(vol, vol') BY DbSet DEF IInv, TypeInv
<1>2. Grows BY <1>1 DEF Grows, DbOnly
<1>3. VolumeResolves' BY <1>1 DEF IInv, VolumeResolves, Resolves, DbOnly
<1> QED BY <1>1, <1>2, <1>3

LEMMA ConfigWrite ==
  ASSUME IInv, NEW c \in ConfigRec, vol' = [vol EXCEPT !.config = c],
         vol.config.revs \subseteq c.revs,
         vol.origin # "torn" =>
           /\ {c.cur, c.prev} \subseteq c.revs \cup {None}
           /\ \A r \in c.revs : r \in vol.config.revs \/ r.pair \in vol.tls.revs \cup {None}
  PROVE  Grows /\ VolumeResolves' /\ vol'.config = c /\ ConfigOnly(vol, vol')
<1>1. vol' \in VolRec /\ vol'.config = c /\ ConfigOnly(vol, vol') BY ConfigSet DEF IInv, TypeInv
<1>2. Grows BY <1>1 DEF Grows, ConfigOnly
<1>3. VolumeResolves' BY <1>1 DEF IInv, VolumeResolves, Resolves, ConfigOnly
<1> QED BY <1>1, <1>2, <1>3

LEMMA TLSWrite ==
  ASSUME IInv, NEW t \in TLSRec, vol' = [vol EXCEPT !.tls = t],
         vol.tls.revs \subseteq t.revs, vol.origin # "torn" => t.cur \in t.revs \cup {None}
  PROVE  Grows /\ VolumeResolves' /\ vol'.tls = t /\ TLSOnly(vol, vol')
<1>1. vol' \in VolRec /\ vol'.tls = t /\ TLSOnly(vol, vol') BY TLSSet DEF IInv, TypeInv
<1>2. Grows BY <1>1 DEF Grows, TLSOnly
<1>3. VolumeResolves' BY <1>1 DEF IInv, VolumeResolves, Resolves, TLSOnly
<1> QED BY <1>1, <1>2, <1>3

LEMMA NoWrite ==
  ASSUME IInv, vol' = vol
  PROVE  Grows /\ VolumeResolves'
BY DEF IInv, TypeInv, Grows, VolumeResolves, Resolves

\* Publishing a rendered revision.
LEMMA ApplyWrite ==
  ASSUME IInv, NEW r \in Revs, vol' = [vol EXCEPT !.config = Applied(vol.config, r)],
         vol.origin # "torn" => r.pair \in vol.tls.revs \cup {None}
  PROVE  /\ Grows /\ VolumeResolves' /\ ConfigOnly(vol, vol')
         /\ vol'.config.cur = r /\ r \in vol'.config.revs
<1> DEFINE c == Applied(vol.config, r)
<1>1. vol.config \in ConfigRec BY DEF IInv, TypeInv, VolRec
<1>2. c \in ConfigRec /\ c.cur = r /\ c.revs = vol.config.revs \cup {r}
      /\ c.prev \in {vol.config.cur, vol.config.prev}
  BY <1>1, AppliedRec
<1>3. vol.origin # "torn" => {c.cur, c.prev} \subseteq c.revs \cup {None}
  BY <1>2 DEF IInv, VolumeResolves, Resolves
<1> HIDE DEF c
<1> QED BY <1>2, <1>3, ConfigWrite DEF c

\* The fields of the variables' records.
LEMMA Fields ==
  ASSUME IInv
  PROVE  /\ vol \in VolRec /\ vol.db \in DbRec /\ vol.config \in ConfigRec /\ vol.tls \in TLSRec
         /\ vol.db.pair \in PairOrNone /\ vol.db.active \in RevOrNone /\ vol.db.creds \in Creds
         /\ ctl.pc \in CtlPcs /\ ctl.job \in JobRec
         /\ ctl.job.new \in RevOrNone /\ ctl.job.old \in RevOrNone
         /\ ctl.job.pair \in PairOrNone /\ ctl.job.oldPair \in PairOrNone
         /\ mig.new \in RevOrNone /\ mig.pc \in MigPcs /\ mig.todo \subseteq Users
<1>1. vol \in VolRec /\ vol.db \in DbRec /\ vol.config \in ConfigRec /\ vol.tls \in TLSRec
  BY DEF IInv, TypeInv, VolRec
<1>2. vol.db.pair \in PairOrNone /\ vol.db.active \in RevOrNone /\ vol.db.creds \in Creds
  BY <1>1 DEF DbRec
<1>3. ctl.pc \in CtlPcs /\ ctl.job \in JobRec BY DEF IInv, TypeInv
<1>4. /\ ctl.job.new \in RevOrNone /\ ctl.job.old \in RevOrNone
      /\ ctl.job.pair \in PairOrNone /\ ctl.job.oldPair \in PairOrNone
  BY <1>3 DEF JobRec
<1>5. mig.new \in RevOrNone /\ mig.pc \in MigPcs /\ mig.todo \subseteq Users BY DEF IInv, TypeInv
<1> QED BY <1>1, <1>2, <1>3, <1>4, <1>5

\* Nobody else runs while the controller does, or when it takes the lock.
LEMMA CtlAlone ==
  ASSUME IInv, ctl.pc # "off" \/ lock = None
  PROVE  mig.pc = "off" /\ res.pc = "off"
BY DataDirectoryAssumption DEF IInv, Locked

\* What is left to show of a step of the controller.
CtlGood ==
  /\ Grows /\ VolumeResolves' /\ JobHeld' /\ KeptHeld'
  /\ ctl' \in [pc : CtlPcs, job : JobRec]
LEMMA CtlDone ==
  ASSUME IInv, CtlGood, ctl.pc # "off" \/ lock = None, ctl'.pc # "off" => lock' = "controller",
         lock' \in {None, "controller"}, changes' \in 0..MaxChanges, kept' \subseteq Users,
         BootHeld', boot' \in [pc : BootPcs, new : RevOrNone],
         UNCHANGED <<mig, res, bak, archive, target>>
  PROVE  IInv'
<1>1. mig'.pc = "off" /\ res'.pc = "off" /\ res.pc = "off" /\ mig = MigOff
  BY CtlAlone DEF IInv, MigHeld
<1>2. TypeInv' BY DEF IInv, TypeInv, CtlGood, Grows
<1>3. Locked' BY <1>1 DEF Locked
<1>4. MigHeld' BY <1>1 DEF MigHeld, MigOff
<1>5. ResHeld' /\ BakHeld' /\ ArchiveHeld' BY <1>1, Frame DEF CtlGood
<1> QED BY <1>2, <1>3, <1>4, <1>5 DEF IInv, CtlGood

\* An operation ends.
LEMMA ToServe ==
  ASSUME IInv, Grows, VolumeResolves', ctl.pc # "off", CtlServe, mig' = mig, res' = res,
         kept' \subseteq Users, ReportedKept', kept' # {} => vol'.marker
  PROVE  CtlGood
<1>1. ctl' = [pc |-> "serve", job |-> NoJob] BY DEF CtlServe
<1>2. ctl' \in [pc : CtlPcs, job : JobRec]
  BY <1>1 DEF CtlPcs, NoJob, JobRec, RevOrNone, PairOrNone
<1>3. JobHeld' BY <1>1 DEF JobHeld, NoJob
<1>4. mig'.pc = "off" /\ res'.pc = "off" BY CtlAlone
<1>5. KeptHeld' BY <1>1, <1>4, DataDirectoryAssumption DEF KeptHeld, NoJob
<1> QED BY <1>2, <1>3, <1>5 DEF CtlGood

\* An operation goes on, with a record whose names exist.
Working == {"apply", "setActive", "endpoint", "save", "rollFiles", "rollActive", "undoRow",
            "backConfig", "backPair", "backActive"}
LEMMA ToJob ==
  ASSUME IInv, Grows, VolumeResolves', ctl.pc # "off", mig' = mig, res' = res, kept' = kept,
         NEW pc \in Working, NEW job \in JobRec, ctl' = [pc |-> pc, job |-> job],
         vol.origin # "torn" =>
           /\ job.new \in vol'.config.revs \cup {None} /\ job.old \in vol'.config.revs \cup {None}
           /\ {job.pair, job.oldPair} \subseteq vol'.tls.revs \cup {None},
         ReportedKept', vol'.marker = vol.marker, job.user \notin kept,
         job.kind = "user" /\ pc \in {"apply", "setActive", "endpoint"}
           => job.user \in Users /\ vol'.db.creds[job.user] = "new"
  PROVE  CtlGood
<1>1. ctl' \in [pc : CtlPcs, job : JobRec] BY DEF CtlPcs, Working
<1>2. ctl'.pc = pc /\ ctl'.job = job OBVIOUS
<1>3. pc \notin {"off", "serve"} BY DEF Working
<1>4. JobHeld' BY <1>2, <1>3 DEF JobHeld, Grows
<1>5. mig'.pc = "off" /\ res'.pc = "off" BY CtlAlone
<1>6. KeptHeld' BY <1>2, <1>5 DEF KeptHeld, IInv
<1> QED BY <1>1, <1>4, <1>6 DEF CtlGood

\* The same, when only the program counter moves.
LEMMA ToNext ==
  ASSUME IInv, Grows, VolumeResolves', ctl.pc \in Working, mig' = mig, res' = res, kept' = kept,
         NEW pc \in Working, CtlGoto(pc), ReportedKept', vol'.marker = vol.marker,
         ctl.job.kind = "user" /\ pc \in {"apply", "setActive", "endpoint"} =>
           ctl.pc \in {"apply", "setActive", "endpoint"} /\ vol'.db.creds = vol.db.creds
  PROVE  CtlGood
<1>1. ctl' = [pc |-> pc, job |-> ctl.job] BY DEF CtlGoto, IInv, TypeInv
<1>2. ctl.pc # "off" /\ ctl.job \in JobRec BY Fields DEF Working
<1>3. vol.origin # "torn" =>
        /\ ctl.job.new \in vol'.config.revs \cup {None} /\ ctl.job.old \in vol'.config.revs \cup {None}
        /\ {ctl.job.pair, ctl.job.oldPair} \subseteq vol'.tls.revs \cup {None}
  BY <1>2 DEF IInv, JobHeld, Grows
<1>4. /\ ctl.job.user \notin kept
      /\ ctl.job.kind = "user" /\ pc \in {"apply", "setActive", "endpoint"}
           => ctl.job.user \in Users /\ vol'.db.creds[ctl.job.user] = "new"
  BY DEF IInv, KeptHeld
<1> QED BY <1>1, <1>2, <1>3, <1>4, ToJob

\* A failed operation goes on with its undo.
LEMMA ToUndo ==
  ASSUME IInv, ctl.pc \in Working, vol' = vol, mig' = mig, res' = res, kept' = kept,
         NEW undo \in {"none", "files", "all"}, GivesUp(undo)
  PROVE  CtlGood
<1> DEFINE pc == IF ctl.job.kind = "tls" THEN "backConfig"
                 ELSE IF undo = "none" THEN "undoRow" ELSE "rollFiles"
           job == [ctl.job EXCEPT !.undo = undo]
<1>1. ctl' = [pc |-> pc, job |-> job] BY DEF GivesUp, IInv, TypeInv
<1>2. ctl.pc # "off" BY DEF Working
<1>3. pc \in Working /\ pc \notin {"apply", "setActive", "endpoint"} BY DEF Working
<1>4. /\ job \in JobRec /\ job.new = ctl.job.new /\ job.old = ctl.job.old /\ job.pair = ctl.job.pair
      /\ job.oldPair = ctl.job.oldPair /\ job.user = ctl.job.user
  BY Fields DEF JobRec
<1>5. vol.origin # "torn" =>
        /\ job.new \in vol'.config.revs \cup {None} /\ job.old \in vol'.config.revs \cup {None}
        /\ {job.pair, job.oldPair} \subseteq vol'.tls.revs \cup {None}
  BY <1>2, <1>4 DEF IInv, JobHeld
<1>6. job.user \notin kept /\ ReportedKept' BY <1>4 DEF IInv, KeptHeld, ReportedKept
<1> HIDE DEF pc, job
<1> QED BY <1>1, <1>2, <1>3, <1>4, <1>5, <1>6, NoWrite, ToJob

LEMMA KeptAsIs ==
  ASSUME IInv, vol'.db.creds = vol.db.creds, vol'.marker = vol.marker, kept' = kept
  PROVE  /\ kept' \subseteq Users /\ ReportedKept'
         /\ kept' # {} => vol'.marker
BY DEF IInv, TypeInv, KeptHeld, ReportedKept

\* The operation in hand stays as it is when recovery makes a step.
LEMMA CtlStays ==
  ASSUME IInv, Grows, VolumeResolves', ctl.pc # "off", ctl' = ctl, mig' = mig, res' = res,
         kept' = kept, vol'.db.creds = vol.db.creds, vol'.marker = vol.marker
  PROVE  CtlGood
<1>1. ctl' \in [pc : CtlPcs, job : JobRec] BY DEF IInv, TypeInv
<1>2. JobHeld' BY DEF IInv, JobHeld, Grows
<1>3. mig'.pc = "off" /\ res'.pc = "off" BY CtlAlone
<1>4. KeptHeld' BY <1>3, KeptAsIs DEF IInv, KeptHeld
<1> QED BY <1>1, <1>2, <1>4 DEF CtlGood

\* What recovery has in hand stays good while the volume grows.
LEMMA BootStays ==
  ASSUME IInv, Grows, boot' = boot, ctl'.pc # "off"
  PROVE  BootHeld' /\ boot' \in [pc : BootPcs, new : RevOrNone]
BY DEF IInv, TypeInv, BootHeld, Grows

\* The start of the controller.
LEMMA CtlStartGood ==
  ASSUME IInv, CtlStart
  PROVE  CtlGood
<1>1. PICK host \in {vol.db.host, TRUE} : vol' = [vol EXCEPT !.db.is = TRUE, !.db.host = host]
  BY DEF CtlStart
<1> DEFINE d == [vol.db EXCEPT !.is = TRUE, !.host = host]
<1>2. vol' = [vol EXCEPT !.db = d] BY <1>1, Fields DEF VolRec, DbRec
<1>3. d \in DbRec /\ d.active = vol.db.active /\ d.pair = vol.db.pair /\ d.creds = vol.db.creds
  BY Fields DEF DbRec
<1>4. Grows /\ VolumeResolves' /\ vol'.db = d /\ DbOnly(vol, vol')
  <2> HIDE DEF d
  <2> QED BY <1>2, <1>3, DbWrite DEF IInv, VolumeResolves, Resolves
<1>5. ctl' = [pc |-> "serve", job |-> NoJob]
  BY DEF CtlStart, CtlServe
<1>6. mig' = mig /\ res' = res /\ kept' = kept /\ mig.pc = "off" /\ res.pc = "off"
  BY CtlAlone DEF CtlStart, Acquire
<1>7. JobHeld' BY <1>5 DEF JobHeld, NoJob
<1>8. ctl' \in [pc : CtlPcs, job : JobRec]
  BY <1>5 DEF CtlPcs, NoJob, JobRec, RevOrNone, PairOrNone
<1>9. KeptHeld'
  BY <1>3, <1>4, <1>5, <1>6, KeptAsIs, DataDirectoryAssumption DEF KeptHeld, NoJob, DbOnly
<1> QED BY <1>4, <1>7, <1>8, <1>9 DEF CtlGood

\* Recovery.
LEMMA BootSnapshotGood ==
  ASSUME IInv, BootSnapshot
  PROVE  CtlGood /\ BootHeld' /\ boot' \in [pc : BootPcs, new : RevOrNone]
<1> DEFINE r == Render(vol.db, vol.db.pair)
<1>1. vol' = vol /\ ctl' = ctl /\ kept' = kept /\ mig' = mig /\ res' = res /\ boot.pc = "snapshot"
  BY DEF BootSnapshot, BootOnly
<1>2. ctl.pc # "off" BY <1>1 DEF IInv, BootHeld
<1>3. CtlGood BY <1>1, <1>2, NoWrite, CtlStays
<1>4. r \in Revs /\ r.pair = vol.db.pair BY Fields, RenderRec
<1>5. vol.origin # "torn" => r.pair \in vol.tls.revs \cup {None}
  BY <1>4 DEF IInv, VolumeResolves, Resolves
<1>6. boot' \in {[pc |-> "apply", new |-> r], BootOff} BY DEF BootSnapshot
<1> HIDE DEF r
<1>7. CASE boot' = BootOff BY <1>3, <1>7 DEF BootOff, BootHeld, BootPcs, RevOrNone
<1>8. CASE boot' = [pc |-> "apply", new |-> r]
  <2>1. boot'.pc = "apply" /\ boot'.new = r /\ boot' \in [pc : BootPcs, new : RevOrNone]
    BY <1>4, <1>8 DEF BootPcs, RevOrNone
  <2> QED BY <1>1, <1>2, <1>3, <1>4, <1>5, <2>1 DEF BootHeld
<1> QED BY <1>6, <1>7, <1>8

LEMMA BootApplyGood ==
  ASSUME IInv, BootApply
  PROVE  CtlGood /\ BootHeld' /\ boot' \in [pc : BootPcs, new : RevOrNone]
<1>1. ctl' = ctl /\ kept' = kept /\ mig' = mig /\ res' = res /\ boot.pc = "apply"
      /\ vol' = [vol EXCEPT !.config = Applied(vol.config, boot.new)]
      /\ boot' = [boot EXCEPT !.pc = "setActive"]
  BY DEF BootApply, BootOnly
<1>2. ctl.pc # "off" /\ boot.new \in Revs
      /\ (vol.origin # "torn" => boot.new.pair \in vol.tls.revs \cup {None})
  BY <1>1 DEF IInv, BootHeld
<1>3. Grows /\ VolumeResolves' /\ ConfigOnly(vol, vol') /\ boot.new \in vol'.config.revs
  BY <1>1, <1>2, ApplyWrite
<1>4. CtlGood BY <1>1, <1>2, <1>3, CtlStays DEF ConfigOnly
<1>5. boot'.pc = "setActive" /\ boot'.new = boot.new /\ boot' \in [pc : BootPcs, new : RevOrNone]
  BY <1>1 DEF IInv, TypeInv, BootPcs
<1>6. BootHeld' BY <1>1, <1>2, <1>3, <1>5 DEF BootHeld
<1> QED BY <1>4, <1>5, <1>6

LEMMA BootSetActiveGood ==
  ASSUME IInv, BootSetActive
  PROVE  CtlGood /\ BootHeld' /\ boot' \in [pc : BootPcs, new : RevOrNone]
<1> DEFINE d == [vol.db EXCEPT !.active = boot.new]
<1>1. ctl' = ctl /\ kept' = kept /\ mig' = mig /\ res' = res /\ boot.pc = "setActive"
      /\ vol' = [vol EXCEPT !.db = d] /\ boot' = BootOff
  BY DEF BootSetActive, BootOnly
<1>2. ctl.pc # "off" /\ boot.new \in Revs /\ (vol.origin # "torn" => boot.new \in vol.config.revs)
  BY <1>1 DEF IInv, BootHeld
<1>3. d \in DbRec /\ d.active = boot.new /\ d.pair = vol.db.pair /\ d.creds = vol.db.creds
  BY <1>2, Fields DEF DbRec, RevOrNone
<1>4. Grows /\ VolumeResolves' /\ vol'.db = d /\ DbOnly(vol, vol')
  <2> HIDE DEF d
  <2> QED BY <1>1, <1>2, <1>3, DbWrite DEF IInv, VolumeResolves, Resolves
<1> HIDE DEF d
<1>5. CtlGood BY <1>1, <1>2, <1>3, <1>4, CtlStays DEF DbOnly
<1>6. BootHeld' /\ boot' \in [pc : BootPcs, new : RevOrNone]
  BY <1>1 DEF BootOff, BootHeld, BootPcs, RevOrNone
<1> QED BY <1>5, <1>6

\* The first write of an operation.
LEMMA UserWriteGood ==
  ASSUME IInv, NEW u \in Users, UserWrite(u)
  PROVE  CtlGood
<1> DEFINE d == [vol.db EXCEPT !.creds[u] = "new"]
           job == [NoJob EXCEPT !.kind = "user", !.user = u, !.before = vol.db.creds[u],
                                !.old = vol.db.active]
<1>1. kept' = kept /\ mig' = mig /\ res' = res /\ ctl.pc = "serve" /\ vol.db.creds[u] # "new"
      /\ ctl' = [pc |-> "apply", job |-> job] /\ vol' = [vol EXCEPT !.db = d]
  BY DEF UserWrite, Controller
<1>2. d \in DbRec /\ d.active = vol.db.active /\ d.pair = vol.db.pair
      /\ d.creds = [vol.db.creds EXCEPT ![u] = "new"]
  BY Fields DEF DbRec, Creds
<1>3. Grows /\ VolumeResolves' /\ vol'.db = d /\ DbOnly(vol, vol')
  <2> HIDE DEF d
  <2> QED BY <1>1, <1>2, DbWrite DEF IInv, VolumeResolves, Resolves
<1>4. job \in JobRec /\ job.new = None /\ job.old = vol.db.active /\ job.pair = None
      /\ job.oldPair = None /\ job.user = u /\ job.kind = "user"
  BY Fields DEF NoJob, JobRec, Creds, RevOrNone, PairOrNone
<1>5. vol'.db.creds[u] = "new" /\ ReportedKept' /\ u \notin kept
  <2>1. vol'.db.creds = [vol.db.creds EXCEPT ![u] = "new"] /\ u \in DOMAIN vol.db.creds
    BY <1>2, <1>3, Fields DEF Creds
  <2>2. \A v \in kept : v \in DOMAIN vol.db.creds /\ vol.db.creds[v] = "new"
    BY Fields DEF IInv, TypeInv, KeptHeld, ReportedKept, Creds
  <2>3. \A v \in kept : vol'.db.creds[v] = "new" BY <2>1, <2>2
  <2> QED BY <1>1, <2>1, <2>2, <2>3 DEF ReportedKept
<1>6. vol.origin # "torn" => vol.db.active \in vol'.config.revs \cup {None}
  BY <1>3 DEF IInv, VolumeResolves, Resolves, DbOnly
<1>7. vol'.marker = vol.marker /\ "apply" \in Working BY <1>3 DEF DbOnly, Working
<1> HIDE DEF job, d
<1> QED BY <1>1, <1>3, <1>4, <1>5, <1>6, <1>7, ToJob

LEMMA PublishPairGood ==
  ASSUME IInv, NEW p \in Pairs, PublishPair(p)
  PROVE  CtlGood
<1> DEFINE t == Published(vol.tls, p)
           job == [NoJob EXCEPT !.kind = "tls", !.pair = p, !.old = vol.db.active,
                                !.oldPair = vol.db.pair]
<1>1. kept' = kept /\ mig' = mig /\ res' = res /\ ctl.pc = "serve"
      /\ ctl' = [pc |-> "apply", job |-> job] /\ vol' = [vol EXCEPT !.tls = t]
  BY DEF PublishPair, Controller
<1>2. t \in TLSRec /\ t.cur = p /\ t.revs = vol.tls.revs \cup {p} BY Fields, PublishedRec
<1>3. Grows /\ VolumeResolves' /\ vol'.tls = t /\ TLSOnly(vol, vol')
  <2> HIDE DEF t
  <2> QED BY <1>1, <1>2, TLSWrite
<1>4. job \in JobRec /\ job.new = None /\ job.old = vol.db.active /\ job.pair = p
      /\ job.oldPair = vol.db.pair /\ job.user = None /\ job.kind = "tls"
  BY Fields DEF NoJob, JobRec, RevOrNone, PairOrNone
<1>5. ReportedKept' /\ None \notin kept /\ vol'.marker = vol.marker /\ "apply" \in Working
  BY <1>1, <1>3, KeptAsIs, DataDirectoryAssumption DEF TLSOnly, Working
<1>6. vol.origin # "torn" =>
        /\ vol.db.active \in vol'.config.revs \cup {None}
        /\ {p, vol.db.pair} \subseteq vol'.tls.revs \cup {None}
  BY <1>2, <1>3 DEF IInv, VolumeResolves, Resolves, TLSOnly
<1> HIDE DEF job, t
<1> QED BY <1>1, <1>3, <1>4, <1>5, <1>6, ToJob

\* Its further steps.
LEMMA JobApplyGood ==
  ASSUME IInv, JobApply
  PROVE  CtlGood
<1> DEFINE p == IF ctl.job.kind = "tls" THEN ctl.job.pair ELSE vol.db.pair
           r == Render(vol.db, p)
           job == [ctl.job EXCEPT !.new = r]
<1>1. kept' = kept /\ mig' = mig /\ res' = res /\ ctl.pc = "apply"
  BY DEF JobApply, CtlOnly, Controller
<1>2. ctl.pc \in Working /\ "setActive" \in Working BY <1>1 DEF Working
<1>3. CASE UNCHANGED vol /\ GivesUp("none") BY <1>1, <1>2, <1>3, ToUndo
<1>4. CASE /\ vol' = [vol EXCEPT !.config = Applied(vol.config, r)]
           /\ ctl' = [ctl EXCEPT !.pc = "setActive", !.job.new = r]
  <2>1. ctl' = [pc |-> "setActive", job |-> job] BY <1>4 DEF IInv, TypeInv
  <2>2. r \in Revs /\ r.pair = p BY Fields, RenderRec
  <2>3. vol.origin # "torn" => p \in vol.tls.revs \cup {None}
    BY <1>1 DEF IInv, JobHeld, VolumeResolves, Resolves
  <2>4. /\ Grows /\ VolumeResolves' /\ ConfigOnly(vol, vol') /\ r \in vol'.config.revs
    <3> HIDE DEF r
    <3> QED BY <1>4, <2>2, <2>3, ApplyWrite
  <2>5. job \in JobRec /\ job.new = r /\ job.old = ctl.job.old /\ job.pair = ctl.job.pair
        /\ job.oldPair = ctl.job.oldPair /\ job.user = ctl.job.user /\ job.kind = ctl.job.kind
    <3> HIDE DEF r
    <3> QED BY <2>2, Fields DEF JobRec, RevOrNone
  <2>6. vol.origin # "torn" =>
          /\ job.old \in vol'.config.revs \cup {None}
          /\ {job.pair, job.oldPair} \subseteq vol'.tls.revs \cup {None}
    BY <1>1, <2>4, <2>5 DEF IInv, JobHeld, Grows
  <2>7. ReportedKept' /\ vol'.marker = vol.marker /\ job.user \notin kept
    BY <1>1, <2>4, <2>5, KeptAsIs DEF ConfigOnly, IInv, KeptHeld
  <2>8. job.kind = "user" => job.user \in Users /\ vol'.db.creds[job.user] = "new"
    BY <1>1, <2>4, <2>5 DEF ConfigOnly, IInv, KeptHeld
  <2> HIDE DEF job, r
  <2> QED BY <1>1, <1>2, <2>1, <2>4, <2>5, <2>6, <2>7, <2>8, ToJob
<1> QED BY <1>3, <1>4 DEF JobApply

LEMMA JobSetActiveGood ==
  ASSUME IInv, JobSetActive
  PROVE  CtlGood
<1> DEFINE d == [vol.db EXCEPT !.active = ctl.job.new]
<1>1. kept' = kept /\ mig' = mig /\ res' = res /\ ctl.pc = "setActive"
  BY DEF JobSetActive, CtlOnly, Controller
<1>2. ctl.pc \in Working /\ "endpoint" \in Working BY <1>1 DEF Working
<1>3. CASE UNCHANGED vol /\ GivesUp("files") BY <1>1, <1>2, <1>3, ToUndo
<1>4. CASE vol' = [vol EXCEPT !.db = d] /\ CtlGoto("endpoint")
  <2>1. d \in DbRec /\ d.active = ctl.job.new /\ d.pair = vol.db.pair /\ d.creds = vol.db.creds
    BY Fields DEF DbRec
  <2>2. Grows /\ VolumeResolves' /\ vol'.db = d /\ DbOnly(vol, vol')
    <3> HIDE DEF d
    <3> QED BY <1>1, <1>4, <2>1, DbWrite DEF IInv, VolumeResolves, Resolves, JobHeld
  <2>3. vol'.db.creds = vol.db.creds /\ vol'.marker = vol.marker BY <2>1, <2>2 DEF DbOnly
  <2> QED BY <1>1, <1>2, <1>4, <2>2, <2>3, KeptAsIs, ToNext
<1> QED BY <1>3, <1>4 DEF JobSetActive

LEMMA JobEndpointGood ==
  ASSUME IInv, JobEndpoint
  PROVE  CtlGood
<1>1. vol' = vol /\ mig' = mig /\ res' = res /\ ctl.pc = "endpoint"
  BY DEF JobEndpoint, Controller
<1>2. ctl.pc \in Working /\ "save" \in Working BY <1>1 DEF Working
<1>3. CASE GivesUp("all") /\ UNCHANGED kept BY <1>1, <1>2, <1>3, ToUndo
<1>4. CASE ctl.job.kind = "tls" /\ CtlGoto("save") /\ kept' = kept
  BY <1>1, <1>2, <1>4, NoWrite, KeptAsIs, ToNext
<1>5. CASE /\ CtlServe
           /\ kept' = IF ctl.job.kind = "user" /\ vol.marker THEN kept \cup {ctl.job.user} ELSE kept
  <2>1. kept' \subseteq Users BY <1>1, <1>5 DEF IInv, TypeInv, KeptHeld
  <2>2. ReportedKept' BY <1>1, <1>5 DEF IInv, KeptHeld, ReportedKept
  <2>3. kept' # {} => vol'.marker BY <1>1, <1>5 DEF IInv, KeptHeld
  <2>4. ctl.pc # "off" BY <1>1
  <2> QED BY <1>1, <1>5, <2>1, <2>2, <2>3, <2>4, NoWrite, ToServe
<1> QED BY <1>3, <1>4, <1>5 DEF JobEndpoint

LEMMA SaveMetadataGood ==
  ASSUME IInv, SaveMetadata
  PROVE  CtlGood
<1> DEFINE d == [vol.db EXCEPT !.pair = ctl.job.pair]
<1>1. kept' = kept /\ mig' = mig /\ res' = res /\ ctl.pc = "save"
  BY DEF SaveMetadata, CtlOnly, Controller
<1>2. ctl.pc \in Working /\ ctl.pc # "off" BY <1>1 DEF Working
<1>3. CASE UNCHANGED vol /\ GivesUp("all") BY <1>1, <1>2, <1>3, ToUndo
<1>4. CASE vol' = [vol EXCEPT !.db = d] /\ CtlServe
  <2>1. d \in DbRec /\ d.active = vol.db.active /\ d.pair = ctl.job.pair /\ d.creds = vol.db.creds
    BY Fields DEF DbRec
  <2>2. Grows /\ VolumeResolves' /\ vol'.db = d /\ DbOnly(vol, vol')
    <3> HIDE DEF d
    <3> QED BY <1>1, <1>4, <2>1, DbWrite DEF IInv, VolumeResolves, Resolves, JobHeld
  <2> QED BY <1>1, <1>2, <1>4, <2>1, <2>2, KeptAsIs, ToServe DEF DbOnly
<1> QED BY <1>3, <1>4 DEF SaveMetadata

\* The undo of an operation.
LEMMA RollFilesGood ==
  ASSUME IInv, RollFiles
  PROVE  CtlGood
<1> DEFINE c == RolledBack(vol.config)
           pc == IF ctl.job.undo = "files" THEN "undoRow" ELSE "rollActive"
<1>1. kept' = kept /\ mig' = mig /\ res' = res /\ ctl.pc = "rollFiles"
      /\ vol' = [vol EXCEPT !.config = c] /\ CtlGoto(pc)
  BY DEF RollFiles, CtlOnly, Controller
<1>2. ctl.pc \in Working /\ pc \in Working \ {"apply", "setActive", "endpoint"}
  BY <1>1 DEF Working
<1>3. c \in ConfigRec /\ c.revs = vol.config.revs
      /\ {c.cur, c.prev} \subseteq {vol.config.cur, vol.config.prev}
  BY Fields, RolledBackRec
<1>4. Grows /\ VolumeResolves' /\ ConfigOnly(vol, vol')
  <2> HIDE DEF c
  <2> QED BY <1>1, <1>3, ConfigWrite DEF IInv, VolumeResolves, Resolves
<1> HIDE DEF pc, c
<1> QED BY <1>1, <1>2, <1>4, KeptAsIs, ToNext DEF ConfigOnly

LEMMA ActiveBack ==
  ASSUME IInv, ctl.pc \in Working, vol' = [vol EXCEPT !.db.active = ctl.job.old]
  PROVE  /\ Grows /\ VolumeResolves'
         /\ vol'.db.creds = vol.db.creds /\ vol'.marker = vol.marker
<1> DEFINE d == [vol.db EXCEPT !.active = ctl.job.old]
<1>1. d \in DbRec /\ d.active = ctl.job.old /\ d.pair = vol.db.pair /\ d.creds = vol.db.creds
  BY Fields DEF DbRec
<1>2. vol' = [vol EXCEPT !.db = d] /\ ctl.pc # "off" BY DEF Working
<1>3. Grows /\ VolumeResolves' /\ vol'.db = d /\ DbOnly(vol, vol')
  <2> HIDE DEF d
  <2> QED BY <1>1, <1>2, DbWrite DEF IInv, VolumeResolves, Resolves, JobHeld
<1> QED BY <1>1, <1>3 DEF DbOnly

LEMMA RollActiveGood ==
  ASSUME IInv, RollActive
  PROVE  CtlGood
<1>1. kept' = kept /\ mig' = mig /\ res' = res /\ ctl.pc = "rollActive" /\ CtlGoto("undoRow")
  BY DEF RollActive, CtlOnly, Controller
<1>2. ctl.pc \in Working /\ "undoRow" \in Working BY <1>1 DEF Working
<1> QED BY <1>1, <1>2, ActiveBack, KeptAsIs, ToNext DEF RollActive

LEMMA BackActiveGood ==
  ASSUME IInv, BackActive
  PROVE  CtlGood
<1>1. kept' = kept /\ mig' = mig /\ res' = res /\ ctl.pc = "backActive" /\ CtlServe
  BY DEF BackActive, CtlOnly, Controller
<1>2. ctl.pc \in Working /\ ctl.pc # "off" BY <1>1 DEF Working
<1> QED BY <1>1, <1>2, ActiveBack, KeptAsIs, ToServe DEF BackActive

LEMMA UndoRowGood ==
  ASSUME IInv, UndoRow
  PROVE  CtlGood
<1> DEFINE d == [vol.db EXCEPT !.creds[ctl.job.user] = ctl.job.before]
<1>1. kept' = kept /\ mig' = mig /\ res' = res /\ ctl.pc = "undoRow" /\ CtlServe
      /\ vol' = [vol EXCEPT !.db = d]
  BY DEF UndoRow, CtlOnly, Controller
<1>2. d \in DbRec /\ d.active = vol.db.active /\ d.pair = vol.db.pair
      /\ d.creds = [vol.db.creds EXCEPT ![ctl.job.user] = ctl.job.before]
  BY Fields DEF DbRec, Creds, JobRec
<1>3. Grows /\ VolumeResolves' /\ vol'.db = d /\ DbOnly(vol, vol')
  <2> HIDE DEF d
  <2> QED BY <1>1, <1>2, DbWrite DEF IInv, VolumeResolves, Resolves
<1>4. \A v \in kept : v \in DOMAIN vol.db.creds /\ vol.db.creds[v] = "new" /\ v # ctl.job.user
  BY Fields DEF IInv, TypeInv, KeptHeld, ReportedKept, Creds
<1>5. ReportedKept' /\ vol'.marker = vol.marker
  <2>1. vol'.db.creds = [vol.db.creds EXCEPT ![ctl.job.user] = ctl.job.before] BY <1>2, <1>3
  <2>2. \A v \in kept : vol'.db.creds[v] = "new" BY <2>1, <1>4
  <2> QED BY <1>1, <1>3, <2>2 DEF ReportedKept, DbOnly
<1>6. kept' \subseteq Users /\ (kept' # {} => vol'.marker)
  BY <1>1, <1>5 DEF IInv, TypeInv, KeptHeld
<1>7. ctl.pc # "off" BY <1>1
<1> QED BY <1>1, <1>3, <1>5, <1>6, <1>7, ToServe

LEMMA BackConfigGood ==
  ASSUME IInv, BackConfig
  PROVE  CtlGood
<1> DEFINE c == Restored(vol.config, ctl.job.old)
<1>1. kept' = kept /\ mig' = mig /\ res' = res /\ ctl.pc = "backConfig"
      /\ vol' = [vol EXCEPT !.config = c] /\ CtlGoto("backPair")
  BY DEF BackConfig, CtlOnly, Controller
<1>2. ctl.pc \in Working /\ "backPair" \in Working BY <1>1 DEF Working
<1>3. c \in ConfigRec /\ c.revs = vol.config.revs
      /\ {c.cur, c.prev} \subseteq {None, vol.config.prev, ctl.job.old}
  BY Fields, RestoredRec
<1>4. Grows /\ VolumeResolves' /\ ConfigOnly(vol, vol')
  <2> HIDE DEF c
  <2> QED BY <1>1, <1>3, ConfigWrite DEF IInv, VolumeResolves, Resolves, JobHeld
<1> HIDE DEF c
<1> QED BY <1>1, <1>2, <1>4, KeptAsIs, ToNext DEF ConfigOnly

LEMMA BackPairGood ==
  ASSUME IInv, BackPair
  PROVE  CtlGood
<1> DEFINE t == [vol.tls EXCEPT !.cur = ctl.job.oldPair]
<1>1. kept' = kept /\ mig' = mig /\ res' = res /\ ctl.pc = "backPair"
      /\ vol' = [vol EXCEPT !.tls = t]
  BY DEF BackPair, CtlOnly, Controller
<1>2. ctl.pc \in Working /\ "backActive" \in Working /\ ctl.pc # "off" BY <1>1 DEF Working
<1>3. t \in TLSRec /\ t.cur = ctl.job.oldPair /\ t.revs = vol.tls.revs BY Fields DEF TLSRec
<1>4. Grows /\ VolumeResolves' /\ TLSOnly(vol, vol')
  <2> HIDE DEF t
  <2> QED BY <1>1, <1>3, TLSWrite DEF IInv, JobHeld
<1>5. CASE CtlGoto("backActive")
  BY <1>1, <1>2, <1>4, <1>5, KeptAsIs, ToNext DEF TLSOnly
<1>6. CASE CtlServe
  BY <1>1, <1>2, <1>4, <1>6, KeptAsIs, ToServe DEF TLSOnly
<1> QED BY <1>5, <1>6 DEF BackPair

LEMMA CtlEndGood ==
  ASSUME IInv, CtlEnd
  PROVE  CtlGood
<1>1. vol' = vol /\ kept' = kept /\ mig' = mig /\ res' = res /\ ctl.pc # "off"
      /\ ctl' = [pc |-> "off", job |-> NoJob]
  BY DEF CtlEnd, Controller, CtlOff
<1>2. ctl' \in [pc : CtlPcs, job : JobRec]
  BY <1>1 DEF CtlPcs, NoJob, JobRec, RevOrNone, PairOrNone
<1>3. JobHeld' BY <1>1 DEF JobHeld
<1>4. mig'.pc = "off" /\ res'.pc = "off" BY <1>1, CtlAlone
<1>5. KeptHeld' BY <1>1, <1>4, KeptAsIs, DataDirectoryAssumption DEF KeptHeld, NoJob
<1> QED BY <1>1, <1>2, <1>3, <1>5, NoWrite DEF CtlGood

\* Together.
LEMMA CtlIInv ==
  ASSUME IInv, CtlStep
  PROVE  IInv'
<1>1. CtlGood
  BY CtlStartGood, BootSnapshotGood, BootApplyGood, BootSetActiveGood, UserWriteGood,
     PublishPairGood, JobApplyGood, JobSetActiveGood, JobEndpointGood, SaveMetadataGood,
     RollFilesGood, RollActiveGood, UndoRowGood, BackConfigGood, BackPairGood, BackActiveGood,
     CtlEndGood
  DEF CtlStep
<1>2. /\ UNCHANGED <<mig, res, bak, archive, target>>
      /\ ctl.pc # "off" \/ lock = None
  BY DEF CtlStep, CtlOnly, BootOnly, Controller, Acquire, Release, CtlStart, BootSnapshot, BootApply,
         BootSetActive, UserWrite, PublishPair, JobApply, JobSetActive, JobEndpoint, SaveMetadata,
         RollFiles, RollActive, UndoRow, BackConfig, BackPair, BackActive, CtlEnd, IInv, BootHeld
<1>3. lock' \in {None, "controller"} /\ (ctl'.pc # "off" => lock' = "controller")
  <2>1. CASE CtlStart BY <2>1 DEF CtlStart, Acquire
  <2>2. CASE CtlEnd BY <2>2 DEF CtlEnd, Release, CtlOff
  <2>3. CASE ctl.pc # "off" /\ lock' = lock
    BY <2>3 DEF IInv, Locked
  <2>4. CtlStart \/ CtlEnd \/ (ctl.pc # "off" /\ lock' = lock)
    BY DEF CtlStep, CtlOnly, BootOnly, IInv, BootHeld, Controller, BootSnapshot, BootApply, BootSetActive, UserWrite,
           PublishPair, JobApply, JobSetActive, JobEndpoint, SaveMetadata, RollFiles, RollActive,
           UndoRow, BackConfig, BackPair, BackActive
  <2> QED BY <2>1, <2>2, <2>3, <2>4
<1>4. changes' \in 0..MaxChanges
  <2>1. changes' = changes \/ (changes < MaxChanges /\ changes' = changes + 1)
    BY DEF CtlStep, CtlOnly, BootOnly, CtlStart, BootSnapshot, BootApply, BootSetActive, UserWrite,
           PublishPair, JobApply, JobSetActive, JobEndpoint, SaveMetadata, RollFiles, RollActive,
           UndoRow, BackConfig, BackPair, BackActive, CtlEnd
  <2> QED BY <2>1, DataDirectoryAssumption DEF IInv, TypeInv
<1>5. kept' \subseteq Users
  <2>1. kept' = kept \/ JobEndpoint
    BY DEF CtlStep, CtlOnly, BootOnly, CtlStart, BootSnapshot, BootApply, BootSetActive, UserWrite,
           PublishPair, JobApply, JobSetActive, SaveMetadata, RollFiles, RollActive, UndoRow,
           BackConfig, BackPair, BackActive, CtlEnd
  <2>2. JobEndpoint => kept' \subseteq Users
    BY DEF JobEndpoint, Controller, IInv, TypeInv, KeptHeld
  <2> QED BY <2>1, <2>2 DEF IInv, TypeInv
<1>6. BootHeld' /\ boot' \in [pc : BootPcs, new : RevOrNone]
  <2>1. CASE CtlStart
    BY <2>1 DEF CtlStart, CtlServe, BootOff, BootHeld, BootPcs, RevOrNone
  <2>2. CASE BootSnapshot \/ BootApply \/ BootSetActive
    BY <2>2, BootSnapshotGood, BootApplyGood, BootSetActiveGood
  <2>3. CASE CtlEnd BY <2>3 DEF CtlEnd, BootOff, BootHeld, BootPcs, RevOrNone
  <2>4. ASSUME ~CtlStart, ~BootSnapshot, ~BootApply, ~BootSetActive, ~CtlEnd
        PROVE  boot' = boot /\ ctl'.pc # "off"
    <3>1. boot' = boot
      BY <2>4
      DEF CtlStep, CtlOnly, UserWrite, PublishPair, JobApply, JobSetActive, JobEndpoint,
          SaveMetadata, RollFiles, RollActive, UndoRow, BackConfig, BackPair, BackActive
    <3>2. CtlServe => ctl'.pc # "off" BY DEF CtlServe
    <3>3. ASSUME NEW pc \in Working, CtlGoto(pc) PROVE ctl'.pc # "off"
      BY <3>3 DEF CtlGoto, Working, IInv, TypeInv
    <3>4. ASSUME NEW undo, GivesUp(undo) PROVE ctl'.pc # "off"
      <4> DEFINE pc == IF ctl.job.kind = "tls" THEN "backConfig"
                       ELSE IF undo = "none" THEN "undoRow" ELSE "rollFiles"
      <4>1. ctl' = [pc |-> pc, job |-> [ctl.job EXCEPT !.undo = undo]]
        BY <3>4 DEF GivesUp, IInv, TypeInv
      <4> QED BY <4>1
    <3>5. ((\E u \in Users : UserWrite(u)) \/ (\E p \in Pairs : PublishPair(p))) => ctl'.pc # "off"
      <4>1. ASSUME NEW job, ctl' = [pc |-> "apply", job |-> job] PROVE ctl'.pc # "off" BY <4>1
      <4>2. ASSUME NEW u \in Users, UserWrite(u) PROVE ctl'.pc # "off" BY <4>1, <4>2 DEF UserWrite
      <4>3. ASSUME NEW p \in Pairs, PublishPair(p) PROVE ctl'.pc # "off"
        BY <4>1, <4>3 DEF PublishPair
      <4> QED BY <4>2, <4>3
    <3>6. JobApply => ctl'.pc # "off"
      <4>1. ASSUME NEW new, ctl' = [ctl EXCEPT !.pc = "setActive", !.job.new = new]
            PROVE  ctl'.pc # "off"
        BY <4>1 DEF IInv, TypeInv
      <4> QED BY <3>4, <4>1 DEF JobApply
    <3>7. JobSetActive \/ JobEndpoint \/ SaveMetadata => ctl'.pc # "off"
      BY <3>2, <3>3, <3>4 DEF JobSetActive, JobEndpoint, SaveMetadata, Working
    <3>8. RollFiles \/ RollActive \/ UndoRow => ctl'.pc # "off"
      BY <3>2, <3>3 DEF RollFiles, RollActive, UndoRow, Working
    <3>9. BackConfig \/ BackPair \/ BackActive => ctl'.pc # "off"
      BY <3>2, <3>3 DEF BackConfig, BackPair, BackActive, Working
    <3> QED BY <2>4, <3>1, <3>5, <3>6, <3>7, <3>8, <3>9 DEF CtlStep
  <2>5. Grows BY <1>1 DEF CtlGood
  <2> QED BY <2>1, <2>2, <2>3, <2>4, <2>5, BootStays
<1> QED BY <1>1, <1>2, <1>3, <1>4, <1>5, <1>6, CtlDone

\* Nobody else runs while the migration does, and nothing is kept yet.
LEMMA MigAlone ==
  ASSUME IInv, mig.pc # "off" \/ (lock = None /\ ~vol.marker)
  PROVE  ctl.pc = "off" /\ res.pc = "off" /\ kept = {} /\ ~vol.marker /\ ctl.job = NoJob
         /\ boot.pc = "off"
BY DataDirectoryAssumption DEF IInv, Locked, KeptHeld, JobHeld, BootHeld

LEMMA MigDone ==
  ASSUME IInv, mig.pc # "off" \/ (lock = None /\ ~vol.marker),
         Grows, VolumeResolves', MigHeld',
         mig' \in [pc : MigPcs, todo : SUBSET Users, new : RevOrNone],
         mig'.pc # "off" => lock' = "migration" /\ vol'.marker = vol.marker,
         lock' \in {None, "migration"},
         UNCHANGED <<ctl, boot, res, bak, archive, target, changes, kept>>
  PROVE  IInv'
<1>1. ctl.pc = "off" /\ res.pc = "off" /\ kept = {} /\ ~vol.marker /\ ctl.job = NoJob
      /\ boot.pc = "off"
  BY MigAlone
<1>2. TypeInv' BY DEF IInv, TypeInv, Grows
<1>3. Locked' BY <1>1 DEF Locked
<1>4. JobHeld' /\ BootHeld' BY <1>1 DEF JobHeld, BootHeld
<1>5. ResHeld' /\ BakHeld' /\ ArchiveHeld' BY <1>1, Frame
<1>6. KeptHeld' BY <1>1 DEF KeptHeld, ReportedKept, NoJob
<1> QED BY <1>2, <1>3, <1>4, <1>5, <1>6 DEF IInv

\* A step within the migration, which moves its program counter.
LEMMA MigOn ==
  ASSUME IInv, mig.pc # "off", MigOnly, Grows, VolumeResolves', vol'.marker = vol.marker,
         NEW pc \in MigPcs \ {"off", "import", "metadata"}, MigGoto(pc)
  PROVE  IInv'
<1>1. mig' = [mig EXCEPT !.pc = pc] /\ mig'.pc = pc /\ mig'.new = mig.new
      /\ mig' \in [pc : MigPcs, todo : SUBSET Users, new : RevOrNone]
  BY DEF MigGoto, IInv, TypeInv
<1>2. MigHeld' BY <1>1 DEF IInv, MigHeld, Grows
<1>3. lock' = "migration" /\ UNCHANGED <<ctl, boot, res, bak, archive, target, changes, kept>>
  BY DEF MigOnly, IInv, Locked
<1> QED BY <1>1, <1>2, <1>3, MigDone

LEMMA MigStartIInv ==
  ASSUME IInv, MigStart
  PROVE  IInv'
<1> DEFINE d == [vol.db EXCEPT !.is = TRUE]
<1>1. lock = None /\ ~vol.marker /\ lock' = "migration" /\ vol' = [vol EXCEPT !.db = d]
      /\ UNCHANGED <<ctl, boot, res, bak, archive, target, changes, kept>> /\ mig.pc = "off"
  BY DEF MigStart, Acquire
<1>2. d \in DbRec /\ d.active = vol.db.active /\ d.pair = vol.db.pair BY Fields DEF DbRec
<1>3. Grows /\ VolumeResolves' /\ DbOnly(vol, vol')
  <2> HIDE DEF d
  <2> QED BY <1>1, <1>2, DbWrite DEF IInv, VolumeResolves, Resolves
<1>4. mig' = [pc |-> "host", todo |-> {}, new |-> None]
  BY <1>1 DEF MigStart, MigGoto, IInv, MigHeld, MigOff
<1>5. MigHeld' /\ mig' \in [pc : MigPcs, todo : SUBSET Users, new : RevOrNone]
  BY <1>4 DEF MigHeld, MigPcs, RevOrNone
<1> HIDE DEF d
<1> QED BY <1>1, <1>3, <1>5, MigDone DEF DbOnly

LEMMA MigHostIInv ==
  ASSUME IInv, MigHost
  PROVE  IInv'
<1> DEFINE d == [vol.db EXCEPT !.host = TRUE]
<1>1. mig.pc = "host" /\ vol' = [vol EXCEPT !.db = d] /\ MigOnly
      /\ mig' = [mig EXCEPT !.pc = "users", !.todo = LegacyUsers]
  BY DEF MigHost
<1>2. d \in DbRec /\ d.active = vol.db.active /\ d.pair = vol.db.pair BY Fields DEF DbRec
<1>3. Grows /\ VolumeResolves' /\ DbOnly(vol, vol')
  <2> HIDE DEF d
  <2> QED BY <1>1, <1>2, DbWrite DEF IInv, VolumeResolves, Resolves
<1>4. mig'.pc = "users" /\ mig'.new = mig.new
      /\ mig' \in [pc : MigPcs, todo : SUBSET Users, new : RevOrNone]
  BY <1>1, DataDirectoryAssumption DEF IInv, TypeInv, MigPcs
<1>5. MigHeld' BY <1>1, <1>3, <1>4 DEF IInv, MigHeld, Grows
<1>6. lock' = "migration" /\ UNCHANGED <<ctl, boot, res, bak, archive, target, changes, kept>>
  BY <1>1 DEF MigOnly, IInv, Locked
<1> HIDE DEF d
<1> QED BY <1>1, <1>3, <1>4, <1>5, <1>6, MigDone DEF DbOnly

LEMMA MigUserIInv ==
  ASSUME IInv, NEW u \in Users, MigUser(u)
  PROVE  IInv'
<1> DEFINE d == [vol.db EXCEPT !.creds[u] = "legacy"]
           pc == IF mig.todo # {u} THEN "users"
                 ELSE IF LegacyPair = None THEN "apply" ELSE "import"
<1>1. mig.pc = "users" /\ vol' = [vol EXCEPT !.db = d] /\ MigOnly
      /\ mig' = [mig EXCEPT !.todo = @ \ {u}, !.pc = pc]
  BY DEF MigUser
<1>2. d \in DbRec /\ d.active = vol.db.active /\ d.pair = vol.db.pair BY Fields DEF DbRec, Creds
<1>3. Grows /\ VolumeResolves' /\ DbOnly(vol, vol')
  <2> HIDE DEF d
  <2> QED BY <1>1, <1>2, DbWrite DEF IInv, VolumeResolves, Resolves
<1>4. mig'.pc = pc /\ mig'.new = mig.new /\ pc \in MigPcs \ {"off", "metadata"}
      /\ (pc = "import" => LegacyPair # None)
      /\ mig' \in [pc : MigPcs, todo : SUBSET Users, new : RevOrNone]
  BY <1>1 DEF IInv, TypeInv, MigPcs
<1>5. MigHeld' BY <1>1, <1>3, <1>4 DEF IInv, MigHeld, Grows
<1>6. lock' = "migration" /\ UNCHANGED <<ctl, boot, res, bak, archive, target, changes, kept>>
  BY <1>1 DEF MigOnly, IInv, Locked
<1> HIDE DEF d, pc
<1> QED BY <1>1, <1>3, <1>4, <1>5, <1>6, MigDone DEF DbOnly

LEMMA MigImportIInv ==
  ASSUME IInv, MigImport
  PROVE  IInv'
<1> DEFINE t == Published(vol.tls, LegacyPair)
<1>1. mig.pc = "import" /\ vol' = [vol EXCEPT !.tls = t] /\ MigOnly
      /\ mig' = [mig EXCEPT !.pc = "metadata"]
  BY DEF MigImport, MigGoto
<1>2. LegacyPair \in Pairs BY <1>1, DataDirectoryAssumption DEF IInv, MigHeld
<1>3. t \in TLSRec /\ t.cur = LegacyPair /\ t.revs = vol.tls.revs \cup {LegacyPair}
  BY <1>2, Fields, PublishedRec
<1>4. Grows /\ VolumeResolves' /\ TLSOnly(vol, vol') /\ LegacyPair \in vol'.tls.revs
  <2> HIDE DEF t
  <2> QED BY <1>1, <1>3, TLSWrite
<1>5. mig'.pc = "metadata" /\ mig'.new = mig.new
      /\ mig' \in [pc : MigPcs, todo : SUBSET Users, new : RevOrNone]
  BY <1>1 DEF IInv, TypeInv, MigPcs
<1>6. LegacyPair # None BY <1>2, DataDirectoryAssumption
<1>7. MigHeld' BY <1>1, <1>4, <1>5, <1>6 DEF IInv, MigHeld, Grows
<1>8. lock' = "migration" /\ UNCHANGED <<ctl, boot, res, bak, archive, target, changes, kept>>
  BY <1>1 DEF MigOnly, IInv, Locked
<1> HIDE DEF t
<1> QED BY <1>1, <1>4, <1>5, <1>7, <1>8, MigDone DEF TLSOnly

LEMMA MigMetadataIInv ==
  ASSUME IInv, MigMetadata
  PROVE  IInv'
<1> DEFINE d == [vol.db EXCEPT !.pair = LegacyPair]
<1>1. mig.pc = "metadata" /\ vol' = [vol EXCEPT !.db = d] /\ MigOnly /\ MigGoto("apply")
  BY DEF MigMetadata
<1>2. d \in DbRec /\ d.active = vol.db.active /\ d.pair = LegacyPair
  BY Fields, DataDirectoryAssumption DEF DbRec, PairOrNone
<1>3. vol.origin # "torn" => LegacyPair \in vol.tls.revs BY <1>1 DEF IInv, MigHeld
<1>4. Grows /\ VolumeResolves' /\ DbOnly(vol, vol')
  <2> HIDE DEF d
  <2> QED BY <1>1, <1>2, <1>3, DbWrite DEF IInv, VolumeResolves, Resolves
<1>5. "apply" \in MigPcs \ {"off", "import", "metadata"} BY DEF MigPcs
<1> HIDE DEF d
<1> QED BY <1>1, <1>4, <1>5, MigOn DEF DbOnly

LEMMA MigApplyIInv ==
  ASSUME IInv, MigApply
  PROVE  IInv'
<1> DEFINE r == Render(vol.db, vol.db.pair)
<1>1. mig.pc = "apply" /\ vol' = [vol EXCEPT !.config = Applied(vol.config, r)] /\ MigOnly
      /\ mig' = [mig EXCEPT !.pc = "setActive", !.new = r]
  BY DEF MigApply
<1>2. r \in Revs /\ r.pair = vol.db.pair BY Fields, RenderRec
<1>3. vol.origin # "torn" => r.pair \in vol.tls.revs \cup {None}
  BY <1>2 DEF IInv, VolumeResolves, Resolves
<1> HIDE DEF r
<1>4. Grows /\ VolumeResolves' /\ ConfigOnly(vol, vol') /\ r \in vol'.config.revs
  BY <1>1, <1>2, <1>3, ApplyWrite
<1>5. mig'.pc = "setActive" /\ mig'.new = r
      /\ mig' \in [pc : MigPcs, todo : SUBSET Users, new : RevOrNone]
  BY <1>1, <1>2 DEF IInv, TypeInv, MigPcs, RevOrNone
<1>6. MigHeld' BY <1>4, <1>5 DEF MigHeld
<1>7. lock' = "migration" /\ UNCHANGED <<ctl, boot, res, bak, archive, target, changes, kept>>
  BY <1>1 DEF MigOnly, IInv, Locked
<1> QED BY <1>1, <1>4, <1>5, <1>6, <1>7, MigDone DEF ConfigOnly

LEMMA MigSetActiveIInv ==
  ASSUME IInv, MigSetActive
  PROVE  IInv'
<1> DEFINE d == [vol.db EXCEPT !.active = mig.new]
<1>1. mig.pc = "setActive" /\ vol' = [vol EXCEPT !.db = d] /\ MigOnly /\ MigGoto("marker")
  BY DEF MigSetActive
<1>2. d \in DbRec /\ d.active = mig.new /\ d.pair = vol.db.pair BY Fields DEF DbRec
<1>3. Grows /\ VolumeResolves' /\ DbOnly(vol, vol')
  <2> HIDE DEF d
  <2> QED BY <1>1, <1>2, DbWrite DEF IInv, VolumeResolves, Resolves, MigHeld
<1>4. "marker" \in MigPcs \ {"off", "import", "metadata"} BY DEF MigPcs
<1> HIDE DEF d
<1> QED BY <1>1, <1>3, <1>4, MigOn DEF DbOnly

\* The marker, and the end of a migration.
LEMMA MigOver ==
  ASSUME IInv, MigMarker \/ MigEnd
  PROVE  IInv'
<1>1. /\ mig.pc # "off" /\ mig' = MigOff /\ lock' = None
      /\ UNCHANGED <<ctl, boot, res, bak, archive, target, changes, kept>>
      /\ vol' \in {vol, [vol EXCEPT !.marker = TRUE]}
  BY DEF MigMarker, MigEnd, Release
<1>2. mig'.pc = "off" /\ MigHeld'
      /\ mig' \in [pc : MigPcs, todo : SUBSET Users, new : RevOrNone]
  BY <1>1 DEF MigOff, MigHeld, MigPcs, RevOrNone
<1>3. vol' \in VolRec /\ vol'.config = vol.config /\ vol'.tls = vol.tls /\ vol'.db = vol.db
      /\ vol'.scrap = vol.scrap /\ vol'.origin = vol.origin
  BY <1>1 DEF IInv, TypeInv, VolRec
<1>4. Grows BY <1>3 DEF Grows
<1>5. VolumeResolves' BY <1>3 DEF IInv, VolumeResolves, Resolves
<1> QED BY <1>1, <1>2, <1>4, <1>5, MigDone

LEMMA MigIInv ==
  ASSUME IInv, MigStep
  PROVE  IInv'
BY MigStartIInv, MigHostIInv, MigUserIInv, MigImportIInv, MigMetadataIInv, MigApplyIInv,
   MigSetActiveIInv, MigOver
DEF MigStep

-----------------------------------------------------------------------------
(* Backup                                                                  *)

\* The backup touches nothing but its work directory and the archive.
LEMMA BakDone ==
  ASSUME IInv, BakOnly, BakHeld', ArchiveHeld',
         bak' \in [pc : BakPcs, work : VolRec],
         archive' \in [intact : BOOLEAN, content : VolRec],
         archive' = archive \/ ~target
  PROVE  IInv'
<1>1. TypeInv' BY DEF BakOnly, IInv, TypeInv
<1>2. Locked' /\ VolumeResolves' /\ JobHeld' /\ BootHeld' /\ MigHeld'
  BY DEF BakOnly, IInv, Locked, VolumeResolves, JobHeld, BootHeld, MigHeld
<1>3. ResHeld'
  <2>1. CASE archive' = archive BY <2>1 DEF BakOnly, IInv, ResHeld
  <2>2. CASE ~target
    <3>1. res'.pc = "off" /\ res'.moved = 0 BY <2>2 DEF BakOnly, IInv, ResHeld, TypeInv
    <3> QED BY <3>1 DEF ResHeld
  <2> QED BY <2>1, <2>2
<1>4. KeptHeld' BY DEF BakOnly, IInv, KeptHeld, ReportedKept
<1> QED BY <1>1, <1>2, <1>3, <1>4 DEF IInv

LEMMA BackupDatabaseIInv ==
  ASSUME IInv, BackupDatabase
  PROVE  IInv'
<1> DEFINE w == [EmptyVol EXCEPT !.db = vol.db, !.marker = vol.marker, !.origin = vol.origin]
<1>1. archive = NoArchive /\ vol.db.is /\ bak' = [pc |-> "configCurrent", work |-> w]
      /\ BakOnly /\ archive' = archive
  BY DEF BackupDatabase
<1>2. w \in VolRec /\ w.db = vol.db /\ w.origin = vol.origin /\ w.config = NoConfig /\ w.tls = NoTLS
  BY EmptyRec, Fields DEF VolRec
<1>3. ~target BY <1>1, EmptyRec DEF IInv, ArchiveHeld, NoArchive
<1> HIDE DEF w
<1>4. bak'.pc = "configCurrent" /\ bak'.work = w /\ vol' = vol /\ target' = target
  BY <1>1 DEF BakOnly
<1>5. BakConfigs' = vol.config.revs /\ BakPairs' = vol.tls.revs
  BY <1>4 DEF BakConfigs, BakPairs
<1>6. BakHeld'
  BY <1>1, <1>2, <1>3, <1>4, <1>5
  DEF BakHeld, NoConfig, NoTLS, IInv, VolumeResolves, Resolves
<1>7. ArchiveHeld' BY <1>1, <1>4 DEF IInv, ArchiveHeld, ArchiveResolves
<1>8. bak' \in [pc : BakPcs, work : VolRec] BY <1>1, <1>2 DEF BakPcs
<1> QED BY <1>1, <1>6, <1>7, <1>8, BakDone DEF IInv, TypeInv

\* The copy of a part takes what the volume has now.
LEMMA CopyFacts ==
  ASSUME IInv, BackupCopy
  PROVE  /\ bak.pc # "off" /\ bak'.work \in VolRec /\ bak'.work.db = bak.work.db
         /\ bak'.work.origin # "torn" <=> bak.work.origin # "torn"
         /\ bak.pc \in {"configCurrent", "configPrevious", "configRevs", "tlsCurrent", "tlsRevs", "marker"}
         /\ bak.pc = "configCurrent" =>
              /\ bak'.pc = "configPrevious" /\ bak'.work.tls = bak.work.tls
              /\ bak'.work.config = [bak.work.config EXCEPT !.cur = vol.config.cur]
         /\ bak.pc = "configPrevious" =>
              /\ bak'.pc = "configRevs" /\ bak'.work.tls = bak.work.tls
              /\ bak'.work.config = [bak.work.config EXCEPT !.prev = vol.config.prev]
         /\ bak.pc = "configRevs" =>
              /\ bak'.pc = "tlsCurrent" /\ bak'.work.tls = bak.work.tls
              /\ bak'.work.config = [bak.work.config EXCEPT !.revs = vol.config.revs]
         /\ bak.pc = "tlsCurrent" =>
              /\ bak'.pc = "tlsRevs" /\ bak'.work.config = bak.work.config
              /\ bak'.work.tls = [bak.work.tls EXCEPT !.cur = vol.tls.cur]
         /\ bak.pc = "tlsRevs" =>
              /\ bak'.pc = "marker" /\ bak'.work.config = bak.work.config
              /\ bak'.work.tls = [bak.work.tls EXCEPT !.revs = vol.tls.revs]
         /\ bak.pc = "marker" =>
              /\ bak'.pc = "archive" /\ bak'.work.config = bak.work.config
              /\ bak'.work.tls = bak.work.tls
<1>1. bak.work \in VolRec BY DEF IInv, TypeInv
<1>2. bak.pc \in {"configCurrent", "configPrevious", "configRevs", "tlsCurrent", "tlsRevs", "marker"}
      /\ bak'.pc = BackupNext[bak.pc] /\ bak'.work = Copied(bak.work, bak.pc)
  BY DEF BackupCopy, BackupNext
<1>3. CASE bak.pc = "configCurrent"
  BY <1>1, <1>2, <1>3, Fields DEF Copied, BackupNext, VolRec, ConfigRec
<1>4. CASE bak.pc = "configPrevious"
  BY <1>1, <1>2, <1>4, Fields DEF Copied, BackupNext, VolRec, ConfigRec
<1>5. CASE bak.pc = "configRevs"
  BY <1>1, <1>2, <1>5, Fields DEF Copied, BackupNext, VolRec, ConfigRec
<1>6. CASE bak.pc = "tlsCurrent"
  BY <1>1, <1>2, <1>6, Fields DEF Copied, BackupNext, VolRec, TLSRec
<1>7. CASE bak.pc = "tlsRevs"
  BY <1>1, <1>2, <1>7, Fields DEF Copied, BackupNext, VolRec, TLSRec
<1>8. CASE bak.pc = "marker"
  <2> DEFINE o == IF vol.marker # bak.work.marker /\ bak.work.origin = "whole"
                  THEN "mixed" ELSE bak.work.origin
  <2>1. bak'.work = [bak.work EXCEPT !.marker = vol.marker, !.origin = o]
    BY <1>1, <1>2, <1>8 DEF Copied, VolRec
  <2>2. o \in {"whole", "torn", "mixed"} /\ (o # "torn" <=> bak.work.origin # "torn")
        /\ vol.marker \in BOOLEAN
    BY <1>1, Fields DEF VolRec
  <2>3. bak'.pc = "archive" BY <1>2, <1>8 DEF BackupNext
  <2> HIDE DEF o
  <2>4. /\ bak'.work \in VolRec /\ bak'.work.origin = o /\ bak'.work.db = bak.work.db
        /\ bak'.work.config = bak.work.config /\ bak'.work.tls = bak.work.tls
    BY <1>1, <2>1, <2>2 DEF VolRec
  <2> QED BY <1>8, <2>2, <2>3, <2>4
<1> QED BY <1>2, <1>3, <1>4, <1>5, <1>6, <1>7, <1>8

LEMMA BackupCopyIInv ==
  ASSUME IInv, BackupCopy
  PROVE  IInv'
<1>1. BakOnly /\ archive' = archive /\ vol' = vol /\ target' = target BY DEF BackupCopy, BakOnly
<1>2. bak'.pc \in BakPcs /\ bak'.pc # "off" BY CopyFacts DEF BakPcs
<1>3. bak' \in [pc : BakPcs, work : VolRec]
  <2>1. bak' = [pc |-> bak'.pc, work |-> bak'.work] BY DEF BackupCopy
  <2> QED BY <1>2, <2>1, CopyFacts
<1>4. ArchiveHeld' BY <1>1 DEF IInv, ArchiveHeld, ArchiveResolves
<1>5. BakHeld'
  <2> DEFINE w == bak.work
             n == bak'.work
  <2>1. w \in VolRec /\ w.config \in ConfigRec /\ w.tls \in TLSRec BY DEF IInv, TypeInv, VolRec
  <2>2. archive' = NoArchive /\ ~target' /\ n.db.is BY <1>1, CopyFacts DEF IInv, BakHeld
  <2>3. bak'.pc \in {"configCurrent", "configPrevious", "configRevs"} => n.config.revs = {}
    BY <2>1, CopyFacts DEF IInv, BakHeld, ConfigRec
  <2>4. ASSUME n.origin # "torn"
        PROVE  /\ vol'.origin # "torn"
               /\ {n.config.cur, n.config.prev, n.db.active} \subseteq BakConfigs' \cup {None}
               /\ {n.tls.cur, n.db.pair} \cup {r.pair : r \in n.config.revs} \subseteq BakPairs' \cup {None}
    <3>1. w.origin # "torn" /\ bak.pc # "off" /\ n.db = w.db BY <2>4, CopyFacts
    <3>2. /\ vol.origin # "torn"
          /\ {w.config.cur, w.config.prev, w.db.active} \subseteq BakConfigs \cup {None}
          /\ {w.tls.cur, w.db.pair} \cup {r.pair : r \in w.config.revs} \subseteq BakPairs \cup {None}
      BY <3>1 DEF IInv, BakHeld
    <3>3. /\ {vol.config.cur, vol.config.prev} \subseteq vol.config.revs \cup {None}
          /\ {vol.tls.cur} \cup {r.pair : r \in vol.config.revs} \subseteq vol.tls.revs \cup {None}
      BY <3>2 DEF IInv, VolumeResolves, Resolves
    <3>4. CASE bak.pc = "configCurrent"
      BY <1>1, <2>1, <3>1, <3>2, <3>3, <3>4, CopyFacts DEF BakConfigs, BakPairs, ConfigRec
    <3>5. CASE bak.pc = "configPrevious"
      BY <1>1, <2>1, <3>1, <3>2, <3>3, <3>5, CopyFacts DEF BakConfigs, BakPairs, ConfigRec
    <3>6. CASE bak.pc = "configRevs"
      BY <1>1, <2>1, <3>1, <3>2, <3>3, <3>6, CopyFacts DEF BakConfigs, BakPairs, ConfigRec
    <3>7. CASE bak.pc = "tlsCurrent"
      BY <1>1, <2>1, <3>1, <3>2, <3>3, <3>7, CopyFacts DEF BakConfigs, BakPairs, TLSRec
    <3>8. CASE bak.pc = "tlsRevs"
      BY <1>1, <2>1, <3>1, <3>2, <3>3, <3>8, CopyFacts DEF BakConfigs, BakPairs, TLSRec
    <3>9. CASE bak.pc = "marker"
      BY <1>1, <2>1, <3>1, <3>2, <3>3, <3>9, CopyFacts DEF BakConfigs, BakPairs
    <3> QED BY <3>4, <3>5, <3>6, <3>7, <3>8, <3>9, CopyFacts
  <2> QED BY <2>2, <2>3, <2>4 DEF BakHeld
<1> QED BY <1>1, <1>3, <1>4, <1>5, BakDone DEF IInv, TypeInv

\* The archive is what was copied, and is complete.
LEMMA BackupOver ==
  ASSUME IInv, BackupArchive \/ BackupEnd
  PROVE  IInv'
<1>1. bak' = BakOff /\ BakOnly /\ bak.pc # "off" BY DEF BackupArchive, BackupEnd
<1>2. bak' \in [pc : BakPcs, work : VolRec] /\ BakHeld'
  BY <1>1, EmptyRec DEF BakOff, BakPcs, BakHeld
<1>3. ~target /\ archive = NoArchive /\ target' = target BY <1>1 DEF IInv, BakHeld, BakOnly
<1>4. CASE archive' = archive
  <2>1. ArchiveHeld' BY <1>3, <1>4 DEF IInv, ArchiveHeld, ArchiveResolves
  <2> QED BY <1>1, <1>2, <1>4, <2>1, BakDone DEF IInv, TypeInv
<1>5. CASE BackupArchive
  <2>1. bak.pc = "archive" /\ archive' = [intact |-> TRUE, content |-> bak.work]
    BY <1>5 DEF BackupArchive
  <2>2. archive' \in [intact : BOOLEAN, content : VolRec] /\ archive'.content = bak.work
    BY <2>1 DEF IInv, TypeInv
  <2>3. bak.work.origin # "torn" => Resolves(bak.work)
    BY <2>1 DEF IInv, BakHeld, BakConfigs, BakPairs, Resolves
  <2>4. ArchiveHeld' BY <1>1, <1>3, <2>2, <2>3 DEF ArchiveHeld, ArchiveResolves, IInv, BakHeld, Resolves
  <2> QED BY <1>1, <1>2, <1>3, <2>2, <2>4, BakDone
<1> QED BY <1>4, <1>5 DEF BackupEnd

LEMMA BackupIInv ==
  ASSUME IInv, BackupStep
  PROVE  IInv'
BY BackupDatabaseIInv, BackupCopyIInv, BackupOver DEF BackupStep

\* Damage comes before the restore.
LEMMA DamageIInv ==
  ASSUME IInv, Damage
  PROVE  IInv'
<1>1. archive' = [archive EXCEPT !.intact = FALSE] /\ BakOnly /\ bak' = bak /\ target
      /\ vol = EmptyVol
  BY DEF Damage
<1>2. archive' \in [intact : BOOLEAN, content : VolRec] /\ archive'.content = archive.content
  BY <1>1 DEF IInv, TypeInv
<1>3. res.pc = "off" /\ res.moved = 0 /\ bak.pc = "off"
  BY <1>1, EmptyRec DEF IInv, ResHeld, BakHeld
<1>4. TypeInv' BY <1>1, <1>2 DEF BakOnly, IInv, TypeInv
<1>5. Locked' /\ VolumeResolves' /\ JobHeld' /\ BootHeld' /\ MigHeld' /\ KeptHeld'
  BY <1>1
  DEF BakOnly, IInv, Locked, VolumeResolves, JobHeld, BootHeld, MigHeld, KeptHeld, ReportedKept
<1>6. ResHeld' /\ BakHeld' BY <1>1, <1>3 DEF BakOnly, ResHeld, BakHeld
<1>7. ArchiveHeld'
  BY <1>1, <1>2 DEF BakOnly, IInv, ArchiveHeld, ArchiveResolves
<1> QED BY <1>4, <1>5, <1>6, <1>7 DEF IInv

-----------------------------------------------------------------------------
(* Restore                                                                 *)

LEMMA EntriesAre ==
  /\ Len(Entries) = 4 /\ DOMAIN Entries = 1..4
  /\ Entries[1] = "config" /\ Entries[2] = "db" /\ Entries[3] = "marker" /\ Entries[4] = "tls"
BY DEF Entries

\* Nobody else runs while a restore does, or when it takes the lock; nothing is
\* kept there, and no backup is made.
LEMMA ResAlone ==
  ASSUME IInv, res.pc # "off" \/ (target /\ lock = None /\ ~vol.marker)
  PROVE  /\ ctl.pc = "off" /\ mig.pc = "off" /\ bak.pc = "off" /\ kept = {}
         /\ ctl.job = NoJob /\ boot.pc = "off" /\ mig = MigOff /\ target
BY DataDirectoryAssumption DEF IInv, Locked, KeptHeld, JobHeld, BootHeld, MigHeld, BakHeld, ResHeld

LEMMA ResDone ==
  ASSUME IInv, res.pc # "off" \/ (target /\ lock = None /\ ~vol.marker),
         ResOnly, ResHeld', VolumeResolves', vol' \in VolRec,
         res' \in [pc : {"off", "stage", "move", "restored"}, moved : 0..4],
         lock' \in {None, "restore"}, res'.pc # "off" => lock' = "restore"
  PROVE  IInv'
<1>1. /\ ctl.pc = "off" /\ mig.pc = "off" /\ bak.pc = "off" /\ kept = {}
      /\ ctl.job = NoJob /\ boot.pc = "off" /\ mig = MigOff
  BY ResAlone
<1>2. TypeInv' BY DEF ResOnly, IInv, TypeInv
<1>3. Locked' BY <1>1 DEF ResOnly, Locked
<1>4. JobHeld' /\ BootHeld' /\ MigHeld' BY <1>1 DEF ResOnly, JobHeld, BootHeld, MigHeld, MigOff
<1>5. BakHeld' BY <1>1 DEF ResOnly, BakHeld
<1>6. ArchiveHeld' BY DEF ResOnly, IInv, ArchiveHeld, ArchiveResolves
<1>7. KeptHeld' BY <1>1 DEF ResOnly, KeptHeld, ReportedKept, NoJob
<1> QED BY <1>2, <1>3, <1>4, <1>5, <1>6, <1>7 DEF IInv

LEMMA RestoreStartIInv ==
  ASSUME IInv, RestoreStart
  PROVE  IInv'
<1>1. target /\ lock = None /\ lock' = "restore" /\ vol = EmptyVol /\ res.pc = "off" /\ ResOnly
      /\ vol' = [vol EXCEPT !.scrap = TRUE]
  BY DEF RestoreStart, Acquire
<1>2. ~vol.marker BY <1>1, EmptyRec
<1>3. res' = [pc |-> "stage", moved |-> 0] BY DEF RestoreStart, ResOff
<1>4. vol' \in VolRec /\ vol'.scrap /\ vol'.db = vol.db /\ vol'.config = vol.config
      /\ vol'.tls = vol.tls /\ vol'.origin = vol.origin
  BY <1>1, Fields DEF VolRec
<1>5. VolumeResolves' BY <1>4 DEF IInv, VolumeResolves, Resolves
<1>6. ResHeld' BY <1>1, <1>3, <1>4 DEF ResHeld, ResOnly
<1> QED BY <1>1, <1>2, <1>3, <1>4, <1>5, <1>6, ResDone

LEMMA RestoreVerifyIInv ==
  ASSUME IInv, RestoreVerify
  PROVE  IInv'
<1>1. res.pc = "stage" /\ archive.intact /\ ResOnly /\ vol' = vol /\ lock' = lock
      /\ res' = [res EXCEPT !.pc = "move"]
  BY DEF RestoreVerify
<1>2. res.moved = 0 /\ vol.scrap /\ target /\ lock = "restore"
  BY <1>1 DEF IInv, ResHeld, Locked
<1>3. res'.pc = "move" /\ res'.moved = 0
      /\ res' \in [pc : {"off", "stage", "move", "restored"}, moved : 0..4]
  BY <1>1, <1>2 DEF IInv, TypeInv
<1>4. ResHeld' BY <1>1, <1>2, <1>3 DEF ResHeld, ResOnly
<1> QED BY <1>1, <1>2, <1>3, <1>4, NoWrite, ResDone DEF Grows

\* One entry more is in place; with the last one the volume is the archive.
LEMMA RestoreMoveIInv ==
  ASSUME IInv, RestoreMove
  PROVE  IInv'
<1> DEFINE k == res.moved + 1
           e == Entries[k]
           o == IF k = 4 THEN archive.content.origin ELSE "torn"
<1>1. res.pc = "move" /\ ResOnly /\ lock' = lock
      /\ vol' = [vol EXCEPT ![e] = archive.content[e], !.origin = o]
      /\ res' = [res EXCEPT !.moved = k, !.pc = IF k = 4 THEN "restored" ELSE "move"]
  BY EntriesAre DEF RestoreMove
<1>2. k \in 1..4 /\ vol.scrap /\ target /\ archive.intact /\ lock = "restore"
  <2>1. res \in [pc : {"off", "stage", "move", "restored"}, moved : 0..4] BY DEF IInv, TypeInv
  <2>2. res.moved < 4 BY <1>1 DEF IInv, ResHeld
  <2>3. res.moved \in 0..4 BY <2>1
  <2>4. k \in 1..4 BY <2>2, <2>3
  <2>5. vol.scrap /\ target BY <1>1 DEF IInv, ResHeld
  <2>6. archive.intact BY <1>1 DEF IInv, ResHeld
  <2>7. lock = "restore" BY <1>1 DEF IInv, Locked
  <2> QED BY <2>4, <2>5, <2>6, <2>7
<1>3. archive.content \in VolRec /\ vol \in VolRec BY DEF IInv, TypeInv
<1>4. res'.moved = k /\ res'.pc = (IF k = 4 THEN "restored" ELSE "move")
      /\ res' \in [pc : {"off", "stage", "move", "restored"}, moved : 0..4]
  <2>1. res \in [pc : {"off", "stage", "move", "restored"}, moved : 0..4] BY DEF IInv, TypeInv
  <2>2. k \in 0..4 BY <1>2
  <2> HIDE DEF k
  <2> QED BY <1>1, <2>1, <2>2
<1>5. o \in {"whole", "torn", "mixed"} BY <1>3 DEF VolRec
<1>6. e \in {"config", "db", "marker", "tls"} BY <1>2, EntriesAre
<1>7. /\ vol' \in VolRec /\ vol'[e] = archive.content[e] /\ vol'.origin = o /\ vol'.scrap = vol.scrap
      /\ \A f \in {"config", "db", "marker", "tls"} \ {e} : vol'[f] = vol[f]
  <2> HIDE DEF e, o, k
  <2>1. CASE e = "config" BY <1>1, <1>3, <1>5, <2>1 DEF VolRec
  <2>2. CASE e = "db" BY <1>1, <1>3, <1>5, <2>2 DEF VolRec
  <2>3. CASE e = "marker" BY <1>1, <1>3, <1>5, <2>3 DEF VolRec
  <2>4. CASE e = "tls" BY <1>1, <1>3, <1>5, <2>4 DEF VolRec
  <2> QED BY <1>6, <2>1, <2>2, <2>3, <2>4
<1>8. \A i \in 1..4 : i <= k => vol'[Entries[i]] = archive.content[Entries[i]]
  <2> SUFFICES ASSUME NEW i \in 1..4, i <= k
               PROVE  vol'[Entries[i]] = archive.content[Entries[i]]
    OBVIOUS
  <2>1. CASE i = k BY <1>7, <2>1
  <2>2. CASE i # k
    <3>1. i <= res.moved BY <1>2, <2>2 DEF IInv, TypeInv
    <3>2. vol[Entries[i]] = archive.content[Entries[i]] BY <3>1 DEF IInv, ResHeld
    <3>3. Entries[i] \in {"config", "db", "marker", "tls"} \ {e} BY <1>2, <2>2, EntriesAre
    <3> QED BY <1>7, <3>2, <3>3
  <2> QED BY <2>1, <2>2
<1>9. ResHeld'
  <2>1. res'.pc = "move" => res'.moved < 4 BY <1>2, <1>4
  <2>2. res'.pc = "restored" => res'.moved = 4 BY <1>4
  <2>3. res'.pc \notin {"off", "stage"} BY <1>4
  <2>4. target' /\ vol'.scrap /\ archive'.intact /\ archive' = archive
    BY <1>1, <1>2, <1>7 DEF ResOnly
  <2>5. \A i \in 1..4 : i <= res'.moved => vol'[Entries[i]] = archive.content[Entries[i]]
    BY <1>4, <1>8
  <2> HIDE DEF k, e, o
  <2> QED BY <2>1, <2>2, <2>3, <2>4, <2>5 DEF ResHeld
<1>10. VolumeResolves'
  <2>1. CASE k # 4 BY <1>7, <2>1 DEF VolumeResolves
  <2>2. CASE k = 4
    <3>1. vol'.config = archive.content.config /\ vol'.db = archive.content.db
          /\ vol'.tls = archive.content.tls
      BY <1>8, <2>2, EntriesAre
    <3> QED BY <1>7, <2>2, <3>1
        DEF VolumeResolves, Resolves, IInv, ArchiveHeld, ArchiveResolves
  <2> QED BY <2>1, <2>2
<1> HIDE DEF k, e, o
<1> QED BY <1>1, <1>2, <1>4, <1>7, <1>9, <1>10, ResDone

LEMMA RestoreEndIInv ==
  ASSUME IInv, RestoreEnd
  PROVE  IInv'
<1>1. PICK scrap \in {TRUE, res.moved > 0} : vol' = [vol EXCEPT !.scrap = scrap]
  BY DEF RestoreEnd
<1>2. res.pc # "off" /\ lock' = None /\ ResOnly /\ res' = [pc |-> "off", moved |-> 0]
  BY DEF RestoreEnd, Release, ResOff
<1>3. scrap \in BOOLEAN
  <2>1. res.moved \in Nat BY DEF IInv, TypeInv
  <2>2. (res.moved > 0) \in BOOLEAN BY <2>1
  <2> QED BY <2>2, Zenon
<1>4. vol' \in VolRec /\ vol'.db = vol.db /\ vol'.config = vol.config
      /\ vol'.tls = vol.tls /\ vol'.origin = vol.origin
  BY <1>1, <1>3, Fields DEF VolRec
<1>5. VolumeResolves' BY <1>4 DEF IInv, VolumeResolves, Resolves
<1>6. ResHeld' BY <1>2 DEF ResHeld
<1> QED BY <1>2, <1>4, <1>5, <1>6, ResDone

LEMMA RestoreIInv ==
  ASSUME IInv, RestoreStep
  PROVE  IInv'
BY RestoreStartIInv, RestoreVerifyIInv, RestoreMoveIInv, RestoreEndIInv DEF RestoreStep

\* Another volume is attached when nobody has the lock and no backup is made.
LEMMA NewVolumeIInv ==
  ASSUME IInv, NewVolume
  PROVE  IInv'
<1>1. lock = None /\ archive # NoArchive /\ vol' = EmptyVol /\ target' = TRUE /\ kept' = {}
      /\ UNCHANGED <<lock, ctl, boot, mig, res, bak, archive, changes>>
  BY DEF NewVolume
<1>2. ctl.pc = "off" /\ mig.pc = "off" /\ res.pc = "off"
  BY <1>1, DataDirectoryAssumption DEF IInv, Locked
<1>3. ctl.job = NoJob /\ boot.pc = "off" /\ mig = MigOff /\ res.moved = 0 /\ bak.pc = "off"
  BY <1>1, <1>2 DEF IInv, JobHeld, BootHeld, MigHeld, ResHeld, BakHeld
<1>4. TypeInv' BY <1>1, EmptyRec DEF IInv, TypeInv
<1>5. Locked' /\ VolumeResolves'
  BY <1>1, <1>2, EmptyRec DEF Locked, VolumeResolves, Resolves
<1>6. JobHeld' /\ BootHeld' /\ MigHeld'
  BY <1>1, <1>2, <1>3 DEF JobHeld, BootHeld, MigHeld, MigOff
<1>7. ResHeld' /\ BakHeld' BY <1>1, <1>2, <1>3 DEF ResHeld, BakHeld
<1>8. ArchiveHeld' BY <1>1 DEF IInv, ArchiveHeld, ArchiveResolves
<1>9. KeptHeld' BY <1>1, <1>2, <1>3 DEF KeptHeld, ReportedKept, NoJob
<1> QED BY <1>4, <1>5, <1>6, <1>7, <1>8, <1>9 DEF IInv

-----------------------------------------------------------------------------
(* The theorems                                                            *)

LEMMA Stutter ==
  ASSUME IInv, UNCHANGED vars
  PROVE  IInv'
<1>1. TypeInv' /\ Locked' /\ VolumeResolves' /\ JobHeld' /\ BootHeld' /\ MigHeld'
  BY DEF vars, IInv, TypeInv, Locked, VolumeResolves, JobHeld, BootHeld, MigHeld
<1>2. ResHeld' /\ BakHeld' /\ ArchiveHeld' /\ KeptHeld'
  BY DEF vars, IInv, ResHeld, BakHeld, BakConfigs, BakPairs, ArchiveHeld, ArchiveResolves, KeptHeld,
         ReportedKept
<1> QED BY <1>1, <1>2 DEF IInv

LEMMA StepIInv == IInv /\ [Next]_vars => IInv'
BY CtlIInv, MigIInv, BackupIInv, DamageIInv, RestoreIInv, NewVolumeIInv, Stutter DEF Next

LEMMA Invariance == Spec => []IInv
BY InitIInv, StepIInv, PTL DEF Spec

\* Every variable holds a value of its kind.
THEOREM TypeCorrect == Spec => []TypeOK
<1>1. \A v \in VolRec : IsVol(v)
  <2> SUFFICES ASSUME NEW v \in VolRec PROVE IsVol(v) OBVIOUS
  <2>1. v.config \in ConfigRec BY DEF VolRec
  <2> QED BY <2>1 DEF VolRec, ConfigRec, IsVol, EmptyVol
<1>2. IInv => TypeOK
  <2> SUFFICES ASSUME IInv PROVE TypeOK OBVIOUS
  <2>1. IsVol(vol) /\ IsVol(bak.work) /\ IsVol(archive.content)
    BY <1>1 DEF IInv, TypeInv
  <2>2. ctl.pc \in CtlPcs /\ ctl.job \in JobRec /\ mig.pc \in MigPcs /\ mig.todo \subseteq Users
        /\ mig.new \in RevOrNone /\ bak.pc \in BakPcs /\ boot.pc \in BootPcs
        /\ boot.new \in RevOrNone
    BY DEF IInv, TypeInv
  <2>3. res.pc \in {"off", "stage", "move", "restored"} /\ res.moved \in 0..Len(Entries)
    BY EntriesAre DEF IInv, TypeInv
  <2>4. archive.intact \in BOOLEAN /\ target \in BOOLEAN BY DEF IInv, TypeInv
  <2> QED BY <2>1, <2>2, <2>3, <2>4 DEF IInv, TypeInv, TypeOK
<1> QED BY <1>2, Invariance, PTL

\* Nothing dangles on the volume, whatever is killed when (backup.go, legacy.go,
\* app.go), unless a restore broke off half-way.
THEOREM VolumeAlwaysResolves == Spec => []VolumeResolves
<1>1. IInv => VolumeResolves BY DEF IInv
<1> QED BY <1>1, Invariance, PTL

\* Nothing dangles in the archive of an online backup (backup.Create), however
\* many changes are made while it copies.
THEOREM ArchiveAlwaysResolves == Spec => []ArchiveResolves
<1>1. IInv => ArchiveResolves BY DEF IInv, ArchiveHeld
<1> QED BY <1>1, Invariance, PTL

\* A restore that reports success is complete, and of an intact archive
\* (backup.Restore under datalock.Acquire).
THEOREM RestoreAlwaysComplete == Spec => []RestoreComplete
<1>1. IInv => RestoreComplete
  <2> SUFFICES ASSUME IInv, res.pc = "restored" PROVE RestoreComplete
    BY DEF RestoreComplete
  <2> QED BY EntriesAre DEF IInv, ResHeld, RestoreComplete
<1> QED BY <1>1, Invariance, PTL

\* A change that was reported after the import is never undone by running the
\* import again (migration.Run and its marker).
THEOREM ReportedAlwaysKept == Spec => []ReportedKept
<1>1. IInv => ReportedKept BY DEF IInv, KeptHeld
<1> QED BY <1>1, Invariance, PTL

-----------------------------------------------------------------------------
(* The marker of the import                                                *)

\* The marker is that of an import on this volume, not of half a restore or of a
\* backup that a migration overtook.
Marked(v) == v.marker /\ v.origin = "whole"
Imported(d) ==
  /\ d.host /\ LegacyUsers \subseteq Present(d)
  /\ LegacyPair # None => d.pair # None
  /\ d.active # None

\* What the operation in hand would put back, or is about to write, is as good as
\* what the import left: there was an active revision when it started, and the
\* row of a legacy user was there.
JobImported ==
  /\ ctl.job.kind = "tls" => ctl.job.pair # None
  /\ ctl.pc = "save" => ctl.job.kind = "tls"
  /\ ctl.pc = "setActive" => ctl.job.new # None
  /\ Marked(vol) /\ ctl.pc \in Working =>
       /\ ctl.job.old # None
       /\ ctl.job.user \in LegacyUsers => ctl.job.before # "absent"

\* How far the import is.
MigImported ==
  /\ mig.pc \notin {"off", "host"} => vol.db.host /\ LegacyUsers \ mig.todo \subseteq Present(vol.db)
  /\ mig.pc \notin {"off", "host", "users"} => mig.todo = {}
  /\ mig.pc \in {"apply", "setActive", "marker"} => (LegacyPair # None => vol.db.pair # None)
  /\ mig.pc = "setActive" => mig.new # None
  /\ mig.pc = "marker" => vol.db.active # None

VolImported == Marked(vol) => Imported(vol.db)
BakImported == Marked(bak.work) => Imported(bak.work.db)
ArchiveImported == Marked(archive.content) => Imported(archive.content.db)
ImportHeld == VolImported /\ JobImported /\ MigImported /\ BakImported /\ ArchiveImported

\* A database that has lost nothing of these is still an imported one.
LEMMA StillImported ==
  ASSUME NEW d, NEW e, Imported(d), d.host => e.host,
         \A u \in LegacyUsers : d.creds[u] # "absent" => e.creds[u] # "absent",
         d.pair # None => e.pair # None, d.active # None => e.active # None
  PROVE  Imported(e)
BY DEF Imported, Present

LEMMA SameMark ==
  ASSUME DbOnly(vol, vol') \/ ConfigOnly(vol, vol') \/ TLSOnly(vol, vol') \/ vol' = vol
  PROVE  Marked(vol)' <=> Marked(vol)
BY DEF Marked, DbOnly, ConfigOnly, TLSOnly

\* A write to a store of revisions, and none, leave the database as it is.
LEMMA SameDb ==
  ASSUME VolImported, ConfigOnly(vol, vol') \/ TLSOnly(vol, vol') \/ vol' = vol
  PROVE  VolImported'
BY DEF VolImported, Marked, Imported, Present, ConfigOnly, TLSOnly

\* Writes of the database by the controller: nothing that was imported is lost.
LEMMA DbStays ==
  ASSUME IInv, VolImported, NEW d \in DbRec, vol' = [vol EXCEPT !.db = d],
         Marked(vol) /\ Imported(vol.db) => Imported(d)
  PROVE  VolImported' /\ (Marked(vol)' <=> Marked(vol))
<1>1. vol'.db = d /\ DbOnly(vol, vol')
  BY DbSet, Fields
<1> QED BY <1>1, SameMark DEF VolImported, Imported, Present, Marked

\* No operation is in hand.
LEMMA AtRest ==
  ASSUME ctl'.job = NoJob, ctl'.pc \notin Working
  PROVE  JobImported'
BY DEF JobImported, NoJob, Working

\* The operation in hand goes on.
LEMMA GoesOn ==
  ASSUME JobImported, ctl.pc \in Working, Marked(vol)' => Marked(vol),
         NEW pc \in Working, NEW job, ctl' = [pc |-> pc, job |-> job],
         job.kind = ctl.job.kind, job.pair = ctl.job.pair, job.user = ctl.job.user,
         job.before = ctl.job.before, job.old = ctl.job.old,
         pc = "setActive" => job.new # None, pc = "save" => job.kind = "tls"
  PROVE  JobImported'
<1>1. ctl'.pc = pc /\ ctl'.job = job
  OBVIOUS
<1> QED BY <1>1 DEF JobImported

LEMMA GoesTo ==
  ASSUME IInv, JobImported, ctl.pc \in Working, Marked(vol)' => Marked(vol),
         NEW pc \in Working \ {"setActive", "save"}, CtlGoto(pc)
  PROVE  JobImported'
<1>1. ctl' = [pc |-> pc, job |-> ctl.job]
  BY DEF CtlGoto, IInv, TypeInv
<1> QED BY <1>1, GoesOn

LEMMA GoesBack ==
  ASSUME IInv, JobImported, ctl.pc \in Working, vol' = vol,
         NEW undo \in {"none", "files", "all"}, GivesUp(undo)
  PROVE  JobImported'
<1> DEFINE pc == IF ctl.job.kind = "tls" THEN "backConfig"
                 ELSE IF undo = "none" THEN "undoRow" ELSE "rollFiles"
           job == [ctl.job EXCEPT !.undo = undo]
<1>1. ctl' = [pc |-> pc, job |-> job]
  BY DEF GivesUp, IInv, TypeInv
<1>2. pc \in Working \ {"setActive", "save"}
  BY DEF Working
<1>3. /\ job.kind = ctl.job.kind /\ job.pair = ctl.job.pair /\ job.user = ctl.job.user
      /\ job.before = ctl.job.before /\ job.old = ctl.job.old
  BY Fields DEF JobRec
<1> HIDE DEF pc, job
<1> QED BY <1>1, <1>2, <1>3, SameMark, GoesOn

\* Recovery, and the end of the controller: what it makes active is a revision.
LEMMA BootImported ==
  ASSUME IInv, VolImported, JobImported,
         CtlStart \/ BootSnapshot \/ BootApply \/ BootSetActive \/ CtlEnd
  PROVE  VolImported' /\ JobImported'
<1>1. CASE CtlStart
  <2>1. PICK host \in {vol.db.host, TRUE} : vol' = [vol EXCEPT !.db.is = TRUE, !.db.host = host]
    BY <1>1 DEF CtlStart
  <2> DEFINE d == [vol.db EXCEPT !.is = TRUE, !.host = host]
  <2>2. vol' = [vol EXCEPT !.db = d]
    BY <2>1, Fields DEF VolRec, DbRec
  <2>3. /\ d \in DbRec /\ (vol.db.host => d.host)
        /\ d.active = vol.db.active /\ d.pair = vol.db.pair /\ d.creds = vol.db.creds
    BY Fields DEF DbRec
  <2> HIDE DEF d
  <2>4. VolImported'
    BY <2>2, <2>3, StillImported, DbStays
  <2>5. ctl'.pc = "serve" /\ ctl'.job = NoJob
    BY <1>1 DEF CtlStart, CtlServe
  <2>6. JobImported'
    BY <2>5, AtRest DEF Working
  <2> QED BY <2>4, <2>6
<1>2. CASE BootSnapshot
  BY <1>2, SameDb, SameMark DEF BootSnapshot, BootOnly, JobImported
<1>3. CASE BootApply
  <2>1. boot.new \in Revs /\ vol' = [vol EXCEPT !.config = Applied(vol.config, boot.new)] /\ ctl' = ctl
    BY <1>3 DEF BootApply, BootOnly, IInv, BootHeld
  <2>2. ConfigOnly(vol, vol')
    BY <2>1, Fields, AppliedRec, ConfigSet
  <2> QED BY <2>1, <2>2, SameDb, SameMark DEF JobImported
<1>4. CASE BootSetActive
  <2> DEFINE d == [vol.db EXCEPT !.active = boot.new]
  <2>1. boot.new \in Revs /\ vol' = [vol EXCEPT !.db = d] /\ ctl' = ctl
    BY <1>4 DEF BootSetActive, BootOnly, IInv, BootHeld
  <2>2. boot.new # None
    BY <2>1, NoneAssumption
  <2>3. /\ d \in DbRec /\ d.host = vol.db.host /\ d.active = boot.new
        /\ d.pair = vol.db.pair /\ d.creds = vol.db.creds
    BY <2>1, Fields DEF DbRec, RevOrNone
  <2> HIDE DEF d
  <2>4. VolImported' /\ (Marked(vol)' <=> Marked(vol))
    BY <2>1, <2>2, <2>3, StillImported, DbStays
  <2> QED BY <2>1, <2>4 DEF JobImported
<1>5. CASE CtlEnd
  BY <1>5, SameDb, AtRest DEF CtlEnd, CtlOff, Working
<1> QED BY <1>1, <1>2, <1>3, <1>4, <1>5

\* The first write of an operation notes what there was.
LEMMA BeginImported ==
  ASSUME IInv, VolImported, JobImported,
         (\E u \in Users : UserWrite(u)) \/ (\E p \in Pairs : PublishPair(p))
  PROVE  VolImported' /\ JobImported'
<1>1. ASSUME NEW u \in Users, UserWrite(u) PROVE VolImported' /\ JobImported'
  <2> DEFINE d == [vol.db EXCEPT !.creds[u] = "new"]
             job == [NoJob EXCEPT !.kind = "user", !.user = u, !.before = vol.db.creds[u],
                                  !.old = vol.db.active]
  <2>1. ctl' = [pc |-> "apply", job |-> job] /\ vol' = [vol EXCEPT !.db = d]
    BY <1>1 DEF UserWrite
  <2>2. /\ d \in DbRec /\ d.host = vol.db.host /\ d.active = vol.db.active /\ d.pair = vol.db.pair
        /\ d.creds = [vol.db.creds EXCEPT ![u] = "new"]
    BY Fields DEF DbRec, Creds
  <2>3. \A v \in LegacyUsers : vol.db.creds[v] # "absent" => d.creds[v] # "absent"
    BY <2>2, Fields, DataDirectoryAssumption DEF Creds
  <2>4. job.kind = "user" /\ job.user = u /\ job.before = vol.db.creds[u] /\ job.old = vol.db.active
    BY DEF NoJob
  <2> HIDE DEF d, job
  <2>5. VolImported' /\ (Marked(vol)' <=> Marked(vol))
    BY <2>1, <2>2, <2>3, StillImported, DbStays
  <2>6. JobImported'
    BY <2>1, <2>4, <2>5 DEF JobImported, VolImported, Imported, Present
  <2> QED BY <2>5, <2>6
<1>2. ASSUME NEW p \in Pairs, PublishPair(p) PROVE VolImported' /\ JobImported'
  <2> DEFINE job == [NoJob EXCEPT !.kind = "tls", !.pair = p, !.old = vol.db.active,
                                  !.oldPair = vol.db.pair]
  <2>1. ctl' = [pc |-> "apply", job |-> job] /\ vol' = [vol EXCEPT !.tls = Published(vol.tls, p)]
    BY <1>2 DEF PublishPair
  <2>2. TLSOnly(vol, vol')
    BY <2>1, Fields, PublishedRec, TLSSet
  <2>3. job.pair = p /\ job.user = None /\ job.old = vol.db.active
    BY DEF NoJob
  <2> HIDE DEF job
  <2>4. VolImported' /\ (Marked(vol)' <=> Marked(vol))
    BY <2>2, SameDb, SameMark
  <2>5. p # None /\ None \notin LegacyUsers
    BY DataDirectoryAssumption
  <2>6. JobImported'
    BY <2>1, <2>3, <2>4, <2>5 DEF JobImported, VolImported, Imported
  <2> QED BY <2>4, <2>6
<1> QED BY <1>1, <1>2

\* Its further steps.
LEMMA WorkImported ==
  ASSUME IInv, VolImported, JobImported, JobApply \/ JobSetActive \/ JobEndpoint \/ SaveMetadata
  PROVE  VolImported' /\ JobImported'
<1>1. CASE JobApply
  <2> DEFINE p == IF ctl.job.kind = "tls" THEN ctl.job.pair ELSE vol.db.pair
             r == Render(vol.db, p)
             job == [ctl.job EXCEPT !.new = r]
  <2>1. ctl.pc = "apply" /\ ctl.pc \in Working
    BY <1>1 DEF JobApply, Controller, Working
  <2>2. CASE UNCHANGED vol /\ GivesUp("none")
    BY <2>1, <2>2, GoesBack, SameDb
  <2>3. CASE /\ vol' = [vol EXCEPT !.config = Applied(vol.config, r)]
             /\ ctl' = [ctl EXCEPT !.pc = "setActive", !.job.new = r]
    <3>1. ctl' = [pc |-> "setActive", job |-> job]
      BY <2>3 DEF IInv, TypeInv
    <3>2. r \in Revs /\ r # None
      BY Fields, RenderRec, NoneAssumption
    <3> HIDE DEF r
    <3>3. ConfigOnly(vol, vol')
      BY <2>3, <3>2, Fields, AppliedRec, ConfigSet
    <3>4. /\ job.kind = ctl.job.kind /\ job.pair = ctl.job.pair /\ job.user = ctl.job.user
          /\ job.before = ctl.job.before /\ job.old = ctl.job.old /\ job.new = r
      BY Fields DEF JobRec
    <3> HIDE DEF job
    <3>5. "setActive" \in Working
      BY DEF Working
    <3> QED BY <2>1, <3>1, <3>2, <3>3, <3>4, <3>5, SameDb, SameMark, GoesOn
  <2> QED BY <1>1, <2>2, <2>3 DEF JobApply
<1>2. CASE JobSetActive
  <2> DEFINE d == [vol.db EXCEPT !.active = ctl.job.new]
  <2>1. ctl.pc = "setActive" /\ ctl.pc \in Working /\ "endpoint" \in Working \ {"setActive", "save"}
    BY <1>2 DEF JobSetActive, Controller, Working
  <2>2. CASE UNCHANGED vol /\ GivesUp("files")
    BY <2>1, <2>2, GoesBack, SameDb
  <2>3. CASE vol' = [vol EXCEPT !.db = d] /\ CtlGoto("endpoint")
    <3>1. ctl.job.new # None
      BY <2>1 DEF JobImported
    <3>2. /\ d \in DbRec /\ d.host = vol.db.host /\ d.active = ctl.job.new
          /\ d.pair = vol.db.pair /\ d.creds = vol.db.creds
      BY Fields DEF DbRec
    <3> HIDE DEF d
    <3>3. VolImported' /\ (Marked(vol)' <=> Marked(vol))
      BY <2>3, <3>1, <3>2, StillImported, DbStays
    <3> QED BY <2>1, <2>3, <3>3, GoesTo
  <2> QED BY <1>2, <2>2, <2>3 DEF JobSetActive
<1>3. CASE JobEndpoint
  <2>1. ctl.pc = "endpoint" /\ ctl.pc \in Working /\ "save" \in Working /\ vol' = vol
    BY <1>3 DEF JobEndpoint, Controller, Working
  <2>2. CASE GivesUp("all")
    BY <2>1, <2>2, GoesBack, SameDb
  <2>3. CASE ctl.job.kind = "tls" /\ CtlGoto("save")
    <3>1. ctl' = [pc |-> "save", job |-> ctl.job]
      BY <2>3 DEF CtlGoto, IInv, TypeInv
    <3> QED BY <2>1, <2>3, <3>1, SameDb, SameMark, GoesOn
  <2>4. CASE CtlServe
    BY <2>1, <2>4, SameDb, AtRest DEF CtlServe, Working
  <2> QED BY <1>3, <2>2, <2>3, <2>4 DEF JobEndpoint
<1>4. CASE SaveMetadata
  <2> DEFINE d == [vol.db EXCEPT !.pair = ctl.job.pair]
  <2>1. ctl.pc = "save" /\ ctl.pc \in Working
    BY <1>4 DEF SaveMetadata, Controller, Working
  <2>2. CASE UNCHANGED vol /\ GivesUp("all")
    BY <2>1, <2>2, GoesBack, SameDb
  <2>3. CASE vol' = [vol EXCEPT !.db = d] /\ CtlServe
    <3>1. ctl.job.pair # None
      BY <2>1 DEF JobImported
    <3>2. /\ d \in DbRec /\ d.host = vol.db.host /\ d.active = vol.db.active
          /\ d.pair = ctl.job.pair /\ d.creds = vol.db.creds
      BY Fields DEF DbRec
    <3> HIDE DEF d
    <3> QED BY <2>3, <3>1, <3>2, StillImported, DbStays, AtRest DEF CtlServe, Working
  <2> QED BY <1>4, <2>2, <2>3 DEF SaveMetadata
<1> QED BY <1>1, <1>2, <1>3, <1>4

\* The undo puts back a revision, and the row of a legacy user as it was.
LEMMA UndoImported ==
  ASSUME IInv, VolImported, JobImported,
         RollFiles \/ RollActive \/ UndoRow \/ BackConfig \/ BackPair \/ BackActive
  PROVE  VolImported' /\ JobImported'
<1>1. CASE RollFiles
  <2> DEFINE pc == IF ctl.job.undo = "files" THEN "undoRow" ELSE "rollActive"
  <2>1. ctl.pc \in Working /\ pc \in Working \ {"setActive", "save"} /\ CtlGoto(pc)
    BY <1>1 DEF RollFiles, Controller, Working
  <2>2. ConfigOnly(vol, vol')
    BY <1>1, Fields, RolledBackRec, ConfigSet DEF RollFiles
  <2> HIDE DEF pc
  <2> QED BY <2>1, <2>2, SameDb, SameMark, GoesTo
<1>2. CASE RollActive \/ BackActive
  <2> DEFINE d == [vol.db EXCEPT !.active = ctl.job.old]
  <2>1. ctl.pc \in Working /\ vol' = [vol EXCEPT !.db = d]
    BY <1>2 DEF RollActive, BackActive, Controller, Working
  <2>2. /\ d \in DbRec /\ d.host = vol.db.host /\ d.active = ctl.job.old
        /\ d.pair = vol.db.pair /\ d.creds = vol.db.creds
    BY Fields DEF DbRec
  <2>3. Marked(vol) => ctl.job.old # None
    BY <2>1 DEF JobImported
  <2> HIDE DEF d
  <2>4. VolImported' /\ (Marked(vol)' <=> Marked(vol))
    BY <2>1, <2>2, <2>3, StillImported, DbStays
  <2>5. CASE RollActive
    BY <2>1, <2>4, <2>5, GoesTo DEF RollActive, Working
  <2>6. CASE BackActive
    BY <2>4, <2>6, AtRest DEF BackActive, CtlServe, Working
  <2> QED BY <1>2, <2>5, <2>6, <2>4
<1>3. CASE UndoRow
  <2> DEFINE d == [vol.db EXCEPT !.creds[ctl.job.user] = ctl.job.before]
  <2>1. ctl.pc \in Working /\ vol' = [vol EXCEPT !.db = d] /\ CtlServe
    BY <1>3 DEF UndoRow, Controller, Working
  <2>2. /\ d \in DbRec /\ d.host = vol.db.host /\ d.active = vol.db.active /\ d.pair = vol.db.pair
        /\ d.creds = [vol.db.creds EXCEPT ![ctl.job.user] = ctl.job.before]
    BY Fields DEF DbRec, Creds, JobRec
  <2>3. Marked(vol) =>
          \A v \in LegacyUsers : vol.db.creds[v] # "absent" => d.creds[v] # "absent"
    BY <2>1, <2>2, Fields, DataDirectoryAssumption DEF JobImported, Creds
  <2> HIDE DEF d
  <2> QED BY <2>1, <2>2, <2>3, StillImported, DbStays, AtRest DEF CtlServe, Working
<1>4. CASE BackConfig
  <2>1. ctl.pc \in Working /\ "backPair" \in Working \ {"setActive", "save"} /\ CtlGoto("backPair")
    BY <1>4 DEF BackConfig, Controller, Working
  <2>2. ConfigOnly(vol, vol')
    BY <1>4, Fields, RestoredRec, ConfigSet DEF BackConfig
  <2> QED BY <2>1, <2>2, SameDb, SameMark, GoesTo
<1>5. CASE BackPair
  <2> DEFINE t == [vol.tls EXCEPT !.cur = ctl.job.oldPair]
  <2>1. ctl.pc \in Working /\ "backActive" \in Working \ {"setActive", "save"}
        /\ vol' = [vol EXCEPT !.tls = t]
    BY <1>5 DEF BackPair, Controller, Working
  <2>2. t \in TLSRec
    BY Fields DEF TLSRec
  <2> HIDE DEF t
  <2>3. TLSOnly(vol, vol')
    BY <2>1, <2>2, Fields, TLSSet
  <2>4. CASE CtlGoto("backActive")
    BY <2>1, <2>3, <2>4, SameDb, SameMark, GoesTo
  <2>5. CASE CtlServe
    BY <2>3, <2>5, SameDb, AtRest DEF CtlServe, Working
  <2> QED BY <1>5, <2>4, <2>5 DEF BackPair
<1> QED BY <1>1, <1>2, <1>3, <1>4, <1>5

LEMMA CtlImported ==
  ASSUME IInv, ImportHeld, CtlStep
  PROVE  ImportHeld'
<1>1. VolImported' /\ JobImported'
  BY BootImported, BeginImported, WorkImported, UndoImported DEF ImportHeld, CtlStep
<1>2. ctl.pc # "off" \/ lock = None
  BY DEF CtlStep, Controller, Acquire, CtlStart, BootSnapshot, BootApply, BootSetActive, UserWrite,
         PublishPair, JobApply, JobSetActive, JobEndpoint, SaveMetadata, RollFiles, RollActive,
         UndoRow, BackConfig, BackPair, BackActive, CtlEnd, IInv, BootHeld
<1>3. UNCHANGED <<mig, bak, archive>>
  BY DEF CtlStep, CtlOnly, BootOnly, CtlStart, BootSnapshot, BootApply, BootSetActive, UserWrite,
         PublishPair, JobApply, JobSetActive, JobEndpoint, SaveMetadata, RollFiles, RollActive,
         UndoRow, BackConfig, BackPair, BackActive, CtlEnd
<1>4. mig'.pc = "off"
  BY <1>2, <1>3, CtlAlone
<1>5. MigImported'
  BY <1>4 DEF MigImported
<1>6. BakImported' /\ ArchiveImported'
  BY <1>3 DEF ImportHeld, BakImported, ArchiveImported
<1> QED BY <1>1, <1>5, <1>6 DEF ImportHeld

\* While a migration is under way there is no marker, and nothing but the volume
\* and the migration changes.
LEMMA MigQuiet ==
  ASSUME IInv, ImportHeld, mig.pc # "off" \/ (lock = None /\ ~vol.marker),
         UNCHANGED <<ctl, bak, archive>>
  PROVE  JobImported' /\ BakImported' /\ ArchiveImported'
<1>1. ctl'.pc = "off" /\ ctl'.job = NoJob
  BY MigAlone
<1> QED BY <1>1, AtRest DEF Working, ImportHeld, BakImported, ArchiveImported

\* The import does one thing after the other, and the marker last.
LEMMA MigImportedStep ==
  ASSUME IInv, ImportHeld, MigStep
  PROVE  ImportHeld'
<1>1. /\ UNCHANGED <<ctl, bak, archive>>
      /\ mig.pc # "off" \/ (lock = None /\ ~vol.marker)
  BY DEF MigStep, MigOnly, Acquire, MigStart, MigHost, MigUser, MigImport, MigMetadata, MigApply,
         MigSetActive, MigMarker, MigEnd
<1>2. JobImported' /\ BakImported' /\ ArchiveImported'
  BY <1>1, MigQuiet
<1>3. ~vol.marker
  BY <1>1, MigAlone
<1>4. ASSUME vol'.marker = vol.marker PROVE VolImported'
  BY <1>3, <1>4 DEF VolImported, Marked
<1>5. /\ mig.pc \in MigPcs /\ mig.todo \subseteq Users
      /\ mig \in [pc : MigPcs, todo : SUBSET Users, new : RevOrNone] /\ MigImported
  BY Fields DEF IInv, TypeInv, ImportHeld
<1>6. CASE MigStart
  <2> DEFINE d == [vol.db EXCEPT !.is = TRUE]
  <2>1. vol' = [vol EXCEPT !.db = d] /\ d \in DbRec
    BY <1>6, Fields DEF MigStart, DbRec
  <2>2. mig'.pc = "host"
    BY <1>5, <1>6 DEF MigStart, MigGoto
  <2> HIDE DEF d
  <2> QED BY <1>2, <1>4, <2>1, <2>2, Fields, DbSet DEF ImportHeld, MigImported, DbOnly
<1>7. CASE MigHost
  <2> DEFINE d == [vol.db EXCEPT !.host = TRUE]
  <2>1. vol' = [vol EXCEPT !.db = d] /\ d \in DbRec /\ d.host
    BY <1>7, Fields DEF MigHost, DbRec
  <2>2. mig'.pc = "users" /\ mig'.todo = LegacyUsers
    BY <1>5, <1>7 DEF MigHost
  <2> HIDE DEF d
  <2>3. vol'.db = d /\ vol'.marker = vol.marker
    BY <2>1, Fields, DbSet DEF DbOnly
  <2> QED BY <1>2, <1>4, <2>1, <2>2, <2>3 DEF ImportHeld, MigImported
<1>8. ASSUME NEW u \in Users, MigUser(u) PROVE ImportHeld'
  <2> DEFINE d == [vol.db EXCEPT !.creds[u] = "legacy"]
             pc == IF mig.todo # {u} THEN "users"
                   ELSE IF LegacyPair = None THEN "apply" ELSE "import"
  <2>1. vol' = [vol EXCEPT !.db = d] /\ mig.pc = "users"
    BY <1>8 DEF MigUser
  <2>2. d \in DbRec /\ d.host = vol.db.host /\ d.creds = [vol.db.creds EXCEPT ![u] = "legacy"]
    BY Fields DEF DbRec, Creds
  <2>3. mig'.pc = pc /\ mig'.todo = mig.todo \ {u}
    BY <1>5, <1>8 DEF MigUser
  <2>4. vol.db.host /\ LegacyUsers \ mig.todo \subseteq Present(vol.db)
    BY <1>5, <2>1 DEF MigImported
  <2>5. LegacyUsers \ (mig.todo \ {u}) \subseteq Present(d)
    BY <2>2, <2>4, Fields, DataDirectoryAssumption DEF Present, Creds
  <2> HIDE DEF d
  <2>6. vol'.db = d /\ vol'.marker = vol.marker
    BY <2>1, <2>2, Fields, DbSet DEF DbOnly
  <2>7. Present(vol.db)' = Present(d)
    BY <2>6 DEF Present
  <2>8. MigImported'
    BY <2>2, <2>3, <2>4, <2>5, <2>6, <2>7 DEF MigImported
  <2> QED BY <1>2, <1>4, <2>6, <2>8 DEF ImportHeld
<1>9. CASE MigImport
  <2>1. mig.pc = "import" /\ vol' = [vol EXCEPT !.tls = Published(vol.tls, LegacyPair)]
    BY <1>9 DEF MigImport
  <2>2. LegacyPair \in Pairs
    BY <2>1, DataDirectoryAssumption DEF IInv, MigHeld
  <2>3. TLSOnly(vol, vol')
    BY <2>1, <2>2, Fields, PublishedRec, TLSSet
  <2>4. mig'.pc = "metadata" /\ mig'.todo = mig.todo
    BY <1>5, <1>9 DEF MigImport, MigGoto
  <2> QED BY <1>2, <1>4, <1>5, <2>1, <2>3, <2>4 DEF ImportHeld, MigImported, Present, TLSOnly
<1>10. CASE MigMetadata
  <2> DEFINE d == [vol.db EXCEPT !.pair = LegacyPair]
  <2>1. mig.pc = "metadata" /\ vol' = [vol EXCEPT !.db = d]
    BY <1>10 DEF MigMetadata
  <2>2. d \in DbRec /\ d.host = vol.db.host /\ d.creds = vol.db.creds /\ d.pair = LegacyPair
    BY Fields, DataDirectoryAssumption DEF DbRec, PairOrNone
  <2>3. mig'.pc = "apply" /\ mig'.todo = mig.todo
    BY <1>5, <1>10 DEF MigMetadata, MigGoto
  <2> HIDE DEF d
  <2>4. vol'.db = d /\ vol'.marker = vol.marker
    BY <2>1, <2>2, Fields, DbSet DEF DbOnly
  <2> QED BY <1>2, <1>4, <1>5, <2>1, <2>2, <2>3, <2>4 DEF ImportHeld, MigImported, Present
<1>11. CASE MigApply
  <2> DEFINE r == Render(vol.db, vol.db.pair)
  <2>1. mig.pc = "apply" /\ vol' = [vol EXCEPT !.config = Applied(vol.config, r)]
        /\ mig' = [mig EXCEPT !.pc = "setActive", !.new = r]
    BY <1>11 DEF MigApply
  <2>2. r \in Revs /\ r # None
    BY Fields, RenderRec, NoneAssumption
  <2> HIDE DEF r
  <2>3. ConfigOnly(vol, vol')
    BY <2>1, <2>2, Fields, AppliedRec, ConfigSet
  <2>4. mig'.pc = "setActive" /\ mig'.todo = mig.todo /\ mig'.new = r
    BY <1>5, <2>1
  <2> QED BY <1>2, <1>4, <1>5, <2>1, <2>2, <2>3, <2>4 DEF ImportHeld, MigImported, Present, ConfigOnly
<1>12. CASE MigSetActive
  <2> DEFINE d == [vol.db EXCEPT !.active = mig.new]
  <2>1. mig.pc = "setActive" /\ vol' = [vol EXCEPT !.db = d]
    BY <1>12 DEF MigSetActive
  <2>2. /\ d \in DbRec /\ d.host = vol.db.host /\ d.creds = vol.db.creds /\ d.pair = vol.db.pair
        /\ d.active = mig.new
    BY Fields DEF DbRec
  <2>3. mig'.pc = "marker" /\ mig'.todo = mig.todo
    BY <1>5, <1>12 DEF MigSetActive, MigGoto
  <2> HIDE DEF d
  <2>4. vol'.db = d /\ vol'.marker = vol.marker
    BY <2>1, <2>2, Fields, DbSet DEF DbOnly
  <2> QED BY <1>2, <1>4, <1>5, <2>1, <2>2, <2>3, <2>4 DEF ImportHeld, MigImported, Present
<1>13. CASE MigMarker
  <2>1. mig.pc = "marker" /\ vol' = [vol EXCEPT !.marker = TRUE] /\ mig'.pc = "off"
    BY <1>13 DEF MigMarker, MigOff
  <2>2. vol'.db = vol.db
    BY <2>1, Fields DEF VolRec
  <2>3. Imported(vol.db)
    BY <1>5, <2>1 DEF MigImported, Imported
  <2> QED BY <1>2, <2>1, <2>2, <2>3 DEF ImportHeld, VolImported, MigImported, Imported, Present
<1>14. CASE MigEnd
  BY <1>2, <1>4, <1>14 DEF MigEnd, MigOff, ImportHeld, MigImported
<1> QED BY <1>6, <1>7, <1>8, <1>9, <1>10, <1>11, <1>12, <1>13, <1>14 DEF MigStep

\* A backup of a volume without the marker has it only if a migration overtook
\* the backup.
LEMMA BackupImported ==
  ASSUME IInv, ImportHeld, BackupStep \/ Damage
  PROVE  ImportHeld'
<1>1. BakOnly
  BY DEF BackupStep, Damage, BackupDatabase, BackupCopy, BackupArchive, BackupEnd
<1>2. VolImported' /\ JobImported' /\ MigImported'
  BY <1>1 DEF BakOnly, ImportHeld, VolImported, JobImported, MigImported, Imported, Present, Marked
<1>3. ~Marked(EmptyVol)
  BY EmptyRec DEF Marked
<1>4. CASE BackupDatabase
  <2> DEFINE w == [EmptyVol EXCEPT !.db = vol.db, !.marker = vol.marker, !.origin = vol.origin]
  <2>1. bak'.work = w /\ archive' = archive
    BY <1>4 DEF BackupDatabase
  <2>2. w.db = vol.db /\ w.marker = vol.marker /\ w.origin = vol.origin
    BY EmptyRec DEF VolRec
  <2> HIDE DEF w
  <2> QED BY <1>2, <2>1, <2>2
      DEF ImportHeld, VolImported, BakImported, ArchiveImported, Marked, Imported, Present
<1>5. CASE BackupCopy
  <2> DEFINE w == bak.work
  <2>1. bak'.work = Copied(w, bak.pc) /\ bak'.work.db = w.db /\ archive' = archive
        /\ w \in VolRec /\ bak.pc \in DOMAIN BackupNext
    BY <1>5, CopyFacts DEF BackupCopy, IInv, TypeInv
  <2>2. bak'.work.origin = "whole" => bak'.work.marker = w.marker /\ w.origin = "whole"
    <3>1. CASE bak.pc = "marker"
      <4> DEFINE o == IF vol.marker # w.marker /\ w.origin = "whole" THEN "mixed" ELSE w.origin
      <4>1. bak'.work = [w EXCEPT !.marker = vol.marker, !.origin = o]
        BY <2>1, <3>1 DEF Copied, VolRec
      <4>2. bak'.work.marker = vol.marker /\ bak'.work.origin = o
        <5> HIDE DEF o
        <5> QED BY <2>1, <4>1 DEF VolRec
      <4> QED BY <4>2
    <3>2. CASE bak.pc # "marker"
      <4>1. bak.pc \in {"configCurrent", "configPrevious", "configRevs", "tlsCurrent", "tlsRevs"}
        BY <2>1, <3>2 DEF BackupNext
      <4>2. \/ \E c : bak'.work = [w EXCEPT !.config = c]
            \/ \E t : bak'.work = [w EXCEPT !.tls = t]
        BY <2>1, <4>1 DEF Copied
      <4> QED BY <2>1, <4>2 DEF VolRec
    <3> QED BY <3>1, <3>2
  <2> QED BY <1>2, <2>1, <2>2
      DEF ImportHeld, BakImported, ArchiveImported, Marked, Imported, Present
<1>6. CASE BackupArchive
  <2>1. archive'.content = bak.work /\ bak'.work = EmptyVol
    BY <1>6 DEF BackupArchive, BakOff
  <2> QED BY <1>2, <1>3, <2>1
      DEF ImportHeld, BakImported, ArchiveImported, Marked, Imported, Present
<1>7. CASE BackupEnd
  <2>1. archive' = archive /\ bak'.work = EmptyVol
    BY <1>7 DEF BackupEnd, BakOff
  <2> QED BY <1>2, <1>3, <2>1
      DEF ImportHeld, BakImported, ArchiveImported, Marked
<1>8. CASE Damage
  <2>1. archive'.content = archive.content /\ bak' = bak
    BY <1>8 DEF Damage, IInv, TypeInv
  <2> QED BY <1>2, <2>1
      DEF ImportHeld, BakImported, ArchiveImported, Marked, Imported, Present
<1> QED BY <1>4, <1>5, <1>6, <1>7, <1>8 DEF BackupStep

\* With its last rename a restore is what the archive was.
LEMMA RestoreImported ==
  ASSUME IInv, ImportHeld, RestoreStep
  PROVE  ImportHeld'
<1>1. ResOnly
  BY DEF RestoreStep, RestoreStart, RestoreVerify, RestoreMove, RestoreEnd
<1>2. BakImported' /\ ArchiveImported'
  BY <1>1 DEF ResOnly, ImportHeld, BakImported, ArchiveImported
<1>3. res.pc # "off" \/ (target /\ lock = None /\ ~vol.marker)
  BY EmptyRec DEF RestoreStep, RestoreStart, RestoreVerify, RestoreMove, RestoreEnd, Acquire
<1>4. ctl.pc = "off" /\ mig.pc = "off" /\ ctl.job = NoJob
  BY <1>3, ResAlone
<1>5. JobImported' /\ MigImported'
  BY <1>1, <1>4, AtRest DEF ResOnly, Working, MigImported
<1>6. CASE RestoreStart
  <2>1. vol' = [vol EXCEPT !.scrap = TRUE] /\ ~vol.marker
    BY <1>6, EmptyRec DEF RestoreStart
  <2>2. ~vol'.marker
    BY <2>1, Fields DEF VolRec
  <2> QED BY <1>2, <1>5, <2>2 DEF ImportHeld, VolImported, Marked
<1>7. CASE RestoreVerify
  BY <1>2, <1>5, <1>7, SameDb DEF RestoreVerify, ImportHeld
<1>8. CASE RestoreMove
  <2>1. IInv'
    BY <1>8, RestoreMoveIInv
  <2> DEFINE pc == IF res.moved + 1 = 4 THEN "restored" ELSE "move"
  <2>2. /\ res' = [res EXCEPT !.moved = res.moved + 1, !.pc = pc]
        /\ vol' = [vol EXCEPT ![Entries[res.moved + 1]] = archive.content[Entries[res.moved + 1]],
                     !.origin = IF res.moved + 1 = 4 THEN archive.content.origin ELSE "torn"]
        /\ archive' = archive
    BY <1>1, <1>8, EntriesAre DEF RestoreMove, ResOnly
  <2>3. vol'.origin = IF res.moved + 1 = 4 THEN archive.content.origin ELSE "torn"
    <3> DEFINE o == IF res.moved + 1 = 4 THEN archive.content.origin ELSE "torn"
    <3>1. vol' = [[vol EXCEPT ![Entries[res.moved + 1]] = archive.content[Entries[res.moved + 1]]]
                    EXCEPT !.origin = o]
      BY <2>2
    <3> HIDE DEF o
    <3> QED BY <3>1, Fields DEF VolRec, o
  <2>4. CASE res.moved + 1 # 4
    BY <1>2, <1>5, <2>3, <2>4 DEF ImportHeld, VolImported, Marked
  <2>5. CASE res.moved + 1 = 4
    <3>1. res'.moved = 4
      <4> HIDE DEF pc
      <4> QED BY <2>2, <2>5 DEF IInv, TypeInv
    <3>2. \A i \in 1..4 : vol'[Entries[i]] = archive.content[Entries[i]]
      <4>1. \A i \in 1..4 : i <= res'.moved => vol'[Entries[i]] = archive'.content[Entries[i]]
        BY <2>1 DEF IInv, ResHeld, Entries
      <4>2. archive' = archive
        BY <2>2
      <4> QED BY <3>1, <4>1, <4>2
    <3>3. vol'.db = archive.content.db /\ vol'.marker = archive.content.marker
          /\ vol'.origin = archive.content.origin
      BY <2>3, <2>5, <3>2, EntriesAre
    <3> QED BY <1>2, <1>5, <3>3
        DEF ImportHeld, VolImported, ArchiveImported, Marked, Imported, Present
  <2> QED BY <2>4, <2>5
<1>9. CASE RestoreEnd
  <2>1. PICK scrap : vol' = [vol EXCEPT !.scrap = scrap]
    BY <1>9 DEF RestoreEnd
  <2>2. vol'.db = vol.db /\ vol'.marker = vol.marker /\ vol'.origin = vol.origin
    BY <2>1, Fields DEF VolRec
  <2> QED BY <1>2, <1>5, <2>2 DEF ImportHeld, VolImported, Marked, Imported, Present
<1> QED BY <1>6, <1>7, <1>8, <1>9 DEF RestoreStep

LEMMA NewVolumeImported ==
  ASSUME IInv, ImportHeld, NewVolume
  PROVE  ImportHeld'
<1>1. lock = None /\ vol' = EmptyVol /\ UNCHANGED <<ctl, mig, bak, archive>>
  BY DEF NewVolume
<1>2. ctl.pc = "off" /\ mig.pc = "off" /\ ctl.job = NoJob
  BY <1>1, DataDirectoryAssumption DEF IInv, Locked, JobHeld
<1>3. VolImported'
  BY <1>1, EmptyRec DEF VolImported, Marked
<1>4. JobImported' /\ MigImported'
  BY <1>1, <1>2, AtRest DEF Working, MigImported
<1> QED BY <1>1, <1>3, <1>4 DEF ImportHeld, BakImported, ArchiveImported

LEMMA ImportInvariance == Spec => []ImportHeld
<1>1. Init => ImportHeld
  <2> SUFFICES ASSUME Init PROVE ImportHeld
    OBVIOUS
  <2>1. vol = EmptyVol /\ bak.work = EmptyVol /\ archive.content = EmptyVol
    BY DEF Init, BakOff, NoArchive
  <2>2. VolImported /\ BakImported /\ ArchiveImported
    BY <2>1, EmptyRec DEF VolImported, BakImported, ArchiveImported, Marked
  <2>3. JobImported /\ MigImported
    BY DEF Init, CtlOff, MigOff, NoJob, JobImported, MigImported, Working
  <2> QED BY <2>2, <2>3 DEF ImportHeld
<1>2. IInv /\ ImportHeld /\ [Next]_vars => ImportHeld'
  <2>1. ASSUME ImportHeld, UNCHANGED vars PROVE ImportHeld'
    BY <2>1 DEF vars, ImportHeld, VolImported, JobImported, MigImported, BakImported,
                ArchiveImported
  <2> QED BY <2>1, CtlImported, MigImportedStep, BackupImported, RestoreImported, NewVolumeImported
      DEF Next
<1> QED BY <1>1, <1>2, Invariance, PTL DEF Spec

\* Where the marker of the import is, the import is complete (migration.Run and
\* writeMarker), whatever operations fail, commands are killed, and backups are
\* taken and restored.
THEOREM MarkerAlwaysMeansImported == Spec => []MarkerMeansImported
<1>1. ImportHeld => MarkerMeansImported
  BY DEF ImportHeld, VolImported, Marked, Imported, MarkerMeansImported
<1> QED BY <1>1, ImportInvariance, PTL
=============================================================================
