------------------------ MODULE CertLifecycleProofs ------------------------
(***************************************************************************)
(* Theorems about CertLifecycle, for every set of hostnames, requests and  *)
(* faults.                                                                 *)
(***************************************************************************)
EXTENDS CertLifecycle, TLAPS

\* What an operation knows while it holds Manager.mu.  Nobody else writes the
\* row, so the records it works on (cur, next) still hold the pair of the row,
\* and the pair it is about to confirm is one of the source and hostname that
\* it is going to write.
InFlight == {"obtain", "publish", "save", "fail"}
OpCarriesPair ==
  /\ op.pc \in InFlight => op.next.pair = meta.pair
  /\ op.pc \in InFlight \ {"fail"} => op.cur.pair = meta.pair
BundleFits ==
  op.pc \in {"publish", "save"} =>
    /\ op.bundle \in PairRec
    /\ op.bundle.source = op.next.source
    /\ op.bundle.host = op.next.host
    /\ op.bundle.age # "expired"
OrderFits ==
  /\ op.pc = "obtain" => op.next.source = "letsencrypt" /\ op.next.host \in Hosts
  /\ op.pc = "decide" => meta.host \in Hosts
  /\ op.pc = "issue" => op.host \in Hosts
  /\ op.pc = "settings" => op.host \in Hosts
MountedProvided == mounted # NoPair => mounted \in PairRec /\ mounted.source = "provided"

OpInv == OpCarriesPair /\ BundleFits /\ OrderFits
IInv == TypeOK /\ ActiveCoversHost /\ OpInv /\ MountedProvided

\* NoPair is not a pair, and ageing a pair leaves its source and hostname.
LEMMA PairFacts ==
  /\ NoPair \notin PairRec
  /\ \A q \in PairRec : /\ Older(q) \in PairRec
                        /\ Older(q).source = q.source /\ Older(q).host = q.host
  /\ Older(NoPair) = NoPair
  /\ NoPair \in Pairs /\ PairRec \subseteq Pairs
  BY DEF NoPair, PairRec, Sources, Selectable, Ages, Older, Pairs

\* The empty row and the idle operation are well formed.
LEMMA Constants ==
  /\ Nothing \in MetaRec /\ Nothing.state = "unconfigured" /\ Nothing.pair = NoPair
  /\ Idle \in OpRec /\ Idle.pc = "idle" /\ None \in Names /\ None \notin Hosts /\ Hosts \subseteq Names
  <1>1. Nothing \in MetaRec /\ Nothing.state = "unconfigured" /\ Nothing.pair = NoPair
    BY PairFacts DEF Nothing, MetaRec, States, Sources, Selectable, Names
  <1>2. Idle \in OpRec /\ Idle.pc = "idle"
    BY <1>1, PairFacts DEF Idle, OpRec, Pcs, Names
  <1> QED
    BY <1>1, <1>2, LifecycleAssumption DEF Names

\* The row of a migrated installation is well formed, and its pair is for its hostname.
LEMMA MigratedRow ==
  ASSUME NEW h \in Hosts
  PROVE  /\ Migrated(h) \in MetaRec /\ Migrated(h).host = h
         /\ Migrated(h).pair \in PairRec /\ Migrated(h).pair.host = h
  BY Constants DEF Migrated, MetaRec, States, Sources, Selectable, Names, Pairs, PairRec, Ages

\* A row in another state, and an operation at another step, are well formed.
LEMMA RowState ==
  ASSUME NEW m \in MetaRec, NEW st \in States
  PROVE  LET n == [m EXCEPT !.state = st] IN
         /\ n \in MetaRec /\ n.state = st
         /\ n.source = m.source /\ n.host = m.host /\ n.pair = m.pair
  BY DEF MetaRec
LEMMA OpStepped ==
  ASSUME NEW o \in OpRec, NEW pc \in Pcs
  PROVE  LET n == [o EXCEPT !.pc = pc] IN
         /\ n \in OpRec /\ n.pc = pc /\ n.live = o.live
         /\ n.host = o.host /\ n.cur = o.cur /\ n.next = o.next /\ n.bundle = o.bundle
  BY DEF OpRec

\* The counter of faults stays within its bound.
LEMMA FaultBound ==
  ASSUME faults \in 0..MaxFaults
  PROVE  /\ \A kind : Fault(kind) => faults' \in 0..MaxFaults
         /\ NoFault => faults' \in 0..MaxFaults
         /\ Works => faults' \in 0..MaxFaults
         /\ \A kind : Fails(kind) => faults' \in 0..MaxFaults
  BY LifecycleAssumption DEF Fault, NoFault, Works, Fails

\* The invariant holds at the start.
LEMMA InitIInv == Init => IInv
  <1> SUFFICES ASSUME Init PROVE IInv
    OBVIOUS
  <1>1. TypeOK
    <2>1. faults \in 0..MaxFaults
      BY LifecycleAssumption DEF Init
    <2>2. up \in BOOLEAN /\ apart \in BOOLEAN
      BY Zenon DEF Init
    <2>3. meta \in MetaRec /\ hostname \in Names /\ viewed \in Names /\ op \in OpRec /\ mounted \in Pairs
      BY Constants, MigratedRow, PairFacts DEF Init
    <2> QED
      BY <2>1, <2>2, <2>3 DEF TypeOK
  <1>2. ActiveCoversHost /\ MountedProvided
    BY Constants, MigratedRow, PairFacts DEF Init, ActiveCoversHost, MountedProvided
  <1>3. OpCarriesPair /\ BundleFits /\ OrderFits
    BY Constants DEF Init, OpCarriesPair, BundleFits, OrderFits, InFlight
  <1> QED
    BY <1>1, <1>2, <1>3 DEF IInv, OpInv

\* An operation that has not begun its work, or has ended, owes nothing.
Resting == {"idle", "ensure", "renew", "seed"}
LEMMA RestingOp == op'.pc \in Resting => OpInv'
  BY DEF Resting, OpInv, OpCarriesPair, BundleFits, OrderFits, InFlight

\* Writing the row and going on, or giving up.
LEMMA Written ==
  ASSUME TypeOK, NEW rec \in MetaRec, NEW next \in OpRec, WriteThen(rec, next)
  PROVE  /\ meta' \in MetaRec /\ op' \in OpRec /\ faults' \in 0..MaxFaults
         /\ (meta' = rec /\ op' = next) \/ (meta' = meta /\ op' = Idle)
  <1>1. (meta' = rec /\ op' = next) \/ (meta' = meta /\ op' = Idle)
    BY DEF WriteThen, Release
  <1>2. faults' \in 0..MaxFaults
    BY FaultBound DEF WriteThen, TypeOK
  <1> QED
    BY <1>1, <1>2, Constants DEF TypeOK

\* The steps of Ensure keep the invariant.
LEMMA EnsureIInv == IInv /\ EnsureStep => IInv'
  <1> SUFFICES ASSUME IInv, EnsureStep PROVE IInv'
    OBVIOUS
  <1>0. /\ TypeOK /\ meta \in MetaRec /\ op \in OpRec /\ faults \in 0..MaxFaults /\ up \in BOOLEAN
    BY DEF IInv, TypeOK
  <1>a. \A pc \in Pcs : [op EXCEPT !.pc = pc] \in OpRec /\ [op EXCEPT !.pc = pc].pc = pc
    BY <1>0, OpStepped
  <1>b. \A st \in States :
          /\ InState(st) \in MetaRec /\ InState(st).state = st /\ InState(st).pair = meta.pair
          /\ InState(st).host = meta.host /\ InState(st).source = meta.source
    BY <1>0, RowState DEF InState
  <1>1. CASE EnsureMark
    <2>1. CASE UNCHANGED <<meta, faults>> /\ op' \in {Idle, [op EXCEPT !.pc = "decide"]} /\ (op' # Idle => meta.host # None)
      <3>1. TypeOK'
        BY <1>0, <1>a, <1>1, <2>1, Constants DEF TypeOK, EnsureMark, Pcs
      <3>2. OpInv'
        BY <1>0, <1>a, <2>1, Constants DEF OpInv, OpCarriesPair, BundleFits, OrderFits, InFlight, Pcs, TypeOK, MetaRec, Names
      <3> QED
        BY <1>1, <2>1, <3>1, <3>2 DEF IInv, ActiveCoversHost, MountedProvided, EnsureMark
    <2>2. CASE meta.host # None /\ WriteThen(InState("degraded"), [op EXCEPT !.pc = "decide"])
      <3>1. /\ meta' \in MetaRec /\ op' \in OpRec /\ faults' \in 0..MaxFaults
            /\ \/ meta' = InState("degraded") /\ op' = [op EXCEPT !.pc = "decide"]
               \/ meta' = meta /\ op' = Idle
        BY <1>0, <1>a, <1>b, <2>2, Written DEF States, Pcs
      <3>2. TypeOK'
        BY <1>0, <1>1, <3>1 DEF TypeOK, EnsureMark
      <3>3. ActiveCoversHost'
        BY <1>0, <1>b, <3>1 DEF IInv, ActiveCoversHost, States
      <3>4. OpInv'
        BY <1>0, <1>a, <1>b, <2>2, <3>1, Constants DEF OpInv, OpCarriesPair, BundleFits, OrderFits, InFlight, Pcs, States, MetaRec, Names
      <3> QED
        BY <1>1, <3>2, <3>3, <3>4 DEF IInv, MountedProvided, EnsureMark
    <2> QED
      BY <1>1, <2>1, <2>2, Constants DEF EnsureMark, Release, Goto, NoFault
  <1>2. CASE EnsureKeep
    <2>1. /\ meta' \in MetaRec /\ op' = Idle /\ faults' \in 0..MaxFaults
          /\ meta' \in {InState("active"), meta}
      BY <1>0, <1>b, <1>2, Written, Constants DEF EnsureKeep, States
    <2>2. TypeOK'
      BY <1>0, <1>2, <2>1, Constants DEF TypeOK, EnsureKeep
    <2>3. ActiveCoversHost'
      BY <1>0, <1>b, <1>2, <2>1 DEF IInv, ActiveCoversHost, EnsureKeep, Keep, Valid, Published, States
    <2> QED
      BY <1>2, <2>1, <2>2, <2>3, RestingOp, Constants DEF IInv, MountedProvided, EnsureKeep, Resting
  <1>3. CASE EnsureACME
    <2>1. meta.host \in Hosts /\ meta.host \in Names
      BY <1>3, Constants DEF EnsureACME, IInv, OpInv, OrderFits
    <2>2. /\ op' \in OpRec
          /\ op'.pc = "renew" \/ (op'.pc = "issue" /\ op'.host = meta.host)
      BY <1>0, <1>3, <2>1 DEF EnsureACME, OpRec, Pcs
    <2>3. TypeOK'
      BY <1>0, <1>3, <2>2 DEF TypeOK, EnsureACME
    <2>4. OpInv'
      BY <1>3, <2>1, <2>2 DEF EnsureACME, OpInv, OpCarriesPair, BundleFits, OrderFits, InFlight
    <2> QED
      BY <1>3, <2>3, <2>4 DEF IInv, ActiveCoversHost, MountedProvided, EnsureACME
  <1>4. ASSUME NEW bundle \in PairRec, EnsureUnmanaged(bundle),
               bundle.source = meta.source, bundle.host = meta.host, bundle.age # "expired"
        PROVE  IInv'
    <2> DEFINE next == [op EXCEPT !.pc = "publish", !.cur = meta, !.next = Working, !.bundle = bundle]
    <2>1. /\ Working \in MetaRec /\ Working.pair = meta.pair /\ Working.host = meta.host
          /\ Working.source = meta.source /\ Working.state # "active"
      BY <1>0, <1>b DEF Working, States
    <2>2. /\ next \in OpRec /\ next.pc = "publish" /\ next.cur = meta /\ next.next = Working
          /\ next.bundle = bundle
      BY <1>0, <1>4, <2>1, PairFacts DEF OpRec, Pcs
    <2>3. /\ meta' \in MetaRec /\ op' \in OpRec /\ faults' \in 0..MaxFaults
          /\ (meta' = Working /\ op' = next) \/ (meta' = meta /\ op' = Idle)
      BY <1>0, <1>4, <2>1, <2>2, Written DEF EnsureUnmanaged
    <2> HIDE DEF next
    <2>4. TypeOK'
      BY <1>0, <1>4, <2>3 DEF TypeOK, EnsureUnmanaged
    <2>5. ActiveCoversHost'
      BY <2>1, <2>3 DEF IInv, ActiveCoversHost
    <2>6. OpInv'
      BY <1>4, <2>1, <2>2, <2>3, Constants DEF OpInv, OpCarriesPair, BundleFits, OrderFits, InFlight
    <2> QED
      BY <1>4, <2>4, <2>5, <2>6 DEF IInv, MountedProvided, EnsureUnmanaged
  <1>5. CASE EnsureSelfSigned
    <2> DEFINE bundle == [source |-> "self-signed", host |-> meta.host, age |-> "fresh"]
    <2>1. meta.host \in Hosts
      BY <1>5 DEF EnsureSelfSigned, EnsureUnmanaged, IInv, OpInv, OrderFits
    <2>2. bundle \in PairRec
      BY <2>1 DEF PairRec, Sources, Selectable, Ages
    <2> QED
      BY <1>4, <1>5, <2>2 DEF EnsureSelfSigned
  <1>6. CASE EnsureProvided
    BY <1>4, <1>6 DEF EnsureProvided, Valid, IInv, MountedProvided
  <1>7. CASE EnsureProvidedFails
    <2>1. op' \in OpRec /\ op'.pc = "fail" /\ op'.next = meta
      BY <1>0, <1>7 DEF EnsureProvidedFails, OpRec, Pcs
    <2>2. TypeOK'
      BY <1>0, <1>7, <2>1 DEF TypeOK, EnsureProvidedFails
    <2>3. OpInv'
      BY <1>7, <2>1 DEF EnsureProvidedFails, OpInv, OpCarriesPair, BundleFits, OrderFits, InFlight
    <2> QED
      BY <1>7, <2>2, <2>3 DEF IInv, ActiveCoversHost, MountedProvided, EnsureProvidedFails
  <1> QED
    BY <1>1, <1>2, <1>3, <1>5, <1>6, <1>7 DEF EnsureStep

\* The steps of issue, renew and publishUnmanaged keep the invariant.
WorkStep == Issue \/ Renew \/ Obtain \/ Publish \/ SaveMetadata \/ Fail
LEMMA WorkIInv == IInv /\ WorkStep => IInv'
  <1> SUFFICES ASSUME IInv, WorkStep PROVE IInv'
    OBVIOUS
  <1>0. /\ TypeOK /\ meta \in MetaRec /\ op \in OpRec /\ faults \in 0..MaxFaults /\ up \in BOOLEAN
    BY DEF IInv, TypeOK
  <1>a. \A pc \in Pcs : LET n == [op EXCEPT !.pc = pc] IN
          /\ n \in OpRec /\ n.pc = pc
          /\ n.host = op.host /\ n.cur = op.cur /\ n.next = op.next /\ n.bundle = op.bundle
    BY <1>0, OpStepped
  <1>b. op.host \in Names /\ op.cur \in MetaRec /\ op.next \in MetaRec /\ op.bundle \in Pairs
    BY <1>0 DEF OpRec
  <1>1. ASSUME NEW rec \in MetaRec, rec.pair = meta.pair, rec.state # "active",
               rec.source = "letsencrypt", rec.host \in Hosts,
               WriteThen(rec, [op EXCEPT !.pc = "obtain", !.cur = meta, !.next = rec]),
               UNCHANGED <<hostname, viewed, mounted, up>>, apart' \in BOOLEAN
        PROVE  IInv'
    <2> DEFINE next == [op EXCEPT !.pc = "obtain", !.cur = meta, !.next = rec]
    <2>1. next \in OpRec /\ next.pc = "obtain" /\ next.cur = meta /\ next.next = rec
      BY <1>0, <1>1 DEF OpRec, Pcs
    <2>2. /\ meta' \in MetaRec /\ op' \in OpRec /\ faults' \in 0..MaxFaults
          /\ (meta' = rec /\ op' = next) \/ (meta' = meta /\ op' = Idle)
      BY <1>0, <1>1, <2>1, Written
    <2> HIDE DEF next
    <2>3. TypeOK'
      BY <1>0, <1>1, <2>2 DEF TypeOK
    <2>4. ActiveCoversHost'
      BY <1>1, <2>2 DEF IInv, ActiveCoversHost
    <2>5. OpInv'
      BY <1>1, <2>1, <2>2, Constants DEF OpInv, OpCarriesPair, BundleFits, OrderFits, InFlight
    <2> QED
      BY <1>1, <2>3, <2>4, <2>5 DEF IInv, MountedProvided
  <1>2. ASSUME Release, NoFault, UNCHANGED <<meta, hostname, viewed, mounted, up>>, apart' \in BOOLEAN
        PROVE  IInv'
    <2>1. TypeOK'
      BY <1>0, <1>2, Constants DEF TypeOK, Release, NoFault
    <2>2. OpInv'
      BY <1>2, RestingOp, Constants DEF Release, Resting
    <2> QED
      BY <1>2, <2>1, <2>2 DEF IInv, ActiveCoversHost, MountedProvided
  <1>3. CASE Issue
    <2> DEFINE rec == [InState("issuing") EXCEPT !.host = op.host]
    <2>1. op.host \in Hosts
      BY <1>3 DEF Issue, IInv, OpInv, OrderFits
    <2>2. /\ rec \in MetaRec /\ rec.pair = meta.pair /\ rec.state = "issuing"
          /\ rec.source = meta.source /\ rec.host = op.host
      BY <1>0, <1>b DEF InState, MetaRec, States
    <2>a. apart' \in BOOLEAN
      BY <1>3, Zenon DEF Issue
    <2>3. CASE meta.source = "letsencrypt" /\ MayIssue
      BY <1>1, <1>3, <2>1, <2>2, <2>3, <2>a DEF Issue
    <2> QED
      BY <1>2, <1>3, <2>3, <2>a DEF Issue
  <1>4. CASE Renew
    <2> DEFINE rec == InState("renewing")
    <2>1. /\ rec \in MetaRec /\ rec.pair = meta.pair /\ rec.state = "renewing"
          /\ rec.source = meta.source /\ rec.host = meta.host /\ meta.host \in Names
      BY <1>0 DEF InState, MetaRec, States
    <2>a. apart' \in BOOLEAN
      BY <1>0, <1>4 DEF Renew, TypeOK
    <2>2. CASE meta.source = "letsencrypt" /\ meta.host # None /\ MayRenew
      BY <1>1, <1>4, <2>1, <2>2, <2>a DEF Renew, Names
    <2> QED
      BY <1>2, <1>4, <2>2, <2>a DEF Renew
  <1>5. ASSUME op.pc \in InFlight, op' = [op EXCEPT !.pc = "fail"],
               faults' \in 0..MaxFaults, UNCHANGED <<meta, hostname, viewed, mounted, up, apart>>
        PROVE  IInv'
    <2>1. op' \in OpRec /\ op'.pc = "fail" /\ op'.next = op.next
      BY <1>a, <1>5 DEF Pcs
    <2>2. TypeOK'
      BY <1>0, <1>5, <2>1 DEF TypeOK
    <2>3. OpInv'
      BY <1>5, <2>1 DEF IInv, OpInv, OpCarriesPair, BundleFits, OrderFits, InFlight
    <2> QED
      BY <1>5, <2>2, <2>3 DEF IInv, ActiveCoversHost, MountedProvided
  <1>6. CASE Obtain
    <2>1. faults' \in 0..MaxFaults
      BY <1>0, <1>6, FaultBound DEF Obtain
    <2>2. CASE op' = [op EXCEPT !.pc = "publish",
                                !.bundle = [source |-> "letsencrypt", host |-> op.next.host, age |-> "fresh"]]
      <3> DEFINE b == [source |-> "letsencrypt", host |-> op.next.host, age |-> "fresh"]
      <3>1. op.next.source = "letsencrypt" /\ op.next.host \in Hosts
        BY <1>6 DEF Obtain, IInv, OpInv, OrderFits
      <3>2. b \in PairRec /\ b.source = "letsencrypt" /\ b.host = op.next.host /\ b.age = "fresh"
        BY <3>1 DEF PairRec, Sources, Selectable, Ages
      <3> HIDE DEF b
      <3>3. /\ op' \in OpRec /\ op'.pc = "publish" /\ op'.bundle = b
            /\ op'.next = op.next /\ op'.cur = op.cur
        BY <1>0, <2>2, <3>2, PairFacts DEF OpRec, Pcs, b
      <3>4. TypeOK'
        BY <1>0, <1>6, <2>1, <3>3 DEF TypeOK, Obtain
      <3>5. OpInv'
        BY <1>6, <3>1, <3>2, <3>3 DEF Obtain, IInv, OpInv, OpCarriesPair, BundleFits, OrderFits, InFlight
      <3> QED
        BY <1>6, <3>4, <3>5 DEF IInv, ActiveCoversHost, MountedProvided, Obtain
    <2> QED
      BY <1>5, <1>6, <2>1, <2>2 DEF Obtain, Goto, InFlight
  <1>7. CASE Publish
    <2>1. faults' \in 0..MaxFaults
      BY <1>0, <1>7, FaultBound DEF Publish
    <2>2. CASE op' = [op EXCEPT !.pc = "save"]
      <3>1. /\ op' \in OpRec /\ op'.pc = "save" /\ op'.next = op.next /\ op'.cur = op.cur
            /\ op'.bundle = op.bundle
        BY <1>a, <2>2 DEF Pcs
      <3>2. TypeOK'
        BY <1>0, <1>7, <2>1, <3>1 DEF TypeOK, Publish
      <3>3. OpInv'
        BY <1>7, <3>1 DEF Publish, IInv, OpInv, OpCarriesPair, BundleFits, OrderFits, InFlight
      <3> QED
        BY <1>7, <3>2, <3>3 DEF IInv, ActiveCoversHost, MountedProvided, Publish
    <2> QED
      BY <1>5, <1>7, <2>1, <2>2 DEF Publish, Goto, InFlight
  <1>8. CASE SaveMetadata
    <2>1. faults' \in 0..MaxFaults
      BY <1>0, <1>8, FaultBound DEF SaveMetadata
    <2>2. CASE meta' = Confirmed /\ op' = Idle
      <3>1. /\ meta' \in MetaRec /\ meta'.pair = op.bundle /\ meta'.host = op.next.host
        BY <1>b, <2>2 DEF Confirmed, MetaRec, States
      <3>2. TypeOK'
        BY <1>0, <1>8, <2>1, <2>2, <3>1, Constants DEF TypeOK, SaveMetadata
      <3>3. ActiveCoversHost'
        BY <1>8, <3>1, PairFacts DEF SaveMetadata, IInv, OpInv, BundleFits, ActiveCoversHost
      <3> QED
        BY <1>8, <2>2, <3>2, <3>3, RestingOp, Constants DEF IInv, MountedProvided, SaveMetadata, Resting
    <2>3. CASE meta' = meta /\ op' = [op EXCEPT !.pc = "fail", !.next = op.cur]
      <3>1. op' \in OpRec /\ op'.pc = "fail" /\ op'.next = op.cur
        BY <1>0, <1>b, <2>3 DEF OpRec, Pcs
      <3>2. TypeOK'
        BY <1>0, <1>8, <2>1, <2>3, <3>1 DEF TypeOK, SaveMetadata
      <3>3. OpInv'
        BY <1>8, <2>3, <3>1 DEF SaveMetadata, IInv, OpInv, OpCarriesPair, BundleFits, OrderFits, InFlight
      <3> QED
        BY <1>8, <2>3, <3>2, <3>3 DEF IInv, ActiveCoversHost, MountedProvided, SaveMetadata
    <2> QED
      BY <1>8, <2>2, <2>3 DEF SaveMetadata, Release
  <1>9. CASE Fail
    <2>1. faults' \in 0..MaxFaults
      BY <1>0, <1>9, FaultBound DEF Fail
    <2>2. /\ FailedRecord \in MetaRec /\ FailedRecord.state = "degraded"
          /\ meta' \in {FailedRecord, meta} /\ op' = Idle
      BY <1>b, <1>9 DEF Fail, Release, FailedRecord, MetaRec, States
    <2>3. TypeOK'
      BY <1>0, <1>9, <2>1, <2>2, Constants DEF TypeOK, Fail
    <2>4. ActiveCoversHost'
      BY <2>2 DEF IInv, ActiveCoversHost
    <2> QED
      BY <1>9, <2>2, <2>3, <2>4, RestingOp, Constants DEF IInv, MountedProvided, Fail, Resting
  <1> QED
    BY <1>3, <1>4, <1>6, <1>7, <1>8, <1>9 DEF WorkStep

\* The requests, the settings and the seeding keep the invariant.
LEMMA RequestIInv ==
  ASSUME IInv,
         \/ Ensure \/ RequestIssue \/ LockIssue \/ RequestRenew \/ SetHostname \/ Seed
         \/ \E s \in Selectable, h \in Hosts : RequestSave(s, h) \/ Start(s, h)
  PROVE  IInv'
  <1>0. /\ TypeOK /\ meta \in MetaRec /\ op \in OpRec /\ faults \in 0..MaxFaults /\ up \in BOOLEAN
        /\ viewed \in Names /\ hostname \in Names
    BY DEF IInv, TypeOK
  <1>a. op.host \in Names /\ meta.host \in Names /\ meta.pair \in Pairs
    BY <1>0 DEF OpRec, MetaRec
  <1>s. Selectable \subseteq Sources
    BY DEF Sources
  <1>b. \A pc \in Pcs : [Idle EXCEPT !.pc = pc] \in OpRec /\ [Idle EXCEPT !.pc = pc].pc = pc
    BY Constants, OpStepped
  <1>1. CASE Ensure \/ RequestRenew
    <2>1. /\ op' \in OpRec /\ op'.pc \in Resting
          /\ UNCHANGED <<meta, hostname, viewed, mounted, up, faults, apart>>
      BY <1>1, <1>b DEF Ensure, RequestRenew, Pcs, Resting
    <2>2. TypeOK'
      BY <1>0, <2>1 DEF TypeOK
    <2> QED
      BY <2>1, <2>2, RestingOp DEF IInv, ActiveCoversHost, MountedProvided
  <1>2. CASE RequestIssue
    <2>1. TypeOK'
      BY <1>0, <1>2, <1>a DEF RequestIssue, TypeOK
    <2> QED
      BY <1>2, <2>1 DEF RequestIssue, IInv, ActiveCoversHost, MountedProvided, OpInv,
           OpCarriesPair, BundleFits, OrderFits
  <1>3. CASE LockIssue
    <2>1. op' \in OpRec /\ op'.pc = "issue" /\ op'.host = viewed /\ viewed \in Hosts
      BY <1>0, <1>3, Constants DEF LockIssue, OpRec, Pcs, Names
    <2>2. TypeOK'
      BY <1>0, <1>3, <2>1, Constants DEF LockIssue, TypeOK
    <2>3. OpInv'
      BY <2>1 DEF OpInv, OpCarriesPair, BundleFits, OrderFits, InFlight
    <2> QED
      BY <1>3, <2>2, <2>3 DEF LockIssue, IInv, ActiveCoversHost, MountedProvided
  <1>4. CASE SetHostname
    <2>1. op' = Idle /\ hostname' \in Names /\ faults' \in 0..MaxFaults
      BY <1>0, <1>4, <1>a, FaultBound DEF SetHostname, Release
    <2>a. apart' \in BOOLEAN
      BY <1>4, Zenon DEF SetHostname
    <2>2. TypeOK'
      BY <1>0, <1>4, <2>1, <2>a, Constants DEF SetHostname, TypeOK
    <2> QED
      BY <1>4, <2>1, <2>2, RestingOp, Constants DEF SetHostname, Resting, IInv, ActiveCoversHost, MountedProvided
  <1>5. CASE Seed
    <2>1. op' = Idle /\ hostname' \in Names /\ faults' \in 0..MaxFaults
      BY <1>0, <1>5, <1>a, FaultBound DEF Seed, Release
    <2>2. up' \in BOOLEAN /\ apart' \in BOOLEAN
      BY <1>0, <1>5, Zenon DEF Seed
    <2>3. TypeOK'
      BY <1>0, <1>5, <2>1, <2>2, Constants DEF Seed, TypeOK
    <2> QED
      BY <1>5, <2>1, <2>3, RestingOp, Constants DEF Seed, Resting, IInv, ActiveCoversHost, MountedProvided
  <1>6. ASSUME NEW s \in Selectable, NEW h \in Hosts, RequestSave(s, h) PROVE IInv'
    <2>1. op' \in OpRec /\ op'.pc = "settings" /\ op'.host = h
      BY <1>6, Constants DEF RequestSave, OpRec, Pcs
    <2>2. /\ meta' \in MetaRec /\ meta'.pair = meta.pair
          /\ meta'.state = "active" => meta.state = "active" /\ meta'.host = meta.host
      BY <1>0, <1>6, <1>s, Constants DEF RequestSave, Saved, MetaRec, States
    <2>3. TypeOK'
      BY <1>0, <1>6, <2>1, <2>2 DEF RequestSave, TypeOK
    <2>4. OpInv'
      BY <2>1 DEF OpInv, OpCarriesPair, BundleFits, OrderFits, InFlight
    <2> QED
      BY <1>6, <2>2, <2>3, <2>4 DEF RequestSave, IInv, ActiveCoversHost, MountedProvided
  <1>7. ASSUME NEW s \in Selectable, NEW h \in Hosts, Start(s, h) PROVE IInv'
    <2>1. up' \in BOOLEAN
      BY <1>7, Zenon DEF Start
    <2>2. CASE meta.host = None
      <3>1. op' \in OpRec /\ op'.pc = "seed"
        BY <1>7, <2>2, Constants DEF Start, OpRec, Pcs
      <3>2. meta' \in MetaRec /\ meta'.state = meta.state
        BY <1>0, <1>7, <1>s, <2>2, Constants DEF Start, MetaRec
      <3>3. meta.state # "active"
        BY <1>a, <2>2, Constants DEF IInv, ActiveCoversHost, Pairs, PairRec
      <3>4. TypeOK'
        BY <1>0, <1>7, <2>1, <3>1, <3>2 DEF Start, TypeOK
      <3>5. OpInv'
        BY <3>1, RestingOp DEF Resting
      <3> QED
        BY <1>7, <3>2, <3>3, <3>4, <3>5 DEF Start, IInv, ActiveCoversHost, MountedProvided
    <2>3. CASE meta.host # None
      <3>1. TypeOK'
        BY <1>0, <1>7, <2>1, <2>3 DEF Start, TypeOK
      <3> QED
        BY <1>7, <2>3, <3>1 DEF Start, IInv, ActiveCoversHost, MountedProvided, OpInv,
             OpCarriesPair, BundleFits, OrderFits
    <2> QED
      BY <2>2, <2>3
  <1> QED
    BY <1>1, <1>2, <1>3, <1>4, <1>5, <1>6, <1>7

\* A stop, a request that ends, time and the operator keep the invariant.
LEMMA EnvironmentIInv ==
  ASSUME IInv, Stop \/ Cancel \/ Tick \/ \E h \in Hosts : Mount(h)
  PROVE  IInv'
  <1>0. /\ TypeOK /\ meta \in MetaRec /\ op \in OpRec /\ faults \in 0..MaxFaults /\ up \in BOOLEAN
        /\ mounted \in Pairs
    BY DEF IInv, TypeOK
  <1>1. CASE Stop
    <2>1. faults' \in 0..MaxFaults
      BY <1>0, <1>1, FaultBound DEF Stop
    <2>2. up' \in BOOLEAN /\ apart' \in BOOLEAN
      BY <1>1, Zenon DEF Stop
    <2>3. TypeOK'
      BY <1>0, <1>1, <2>1, <2>2, Constants DEF Stop, TypeOK
    <2> QED
      BY <1>1, <2>3, RestingOp, Constants DEF Stop, Resting, IInv, ActiveCoversHost, MountedProvided
  <1>2. CASE Cancel
    <2>1. faults' \in 0..MaxFaults
      BY <1>0, <1>2, FaultBound DEF Cancel
    <2>2. /\ op' \in OpRec /\ op'.pc = op.pc /\ op'.host = op.host /\ op'.cur = op.cur
          /\ op'.next = op.next /\ op'.bundle = op.bundle
      BY <1>0, <1>2 DEF Cancel, OpRec
    <2>3. TypeOK'
      BY <1>0, <1>2, <2>1, <2>2 DEF Cancel, TypeOK
    <2>4. OpInv'
      BY <1>2, <2>2 DEF Cancel, IInv, OpInv, OpCarriesPair, BundleFits, OrderFits
    <2> QED
      BY <1>2, <2>3, <2>4 DEF Cancel, IInv, ActiveCoversHost, MountedProvided
  <1>3. CASE Tick
    <2>1. meta.pair \in Pairs
      BY <1>0 DEF MetaRec
    <2>2. \A q \in Pairs : Older(q) \in Pairs
      BY PairFacts DEF Pairs
    <2>3. /\ meta' \in MetaRec /\ meta'.pair = Older(meta.pair)
          /\ meta'.state = meta.state /\ meta'.host = meta.host
      BY <1>0, <1>3, <2>1, <2>2 DEF Tick, MetaRec
    <2>4. TypeOK'
      BY <1>0, <1>3, <2>2, <2>3 DEF Tick, TypeOK
    <2>5. ActiveCoversHost'
      BY <2>1, <2>3, PairFacts DEF IInv, ActiveCoversHost, Pairs
    <2>6. MountedProvided'
      BY <1>0, <1>3, PairFacts DEF Tick, IInv, MountedProvided, Pairs
    <2> QED
      BY <1>3, <2>4, <2>5, <2>6, RestingOp, Constants DEF Tick, Resting, IInv
  <1>4. ASSUME NEW h \in Hosts, Mount(h) PROVE IInv'
    <2> DEFINE files == [source |-> "provided", host |-> h, age |-> "fresh"]
    <2>1. files \in PairRec /\ files.source = "provided" /\ mounted' \in {NoPair, files}
      BY <1>4 DEF Mount, PairRec, Sources, Selectable, Ages
    <2>2. mounted' \in Pairs /\ MountedProvided'
      BY <2>1, PairFacts DEF MountedProvided
    <2>3. TypeOK'
      BY <1>0, <1>4, <2>2 DEF Mount, TypeOK
    <2> QED
      BY <1>4, <2>2, <2>3 DEF Mount, IInv, ActiveCoversHost, OpInv, OpCarriesPair, BundleFits, OrderFits
  <1> QED
    BY <1>1, <1>2, <1>3, <1>4

\* Every step keeps the invariant.
LEMMA StepIInv == IInv /\ [Next]_vars => IInv'
  <1> SUFFICES ASSUME IInv, [Next]_vars PROVE IInv'
    OBVIOUS
  <1>1. CASE UNCHANGED vars
    BY <1>1 DEF vars, IInv, TypeOK, ActiveCoversHost, OpInv, OpCarriesPair, BundleFits, OrderFits, MountedProvided
  <1> QED
    BY <1>1, EnsureIInv, WorkIInv, RequestIInv, EnvironmentIInv DEF Next, OpStep, WorkStep

\* The invariant holds of every behaviour.
LEMMA Invariance == Spec => []IInv
  BY InitIInv, StepIInv, PTL DEF Spec

\* Type correctness of the certificate's life.
THEOREM TypeCorrect == Spec => []TypeOK
  <1>1. IInv => TypeOK
    BY DEF IInv
  <1> QED
    BY <1>1, Invariance, PTL

\* "active" is never claimed for a pair of another hostname, nor without one:
\* for any number of hostnames, whatever fails and whoever changes settings.
THEOREM ActiveAlwaysCovers == Spec => []ActiveCoversHost
  <1>1. IInv => ActiveCoversHost
    BY DEF IInv
  <1> QED
    BY <1>1, Invariance, PTL

\* A confirmed pair is only replaced by a valid pair of the selected source
\* and hostname: no failure, stop or change of settings loses it.
THEOREM PairNeverLost == Spec => PairKept
  <1>1. IInv /\ [Next]_vars => [PairStep]_vars
    <2> SUFFICES ASSUME IInv, Next PROVE PairStep
      BY DEF vars
    <2>0. meta \in MetaRec /\ op \in OpRec /\ op.next \in MetaRec /\ op.cur \in MetaRec /\ op.bundle \in Pairs
      BY DEF IInv, TypeOK, OpRec
    <2>a. \A st \in States : InState(st).pair = meta.pair
      BY <2>0, RowState DEF InState
    <2>1. CASE EnsureStep
      <3>1. Working.pair = meta.pair
        BY <2>a DEF Working, States
      <3> QED
        BY <2>1, <2>a, <3>1 DEF EnsureStep, EnsureMark, EnsureKeep, EnsureACME, EnsureSelfSigned,
             EnsureProvided, EnsureProvidedFails, EnsureUnmanaged, WriteThen, States, PairStep
    <2>2. CASE Issue \/ Renew
      <3>1. [InState("issuing") EXCEPT !.host = op.host].pair = meta.pair
        BY <2>0 DEF InState, MetaRec
      <3> QED
        BY <2>2, <2>a, <3>1 DEF Issue, Renew, WriteThen, States, PairStep
    <2>3. CASE SaveMetadata
      <3>1. /\ Confirmed.state = "active" /\ Confirmed.pair = op.bundle
            /\ Confirmed.host = op.next.host /\ Confirmed.source = op.next.source
        BY <2>0 DEF Confirmed, MetaRec
      <3> QED
        BY <2>3, <3>1 DEF SaveMetadata, PairStep, IInv, OpInv, BundleFits
    <2>4. CASE Fail
      <3>1. FailedRecord.pair = op.next.pair /\ op.next.pair = meta.pair
        BY <2>0, <2>4 DEF Fail, FailedRecord, MetaRec, IInv, OpInv, OpCarriesPair, InFlight
      <3> QED
        BY <2>4, <3>1 DEF Fail, PairStep
    <2>5. ASSUME NEW s \in Selectable, NEW h \in Hosts, RequestSave(s, h) \/ Start(s, h) PROVE PairStep
      <3>1. meta'.pair = meta.pair
        BY <2>0, <2>5 DEF RequestSave, Start, Saved, MetaRec
      <3> QED
        BY <3>1 DEF PairStep
    <2>6. CASE Tick
      BY <2>0, <2>6 DEF Tick, PairStep, MetaRec
    <2>7. ASSUME UNCHANGED meta PROVE PairStep
      BY <2>7 DEF PairStep
    <2>8. CASE \E h \in Hosts : Mount(h)
      BY <2>7, <2>8 DEF Mount
    <2> QED
      BY <2>1, <2>2, <2>3, <2>4, <2>5, <2>6, <2>7, <2>8
      DEF Next, OpStep, Ensure, Obtain, Publish, SetHostname, Seed, RequestIssue, LockIssue,
          RequestRenew, Stop, Cancel
  <1> QED
    BY <1>1, Invariance, PTL DEF Spec, PairKept

-----------------------------------------------------------------------------
(* The two hostnames                                                       *)

\* The operation that writes both hostnames carries the one it has written first;
\* this holds of every state, since its second write ends any difference.
SecondWriteFits == op.pc \in {"settings", "seed"} => op.host = meta.host

\* What keeps the hostnames together while other operations are under way: they
\* work on records of the row's hostname.
Together ==
  /\ op.pc \notin {"settings", "seed"} => hostname = meta.host
  /\ op.pc \in InFlight => op.next.host = meta.host
  /\ op.pc \in InFlight \ {"fail"} => op.cur.host = meta.host
HInv == SecondWriteFits /\ (~apart => Together)

\* Only a second write that works ends a difference.
LEMMA ApartStays ==
  ASSUME Next, ~apart', ~SetHostname, ~Seed
  PROVE  ~apart
  <1>1. CASE EnsureStep \/ Renew \/ Obtain \/ Publish \/ SaveMetadata \/ Fail
    BY <1>1, Zenon DEF EnsureStep, EnsureMark, EnsureKeep, EnsureACME, EnsureSelfSigned, EnsureProvided,
       EnsureProvidedFails, EnsureUnmanaged, Renew, Obtain, Publish, SaveMetadata, Fail
  <1>2. CASE Issue \/ Stop
    BY <1>2, Zenon DEF Issue, Stop
  <1>3. CASE Ensure \/ RequestIssue \/ LockIssue \/ RequestRenew \/ Cancel \/ Tick
    BY <1>3, Zenon DEF Ensure, RequestIssue, LockIssue, RequestRenew, Cancel, Tick
  <1>4. CASE \E s \in Selectable, h \in Hosts : RequestSave(s, h) \/ Start(s, h)
    BY <1>4 DEF RequestSave, Start
  <1>5. CASE \E h \in Hosts : Mount(h)
    BY <1>5 DEF Mount
  <1> QED
    BY <1>1, <1>2, <1>3, <1>4, <1>5, Zenon DEF Next, OpStep

\* Every step keeps the two hostnames together, or marks them as apart.
LEMMA StepHInv == IInv /\ HInv /\ [Next]_vars => HInv'
  <1> SUFFICES ASSUME IInv, HInv, [Next]_vars PROVE HInv'
    OBVIOUS
  <1>0. /\ TypeOK /\ meta \in MetaRec /\ op \in OpRec /\ op.next \in MetaRec
        /\ Idle.pc = "idle"
    BY Constants DEF IInv, TypeOK, OpRec
  <1>1. CASE UNCHANGED vars
    BY <1>1 DEF vars, HInv, SecondWriteFits, Together, InFlight
  <1>a. \A st \in States : InState(st).host = meta.host
    BY <1>0, RowState DEF InState
  <1>b. ASSUME Next, ~SetHostname, ~Seed, SecondWriteFits', ~apart /\ ~apart' => Together' PROVE HInv'
    BY <1>b, ApartStays DEF HInv
  <1>c. ASSUME op' = Idle, Next, ~SetHostname, ~Seed, ~apart /\ ~apart' => hostname' = meta'.host PROVE HInv'
    BY <1>0, <1>b, <1>c DEF SecondWriteFits, Together, InFlight
  <1>2. ASSUME NEW rec, NEW next, WriteThen(rec, next), Next, ~SetHostname, ~Seed, UNCHANGED hostname,
               op.pc \notin {"settings", "seed"}, next.pc \notin {"settings", "seed", "fail"},
               ~apart' => rec.host = meta.host,
               next.pc \in InFlight => next.next = rec /\ next.cur = meta
        PROVE  HInv'
    <2>1. CASE meta' = rec /\ op' = next
      BY <1>2, <1>b, <2>1 DEF HInv, SecondWriteFits, Together, InFlight
    <2>2. CASE meta' = meta /\ op' = Idle
      BY <1>2, <1>c, <2>2 DEF HInv, Together
    <2> QED
      BY <1>2, <2>1, <2>2 DEF WriteThen, Release
  <1>3. CASE EnsureStep
    <2>0. ~SetHostname /\ ~Seed /\ Next /\ op.pc \in {"ensure", "decide"} /\ hostname' = hostname
      BY <1>3 DEF EnsureStep, EnsureMark, EnsureKeep, EnsureACME, EnsureSelfSigned, EnsureProvided,
         EnsureProvidedFails, EnsureUnmanaged, SetHostname, Seed, Next, OpStep
    <2>1. Working.host = meta.host
      BY <1>a DEF Working, States
    <2>2. CASE EnsureMark
      <3>1. [op EXCEPT !.pc = "decide"].pc = "decide"
        BY <1>0 DEF OpRec
      <3>2. CASE WriteThen(InState("degraded"), [op EXCEPT !.pc = "decide"])
        BY <1>2, <1>a, <2>0, <3>1, <3>2 DEF InFlight, States
      <3>3. CASE UNCHANGED meta /\ op' \in {Idle, [op EXCEPT !.pc = "decide"]}
        BY <1>0, <1>b, <2>0, <3>1, <3>3 DEF HInv, SecondWriteFits, Together, InFlight
      <3> QED
        BY <2>2, <3>2, <3>3 DEF EnsureMark, Release, Goto
    <2>3. CASE EnsureKeep
      BY <1>0, <1>2, <1>a, <2>0, <2>3 DEF EnsureKeep, InFlight, States
    <2>4. CASE EnsureACME
      <3>1. op'.pc \in {"renew", "issue"} /\ meta' = meta
        BY <1>0, <2>4 DEF EnsureACME, OpRec
      <3> QED
        BY <1>b, <2>0, <3>1 DEF HInv, SecondWriteFits, Together, InFlight
    <2>5. ASSUME NEW bundle, EnsureUnmanaged(bundle) PROVE HInv'
      <3> DEFINE next == [op EXCEPT !.pc = "publish", !.cur = meta, !.next = Working, !.bundle = bundle]
      <3>1. next.pc = "publish" /\ next.cur = meta /\ next.next = Working
        BY <1>0 DEF OpRec
      <3>2. WriteThen(Working, next)
        BY <2>5 DEF EnsureUnmanaged
      <3> HIDE DEF next
      <3> QED
        BY <1>2, <2>0, <2>1, <3>1, <3>2
    <2>6. CASE EnsureProvidedFails
      <3>1. op'.pc = "fail" /\ op'.next = meta /\ meta' = meta
        BY <1>0, <2>6 DEF EnsureProvidedFails, OpRec
      <3> QED
        BY <1>b, <2>0, <3>1 DEF HInv, SecondWriteFits, Together, InFlight
    <2> QED
      BY <1>3, <2>2, <2>3, <2>4, <2>5, <2>6 DEF EnsureStep, EnsureSelfSigned, EnsureProvided
  <1>4. CASE Issue \/ Renew
    <2>0. ~SetHostname /\ ~Seed /\ Next /\ op.pc \in {"issue", "renew"} /\ hostname' = hostname
      BY <1>4 DEF Issue, Renew, SetHostname, Seed, Next, OpStep
    <2>1. ASSUME Release, UNCHANGED meta PROVE HInv'
      BY <1>c, <2>0, <2>1 DEF HInv, Together, Release
    <2>2. ASSUME NEW rec, ~apart' => rec.host = meta.host,
                 WriteThen(rec, [op EXCEPT !.pc = "obtain", !.cur = meta, !.next = rec])
          PROVE  HInv'
      <3> DEFINE next == [op EXCEPT !.pc = "obtain", !.cur = meta, !.next = rec]
      <3>1. next.pc = "obtain" /\ next.cur = meta /\ next.next = rec
        BY <1>0 DEF OpRec
      <3> HIDE DEF next
      <3>2. WriteThen(rec, next)
        BY <2>2 DEF next
      <3> QED
        BY <1>2, <2>0, <2>2, <3>1, <3>2
    <2>3. CASE Issue
      <3> DEFINE rec == [InState("issuing") EXCEPT !.host = op.host]
      <3>1. CASE Release /\ UNCHANGED meta
        BY <2>1, <3>1
      <3>2. CASE WriteThen(rec, [op EXCEPT !.pc = "obtain", !.cur = meta, !.next = rec])
        <4>1. CASE meta' = rec
          <5>1. ~apart' => meta'.host = meta.host
            BY <2>3, Zenon DEF Issue
          <5> QED
            BY <2>2, <3>2, <4>1, <5>1
        <4>2. CASE Release /\ UNCHANGED meta
          BY <2>1, <4>2
        <4> QED
          BY <3>2, <4>1, <4>2 DEF WriteThen
      <3> QED
        BY <2>3, <3>1, <3>2 DEF Issue
    <2>4. CASE Renew
      BY <1>a, <2>1, <2>2, <2>4 DEF Renew, States
    <2> QED
      BY <1>4, <2>3, <2>4
  <1>5. CASE Obtain \/ Publish
    <2>1. /\ op.pc \in {"obtain", "publish"} /\ op'.pc \in {"publish", "save", "fail"}
          /\ op'.cur = op.cur /\ op'.next = op.next /\ meta' = meta /\ hostname' = hostname
      BY <1>0, <1>5 DEF Obtain, Publish, Goto, OpRec
    <2>2. ~SetHostname /\ ~Seed /\ Next
      BY <1>5, <2>1 DEF SetHostname, Seed, Next, OpStep
    <2> QED
      BY <1>b, <2>1, <2>2 DEF HInv, SecondWriteFits, Together, InFlight
  <1>6. CASE SaveMetadata
    <2>0. ~SetHostname /\ ~Seed /\ Next /\ op.pc = "save" /\ hostname' = hostname
      BY <1>6 DEF SaveMetadata, SetHostname, Seed, Next, OpStep
    <2>1. Confirmed.host = op.next.host
      BY <1>0 DEF Confirmed, MetaRec
    <2>2. CASE meta' = Confirmed /\ op' = Idle
      BY <1>c, <2>0, <2>1, <2>2 DEF HInv, Together, InFlight
    <2>3. CASE meta' = meta /\ op' = [op EXCEPT !.pc = "fail", !.next = op.cur]
      <3>1. op'.pc = "fail" /\ op'.next = op.cur
        BY <1>0, <2>3 DEF OpRec
      <3> QED
        BY <1>b, <2>0, <2>3, <3>1 DEF HInv, SecondWriteFits, Together, InFlight
    <2> QED
      BY <1>6, <2>2, <2>3 DEF SaveMetadata, Release
  <1>7. CASE Fail
    <2>0. ~SetHostname /\ ~Seed /\ Next /\ op.pc = "fail" /\ hostname' = hostname
      BY <1>7 DEF Fail, SetHostname, Seed, Next, OpStep
    <2>1. FailedRecord.host = op.next.host
      BY <1>0 DEF FailedRecord, MetaRec
    <2>2. op' = Idle /\ meta' \in {meta, FailedRecord}
      BY <1>7 DEF Fail, Release
    <2> QED
      BY <1>c, <2>0, <2>1, <2>2 DEF HInv, Together, InFlight
  <1>8. CASE SetHostname \/ Seed
    <2>1. op' = Idle /\ meta' = meta /\ op.host = meta.host
      BY <1>8 DEF SetHostname, Seed, Release, HInv, SecondWriteFits
    <2>2. apart' \/ hostname' = op.host
      BY <1>8, Zenon DEF SetHostname, Seed
    <2> QED
      BY <1>0, <2>1, <2>2 DEF HInv, SecondWriteFits, Together, InFlight
  <1>9. CASE Ensure \/ RequestIssue \/ LockIssue \/ RequestRenew \/ Tick \/ \E h \in Hosts : Mount(h)
    <2>1. Next /\ meta'.host = meta.host /\ hostname' = hostname
      BY <1>0, <1>9 DEF Ensure, RequestIssue, LockIssue, RequestRenew, Tick, Mount, MetaRec, Next
    <2>2. apart' = apart
      BY <1>9 DEF Ensure, RequestIssue, LockIssue, RequestRenew, Tick, Mount
    <2>3. CASE op' = op
      BY <2>1, <2>2, <2>3 DEF HInv, SecondWriteFits, Together
    <2>4. CASE Ensure \/ LockIssue \/ RequestRenew
      <3>1. op'.pc \in {"ensure", "issue", "renew"} /\ op = Idle
        BY <2>4 DEF Ensure, LockIssue, RequestRenew, Idle
      <3> QED
        BY <1>0, <2>1, <2>2, <3>1 DEF HInv, SecondWriteFits, Together, InFlight
    <2> QED
      BY <1>9, <2>3, <2>4 DEF RequestIssue, Tick, Mount
  <1>10. ASSUME NEW s \in Selectable, NEW h \in Hosts, RequestSave(s, h) PROVE HInv'
    <2>1. op'.pc = "settings" /\ op'.host = h
      BY <1>10 DEF RequestSave, Idle
    <2>2. meta'.host = h
      BY <1>0, <1>10 DEF RequestSave, Saved, MetaRec
    <2> QED
      BY <2>1, <2>2 DEF HInv, SecondWriteFits, Together, InFlight
  <1>11. ASSUME NEW s \in Selectable, NEW h \in Hosts, Start(s, h) PROVE HInv'
    <2>1. CASE meta.host = None
      <3>1. op'.pc = "seed" /\ op'.host = h
        BY <1>11, <2>1 DEF Start, Idle
      <3>2. meta'.host = h
        BY <1>0, <1>11, <2>1 DEF Start, MetaRec
      <3> QED
        BY <3>1, <3>2 DEF HInv, SecondWriteFits, Together, InFlight
    <2>2. CASE meta.host # None
      BY <1>11, <2>2 DEF Start, HInv, SecondWriteFits, Together, InFlight
    <2> QED
      BY <2>1, <2>2
  <1>12. CASE Stop
    <2>1. op' = Idle /\ meta' = meta /\ hostname' = hostname
      BY <1>12 DEF Stop
    <2>2. ~apart' => ~apart /\ op.pc \notin {"settings", "seed"}
      BY <1>12, Zenon DEF Stop
    <2> QED
      BY <1>0, <2>1, <2>2 DEF HInv, SecondWriteFits, Together, InFlight
  <1>13. CASE Cancel
    <2>1. /\ op'.pc = op.pc /\ op'.host = op.host /\ op'.cur = op.cur /\ op'.next = op.next
          /\ meta' = meta /\ hostname' = hostname /\ apart' = apart
      BY <1>0, <1>13 DEF Cancel, OpRec
    <2> QED
      BY <2>1 DEF HInv, SecondWriteFits, Together
  <1> QED
    BY <1>1, <1>3, <1>4, <1>5, <1>6, <1>7, <1>8, <1>9, <1>10, <1>11, <1>12, <1>13 DEF Next, OpStep

\* The two hostnames are together, or known to be apart, in every behaviour.
LEMMA HInvariance == Spec => []HInv
  <1>1. Init => HInv
    BY Constants, MigratedRow DEF Init, HInv, SecondWriteFits, Together, Nothing, InFlight
  <1> QED
    BY <1>1, Invariance, StepHInv, PTL DEF Spec

\* No failure, no ended request and no other operation leaves settings.hostname and
\* the row apart: only a save that breaks off between its two writes does, or an
\* issue that read the hostname before a save (TLSSettingsService.Issue); and a save
\* that works (SaveConfiguration) always brings them together again.
THEOREM SettingsStayTogether == Spec => []SettingsAgree
  <1>1. HInv => SettingsAgree
    BY Constants DEF HInv, Together, SettingsAgree
  <1> QED
    BY <1>1, HInvariance, PTL

-----------------------------------------------------------------------------
(* The settings an administrator saved                                     *)

\* The records an operation works on have the source of the row.  Their hostname
\* is the row's too, but for the record of before an issue: the row has the
\* hostname that the issue was asked for then.
CarriesSettings ==
  /\ op.pc \in InFlight => op.next.source = meta.source
  /\ op.pc \in InFlight \ {"fail"} =>
       /\ op.cur.source = meta.source /\ op.next.host = meta.host
       /\ meta.host \in {op.cur.host, op.host}
  /\ op.pc = "fail" => meta.host \in {op.next.host, op.host}

\* An operation that is not past its first write owes nothing.
LEMMA NothingCarried == op'.pc \notin InFlight => CarriesSettings'
  BY DEF CarriesSettings, InFlight

\* The first write of an operation: the row, and what the operation keeps of it.
LEMMA FirstWrite ==
  ASSUME IInv, NEW rec \in MetaRec, NEW next \in OpRec, WriteThen(rec, next),
         next.pc \in InFlight \ {"fail"} \/ next.pc \notin InFlight,
         next.pc \in InFlight => /\ next.cur = meta /\ next.next = rec
                                 /\ rec.source = meta.source
                                 /\ rec.host \in {meta.host, next.host}
  PROVE  CarriesSettings'
  <1>1. CASE meta' = rec /\ op' = next
    BY <1>1, NothingCarried DEF CarriesSettings
  <1>2. CASE op' = Idle
    BY <1>2, NothingCarried, Constants DEF InFlight
  <1> QED
    BY <1>1, <1>2 DEF WriteThen, Release

\* Steps of an operation under way, with the row as it is.
LEMMA CarriedStep ==
  ASSUME IInv, CarriesSettings, [Next]_vars
  PROVE  CarriesSettings'
  <1>0. /\ meta \in MetaRec /\ op \in OpRec /\ op.next \in MetaRec /\ op.cur \in MetaRec
        /\ Idle \in OpRec /\ Idle.pc = "idle" /\ meta.host \in Names /\ op.host \in Names
    BY Constants DEF IInv, TypeOK, OpRec, MetaRec
  <1>a. \A st \in States : /\ InState(st) \in MetaRec /\ InState(st).source = meta.source
                           /\ InState(st).host = meta.host
    BY <1>0, RowState DEF InState
  <1>b. ASSUME op'.pc \notin InFlight PROVE CarriesSettings'
    BY <1>b, NothingCarried
  <1>c. ASSUME NEW pc \in Pcs, Goto(pc) PROVE /\ op'.pc = pc /\ op'.host = op.host
                                              /\ op'.cur = op.cur /\ op'.next = op.next
    BY <1>0, <1>c, OpStepped DEF Goto
  <1>d. CASE UNCHANGED <<meta, op>>
    BY <1>d DEF CarriesSettings
  <1>1. CASE EnsureMark \/ EnsureKeep
    <2>1. [op EXCEPT !.pc = "decide"] \in OpRec /\ [op EXCEPT !.pc = "decide"].pc = "decide"
      BY <1>0, OpStepped DEF Pcs
    <2>2. CASE WriteThen(InState("degraded"), [op EXCEPT !.pc = "decide"])
      BY <1>a, <2>1, <2>2, FirstWrite DEF InFlight, States
    <2>3. CASE WriteThen(InState("active"), Idle)
      BY <1>0, <1>a, <2>3, FirstWrite DEF InFlight, States
    <2>4. CASE Release
      BY <1>0, <1>b, <2>4 DEF Release, InFlight
    <2>5. CASE Goto("decide")
      BY <1>b, <1>c, <2>5 DEF Pcs, InFlight
    <2> QED
      BY <1>1, <2>2, <2>3, <2>4, <2>5 DEF EnsureMark, EnsureKeep
  <1>2. CASE EnsureACME
    <2>1. op'.pc \in {"renew", "issue"}
      BY <1>0, <1>2 DEF EnsureACME, OpRec
    <2> QED
      BY <1>b, <2>1 DEF InFlight
  <1>3. ASSUME NEW bundle \in Pairs, EnsureUnmanaged(bundle) PROVE CarriesSettings'
    <2> DEFINE next == [op EXCEPT !.pc = "publish", !.cur = meta, !.next = Working, !.bundle = bundle]
    <2>1. Working \in MetaRec /\ Working.source = meta.source /\ Working.host = meta.host
      BY <1>a DEF Working, States
    <2>2. next \in OpRec /\ next.pc = "publish" /\ next.cur = meta /\ next.next = Working
      BY <1>0, <2>1 DEF OpRec, Pcs
    <2>3. WriteThen(Working, next)
      BY <1>3 DEF EnsureUnmanaged
    <2> HIDE DEF next
    <2> QED
      BY <2>1, <2>2, <2>3, FirstWrite DEF InFlight
  <1>4. CASE EnsureSelfSigned
    <2>1. CASE op.pc = "decide"
      <3>1. meta.host \in Hosts
        BY <2>1 DEF IInv, OpInv, OrderFits
      <3>2. [source |-> "self-signed", host |-> meta.host, age |-> "fresh"] \in Pairs
        BY <3>1 DEF Pairs, PairRec, Sources, Selectable, Ages
      <3> QED
        BY <1>3, <1>4, <3>2 DEF EnsureSelfSigned
    <2> QED
      BY <1>4, <2>1 DEF EnsureSelfSigned, EnsureUnmanaged
  <1>5. CASE EnsureProvided
    <2>1. mounted \in Pairs
      BY DEF IInv, TypeOK
    <2> QED
      BY <1>3, <1>5, <2>1 DEF EnsureProvided
  <1>6. CASE EnsureProvidedFails
    <2>1. op'.pc = "fail" /\ op'.next = meta /\ meta' = meta
      BY <1>0, <1>6 DEF EnsureProvidedFails, OpRec
    <2> QED
      BY <2>1 DEF CarriesSettings
  <1>7. CASE Issue
    <2> DEFINE rec == [InState("issuing") EXCEPT !.host = op.host]
               next == [op EXCEPT !.pc = "obtain", !.cur = meta, !.next = rec]
    <2>1. InState("issuing") \in MetaRec /\ InState("issuing").source = meta.source
      BY <1>a DEF States
    <2>2. rec \in MetaRec /\ rec.source = meta.source /\ rec.host = op.host
      BY <1>0, <2>1 DEF MetaRec
    <2> HIDE DEF rec
    <2>3. next \in OpRec /\ next.pc = "obtain" /\ next.cur = meta /\ next.next = rec /\ next.host = op.host
      BY <1>0, <2>2 DEF OpRec, Pcs
    <2>4. WriteThen(rec, next) \/ Release
      BY <1>7 DEF Issue, rec
    <2> HIDE DEF next
    <2>5. CASE WriteThen(rec, next)
      BY <2>2, <2>3, <2>5, FirstWrite DEF InFlight
    <2>6. CASE Release
      BY <1>0, <1>b, <2>6 DEF Release, InFlight
    <2> QED
      BY <2>4, <2>5, <2>6
  <1>8. CASE Renew
    <2> DEFINE rec == InState("renewing")
               next == [op EXCEPT !.pc = "obtain", !.cur = meta, !.next = rec]
    <2>1. rec \in MetaRec /\ rec.source = meta.source /\ rec.host = meta.host
      BY <1>a DEF States
    <2> HIDE DEF rec
    <2>2. next \in OpRec /\ next.pc = "obtain" /\ next.cur = meta /\ next.next = rec
      BY <1>0, <2>1 DEF OpRec, Pcs
    <2>3. WriteThen(rec, next) \/ Release
      BY <1>8 DEF Renew, rec
    <2> HIDE DEF next
    <2>4. CASE WriteThen(rec, next)
      BY <2>1, <2>2, <2>4, FirstWrite DEF InFlight
    <2>5. CASE Release
      BY <1>0, <1>b, <2>5 DEF Release, InFlight
    <2> QED
      BY <2>3, <2>4, <2>5
  <1>9. CASE Obtain
    <2>1. op.pc = "obtain" /\ meta' = meta
      BY <1>9 DEF Obtain
    <2>2. CASE Goto("fail")
      BY <1>c, <2>1, <2>2 DEF Pcs, CarriesSettings, InFlight
    <2>3. CASE op' = [op EXCEPT !.pc = "publish",
                        !.bundle = [source |-> "letsencrypt", host |-> op.next.host, age |-> "fresh"]]
      <3>1. op'.pc = "publish" /\ op'.host = op.host /\ op'.cur = op.cur /\ op'.next = op.next
        BY <1>0, <2>3 DEF OpRec
      <3> QED
        BY <2>1, <3>1 DEF CarriesSettings, InFlight
    <2> QED
      BY <1>9, <2>2, <2>3 DEF Obtain
  <1>10. CASE Publish
    <2>1. op.pc = "publish" /\ meta' = meta /\ (Goto("save") \/ Goto("fail"))
      BY <1>10 DEF Publish
    <2> QED
      BY <1>c, <2>1 DEF Pcs, CarriesSettings, InFlight
  <1>11. CASE SaveMetadata
    <2>1. CASE Release
      BY <1>0, <1>b, <2>1 DEF Release, InFlight
    <2>2. CASE meta' = meta /\ op' = [op EXCEPT !.pc = "fail", !.next = op.cur]
      <3>1. op'.pc = "fail" /\ op'.host = op.host /\ op'.next = op.cur /\ op.pc = "save"
        BY <1>0, <1>11, <2>2 DEF OpRec, SaveMetadata
      <3> QED
        BY <2>2, <3>1 DEF CarriesSettings, InFlight
    <2> QED
      BY <1>11, <2>1, <2>2 DEF SaveMetadata
  <1>12. CASE Fail \/ SetHostname \/ Seed
    BY <1>0, <1>b, <1>12 DEF Fail, SetHostname, Seed, Release, InFlight
  <1>13. CASE Ensure \/ LockIssue \/ RequestRenew \/ Stop
    <2>1. op'.pc \in {"ensure", "issue", "renew", "idle"}
      BY <1>0, <1>13 DEF Ensure, LockIssue, RequestRenew, Stop, OpRec
    <2> QED
      BY <1>b, <2>1 DEF InFlight
  <1>14. ASSUME NEW s \in Selectable, NEW h \in Hosts, RequestSave(s, h) \/ Start(s, h)
         PROVE  CarriesSettings'
    <2>1. op'.pc \in {"settings", "seed"} \/ UNCHANGED <<meta, op>>
      BY <1>0, <1>14 DEF RequestSave, Start, OpRec
    <2> QED
      BY <1>b, <1>d, <2>1 DEF InFlight
  <1>15. CASE Cancel
    <2>1. op'.pc = op.pc /\ op'.host = op.host /\ op'.cur = op.cur /\ op'.next = op.next /\ meta' = meta
      BY <1>0, <1>15 DEF Cancel, OpRec
    <2> QED
      BY <2>1 DEF CarriesSettings
  <1>16. CASE Tick
    <2>1. op'.pc = "idle"
      BY <1>0, <1>16 DEF Tick
    <2> QED
      BY <1>b, <2>1 DEF InFlight
  <1>17. CASE RequestIssue \/ (\E h \in Hosts : Mount(h)) \/ UNCHANGED vars
    BY <1>d, <1>17 DEF RequestIssue, Mount, vars
  <1> QED
    BY <1>1, <1>2, <1>4, <1>5, <1>6, <1>7, <1>8, <1>9, <1>10, <1>11, <1>12, <1>13, <1>14, <1>15,
       <1>16, <1>17
    DEF Next, OpStep, EnsureStep

LEMMA CarriesInvariance == Spec => []CarriesSettings
  <1>1. Init => CarriesSettings
    BY Constants DEF Init, CarriesSettings, InFlight
  <1> QED
    BY <1>1, CarriedStep, Invariance, PTL DEF Spec

\* Nothing but saving the settings changes the source, or any hostname other
\* than the one an issue was asked for (Manager.issue, fail, SaveConfiguration),
\* whatever fails and is stopped on the way.
THEOREM SettingsAlwaysKept == Spec => SettingsKept
  <1> DEFINE Kept ==
        meta.host # None /\ <<meta'.source, meta'.host>> # <<meta.source, meta.host>>
          => \/ op'.pc = "settings"
             \/ /\ meta'.source = meta.source
                /\ op.pc \in {"issue", "fail"}
                /\ op.host \in {meta.host, meta'.host}
  <1>1. IInv /\ CarriesSettings /\ [Next]_vars => [Kept]_vars
    <2> SUFFICES ASSUME IInv, CarriesSettings, Next PROVE Kept
      BY DEF vars
    <2>0. meta \in MetaRec /\ op \in OpRec /\ op.next \in MetaRec /\ op.cur \in MetaRec /\ op.bundle \in Pairs
      BY DEF IInv, TypeOK, OpRec
    <2>a. \A st \in States : InState(st).source = meta.source /\ InState(st).host = meta.host
      BY <2>0, RowState DEF InState
    <2>b. ASSUME meta'.source = meta.source, meta'.host = meta.host PROVE Kept
      BY <2>b
    <2>1. CASE EnsureStep \/ Renew
      <3>1. Working.source = meta.source /\ Working.host = meta.host
        BY <2>a DEF Working, States
      <3> QED
        BY <2>1, <2>a, <2>b, <3>1 DEF EnsureStep, EnsureMark, EnsureKeep, EnsureACME, EnsureSelfSigned,
             EnsureProvided, EnsureProvidedFails, EnsureUnmanaged, WriteThen, States, Renew
    <2>2. CASE Issue
      <3> DEFINE rec == [InState("issuing") EXCEPT !.host = op.host]
      <3>1. rec.source = meta.source /\ rec.host = op.host
        BY <2>0 DEF InState, MetaRec
      <3>2. op.pc = "issue" /\ meta' \in {rec, meta}
        BY <2>2 DEF Issue, WriteThen
      <3> HIDE DEF rec
      <3> QED
        BY <2>b, <3>1, <3>2
    <2>3. CASE SaveMetadata
      <3>1. Confirmed.host = op.next.host /\ Confirmed.source = op.next.source
        BY <2>0 DEF Confirmed, MetaRec
      <3>2. op.pc = "save" /\ meta' \in {Confirmed, meta}
        BY <2>3 DEF SaveMetadata
      <3> QED
        BY <2>b, <3>1, <3>2 DEF CarriesSettings, InFlight
    <2>4. CASE Fail
      <3>1. FailedRecord.host = op.next.host /\ FailedRecord.source = op.next.source
        BY <2>0 DEF FailedRecord, MetaRec
      <3>2. op.pc = "fail" /\ meta' \in {FailedRecord, meta}
        BY <2>4 DEF Fail
      <3> QED
        BY <2>b, <3>1, <3>2 DEF CarriesSettings, InFlight
    <2>5. ASSUME NEW s \in Selectable, NEW h \in Hosts, RequestSave(s, h) PROVE Kept
      <3>1. op'.pc = "settings"
        BY <2>5, Constants DEF RequestSave, OpRec
      <3> QED
        BY <3>1
    <2>6. ASSUME NEW s \in Selectable, NEW h \in Hosts, Start(s, h) PROVE Kept
      BY <2>6 DEF Start
    <2>7. CASE Tick
      BY <2>0, <2>7, <2>b DEF Tick, MetaRec
    <2>8. ASSUME UNCHANGED meta PROVE Kept
      BY <2>8
    <2>9. CASE \E h \in Hosts : Mount(h)
      BY <2>8, <2>9 DEF Mount
    <2> QED
      BY <2>1, <2>2, <2>3, <2>4, <2>5, <2>6, <2>7, <2>8, <2>9
      DEF Next, OpStep, Ensure, Obtain, Publish, SetHostname, Seed, RequestIssue, LockIssue,
          RequestRenew, Stop, Cancel
  <1> QED
    BY <1>1, Invariance, CarriesInvariance, PTL DEF Spec, SettingsKept
=============================================================================
