---------------------------- MODULE RevisionStore ----------------------------
(***************************************************************************)
(* A directory of immutable revisions with the links "current" and         *)
(* "previous": config.Materializer (internal/config/materializer.go) and   *)
(* certificate.TLSStore (internal/certificate/tls_store.go), which have    *)
(* the same layout and the same order of file-system calls and differ only *)
(* in Rollback without a previous revision (RollbackClears).               *)
(*                                                                         *)
(* An operation runs under the store's mutex, so there is one at a time,   *)
(* but every file-system call in it is a step: it may fail, a sync too,    *)
(* and before it the controller may be killed or the machine may stop.  A  *)
(* directory entry survives a stop of the machine for sure only once its   *)
(* directory was synced; until then the stop leaves either the old entry   *)
(* or a new one.  A kill of the controller alone loses no entry.           *)
(***************************************************************************)
EXTENDS FiniteSets

CONSTANTS
  Revisions,       \* content hashes
  None,            \* no link
  RollbackClears   \* TLSStore.Rollback removes current when there is no previous

ASSUME StoreAssumption ==
  /\ None \notin Revisions
  /\ RollbackClears \in BOOLEAN

VARIABLES
  dirs,          \* revisions/<id> that can be seen
  durable,       \* those of them that survive a stop of the machine
  valid,         \* history: revisions whose files were all written and validated
  unsynced,      \* history: revisions whose Apply broke off between the rename and
                 \* the sync of revisions/, and that were not synced since
  current, previous,
  diskCurrent,   \* the values of current one of which survives a stop
  diskPrevious,
  linked,        \* history: revisions current has named, what a caller may Restore
  op             \* the operation that holds the mutex

files == <<dirs, durable, valid, unsynced>>
links == <<current, previous, diskCurrent, diskPrevious, linked>>
vars == <<files, links, op>>

Targets == Revisions \cup {None}
NoOp == [pc |-> "idle", rev |-> None]
Pcs == {"idle", "stage", "validate", "rename", "syncRevisions", "link", "switch",
        "swap", "unlinkPrevious", "syncRoot"}

\* Every variable holds a value of its kind.
TypeOK ==
  /\ dirs \subseteq Revisions /\ durable \subseteq Revisions /\ valid \subseteq Revisions
  /\ unsynced \subseteq Revisions
  /\ current \in Targets /\ previous \in Targets
  /\ diskCurrent \subseteq Targets /\ diskPrevious \subseteq Targets
  /\ linked \subseteq Targets
  /\ op \in [pc : Pcs, rev : Targets]

Init ==
  /\ dirs = {} /\ durable = {} /\ valid = {} /\ unsynced = {}
  /\ current = None /\ previous = None
  /\ diskCurrent = {None} /\ diskPrevious = {None} /\ linked = {}
  /\ op = NoOp

-----------------------------------------------------------------------------
Return == op' = NoOp
Goto(pc) == op' = [op EXCEPT !.pc = pc]

\* atomicSymlink, or os.Remove for None: the entry changes, it is not synced.
LinkCurrent(r) ==
  /\ current' = r
  /\ diskCurrent' = diskCurrent \cup {r}
  /\ linked' = linked \cup {r}
LinkPrevious(r) ==
  /\ previous' = r
  /\ diskPrevious' = diskPrevious \cup {r}

\* Apply and Publish: the revision id is known, look for its directory.
AfterLookupUnstaged == "rename"
AfterLookup == "stage"
Apply(r) ==
  /\ op = NoOp
  /\ op' = [pc |-> IF r \in dirs THEN "link" ELSE AfterLookup, rev |-> r]
  /\ UNCHANGED <<files, links>>

\* Every file written and synced, and the staging directory synced.
Stage ==
  /\ op.pc = "stage"
  /\ Goto("validate")
  /\ UNCHANGED <<files, links>>

\* The validate hook accepts the staged files (TLSStore checked the pair before).
Validate ==
  /\ op.pc = "validate"
  /\ valid' = valid \cup {op.rev}
  /\ Goto("rename")
  /\ UNCHANGED <<dirs, durable, unsynced, links>>

\* The staging directory gets its final name.
AfterRenameUnsynced == "link"
AfterRename == "syncRevisions"
Rename ==
  /\ op.pc = "rename"
  /\ dirs' = dirs \cup {op.rev}
  /\ Goto(AfterRename)
  /\ UNCHANGED <<durable, valid, unsynced, links>>

\* syncDir(revisions) makes every entry of the directory durable.
SyncRevisions ==
  /\ op.pc = "syncRevisions"
  /\ durable' = dirs
  /\ unsynced' = unsynced \ dirs
  /\ Goto("link")
  /\ UNCHANGED <<dirs, valid, links>>

\* Nothing to do if current is this revision already, else remember it.
Link ==
  /\ op.pc = "link"
  /\ IF current = op.rev THEN Return ELSE Goto("switch")
  /\ IF current \in {op.rev, None}
     THEN UNCHANGED <<previous, diskPrevious>>
     ELSE LinkPrevious(current)
  /\ UNCHANGED <<files, current, diskCurrent, linked>>

Switch ==
  /\ op.pc = "switch"
  /\ LinkCurrent(op.rev)
  /\ Goto("syncRoot")
  /\ UNCHANGED <<files, previous, diskPrevious>>

\* syncDir(root), the last call of Apply, Rollback and Restore.
SyncRoot ==
  /\ op.pc = "syncRoot"
  /\ diskCurrent' = {current}
  /\ diskPrevious' = {previous}
  /\ Return
  /\ UNCHANGED <<files, current, previous, linked>>

\* Rollback swaps current and previous in two steps.
RollbackTarget == previous
Rollback ==
  /\ op = NoOp
  /\ previous # None
  /\ current # None
  /\ LinkCurrent(RollbackTarget)
  /\ op' = [pc |-> "swap", rev |-> current]
  /\ UNCHANGED <<files, previous, diskPrevious>>

RollbackSwap ==
  /\ op.pc = "swap"
  /\ LinkPrevious(op.rev)
  /\ Goto("syncRoot")
  /\ UNCHANGED <<files, current, diskCurrent, linked>>

\* TLSStore.Rollback without a previous revision.
RollbackClear ==
  /\ op = NoOp
  /\ RollbackClears
  /\ previous = None
  /\ LinkCurrent(None)
  /\ op' = [pc |-> "syncRoot", rev |-> None]
  /\ UNCHANGED <<files, previous, diskPrevious>>

\* Restore of a known revision leaves previous alone.  The callers pass one that
\* was active before.
Restorable(r) == r \in dirs
Restore(r) ==
  /\ op = NoOp
  /\ r \in linked
  /\ Restorable(r)
  /\ LinkCurrent(r)
  /\ op' = [pc |-> "syncRoot", rev |-> r]
  /\ UNCHANGED <<files, previous, diskPrevious>>

\* Restore("") removes both links.
RestoreNone ==
  /\ op = NoOp
  /\ LinkCurrent(None)
  /\ op' = [pc |-> "unlinkPrevious", rev |-> None]
  /\ UNCHANGED <<files, previous, diskPrevious>>

UnlinkPrevious ==
  /\ op.pc = "unlinkPrevious"
  /\ LinkPrevious(None)
  /\ Goto("syncRoot")
  /\ UNCHANGED <<files, current, diskCurrent, linked>>

\* The operation ends before its next call: the call fails and its error is
\* returned (a staging directory is removed), or the controller is killed and
\* started again on the same file system.  What was renamed or linked before
\* stays as it is, synced or not.
BreakOff ==
  /\ op.pc # "idle"
  /\ unsynced' = IF op.pc = "syncRevisions" THEN unsynced \cup {op.rev} ELSE unsynced
  /\ Return
  /\ UNCHANGED <<dirs, durable, valid, links>>

\* The machine stops, and the controller is started again with what survived.
Crash ==
  /\ \E lost \in SUBSET (dirs \ durable) : dirs' = dirs \ lost
  /\ durable' = dirs'
  /\ unsynced' = unsynced \ dirs'
  /\ current' \in diskCurrent /\ diskCurrent' = {current'}
  /\ previous' \in diskPrevious /\ diskPrevious' = {previous'}
  /\ op' = NoOp
  /\ UNCHANGED <<valid, linked>>

ApplyStep ==
  Stage \/ Validate \/ Rename \/ SyncRevisions \/ Link \/ Switch \/ SyncRoot

Next ==
  \/ \E r \in Revisions : Apply(r) \/ Restore(r)
  \/ ApplyStep
  \/ Rollback \/ RollbackSwap \/ RollbackClear
  \/ RestoreNone \/ UnlinkPrevious
  \/ BreakOff \/ Crash

Spec == Init /\ [][Next]_vars

-----------------------------------------------------------------------------
\* What a link may be found to be after a stop of the machine.
Surviving == diskCurrent \cup diskPrevious

\* Whatever call fails, and whenever the controller or the machine stops, the
\* links found after a stop of the machine are absent or name a directory that
\* is still there, unless it is one whose publication had broken off exactly
\* between the rename and the sync of its parent (Apply, Publish).
LinksSurvive == Surviving \ unsynced \subseteq durable \cup {None}

\* No stop of the machine leaves a dangling link.  The code does not keep it: a
\* repeated Apply finds the directory (Stat) and links it without a sync.
LinksDurable == Surviving \subseteq durable \cup {None}

\* current never names a revision that was not written completely and validated.
CurrentValidated == {current, previous} \subseteq valid \cup {None}

\* The store implements its promise: published revisions are the durable ones.
Promise == INSTANCE AtomicStore WITH published <- durable, unsure <- unsynced
Atomic == Promise!Spec
=============================================================================
