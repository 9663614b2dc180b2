------------------------ MODULE RevisionStoreProofs ------------------------
(***************************************************************************)
(* Theorems about RevisionStore for any set of revisions, checked by TLAPS: *)
(* whichever calls fail, a sync included, and whenever the controller is   *)
(* killed or the machine stops.                                            *)
(***************************************************************************)
EXTENDS RevisionStore, TLAPS

-----------------------------------------------------------------------------
(* The inductive invariant                                                 *)

\* What can be seen was validated, and so was what an operation is about to
\* rename or link, and what a link may be found to be after a stop.
Checked ==
  /\ TypeOK
  /\ dirs \subseteq valid
  /\ op.pc \in {"validate", "rename", "stage", "syncRevisions", "link", "switch", "swap"}
       => op.rev \in Revisions
  /\ op.pc \in {"rename", "syncRevisions", "link", "switch", "swap"} => op.rev \in valid
  /\ current \in diskCurrent /\ previous \in diskPrevious
  /\ diskCurrent \cup diskPrevious \subseteq valid \cup {None}

\* A directory that can be seen is durable, or its publication broke off, or it
\* is the one between its rename and the sync; what is or is about to be linked
\* is durable or one that broke off.
Ordered ==
  /\ durable \subseteq dirs
  /\ dirs \subseteq durable \cup unsynced \cup {op.rev}
  /\ op.pc # "syncRevisions" => dirs \subseteq durable \cup unsynced
  /\ op.pc = "syncRevisions" => op.rev \in dirs
  /\ op.pc \in {"link", "switch", "swap"} => op.rev \in durable \cup unsynced
  /\ diskCurrent \cup diskPrevious \subseteq durable \cup unsynced \cup {None}

IInv == Checked /\ Ordered

-----------------------------------------------------------------------------
\* Every step keeps the first half.
LEMMA NextKeepsChecked ==
  ASSUME Checked, [Next]_vars
  PROVE  Checked'
<1> USE StoreAssumption DEF Checked, TypeOK, Targets, Pcs, files, links, NoOp, Goto, Return
<1>1. ASSUME NEW r \in Revisions, Apply(r) PROVE Checked'
  BY <1>1 DEF Apply, AfterLookup
<1>2. ASSUME NEW r \in Revisions, Restore(r) PROVE Checked'
  BY <1>2 DEF Restore, Restorable, LinkCurrent
<1>3. CASE Stage
  BY <1>3 DEF Stage
<1>4. CASE Validate
  BY <1>4 DEF Validate
<1>5. CASE Rename
  BY <1>5 DEF Rename, AfterRename
<1>6. CASE SyncRevisions
  BY <1>6 DEF SyncRevisions
<1>7. CASE Link
  BY <1>7 DEF Link, LinkPrevious
<1>8. CASE Switch
  BY <1>8 DEF Switch, LinkCurrent
<1>9. CASE SyncRoot
  BY <1>9 DEF SyncRoot
<1>10. CASE Rollback
  BY <1>10 DEF Rollback, RollbackTarget, LinkCurrent
<1>11. CASE RollbackSwap
  BY <1>11 DEF RollbackSwap, LinkPrevious
<1>12. CASE RollbackClear \/ RestoreNone
  BY <1>12 DEF RollbackClear, RestoreNone, LinkCurrent
<1>13. CASE UnlinkPrevious
  BY <1>13 DEF UnlinkPrevious, LinkPrevious
<1>14. CASE BreakOff \/ UNCHANGED vars
  BY <1>14 DEF BreakOff, vars
<1>15. CASE Crash
  BY <1>15 DEF Crash
<1> QED
  BY <1>1, <1>2, <1>3, <1>4, <1>5, <1>6, <1>7, <1>8, <1>9, <1>10, <1>11, <1>12, <1>13,
     <1>14, <1>15 DEF Next, ApplyStep

\* Every step keeps the second half.
LEMMA NextKeepsOrdered ==
  ASSUME Checked, Ordered, [Next]_vars
  PROVE  Ordered'
<1> USE StoreAssumption DEF Checked, TypeOK, Ordered, Surviving, Targets, Pcs, files, links,
        NoOp, Goto, Return
<1>1. ASSUME NEW r \in Revisions, Apply(r) PROVE Ordered'
  BY <1>1 DEF Apply, AfterLookup
<1>2. ASSUME NEW r \in Revisions, Restore(r) PROVE Ordered'
  BY <1>2 DEF Restore, Restorable, LinkCurrent
<1>3. CASE Stage
  BY <1>3 DEF Stage
<1>4. CASE Validate
  BY <1>4 DEF Validate
<1>5. CASE Rename
  BY <1>5 DEF Rename, AfterRename
<1>6. CASE SyncRevisions
  BY <1>6 DEF SyncRevisions
<1>7. CASE Link
  <2>1. CASE current \in {op.rev, None}
    BY <1>7, <2>1 DEF Link
  <2>2. CASE current \notin {op.rev, None}
    <3>1. diskPrevious' = diskPrevious \cup {current} /\ diskCurrent' = diskCurrent
      BY <1>7, <2>2 DEF Link, LinkPrevious
    <3>2. op' = [op EXCEPT !.pc = "switch"] /\ UNCHANGED files
      BY <1>7, <2>2 DEF Link
    <3>3. op'.pc = "switch" /\ op'.rev = op.rev
      BY <3>2
    <3> QED BY <1>7, <3>1, <3>2, <3>3 DEF Link
  <2> QED BY <2>1, <2>2
<1>8. CASE Switch
  BY <1>8 DEF Switch, LinkCurrent
<1>9. CASE SyncRoot
  <2>1. /\ diskCurrent' = {current} /\ diskPrevious' = {previous}
        /\ op' = NoOp /\ UNCHANGED files
    BY <1>9 DEF SyncRoot
  <2>2. Surviving' \subseteq Surviving
    BY <2>1
  <2> QED BY <1>9, <2>1, <2>2 DEF SyncRoot
<1>10. CASE Rollback
  BY <1>10 DEF Rollback, RollbackTarget, LinkCurrent
<1>11. CASE RollbackSwap
  BY <1>11 DEF RollbackSwap, LinkPrevious
<1>12. CASE RollbackClear
  BY <1>12 DEF RollbackClear, LinkCurrent
<1>13. CASE RestoreNone
  BY <1>13 DEF RestoreNone, LinkCurrent
<1>14. CASE UnlinkPrevious
  BY <1>14 DEF UnlinkPrevious, LinkPrevious
<1>15. CASE BreakOff
  <2>1. /\ op' = NoOp /\ UNCHANGED <<dirs, durable, links>>
        /\ unsynced \subseteq unsynced'
        /\ op.pc = "syncRevisions" => op.rev \in unsynced'
    BY <1>15 DEF BreakOff
  <2>2. Surviving' = Surviving
    BY <2>1
  <2> QED BY <2>1, <2>2
<1>16. CASE Crash
  <2>1. dirs' \subseteq dirs /\ durable' = dirs' /\ unsynced' = unsynced \ dirs' /\ op' = NoOp
    BY <1>16 DEF Crash
  <2>2. durable \subseteq dirs'
    BY <1>16 DEF Crash
  <2>3. Surviving' \subseteq Surviving
    BY <1>16 DEF Crash
  <2> QED BY <2>1, <2>2, <2>3
<1>17. CASE UNCHANGED vars
  BY <1>17 DEF vars
<1> QED
  BY <1>1, <1>2, <1>3, <1>4, <1>5, <1>6, <1>7, <1>8, <1>9, <1>10, <1>11, <1>12, <1>13, <1>14, <1>15, <1>16, <1>17
     DEF Next, ApplyStep

\* The store never leaves the inductive invariant.
THEOREM Invariance == Spec => []IInv
<1>1. Init => IInv
  BY StoreAssumption DEF Init, IInv, Checked, Ordered, Surviving, TypeOK, Targets, Pcs, NoOp
<1>2. IInv /\ [Next]_vars => IInv'
  BY NextKeepsChecked, NextKeepsOrdered DEF IInv
<1> QED BY <1>1, <1>2, PTL DEF Spec

\* Every variable holds a value of its kind.
THEOREM TypeCorrect == Spec => []TypeOK
<1>1. IInv => TypeOK
  BY DEF IInv, Checked
<1> QED BY <1>1, Invariance, PTL

\* current and previous only ever name revisions that were written completely
\* and passed the validation, whichever call fails and whenever the controller or
\* the machine stops (Materializer.Apply, TLSStore.Publish).
THEOREM OnlyValidated == Spec => []CurrentValidated
<1>1. IInv => CurrentValidated
  BY DEF IInv, Checked, CurrentValidated
<1> QED BY <1>1, Invariance, PTL

\* Whichever call fails, a sync included, and whenever the controller is killed:
\* after a stop of the machine current and previous are absent or name a revision
\* that is still there, or one whose Apply or Publish had ended exactly between
\* the rename and the sync of revisions/.
THEOREM LinksAlwaysSurvive == Spec => []LinksSurvive
<1>1. IInv => LinksSurvive
  BY DEF IInv, Ordered, LinksSurvive, Surviving
<1> QED BY <1>1, Invariance, PTL

-----------------------------------------------------------------------------
\* Every step of the store is a step of AtomicStore or leaves it unchanged.
LEMMA StepIsAtomic ==
  ASSUME IInv, [Next]_vars
  PROVE  [Promise!Next]_<<<<durable, unsynced>>, current, previous>>
<1> USE StoreAssumption DEF IInv, Checked, TypeOK, Ordered, Surviving, Targets, files, links,
        Promise!revs, Promise!Known
<1>1. ASSUME NEW r \in Revisions, Restore(r) PROVE Promise!Next
  BY <1>1 DEF Restore, Restorable, LinkCurrent, NoOp, Promise!Next, Promise!Select
<1>2. CASE SyncRevisions
  <2>1. dirs \in SUBSET Revisions /\ durable' = durable \cup dirs /\ unsynced' = unsynced \ dirs
    BY <1>2 DEF SyncRevisions
  <2>2. UNCHANGED <<current, previous>>
    BY <1>2 DEF SyncRevisions
  <2> QED BY <2>1, <2>2 DEF Promise!Next, Promise!Publish
<1>3. CASE Switch
  BY <1>3 DEF Switch, LinkCurrent, Promise!Next, Promise!Select
<1>4. CASE Rollback
  BY <1>4 DEF Rollback, RollbackTarget, LinkCurrent, Promise!Next, Promise!Select
<1>5. CASE RollbackClear \/ RestoreNone
  BY <1>5 DEF RollbackClear, RestoreNone, LinkCurrent, Promise!Next, Promise!Select
<1>6. CASE RollbackSwap
  BY <1>6 DEF RollbackSwap, LinkPrevious, Promise!Next, Promise!Remember
<1>7. CASE UnlinkPrevious
  BY <1>7 DEF UnlinkPrevious, LinkPrevious, Promise!Next, Promise!Remember
<1>8. CASE Link
  BY <1>8 DEF Link, LinkPrevious, Promise!Next, Promise!Remember
<1>9. CASE BreakOff
  BY <1>9 DEF BreakOff, Promise!Next, Promise!BreakOff
<1>10. CASE Crash
  <2>1. /\ dirs' \in SUBSET Revisions
        /\ durable' = durable \cup dirs' /\ unsynced' = unsynced \ dirs'
    BY <1>10 DEF Crash
  <2>2. /\ current' \in durable \cup unsynced \cup {None}
        /\ previous' \in durable \cup unsynced \cup {None}
    BY <1>10 DEF Crash
  <2> QED BY <2>1, <2>2 DEF Promise!Next, Promise!Recover
<1>11. CASE \/ \E r \in Revisions : Apply(r)
            \/ Stage \/ Validate \/ Rename \/ SyncRoot \/ UNCHANGED vars
  BY <1>11 DEF Apply, Stage, Validate, Rename, SyncRoot, vars
<1> QED
  BY <1>1, <1>2, <1>3, <1>4, <1>5, <1>6, <1>7, <1>8, <1>9, <1>10, <1>11 DEF Next, ApplyStep

\* Refinement: with every call a separate step that may fail, a sync included,
\* and kills and stops of the machine in between, the store implements the
\* one-step AtomicStore, both of its links included.
THEOREM Refinement == Spec => Atomic
<1>1. Init => Promise!Init
  BY DEF Init, Promise!Init
<1>2. IInv /\ [Next]_vars => [Promise!Next]_<<<<durable, unsynced>>, current, previous>>
  BY StepIsAtomic
<1> QED
  BY <1>1, <1>2, Invariance, PTL DEF Spec, Atomic, Promise!Spec, Promise!revs
=============================================================================
