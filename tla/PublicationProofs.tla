-------------------------- MODULE PublicationProofs --------------------------
(***************************************************************************)
(* Theorems about Publication, for every set of users, pairs and faults.   *)
(***************************************************************************)
EXTENDS Publication, TLAPS

\* The stores' operations return links to revisions.
LEMMA StoreTypes ==
  ASSUME NEW s \in [current : Revs, previous : Revs], NEW r \in Revs
  PROVE  /\ Applied(s, r) \in [current : Revs, previous : Revs]
         /\ RolledBack(s) \in [current : Revs, previous : Revs]
         /\ Restored(s, r) \in [current : Revs, previous : Revs]
         /\ ApplyLeaves(s, r) \subseteq [current : Revs, previous : Revs]
         /\ RollbackLeaves(s) \subseteq [current : Revs, previous : Revs]
         /\ RestoreLeaves(s, r) \subseteq [current : Revs, previous : Revs]
  <1> DEFINE Links == [current : Revs, previous : Revs]
  <1>1. None \in Revs
    BY DEF Revs
  <1>2. Applied(s, r) \in Links /\ RolledBack(s) \in Links /\ Restored(s, r) \in Links
    BY <1>1 DEF Applied, RolledBack, Restored
  <1>3. ApplyLeaves(s, r) \subseteq Links
    BY <1>2 DEF ApplyLeaves
  <1>4. RollbackLeaves(s) \subseteq Links
    BY <1>2 DEF RollbackLeaves
  <1>5. RestoreLeaves(s, r) \subseteq Links
    BY <1>2 DEF RestoreLeaves
  <1> QED BY <1>2, <1>3, <1>4, <1>5

\* What is rendered from the table is a revision.
LEMMA RenderType ==
  ASSUME NEW t \in [Users -> Rows], NEW p \in Pairs \cup {None}
  PROVE  Render(t, p) \in Revs
  <1>1. \A u \in Active(t) : <<u, t[u].cred>> \in Users \X (0..MaxCred)
    BY DEF Active, Rows
  <1>2. {<<u, t[u].cred>> : u \in Active(t)} \in SUBSET (Users \X (0..MaxCred))
    BY <1>1
  <1> QED BY <1>2 DEF Render, Revs, Contents

\* A user's row stays a row.
LEMMA RowTypes ==
  ASSUME NEW row \in Rows, minted \in 0..MaxCred, MaxCred \in Nat
  PROVE  /\ Statused(row) \subseteq Rows
         /\ Renewed(row) \subseteq Rows
         /\ Renewed(row) # {} => minted + 1 \in 0..MaxCred
  <1>1. Statused(row) \subseteq Rows
    BY DEF Statused, Rows, Statuses
  <1>2. Renewed(row) # {} => minted # MaxCred
    BY DEF Renewed
  <1>3. Renewed(row) # {} => minted + 1 \in 0..MaxCred
    BY <1>2
  <1>4. Renewed(row) \subseteq Rows
    BY <1>3 DEF Renewed, Rows, Statuses
  <1> QED BY <1>1, <1>3, <1>4

\* The type invariant holds at the start and is kept by every step.
LEMMA TypeInit == Init => TypeOK
  BY PublicationAssumption
  DEF Init, TypeOK, Rows, Statuses, Revs, JobRec, NoJob, Absent, JobPcs, BootPcs, Down

\* The facts about constants that the steps below use.
LEMMA Basics ==
  /\ MaxFaults \in Nat /\ MaxCred \in Nat
  /\ None \in Revs
  /\ NoJob \in JobRec
  BY PublicationAssumption DEF Revs, NoJob, Absent, Rows, Statuses, JobRec, JobPcs

\* A step counts at most one fault and notes at most what Harms names.
LEMMA Counted ==
  ASSUME TypeOK, [Next]_vars
  PROVE  faults' \in 0..MaxFaults /\ harm' \subseteq Harms
  <1>1. (\E kind \in FaultKinds : Fault(kind)) \/ faults' = faults
    BY DEF Next, UserStep, TLSStep, BootStep, vars, FaultKinds, NoFault, DBFails, DBWorks,
           EndpointFails, EndpointWorks, Undoes, UndoFails, UserWrite, PublishPair, UserApply,
           UserSetActive, UserRestart, RollFiles, RollActive, RollProcess, UserUndo, TLSApply,
           TLSSetActive, TLSReload, SaveMetadata, CompletePublished, BackConfig, BackPair,
           BackActive, BackProcess, BootServe, BootSnapshot, BootApply, BootSetActive, BootRestart,
           Cancel, Exit, AutoRestart, ControllerStop
  <1>2. faults' \in 0..MaxFaults
    BY <1>1, PublicationAssumption DEF Fault, TypeOK
  <1>3. harm' \subseteq harm \cup Harms
    BY DEF Next, UserStep, TLSStep, BootStep, vars, Harms, NoHarm, Harm, Raced, Early,
           Undoes, UndoFails, UserWrite, PublishPair, UserApply,
           UserSetActive, UserRestart, RollFiles, RollActive, RollProcess, UserUndo, TLSApply,
           TLSSetActive, TLSReload, SaveMetadata, CompletePublished, BackConfig, BackPair,
           BackActive, BackProcess, BootServe, BootSnapshot, BootApply, BootSetActive, BootRestart,
           Cancel, Exit, AutoRestart, ControllerStop
  <1> QED BY <1>2, <1>3 DEF TypeOK

\* The record of the job, its fields, and the updates that the steps make.
LEMMA JobTypes ==
  ASSUME job \in JobRec
  PROVE  /\ job.user \in Users \cup {None} /\ job.before \in Rows
         /\ job.new \in Revs /\ job.old \in Revs
         /\ job.pair \in Pairs \cup {None} /\ job.oldPair \in Pairs \cup {None}
         /\ \A pc \in JobPcs : [job EXCEPT !.pc = pc] \in JobRec
         /\ \A pc \in JobPcs : [job EXCEPT !.pc = pc, !.ok = FALSE] \in JobRec
         /\ [[job EXCEPT !.pc = "backActive"] EXCEPT !.ok = FALSE] \in JobRec
         /\ \A pc \in JobPcs, n \in Revs : [job EXCEPT !.pc = pc, !.new = n] \in JobRec
         /\ \A pc \in JobPcs, o \in Revs, n \in Revs :
              [job EXCEPT !.pc = pc, !.old = o, !.new = n] \in JobRec
         /\ \A pc \in JobPcs, w \in {"files", "all", "publish", "reload"} :
              [job EXCEPT !.pc = pc, !.undo = w] \in JobRec
         /\ [job EXCEPT !.pc = "backConfig", !.undo = "revert", !.live = TRUE] \in JobRec
         /\ [job EXCEPT !.live = FALSE] \in JobRec
  <1>1. /\ job.user \in Users \cup {None} /\ job.before \in Rows
        /\ job.new \in Revs /\ job.old \in Revs
        /\ job.pair \in Pairs \cup {None} /\ job.oldPair \in Pairs \cup {None}
    BY DEF JobRec
  <1>2. \A pc \in JobPcs : [job EXCEPT !.pc = pc] \in JobRec
    BY DEF JobRec
  <1>3. \A pc \in JobPcs : [job EXCEPT !.pc = pc, !.ok = FALSE] \in JobRec
    BY DEF JobRec
  <1>4. [[job EXCEPT !.pc = "backActive"] EXCEPT !.ok = FALSE] \in JobRec
    <2>1. "backActive" \in JobPcs
      BY DEF JobPcs
    <2> QED BY <2>1 DEF JobRec
  <1>5. \A pc \in JobPcs, n \in Revs : [job EXCEPT !.pc = pc, !.new = n] \in JobRec
    BY DEF JobRec
  <1>6. \A pc \in JobPcs, o \in Revs, n \in Revs :
          [job EXCEPT !.pc = pc, !.old = o, !.new = n] \in JobRec
    BY DEF JobRec
  <1>7. \A pc \in JobPcs, w \in {"files", "all", "publish", "reload"} :
          [job EXCEPT !.pc = pc, !.undo = w] \in JobRec
    BY DEF JobRec
  <1>8. [job EXCEPT !.pc = "backConfig", !.undo = "revert", !.live = TRUE] \in JobRec
    <2>1. "backConfig" \in JobPcs
      BY DEF JobPcs
    <2> QED BY <2>1 DEF JobRec
  <1>9. [job EXCEPT !.live = FALSE] \in JobRec
    BY DEF JobRec
  <1> QED BY Zenon, <1>1, <1>2, <1>3, <1>4, <1>5, <1>6, <1>7, <1>8, <1>9

\* A start or reload of the endpoint leaves a process record.
LEMMA ProcTypes ==
  ASSUME TypeOK, NEW r \in Revs
  PROVE  /\ RestartWorks(r) \/ RestartFails(r)
              => proc' \in [state : {"down", "up", "backoff"}, rev : Revs, dir : Revs]
         /\ ReloadWorks \/ ReloadFails
              => proc' \in [state : {"down", "up", "backoff"}, rev : Revs, dir : Revs]
  BY Basics DEF TypeOK, RestartWorks, RestartFails, ReloadWorks, ReloadFails, Started, Down

\* Every step keeps the type invariant.
LEMMA TypeStep == TypeOK /\ [Next]_vars => TypeOK'
  <1> SUFFICES ASSUME TypeOK, [Next]_vars PROVE TypeOK'
    OBVIOUS
  <1>0. /\ MaxFaults \in Nat /\ MaxCred \in Nat /\ None \in Revs /\ NoJob \in JobRec
        /\ faults' \in 0..MaxFaults /\ harm' \subseteq Harms
    BY Basics, Counted
  <1> DEFINE ProcRec == [state : {"down", "up", "backoff"}, rev : Revs, dir : Revs]
  <1> USE DEF TypeOK, db, stores
  <1>1. ASSUME NEW u \in Users, UserWrite(u) PROVE TypeOK'
    <2>1. users[u] \in Rows
      OBVIOUS
    <2>2. users' \in [Users -> Rows] /\ minted' \in 0..MaxCred
      BY <1>0, <1>1, <2>1, RowTypes DEF UserWrite
    <2>3. job' \in JobRec
      BY Zenon, <1>1, <2>1 DEF UserWrite, Early, NoJob, JobRec, JobPcs, Revs
    <2> QED BY <1>0, <1>1, <2>2, <2>3 DEF UserWrite
  <1>2. ASSUME NEW p \in Pairs, PublishPair(p) PROVE TypeOK'
    <2>2. job' \in JobRec
      <3>1. \A e \in BOOLEAN :
              [NoJob EXCEPT !.pc = "apply", !.kind = "tls", !.pair = p, !.old = active,
                            !.oldPair = meta, !.early = e] \in JobRec
        <4>1. "apply" \in JobPcs
          BY DEF JobPcs
        <4> QED BY <4>1, <1>0 DEF JobRec
      <3>2. Early \in BOOLEAN
        BY Zenon DEF Early
      <3> QED BY <1>2, <3>1, <3>2 DEF PublishPair
    <2> QED BY <1>0, <1>2, <2>2 DEF PublishPair
  <1>3. CASE UserApply
    <2>2. job' \in JobRec
      <3>1. Render(users, meta) \in Revs /\ {"setActive", "undoUser"} \subseteq JobPcs
        BY RenderType DEF JobPcs
      <3>2. /\ [job EXCEPT !.pc = "setActive", !.old = active, !.new = Render(users, meta)] \in JobRec
            /\ [job EXCEPT !.pc = "undoUser"] \in JobRec
        BY Zenon, <3>1, JobTypes
      <3> QED BY <1>3, <3>2 DEF UserApply, Goto
    <2>3. cfg' \in [current : Revs, previous : Revs]
      BY Zenon, <1>0, <1>3, JobTypes, StoreTypes, RenderType DEF UserApply
    <2> QED BY Zenon, <1>3, <1>0, <2>2, <2>3, JobTypes DEF UserApply
  <1>4. CASE UserSetActive
    <2>2. job' \in JobRec
      BY Zenon, <1>0, <1>4, JobTypes DEF UserSetActive, Goto, JobPcs
    <2> QED BY Zenon, <1>4, <1>0, <2>2, JobTypes DEF UserSetActive
  <1>5. CASE UserRestart
    <2>2. job' \in JobRec
      BY Zenon, <1>0, <1>5, JobTypes DEF UserRestart, Done, JobPcs
    <2>3. proc' \in ProcRec
      BY Zenon, <1>0, <1>5, JobTypes, ProcTypes DEF UserRestart
    <2> QED BY Zenon, <1>5, <1>0, <2>2, <2>3, JobTypes DEF UserRestart
  <1>6. CASE RollFiles
    <2>2. job' \in JobRec
      BY Zenon, <1>0, <1>6, JobTypes DEF RollFiles, Goto, JobPcs
    <2>3. cfg' \in [current : Revs, previous : Revs]
      BY Zenon, <1>0, <1>6, JobTypes, StoreTypes DEF RollFiles
    <2> QED BY Zenon, <1>6, <1>0, <2>2, <2>3, JobTypes DEF RollFiles
  <1>7. CASE RollActive
    <2>2. job' \in JobRec
      BY Zenon, <1>0, <1>7, JobTypes DEF RollActive, Goto, JobPcs
    <2> QED BY Zenon, <1>7, <1>0, <2>2, JobTypes DEF RollActive
  <1>8. CASE RollProcess
    <2>2. job' \in JobRec
      BY Zenon, <1>0, <1>8, JobTypes DEF RollProcess, Goto, JobPcs
    <2>3. proc' \in ProcRec
      BY Zenon, <1>0, <1>8, JobTypes, ProcTypes DEF RollProcess
    <2> QED BY Zenon, <1>8, <1>0, <2>2, <2>3, JobTypes DEF RollProcess
  <1>9. CASE UserUndo
    <2>2. job' \in JobRec
      BY Zenon, <1>0, <1>9, JobTypes DEF UserUndo, Done, JobPcs
    <2> QED BY Zenon, <1>9, <1>0, <2>2, JobTypes DEF UserUndo
  <1>10. CASE TLSApply
    <2>2. job' \in JobRec
      <3>1. Render(users, job.pair) \in Revs /\ {"setActive", "backConfig"} \subseteq JobPcs
        BY Zenon, RenderType, JobTypes DEF JobPcs
      <3>2. /\ [job EXCEPT !.pc = "setActive", !.new = Render(users, job.pair)] \in JobRec
            /\ [job EXCEPT !.pc = "backConfig", !.undo = "publish"] \in JobRec
        BY Zenon, <3>1, JobTypes
      <3> QED BY <1>10, <3>2 DEF TLSApply
    <2>3. cfg' \in [current : Revs, previous : Revs]
      BY Zenon, <1>0, <1>10, JobTypes, StoreTypes, RenderType DEF TLSApply
    <2> QED BY Zenon, <1>10, <1>0, <2>2, <2>3, JobTypes DEF TLSApply
  <1>11. CASE TLSSetActive
    <2>2. job' \in JobRec
      BY Zenon, <1>0, <1>11, JobTypes DEF TLSSetActive, Goto, JobPcs
    <2> QED BY Zenon, <1>11, <1>0, <2>2, JobTypes DEF TLSSetActive
  <1>12. CASE TLSReload
    <2>2. job' \in JobRec
      BY Zenon, <1>0, <1>12, JobTypes DEF TLSReload, Goto, JobPcs
    <2>3. proc' \in ProcRec
      BY Zenon, <1>0, <1>12, JobTypes, ProcTypes DEF TLSReload
    <2> QED BY Zenon, <1>12, <1>0, <2>2, <2>3, JobTypes DEF TLSReload
  <1>13. CASE SaveMetadata
    <2>2. job' \in JobRec
      BY Zenon, <1>0, <1>13, JobTypes DEF SaveMetadata, Goto, JobPcs
    <2> QED BY Zenon, <1>13, <1>0, <2>2, JobTypes DEF SaveMetadata
  <1>14. CASE CompletePublished
    <2>1. job' \in JobRec
      BY Zenon, <1>0, <1>14, JobTypes DEF CompletePublished, Done, JobPcs
    <2> QED BY Zenon, <1>14, <1>0, <2>1, JobTypes DEF CompletePublished
  <1>15. CASE BackConfig
    <2>2. job' \in JobRec
      BY Zenon, <1>0, <1>15, JobTypes DEF BackConfig, Goto, JobPcs
    <2>3. cfg' \in [current : Revs, previous : Revs]
      BY Zenon, <1>0, <1>15, JobTypes, StoreTypes DEF BackConfig
    <2> QED BY Zenon, <1>15, <1>0, <2>2, <2>3, JobTypes DEF BackConfig
  <1>16. CASE BackPair
    <2>2. job' \in JobRec
      BY Zenon, <1>0, <1>16, JobTypes DEF BackPair, AfterBackPair, JobPcs
    <2> QED BY Zenon, <1>16, <1>0, <2>2, JobTypes DEF BackPair, RestoredPair
  <1>17. CASE BackActive
    <2>2. job' \in JobRec
      BY Zenon, <1>0, <1>17, JobTypes DEF BackActive, Goto, JobPcs
    <2> QED BY Zenon, <1>17, <1>0, <2>2, JobTypes DEF BackActive
  <1>18. CASE BackProcess
    <2>2. job' \in JobRec
      BY Zenon, <1>0, <1>18, JobTypes DEF BackProcess, Done, JobPcs
    <2>3. proc' \in ProcRec
      BY Zenon, <1>0, <1>18, JobTypes, ProcTypes DEF BackProcess
    <2> QED BY Zenon, <1>18, <1>0, <2>2, <2>3, JobTypes DEF BackProcess
  <1>19. CASE BootServe
    BY <1>19, <1>0 DEF BootServe, BootPcs
  <1>20. CASE BootSnapshot
    BY <1>20, <1>0, RenderType DEF BootSnapshot, BootPcs
  <1>21. CASE BootApply
    <2>1. cfg' \in [current : Revs, previous : Revs]
      BY Zenon, <1>0, <1>21, JobTypes, StoreTypes DEF BootApply
    <2> QED BY <1>21, <1>0, <2>1 DEF BootApply, BootPcs
  <1>22. CASE BootSetActive
    BY <1>22, <1>0 DEF BootSetActive, BootPcs
  <1>23. CASE BootRestart
    <2>2. proc' \in ProcRec
      BY Zenon, <1>0, <1>23, JobTypes, ProcTypes DEF BootRestart
    <2> QED BY <1>23, <1>0, <2>2 DEF BootRestart, BootPcs
  <1>24. CASE Cancel
    <2>2. job' \in JobRec
      BY Zenon, <1>0, <1>24, JobTypes DEF Cancel, JobPcs
    <2> QED BY Zenon, <1>24, <1>0, <2>2, JobTypes DEF Cancel
  <1>25. CASE Exit
    <2> QED BY <1>25, <1>0 DEF Exit
  <1>26. CASE AutoRestart
    <2>1. proc' \in ProcRec
      BY <1>0, <1>26 DEF AutoRestart, Started, Down
    <2> QED BY <1>26, <1>0, <2>1 DEF AutoRestart
  <1>27. CASE ControllerStop
    <2>2. job' \in JobRec
      BY Zenon, <1>0, <1>27, JobTypes DEF ControllerStop, JobPcs
    <2> QED BY Zenon, <1>27, <1>0, <2>2, JobTypes DEF ControllerStop, BootPcs, Down
  <1>28. CASE UNCHANGED vars
    BY <1>28 DEF vars
  <1> QED
    BY <1>1, <1>2, <1>3, <1>4, <1>5, <1>6, <1>7, <1>8, <1>9, <1>10, <1>11, <1>12, <1>13, <1>14,
       <1>15, <1>16, <1>17, <1>18, <1>19, <1>20, <1>21, <1>22, <1>23, <1>24, <1>25, <1>26,
       <1>27, <1>28
    DEF Next, UserStep, TLSStep, BootStep

\* Every variable keeps its kind, whatever the constants.
THEOREM TypeCorrect == Spec => []TypeOK
  BY TypeInit, TypeStep, PTL DEF Spec

-----------------------------------------------------------------------------
\* Whatever fails wherever: AdminUI serves the pair of the metadata or none.
\* While the lock is held nothing but the job changes meta, so it is enough to
\* know what the job is about to activate.
AdminInv ==
  /\ job.pc = "complete" => job.pair = meta
  /\ AdminFollowsMetadata

\* AdminInv holds at the start and every step keeps it.
LEMMA AdminStep == TypeOK /\ AdminInv /\ [Next]_vars => AdminInv'
  <1> SUFFICES ASSUME TypeOK, AdminInv, [Next]_vars PROVE AdminInv'
    OBVIOUS
  <1>0. job \in JobRec /\ NoJob.pc = "idle"
    BY DEF TypeOK, NoJob
  <1> USE DEF AdminInv, AdminFollowsMetadata, db, stores
  <1>1. ASSUME NEW u \in Users, UserWrite(u) PROVE AdminInv'
    BY <1>0, <1>1 DEF UserWrite, NoJob
  <1>2. ASSUME NEW p \in Pairs, PublishPair(p) PROVE AdminInv'
    BY <1>0, <1>2 DEF PublishPair, NoJob
  <1>3. CASE UserApply
    BY <1>0, <1>3 DEF UserApply, Goto, JobRec
  <1>4. CASE UserSetActive
    BY <1>0, <1>4 DEF UserSetActive, Goto, JobRec
  <1>5. CASE UserRestart
    BY <1>0, <1>5 DEF UserRestart, Done, JobRec
  <1>6. CASE RollFiles
    BY <1>0, <1>6 DEF RollFiles, Goto, JobRec
  <1>7. CASE RollActive
    BY <1>0, <1>7 DEF RollActive, Goto, JobRec
  <1>8. CASE RollProcess
    BY <1>0, <1>8 DEF RollProcess, Goto, JobRec
  <1>9. CASE UserUndo
    BY <1>0, <1>9 DEF UserUndo, Done
  <1>10. CASE TLSApply
    BY <1>0, <1>10 DEF TLSApply, JobRec
  <1>11. CASE TLSSetActive
    BY <1>0, <1>11 DEF TLSSetActive, Goto, JobRec
  <1>12. CASE TLSReload
    BY <1>0, <1>12 DEF TLSReload, Goto, JobRec
  <1>13. CASE SaveMetadata
    BY <1>0, <1>13 DEF SaveMetadata, Goto, JobRec
  <1>14. CASE CompletePublished
    BY <1>0, <1>14 DEF CompletePublished, Done
  <1>15. CASE BackConfig
    BY <1>0, <1>15 DEF BackConfig, Goto, JobRec
  <1>16. CASE BackPair
    BY <1>0, <1>16 DEF BackPair, AfterBackPair, JobRec
  <1>17. CASE BackActive
    BY <1>0, <1>17 DEF BackActive, Goto, JobRec
  <1>18. CASE BackProcess
    BY <1>0, <1>18 DEF BackProcess, Done
  <1>19. CASE BootServe
    BY <1>0, <1>19 DEF BootServe, TypeOK
  <1>20. CASE BootSnapshot
    BY <1>0, <1>20 DEF BootSnapshot, TypeOK
  <1>21. CASE BootApply
    BY <1>0, <1>21 DEF BootApply, TypeOK
  <1>22. CASE BootSetActive
    BY <1>0, <1>22 DEF BootSetActive, TypeOK
  <1>23. CASE BootRestart
    BY <1>0, <1>23 DEF BootRestart, TypeOK
  <1>24. CASE Cancel
    BY <1>0, <1>24 DEF Cancel, JobRec
  <1>25. CASE Exit
    BY <1>0, <1>25 DEF Exit
  <1>26. CASE AutoRestart
    BY <1>0, <1>26 DEF AutoRestart
  <1>27. CASE ControllerStop
    BY <1>0, <1>27 DEF ControllerStop
  <1>28. CASE UNCHANGED vars
    BY <1>28 DEF vars
  <1> QED
    BY <1>1, <1>2, <1>3, <1>4, <1>5, <1>6, <1>7, <1>8, <1>9, <1>10, <1>11, <1>12, <1>13, <1>14,
       <1>15, <1>16, <1>17, <1>18, <1>19, <1>20, <1>21, <1>22, <1>23, <1>24, <1>25, <1>26,
       <1>27, <1>28
    DEF Next, UserStep, TLSStep, BootStep

\* AdminUI serves the confirmed pair or none: no failure of the database, of the
\* file system or of the endpoint, no timeout, no pair that cannot be loaded at
\* the start and no stop of the controller at any step of a publication or of its
\* rollback makes it show another one.
THEOREM AdminAlwaysConfirmed == Spec => []AdminFollowsMetadata
  <1>1. Init => AdminInv
    BY DEF Init, AdminInv, AdminFollowsMetadata, NoJob
  <1>2. AdminInv => AdminFollowsMetadata
    BY DEF AdminInv
  <1> QED BY <1>1, <1>2, TypeCorrect, AdminStep, PTL DEF Spec

-----------------------------------------------------------------------------
(* What the steps of a job rely on                                          *)

\* The steps of a user operation, and of a publication, after the two that
\* have the same name.
UserPcs == {"restart", "rollFiles", "rollActive", "rollProcess", "undoUser"}
TLSPcs == {"reload", "save", "complete", "backConfig", "backPair", "backActive", "backProcess"}

\* A job does the steps of its kind, a free lock has no holder, and a job that
\* runs with recovery was taken before recovery was over.
Shape ==
  /\ job.pc = "idle" => job = NoJob
  /\ job.pc # "idle" => job.kind \in {"user", "tls"}
  /\ job.pc \in UserPcs => job.kind = "user"
  /\ job.pc \in TLSPcs => job.kind = "tls"
  /\ job.kind = "user" => job.user \in Users /\ Present(users) # {}
  /\ job.kind = "tls" => job.pair \in Pairs
  /\ job.pc = "rollFiles" => job.undo \in {"files", "all"}
  /\ job.pc \in {"backActive", "backProcess"} => job.undo # "publish"
  /\ job.pc \in {"backConfig", "backPair", "backActive", "backProcess"} =>
       job.undo \in {"publish", "reload", "revert"}
  /\ job.pc = "reload" \/ job.undo = "reload" => Active(users) # {} /\ job.kind = "tls"
  /\ job.pc # "idle" /\ boot.pc # "done" => job.early
  /\ boot.pc = "off" => job.pc = "idle"

\* ... and is remembered.
Overlap == job.early => "raced" \in harm

\* The table as it was before the operation that holds the lock, and what it
\* rendered to.
RowsBefore == [users EXCEPT ![job.user] = job.before]
Before == Render(RowsBefore, meta)

\* The pair of the TLS store is the confirmed one, except while a publication
\* has put its own there; that remembers the confirmed one.
PairHeld ==
  /\ job.kind = "tls" /\ job.pc \notin {"complete", "backActive", "backProcess"} =>
       job.oldPair = meta /\ tls = job.pair
  /\ job.pc = "complete" => tls = job.pair /\ tls = meta
  /\ "pair" \notin harm /\ (job.kind = "tls" => job.pc \in {"backActive", "backProcess"}) =>
       tls = meta

\* Once there is a confirmed pair, and there is one before there are users, there
\* always is something to start: a current directory and an active revision, also
\* after a rollback.
Rooted ==
  /\ Present(users) # {} => meta # None
  /\ meta # None => cfg.current # None /\ active # None
  /\ job.kind = "user" => meta # None
  /\ job.kind = "user" /\ job.pc \notin {"apply", "undoUser"} => job.new # None /\ job.old # None
  /\ job.kind = "tls" /\ job.pc # "complete" /\ meta # None => job.old # None
  /\ job.kind = "tls" /\ job.pc \in {"setActive", "reload", "save"} =>
       job.new # None /\ cfg.current # None
  /\ job.pc \in {"reload", "save"} => active # None
  /\ boot.pc \in {"apply", "setActive", "restart"} => boot.rev # None
  /\ proc.state = "backoff" => "exit" \in harm

\* A user operation that recovery does not run into has published what the
\* database renders to, whatever has gone wrong before.
UserForward ==
  job.kind = "user" /\ ~job.early =>
    /\ job.pc \in {"setActive", "restart", "rollFiles"} =>
         cfg.current = job.new /\ job.new = Render(users, meta)
    /\ job.pc = "restart" => active = job.new

-----------------------------------------------------------------------------
(* What agrees as long as nothing is left that went wrong                   *)

Kinds == {"undo", "cancel", "files", "void", "raced"}
Clean == Unharmed(Kinds)

\* The credentials a table renders to, and a process that has them.
Creds(t) == Render(t, None).creds
Has(p, t) ==
  p.state # "down" =>
    /\ p.rev.creds = Creds(t)
    /\ p.state = "up" => p.dir.creds = Creds(t)

\* Each step of recovery adds one of those that agree when it is over.
BootTight ==
  /\ boot.pc # "done" => proc.state = "down"
  /\ boot.pc \in {"apply", "setActive", "restart"} => boot.rev = Render(users, meta)
  /\ boot.pc \in {"setActive", "restart"} => cfg.current = boot.rev
  /\ boot.pc = "restart" => active = boot.rev

IdleTight ==
  boot.pc = "done" /\ job.pc = "idle" /\ Present(users) # {} => Agreed /\ Has(proc, users)

\* A user operation, if there were users before: what it needs to go back is the
\* revision from before, which the links still name.
UserTight ==
  job.kind = "user" /\ Present(RowsBefore) # {} =>
    /\ job.pc \notin {"apply", "undoUser"} => job.old = Before
    /\ job.pc \in {"apply", "undoUser", "rollActive", "rollProcess"} => cfg.current = Before
    /\ job.pc \in {"apply", "undoUser", "setActive", "rollProcess"} => active = Before
    /\ job.pc = "rollFiles" /\ job.undo = "files" => active = Before
    /\ job.pc \in {"setActive", "restart", "rollFiles"} =>
         job.new = job.old \/ cfg.previous = job.old
    /\ \/ job.pc \in {"apply", "setActive", "restart", "undoUser"}
       \/ job.pc = "rollFiles" /\ job.undo = "files"
       => Has(proc, RowsBefore)

\* A publication, if there are users: their credentials do not change.
TLSTight ==
  job.kind = "tls" /\ Present(users) # {} =>
    /\ Has(proc, users)
    /\ job.pc # "complete" => job.old = Render(users, meta)
    /\ job.pc \in {"apply", "backPair", "backActive", "backProcess"} => cfg.current = job.old
    /\ job.pc \in {"apply", "setActive", "backProcess"} => active = job.old
    /\ job.pc \in {"backConfig", "backPair"} /\ job.undo = "publish" => active = job.old
    /\ job.pc \in {"setActive", "reload", "save", "complete"} =>
         cfg.current = job.new /\ job.new = Render(users, job.pair)
    /\ job.pc \in {"reload", "save", "complete"} => active = job.new
    /\ job.pc = "complete" => meta = job.pair

Tight == Clean => BootTight /\ IdleTight /\ UserTight /\ TLSTight

\* The endpoint is up for the active users of the table that there will be,
\* whether recovery runs into an operation or not.
StaysUp ==
  Unharmed({"undo", "start", "cancel", "exit"}) /\ boot.pc = "done" =>
    /\ job.kind # "user" /\ Active(users) # {} => proc.state = "up"
    /\ /\ job.kind = "user" /\ Active(RowsBefore) # {}
       /\ \/ job.pc \in {"apply", "setActive", "restart", "undoUser"}
          \/ job.pc = "rollFiles" /\ job.undo = "files"
       => proc.state = "up"

-----------------------------------------------------------------------------
(* Facts that the steps below use                                           *)

\* What is rendered is a revision.
LEMMA Rendered ==
  ASSUME TypeOK, NEW p \in Pairs \cup {None}
  PROVE  Render(users, p) # None /\ Render(users, p) \in Contents
  <1>1. \A u \in Active(users) : <<u, users[u].cred>> \in Users \X (0..MaxCred)
    BY DEF Active, Rows, TypeOK
  <1>2. {<<u, users[u].cred>> : u \in Active(users)} \in SUBSET (Users \X (0..MaxCred))
    BY <1>1
  <1>3. Render(users, p) \in Contents
    BY <1>2 DEF Render, Contents
  <1> QED BY <1>3, NoRevision

\* The credentials that are rendered do not depend on the pair.
LEMMA RenderCreds ==
  ASSUME NEW t, NEW p
  PROVE  Render(t, p).creds = Creds(t)
  BY DEF Render, Creds

\* Nobody has credentials where there are no rows.
LEMMA NobodyPresent ==
  ASSUME NEW t, Present(t) = {}
  PROVE  Active(t) = {}
  BY DEF Present, Active

\* The first write of a user operation: the row is there, and what it was is kept.
LEMMA Written ==
  ASSUME TypeOK, NEW u \in Users, UserWrite(u)
  PROVE  /\ RowsBefore' = users
         /\ Present(users') # {}
         /\ job'.pc = "apply" /\ job'.kind = "user" /\ job'.user = u
         /\ job'.undo = "none" /\ job'.early = Early
         /\ job = NoJob /\ boot.pc # "off" /\ admin # None
         /\ UNCHANGED <<active, meta, stores, proc, admin, boot, faults>>
  <1>1. /\ job'.pc = "apply" /\ job'.kind = "user" /\ job'.user = u /\ job'.before = users[u]
        /\ job'.undo = "none" /\ job'.early = Early
    BY DEF UserWrite, NoJob
  <1>2. PICK row \in Statused(users[u]) \cup Renewed(users[u]) : users' = [users EXCEPT ![u] = row]
    BY DEF UserWrite
  <1>3. row.status # "absent"
    BY DEF Statused, Renewed, TypeOK, Rows
  <1>4. u \in Present(users')
    BY <1>2, <1>3 DEF Present, TypeOK
  <1>5. RowsBefore' = users
    BY <1>1, <1>2 DEF RowsBefore, TypeOK
  <1> QED BY <1>1, <1>4, <1>5 DEF UserWrite, Requests

\* The start of a publication.
LEMMA Taken ==
  ASSUME NEW p \in Pairs, PublishPair(p), job' # job
  PROVE  /\ job'.pc = "apply" /\ job'.kind = "tls" /\ job'.pair = p /\ job'.undo = "none"
         /\ job'.old = active /\ job'.oldPair = meta /\ job'.early = Early
         /\ tls' = p /\ Raced
  BY DEF PublishPair, NoJob

-----------------------------------------------------------------------------
\* Shape holds at the start.
LEMMA ShapeInit == Init => Shape
  BY DEF Init, Shape, NoJob, UserPcs, TLSPcs

\* Every step keeps Shape.
LEMMA ShapeStep == TypeOK /\ Shape /\ [Next]_vars => Shape'
  <1> SUFFICES ASSUME TypeOK, Shape, [Next]_vars PROVE Shape'
    OBVIOUS
  <1>0. job \in JobRec /\ NoJob.pc = "idle" /\ NoJob.kind = "none" /\ NoJob.undo = "none"
    BY DEF TypeOK, NoJob
  <1>1. ASSUME NEW u \in Users, UserWrite(u) PROVE Shape'
    BY <1>0, <1>1, Written DEF Shape, UserPcs, TLSPcs, Early
  <1>2. ASSUME NEW p \in Pairs, PublishPair(p) PROVE Shape'
    <2>1. CASE job' = job
      BY <1>2, <2>1 DEF PublishPair, Shape, db
    <2>2. CASE job' # job
      BY <1>0, <1>2, <2>2, Taken DEF PublishPair, Requests, Scheduled, Shape, UserPcs, TLSPcs, Early
    <2> QED BY <2>1, <2>2
  <1> USE <1>0 DEF Shape, JobRec, UserPcs, TLSPcs, db
  <1>3. CASE UserApply
    BY <1>3 DEF UserApply, Goto
  <1>4. CASE UserSetActive
    BY <1>4 DEF UserSetActive, Goto
  <1>5. CASE UserRestart
    BY <1>5 DEF UserRestart, Done
  <1>6. CASE RollFiles
    BY <1>6 DEF RollFiles, Goto
  <1>7. CASE RollActive
    BY <1>7 DEF RollActive, Goto
  <1>8. CASE RollProcess
    BY <1>8 DEF RollProcess, Goto
  <1>9. CASE TLSApply
    BY <1>9 DEF TLSApply
  <1>10. CASE TLSSetActive
    BY <1>10 DEF TLSSetActive, Goto
  <1>11. CASE TLSReload
    BY <1>11 DEF TLSReload, Goto
  <1>12. CASE SaveMetadata
    BY <1>12 DEF SaveMetadata, Goto
  <1>13. CASE BackConfig
    BY <1>13 DEF BackConfig, Goto
  <1>14. CASE BackPair
    BY <1>14 DEF BackPair, AfterBackPair
  <1>15. CASE BackActive
    BY <1>15 DEF BackActive, Goto
  <1>16. CASE UserUndo \/ CompletePublished \/ BackProcess \/ ControllerStop
    BY <1>16 DEF UserUndo, CompletePublished, BackProcess, ControllerStop, Done
  <1>17. CASE BootStep
    BY <1>17 DEF TypeOK, BootStep, BootServe, BootSnapshot, BootApply, BootSetActive, BootRestart
  <1>18. CASE Cancel
    BY <1>18 DEF Cancel
  <1>19. CASE Exit \/ AutoRestart \/ UNCHANGED vars
    BY <1>19 DEF Exit, AutoRestart, vars
  <1> QED
    BY <1>1, <1>2, <1>3, <1>4, <1>5, <1>6, <1>7, <1>8, <1>9, <1>10, <1>11, <1>12, <1>13, <1>14,
       <1>15, <1>16, <1>17, <1>18, <1>19
    DEF Next, UserStep, TLSStep

\* Overlap holds at the start and every step keeps it.
LEMMA OverlapStep == TypeOK /\ Shape /\ Overlap /\ [Next]_vars => Overlap'
  <1> SUFFICES ASSUME TypeOK, Shape, Overlap, [Next]_vars PROVE Overlap'
    OBVIOUS
  <1>0. job \in JobRec /\ ~NoJob.early
    BY DEF TypeOK, NoJob
  <1> USE <1>0 DEF Overlap
  <1>1. ASSUME NEW u \in Users, UserWrite(u) PROVE Overlap'
    BY <1>1, Written DEF UserWrite, Raced, Early, Harm
  <1>2. ASSUME NEW p \in Pairs, PublishPair(p) PROVE Overlap'
    <2>1. CASE job' = job
      BY <1>2, <2>1 DEF PublishPair
    <2>2. CASE job' # job
      BY <1>2, <2>2, Taken DEF Raced, Early, Harm
    <2> QED BY <2>1, <2>2
  <1>3. CASE job' = NoJob
    BY <1>3
  <1>4. CASE job'.early = job.early /\ harm \ {"pair", "exit"} \subseteq harm'
    BY <1>4
  <1> USE DEF JobRec
  <1>5. CASE UserApply \/ UserSetActive \/ RollFiles \/ RollActive \/ RollProcess
    BY <1>4, <1>5 DEF UserApply, UserSetActive, RollFiles, RollActive, RollProcess, Goto,
       NoHarm, Harm, Undoes, UndoFails
  <1>6. CASE TLSApply \/ TLSSetActive \/ TLSReload \/ SaveMetadata
    BY <1>4, <1>6 DEF TLSApply, TLSSetActive, TLSReload, SaveMetadata, Goto
  <1>7. CASE BackConfig \/ BackActive
    BY <1>4, <1>7 DEF BackConfig, BackActive, Goto, NoHarm, Harm, Undoes, UndoFails
  <1>8. CASE BackPair
    BY <1>3, <1>4, <1>8 DEF BackPair, AfterBackPair, Harm
  <1>9. CASE UserRestart
    BY <1>3, <1>4, <1>9 DEF UserRestart, Done, NoHarm
  <1>10. CASE UserUndo \/ CompletePublished \/ BackProcess \/ ControllerStop
    BY <1>3, <1>10 DEF UserUndo, CompletePublished, BackProcess, ControllerStop, Done
  <1>11. CASE BootStep \/ Cancel \/ Exit \/ AutoRestart \/ UNCHANGED vars
    BY <1>4, <1>11 DEF BootStep, BootServe, BootSnapshot, BootApply, BootSetActive, BootRestart,
       Cancel, Exit, AutoRestart, vars, NoHarm, Harm
  <1> QED
    BY <1>1, <1>2, <1>5, <1>6, <1>7, <1>8, <1>9, <1>10, <1>11 DEF Next, UserStep, TLSStep

-----------------------------------------------------------------------------
\* PairHeld holds at the start and every step keeps it.
LEMMA PairStep == TypeOK /\ Shape /\ PairHeld /\ [Next]_vars => PairHeld'
  <1> SUFFICES ASSUME TypeOK, Shape, PairHeld, [Next]_vars PROVE PairHeld'
    OBVIOUS
  <1>0. job \in JobRec /\ NoJob.kind = "none" /\ NoJob.pc = "idle"
    BY DEF TypeOK, NoJob
  <1> USE <1>0 DEF PairHeld, db, stores
  <1>1. ASSUME NEW u \in Users, UserWrite(u) PROVE PairHeld'
    BY <1>1, Written DEF UserWrite, Raced, Harm
  <1>2. ASSUME NEW p \in Pairs, PublishPair(p) PROVE PairHeld'
    <2>1. CASE job' = job
      BY <1>2, <2>1 DEF PublishPair, NoJob, Harm
    <2>2. CASE job' # job
      BY <1>2, <2>2, Taken DEF PublishPair
    <2> QED BY <2>1, <2>2
  <1> USE DEF Shape, JobRec, UserPcs, TLSPcs
  <1>3. CASE UserApply
    BY <1>3 DEF UserApply, Goto, NoHarm, Harm
  <1>4. CASE UserSetActive
    BY <1>4 DEF UserSetActive, Goto
  <1>5. CASE UserRestart
    BY <1>5 DEF UserRestart, Done, NoHarm
  <1>6. CASE RollFiles
    BY <1>6 DEF RollFiles, Goto, Harm
  <1>7. CASE RollActive
    BY <1>7 DEF RollActive, Goto, Undoes, UndoFails, NoHarm, Harm
  <1>8. CASE RollProcess
    BY <1>8 DEF RollProcess, Goto, Undoes, UndoFails, NoHarm, Harm
  <1>9. CASE UserUndo
    BY <1>9 DEF UserUndo, Done, NoHarm, Harm
  <1>10. CASE TLSApply
    BY <1>10 DEF TLSApply
  <1>11. CASE TLSSetActive
    BY <1>11 DEF TLSSetActive, Goto
  <1>12. CASE TLSReload
    BY <1>12 DEF TLSReload, Goto
  <1>13. CASE SaveMetadata
    BY <1>13 DEF SaveMetadata, Goto
  <1>14. CASE CompletePublished
    BY <1>14 DEF CompletePublished, Done
  <1>15. CASE BackConfig
    BY <1>15 DEF BackConfig, Goto, NoHarm, Harm
  <1>16. CASE BackPair
    BY <1>16 DEF BackPair, AfterBackPair, RestoredPair, Harm
  <1>17. CASE BackActive
    BY <1>17 DEF BackActive, Goto, Undoes, UndoFails, NoHarm, Harm
  <1>18. CASE BackProcess
    BY <1>18 DEF BackProcess, Done, Undoes, UndoFails, NoHarm, Harm
  <1>19. CASE BootStep \/ Exit \/ AutoRestart \/ UNCHANGED vars
    BY <1>19 DEF BootStep, BootServe, BootSnapshot, BootApply, BootSetActive, BootRestart,
                 Exit, AutoRestart, vars, NoHarm, Harm
  <1>20. CASE Cancel
    BY <1>20 DEF Cancel
  <1>21. CASE ControllerStop
    BY <1>21 DEF ControllerStop
  <1> QED
    BY <1>1, <1>2, <1>3, <1>4, <1>5, <1>6, <1>7, <1>8, <1>9, <1>10, <1>11, <1>12, <1>13, <1>14,
       <1>15, <1>16, <1>17, <1>18, <1>19, <1>20, <1>21
    DEF Next, UserStep, TLSStep

\* Whatever fails of SQLite, of the files and of the endpoint, whenever a request
\* ends and whether it came before recovery was over: when a publication has been
\* undone (TLSCoordinator.Publish, RevertLast) the store's pair is the confirmed
\* one, unless a stop or the failure of a file operation on the pair left another
\* that no later publication has replaced.
THEOREM PairAlwaysConfirmed == Spec => []TLSPairConfirmed
  <1>1. Init => PairHeld
    BY DEF Init, PairHeld, NoJob
  <1>2. Shape /\ PairHeld => TLSPairConfirmed
    BY DEF PairHeld, TLSPairConfirmed, Quiet, NoJob, Unharmed
  <1> QED BY <1>1, <1>2, TypeCorrect, ShapeInit, ShapeStep, PairStep, PTL DEF Spec

-----------------------------------------------------------------------------
\* The stores keep a current directory whatever is done to them, except Restore
\* to none.
LEMMA StoreRooted ==
  ASSUME NEW s \in [current : Revs, previous : Revs], NEW r, r # None
  PROVE  /\ Applied(s, r).current # None
         /\ s.current # None => \A c \in ApplyLeaves(s, r) : c.current # None
         /\ s.current # None => RolledBack(s).current # None
         /\ s.current # None => \A c \in RollbackLeaves(s) : c.current # None
         /\ Restored(s, r).current # None
         /\ s.current # None => \A c \in RestoreLeaves(s, r) : c.current # None
  BY DEF Applied, ApplyLeaves, RolledBack, RollbackLeaves, Restored, RestoreLeaves

\* A process that is started, or not, from a revision there is does not loop.
LEMMA NoLoop ==
  ASSUME NEW r, r # None, RestartWorks(r) \/ RestartFails(r)
  PROVE  proc'.state # "backoff"
  BY DEF RestartWorks, RestartFails, Started, Down

\* Rooted holds at the start and every step keeps it.
LEMMA RootedStep == TypeOK /\ Shape /\ AdminInv /\ Rooted /\ [Next]_vars => Rooted'
  <1> SUFFICES ASSUME TypeOK, Shape, AdminInv, Rooted, [Next]_vars PROVE Rooted'
    OBVIOUS
  <1>0. /\ job \in JobRec /\ NoJob.kind = "none" /\ NoJob.pc = "idle"
        /\ cfg \in [current : Revs, previous : Revs]
        /\ boot \in [pc : BootPcs, rev : Revs]
        /\ proc \in [state : {"down", "up", "backoff"}, rev : Revs, dir : Revs]
    BY DEF TypeOK, NoJob
  <1>r. Render(users, meta) # None
    BY Rendered DEF TypeOK
  <1> USE <1>0 DEF Rooted, db, stores
  <1>1. ASSUME NEW u \in Users, UserWrite(u) PROVE Rooted'
    <2>1. meta # None
      BY <1>1, Written DEF AdminInv, AdminFollowsMetadata
    <2> QED BY <1>1, <2>1, Written DEF UserWrite, Raced, Harm, Early
  <1>2. ASSUME NEW p \in Pairs, PublishPair(p) PROVE Rooted'
    <2>1. CASE job' = job
      BY <1>2, <2>1 DEF PublishPair, NoJob, Harm
    <2>2. CASE job' # job
      BY <1>2, <2>2, Taken DEF PublishPair, Raced, Harm, Early
    <2> QED BY <2>1, <2>2
  <1> USE DEF Shape, JobRec, UserPcs, TLSPcs
  <1>3. CASE UserApply
    <2>1. cfg'.current # None
      BY <1>3, <1>r, StoreRooted DEF UserApply
    <2>2. \/ job'.pc = "undoUser" /\ job'.kind = "user"
          \/ job'.pc = "setActive" /\ job'.kind = "user" /\ job'.new # None /\ job'.old # None
      <3>1. meta # None /\ active # None
        BY <1>3 DEF UserApply
      <3> QED BY <1>3, <1>r, <3>1 DEF UserApply, Goto
    <2> QED BY <1>3, <2>1, <2>2 DEF UserApply, NoHarm, Harm
  <1>4. CASE UserSetActive
    BY <1>4 DEF UserSetActive, Goto
  <1>5. CASE UserRestart
    BY <1>5, NoLoop DEF UserRestart, Done, NoHarm
  <1>6. CASE RollFiles
    BY <1>6, StoreRooted DEF RollFiles, Goto, Harm
  <1>7. CASE RollActive
    BY <1>7 DEF RollActive, Goto, Undoes, UndoFails, NoHarm, Harm
  <1>8. CASE RollProcess
    BY <1>8, NoLoop DEF RollProcess, Goto, Undoes, UndoFails, NoHarm, Harm
  <1>9. CASE UserUndo
    BY <1>9 DEF UserUndo, Done, NoHarm, Harm
  <1>10. CASE TLSApply
    <2>1. Render(users, job.pair) # None
      BY <1>10, Rendered
    <2>2. job'.pc = "setActive" \/ meta # None => cfg'.current # None
      <3> DEFINE R == Render(users, job.pair)
      <3>1. /\ Applied(cfg, R).current # None
            /\ cfg.current # None => \A c \in ApplyLeaves(cfg, R) : c.current # None
        BY <2>1, StoreRooted
      <3>2. job'.pc = "setActive" => cfg' = Applied(cfg, R)
        BY <1>10 DEF TLSApply
      <3>3. cfg' = Applied(cfg, R) \/ cfg' \in ApplyLeaves(cfg, R)
        BY <1>10 DEF TLSApply
      <3> QED BY <3>1, <3>2, <3>3
    <2>3. \/ job'.pc = "backConfig" /\ job'.kind = "tls" /\ job'.old = job.old
          \/ job'.pc = "setActive" /\ job'.kind = "tls" /\ job'.old = job.old /\ job'.new # None
      BY <1>10, <2>1 DEF TLSApply
    <2> QED BY <1>10, <2>2, <2>3 DEF TLSApply
  <1>11. CASE TLSSetActive
    BY <1>11 DEF TLSSetActive, Goto
  <1>12. CASE TLSReload
    <2>1. proc'.state = "backoff" => proc.state = "backoff"
      BY <1>12, NoLoop DEF TLSReload, ReloadWorks, ReloadFails
    <2>2. /\ job'.pc \in {"save", "backConfig"} /\ job'.kind = "tls" /\ job'.old = job.old
          /\ job'.new = job.new /\ active # None /\ cfg.current # None /\ job.new # None
      BY <1>12 DEF TLSReload, Goto
    <2> QED BY <1>12, <2>1, <2>2 DEF TLSReload
  <1>13. CASE SaveMetadata
    <2>0. job.kind = "tls" /\ job.pair # None /\ active # None /\ cfg.current # None
      BY <1>13, PublicationAssumption DEF SaveMetadata
    <2>1. job'.kind = "tls" /\ job'.old = job.old /\ job'.pc \in {"complete", "backConfig"}
      BY <1>13, <2>0 DEF SaveMetadata, Goto
    <2>2. \/ meta' = meta
          \/ job'.pc = "complete" /\ meta' # None
      BY <1>13, <2>0 DEF SaveMetadata, Goto
    <2> QED BY <1>13, <2>0, <2>1, <2>2 DEF SaveMetadata
  <1>14. CASE CompletePublished
    <2>1. /\ job'.pc = "idle" /\ job'.kind = "none"
          /\ "exit" \in harm => "exit" \in harm'
          /\ UNCHANGED <<users, meta, active, cfg, proc, boot>>
      BY Zenon, <1>14, <1>0 DEF CompletePublished, Done
    <2> QED BY <2>1
  <1>15. CASE BackConfig
    <2>1. meta # None => cfg'.current # None
      BY <1>15, StoreRooted DEF BackConfig
    <2>2. job'.pc = "backPair" /\ job'.kind = "tls" /\ job'.old = job.old
      BY <1>15 DEF BackConfig, Goto
    <2> QED BY <1>15, <2>1, <2>2 DEF BackConfig, NoHarm, Harm
  <1>16. CASE BackPair
    BY <1>16 DEF BackPair, AfterBackPair, RestoredPair, Harm
  <1>17. CASE BackActive
    BY <1>17 DEF BackActive, Goto, Undoes, UndoFails, NoHarm, Harm
  <1>18. CASE BackProcess
    <2>1. Active(users) # {} => active # None
      BY NobodyPresent
    <2>2. proc'.state = "backoff" => proc.state = "backoff"
      BY <1>18, <2>1, NoLoop DEF BackProcess, ReloadWorks, ReloadFails
    <2> QED BY <1>18, <2>2 DEF BackProcess, Done, Undoes, UndoFails, NoHarm, Harm
  <1>19. CASE BootServe \/ BootSetActive
    BY <1>19 DEF BootServe, BootSetActive, BootPcs
  <1>20. CASE BootSnapshot
    BY <1>20, <1>r DEF BootSnapshot
  <1>21. CASE BootApply
    BY <1>21, StoreRooted DEF BootApply
  <1>22. CASE BootRestart
    BY <1>22, NoLoop DEF BootRestart, NoHarm, Harm
  <1>23. CASE Cancel
    BY <1>23 DEF Cancel
  <1>24. CASE Exit \/ AutoRestart \/ UNCHANGED vars
    BY <1>24 DEF Exit, AutoRestart, vars, NoHarm, Harm, Started, Down
  <1>25. CASE ControllerStop
    BY <1>25 DEF ControllerStop, Down
  <1> QED
    BY <1>1, <1>2, <1>3, <1>4, <1>5, <1>6, <1>7, <1>8, <1>9, <1>10, <1>11, <1>12, <1>13, <1>14,
       <1>15, <1>16, <1>17, <1>18, <1>19, <1>20, <1>21, <1>22, <1>23, <1>24, <1>25
    DEF Next, UserStep, TLSStep, BootStep

-----------------------------------------------------------------------------
\* Where a job is that recovery does not run into, recovery is over.
LEMMA Alone ==
  ASSUME Shape, job.pc # "idle", ~job.early
  PROVE  boot.pc = "done"
  BY DEF Shape

\* UserForward holds at the start and every step keeps it.
LEMMA ForwardStep == TypeOK /\ Shape /\ UserForward /\ [Next]_vars => UserForward'
  <1> SUFFICES ASSUME TypeOK, Shape, UserForward, [Next]_vars PROVE UserForward'
    OBVIOUS
  <1>0. job \in JobRec /\ NoJob.kind = "none" /\ NoJob.pc = "idle"
    BY DEF TypeOK, NoJob
  <1> USE <1>0 DEF UserForward, db, stores
  <1>1. ASSUME NEW u \in Users, UserWrite(u) PROVE UserForward'
    BY <1>1, Written
  <1>2. ASSUME NEW p \in Pairs, PublishPair(p) PROVE UserForward'
    <2>1. CASE job' = job
      BY <1>2, <2>1 DEF PublishPair, NoJob
    <2>2. CASE job' # job
      BY <1>2, <2>2, Taken
    <2> QED BY <2>1, <2>2
  <1>3. CASE job'.kind # "user" \/ job'.pc \in {"apply", "undoUser", "rollActive", "rollProcess"}
    BY <1>3
  <1>4. ASSUME cfg' = cfg, active' = active, users' = users, meta' = meta,
               \/ job' = job
               \/ job' = [job EXCEPT !.live = FALSE]
        PROVE  UserForward'
    BY <1>4 DEF Render, Active, JobRec
  <1> USE DEF JobRec, Shape, UserPcs, TLSPcs
  <1>5. CASE UserApply
    <2>1. Applied(cfg, Render(users, meta)).current = Render(users, meta)
      BY DEF Applied
    <2>2. Render(users, meta)' = Render(users, meta)
      BY <1>5 DEF UserApply
    <2>3. CASE job'.pc = "undoUser"
      BY <1>3, <2>3
    <2>4. CASE job'.pc # "undoUser"
      <3>1. cfg' = Applied(cfg, Render(users, meta)) /\ job'.new = Render(users, meta)
            /\ job'.pc = "setActive"
        BY <1>5, <2>4 DEF UserApply, Goto
      <3> QED BY <3>1, <2>1, <2>2
    <2> QED BY <2>3, <2>4
  <1>6. CASE UserSetActive
    <2>1. Render(users, meta)' = Render(users, meta)
      BY <1>6 DEF UserSetActive
    <2> QED BY <1>6, <2>1 DEF UserSetActive, Goto
  <1>7. CASE UserRestart
    <2>1. Render(users, meta)' = Render(users, meta)
      BY <1>7 DEF UserRestart
    <2> QED BY <1>7, <2>1 DEF UserRestart, Done
  <1>8. CASE RollFiles \/ RollActive \/ RollProcess \/ UserUndo
    BY <1>3, <1>8 DEF RollFiles, RollActive, RollProcess, UserUndo, Goto, Done
  <1>9. CASE TLSApply \/ TLSSetActive \/ TLSReload \/ SaveMetadata
    BY <1>3, <1>9 DEF TLSApply, TLSSetActive, TLSReload, SaveMetadata, Goto
  <1>10. CASE BackConfig \/ BackPair \/ BackActive
    BY <1>3, <1>10 DEF BackConfig, BackPair, AfterBackPair, BackActive, Goto
  <1>11. CASE CompletePublished \/ BackProcess \/ ControllerStop
    BY <1>3, <1>11 DEF CompletePublished, BackProcess, ControllerStop, Done
  <1>12. CASE BootStep
    BY <1>12, Alone DEF BootStep, BootServe, BootSnapshot, BootApply, BootSetActive, BootRestart,
                        Render, Active
  <1>13. CASE Cancel \/ Exit \/ AutoRestart \/ UNCHANGED vars
    BY <1>4, <1>13 DEF Cancel, Exit, AutoRestart, vars
  <1> QED
    BY <1>1, <1>2, <1>5, <1>6, <1>7, <1>8, <1>9, <1>10, <1>11, <1>12, <1>13
    DEF Next, UserStep, TLSStep

-----------------------------------------------------------------------------
\* StaysUp holds at the start and every step keeps it.
LEMMA UpStep == TypeOK /\ Shape /\ Rooted /\ StaysUp /\ [Next]_vars => StaysUp'
  <1> DEFINE U == Unharmed({"undo", "start", "cancel", "exit"})
  <1> SUFFICES ASSUME TypeOK, Shape, Rooted, StaysUp, [Next]_vars, U', boot'.pc = "done"
               PROVE  StaysUp'
    BY DEF StaysUp
  <1>0. job \in JobRec /\ NoJob.kind = "none" /\ NoJob.pc = "idle"
    BY DEF TypeOK, NoJob
  <1> DEFINE Held == \/ job.pc \in {"apply", "setActive", "restart", "undoUser"}
                     \/ job.pc = "rollFiles" /\ job.undo = "files"
  <1>a. /\ harm \ {"pair"} \subseteq harm' => U
        /\ Active(users)' = Active(users') /\ Active(RowsBefore)' = Active(RowsBefore')
    BY DEF Unharmed
  <1>b. ASSUME U, boot.pc = "done"
        PROVE  /\ job.kind # "user" /\ Active(users) # {} => proc.state = "up"
               /\ job.kind = "user" /\ Active(RowsBefore) # {} /\ Held => proc.state = "up"
    BY <1>b DEF StaysUp
  <1>c. ASSUME proc'.state = "up" PROVE StaysUp'
    BY <1>c DEF StaysUp
  \* Nothing that matters here changes.
  <1>d. ASSUME proc' = proc, users' = users, boot' = boot, harm \ {"pair"} \subseteq harm',
               job'.kind = job.kind, job'.user = job.user, job'.before = job.before,
               job.kind = "user" /\ Held' => Held
        PROVE  StaysUp'
    <2>1. RowsBefore' = RowsBefore
      BY <1>d DEF RowsBefore
    <2> QED BY <1>a, <1>b, <1>d, <2>1 DEF StaysUp
  \* No user operation is under way, before and after.
  <1>e. ASSUME users' = users, boot' = boot, harm \ {"pair"} \subseteq harm',
               job.kind # "user", job'.kind # "user",
               proc.state = "up" => proc'.state = "up"
        PROVE  StaysUp'
    BY <1>a, <1>b, <1>e DEF StaysUp
  <1> USE <1>0 DEF db, stores
  <1>1. ASSUME NEW u \in Users, UserWrite(u) PROVE StaysUp'
    <2>1. harm \subseteq harm' /\ job.kind = "none"
      BY <1>1, Written DEF UserWrite, Raced, Harm
    <2> QED BY <1>1, <1>a, <1>b, <2>1, Written DEF StaysUp
  <1>2. ASSUME NEW p \in Pairs, PublishPair(p) PROVE StaysUp'
    <2>1. harm \subseteq harm' /\ job.kind = "none" /\ job'.kind # "user"
      BY <1>2, Taken DEF PublishPair, Raced, Harm
    <2> QED BY <1>2, <1>e, <2>1 DEF PublishPair
  <1> USE DEF JobRec
  <1>3. CASE UserApply
    <2>1. harm \subseteq harm'
      BY <1>3 DEF UserApply, NoHarm, Harm
    <2>2. /\ job'.kind = job.kind /\ job'.user = job.user /\ job'.before = job.before
          /\ job.pc = "apply"
      BY <1>3 DEF UserApply, Goto
    <2> QED BY <1>3, <1>d, <2>1, <2>2 DEF UserApply
  <1>4. CASE UserSetActive
    <2>1. /\ job'.kind = job.kind /\ job'.user = job.user /\ job'.before = job.before
          /\ job.pc = "setActive"
      BY <1>4 DEF UserSetActive, Goto
    <2> QED BY <1>4, <1>d, <2>1 DEF UserSetActive
  <1>5. CASE UserRestart
    <2>1. CASE RestartWorks(job.new)
      BY <1>c, <2>1 DEF RestartWorks, Started
    <2>2. CASE job' = [job EXCEPT !.pc = "rollFiles", !.undo = "all"]
      <3>1. job'.kind = "user" /\ job'.pc = "rollFiles" /\ job'.undo = "all"
        BY <1>5, <2>2 DEF UserRestart, Shape, UserPcs
      <3> QED BY <3>1 DEF StaysUp
    <2> QED BY <1>5, <2>1, <2>2 DEF UserRestart
  <1>6. CASE RollFiles
    <2>1. harm \subseteq harm'
      BY <1>6 DEF RollFiles, NoHarm, Harm
    <2>2. /\ job'.kind = job.kind /\ job'.user = job.user /\ job'.before = job.before
          /\ job.pc = "rollFiles" /\ job'.pc \in {"undoUser", "rollActive"}
          /\ job'.pc = "undoUser" => job.undo = "files"
      BY <1>6 DEF RollFiles, Goto
    <2> QED BY <1>6, <1>d, <2>1, <2>2 DEF RollFiles
  <1>7. CASE RollActive
    <2>1. job'.kind = "user" /\ job'.pc = "rollProcess"
      BY <1>7 DEF RollActive, Goto, Shape, UserPcs
    <2> QED BY <2>1 DEF StaysUp
  <1>8. CASE RollProcess
    <2>1. Startable(job.old)
      BY <1>8 DEF RollProcess, Startable, Rooted, Shape, UserPcs
    <2>2. RestartWorks(job.old)
      BY <1>8, <2>1 DEF RollProcess, UndoFails, Harm, Unharmed
    <2> QED BY <1>c, <2>2 DEF RestartWorks, Started
  <1>9. CASE UserUndo
    <2>1. harm' = harm /\ users' = RowsBefore /\ job'.kind = "none" /\ job.kind = "user"
          /\ job.pc = "undoUser"
      BY <1>9 DEF UserUndo, NoHarm, Harm, Unharmed, RowsBefore, Done, Shape, UserPcs
    <2> QED BY <1>9, <1>a, <1>b, <2>1 DEF StaysUp, UserUndo
  <1>10. CASE TLSApply \/ TLSSetActive \/ SaveMetadata
    <2>1. job.kind = "tls" /\ job'.kind = "tls"
      BY <1>10 DEF TLSApply, TLSSetActive, SaveMetadata, Goto, Shape, TLSPcs
    <2> QED BY <1>10, <1>e, <2>1 DEF TLSApply, TLSSetActive, SaveMetadata
  <1>11. CASE TLSReload
    <2>1. job.kind = "tls" /\ job'.kind = "tls"
      BY <1>11 DEF TLSReload, Goto, Shape, TLSPcs
    <2>2. proc.state = "up" => proc'.state = "up"
      BY <1>11 DEF TLSReload, ReloadWorks, ReloadFails
    <2> QED BY <1>11, <1>e, <2>1, <2>2 DEF TLSReload
  <1>12. CASE CompletePublished
    <2>1. job.kind = "tls" /\ job'.kind = "none"
      BY <1>12 DEF CompletePublished, Done, Shape, TLSPcs
    <2> QED BY <1>12, <1>e, <2>1 DEF CompletePublished
  <1>13. CASE BackConfig \/ BackPair \/ BackActive
    <2>1. job.kind = "tls" /\ job'.kind # "user"
      BY <1>13 DEF BackConfig, BackPair, BackActive, AfterBackPair, Goto, Shape, TLSPcs
    <2>2. harm \ {"pair"} \subseteq harm'
      BY <1>13 DEF BackConfig, BackPair, BackActive, NoHarm, Harm, Undoes, UndoFails
    <2> QED BY <1>13, <1>e, <2>1, <2>2 DEF BackConfig, BackPair, BackActive
  <1>14. CASE BackProcess
    <2>1. job.kind = "tls" /\ job'.kind = "none"
      BY <1>14 DEF BackProcess, Done, Shape, TLSPcs
    <2>2. harm \subseteq harm'
      BY <1>14 DEF BackProcess, NoHarm, Harm, Undoes, UndoFails
    <2>3. proc.state = "up" => proc'.state = "up"
      BY <1>14 DEF BackProcess, ReloadWorks, ReloadFails
    <2> QED BY <1>14, <1>e, <2>1, <2>2, <2>3 DEF BackProcess
  <1>15. CASE BootSnapshot
    <2>1. users' = users /\ job' = job /\ Present(users) = {}
      BY <1>15 DEF BootSnapshot
    <2> QED BY <1>a, <2>1, NobodyPresent DEF StaysUp, Shape
  <1>16. CASE BootRestart
    <2>1. RestartWorks(boot.rev)
      BY <1>16 DEF BootRestart, Harm, Unharmed
    <2> QED BY <1>c, <2>1 DEF RestartWorks, Started
  <1>17. CASE BootServe \/ BootApply \/ BootSetActive \/ ControllerStop
    <2>1. boot'.pc # "done"
      BY <1>17 DEF BootServe, BootApply, BootSetActive, ControllerStop, TypeOK
    <2> QED BY <2>1
  <1>18. CASE Cancel
    <2>1. /\ job'.kind = job.kind /\ job'.user = job.user /\ job'.before = job.before
          /\ job'.pc = job.pc /\ job'.undo = job.undo
      BY <1>18 DEF Cancel
    <2> QED BY <1>18, <1>d, <2>1 DEF Cancel
  <1>19. CASE Exit
    BY <1>19 DEF Exit, Harm, Unharmed
  <1>20. CASE AutoRestart
    <2>1. proc'.state = "up"
      BY <1>20 DEF AutoRestart, NoHarm, Unharmed, Rooted, Started
    <2> QED BY <1>c, <2>1
  <1>21. CASE UNCHANGED vars
    BY <1>21, <1>d DEF vars
  <1> QED
    BY <1>1, <1>2, <1>3, <1>4, <1>5, <1>6, <1>7, <1>8, <1>9, <1>10, <1>11, <1>12, <1>13, <1>14,
       <1>15, <1>16, <1>17, <1>18, <1>19, <1>20, <1>21
    DEF Next, UserStep, TLSStep, BootStep

\* Whatever fails, stops or overlaps: a controller that has nothing to do and has
\* active users is serving them, unless the endpoint itself could not be started
\* or has exited, SQLite refused to put a row back, or the request whose change
\* was rolled back (ApplyManager.apply) had ended.
THEOREM AlwaysKeepsServing == Spec => []KeepsServing
  <1>1. Init => Rooted /\ StaysUp
    BY DEF Init, Rooted, StaysUp, NoJob, Present, Active, Absent, Down
  <1>2. StaysUp => KeepsServing
    BY DEF StaysUp, KeepsServing, Quiet, NoJob
  <1>3. Init => AdminInv
    BY DEF Init, AdminInv, AdminFollowsMetadata, NoJob
  <1> QED BY <1>1, <1>2, <1>3, TypeCorrect, ShapeInit, ShapeStep, AdminStep, RootedStep, UpStep, PTL
          DEF Spec

-----------------------------------------------------------------------------
(* Tight, from Clean in the new state                                       *)

\* Only a change that goes through and a stop put right what went wrong.
LEMMA CleanBefore ==
  ASSUME [Next]_vars, Clean', ~UserRestart, ~ControllerStop
  PROVE  Clean
  <1>1. harm \ {"pair", "exit"} \subseteq harm'
    BY DEF Next, UserStep, TLSStep, BootStep, vars, NoHarm, Harm, Raced, Early,
           Undoes, UndoFails, UserWrite, PublishPair, UserApply,
           UserSetActive, UserRestart, RollFiles, RollActive, RollProcess, UserUndo, TLSApply,
           TLSSetActive, TLSReload, SaveMetadata, CompletePublished, BackConfig, BackPair,
           BackActive, BackProcess, BootServe, BootSnapshot, BootApply, BootSetActive, BootRestart,
           Cancel, Exit, AutoRestart, ControllerStop
  <1> QED BY <1>1 DEF Clean, Unharmed, Kinds

\* An operation that nothing has run into goes on alone.
LEMMA CleanAlone ==
  ASSUME Clean, Shape, Overlap, job.pc # "idle"
  PROVE  boot.pc = "done"
  BY Alone DEF Clean, Unharmed, Kinds, Overlap

\* A process started from revisions with the credentials of a table has them.
LEMMA StartHas ==
  ASSUME NEW t, NEW r, r # None, r.creds = Creds(t), cfg.current.creds = Creds(t),
         RestartWorks(r) \/ RestartFails(r)
  PROVE  Has(proc', t)
  BY DEF Has, RestartWorks, RestartFails, Started, Down

\* So has one that is reloaded, or started instead.
LEMMA ReloadHas ==
  ASSUME NEW t, Has(proc, t), active # None, active.creds = Creds(t), cfg.current.creds = Creds(t),
         ReloadWorks \/ ReloadFails
  PROVE  Has(proc', t)
  BY StartHas DEF ReloadWorks, ReloadFails

\* The stores go where they are told, and back.
LEMMA StoreMoves ==
  ASSUME NEW s \in [current : Revs, previous : Revs], NEW r, r # None
  PROVE  /\ Applied(s, r).current = r
         /\ s.current # None /\ s.current # r => Applied(s, r).previous = s.current
         /\ s.previous = r /\ s.current # None => RolledBack(s).current = r
         /\ Restored(s, r).current = r
  BY DEF Applied, RolledBack, Restored

\* Tight is kept by every step.
LEMMA TightStep ==
  TypeOK /\ Shape /\ Overlap /\ Rooted /\ UserForward /\ Tight /\ [Next]_vars => Tight'
  <1> SUFFICES ASSUME TypeOK, Shape, Overlap, Rooted, UserForward, Tight, [Next]_vars, Clean'
               PROVE  BootTight' /\ IdleTight' /\ UserTight' /\ TLSTight'
    BY DEF Tight
  <1> DEFINE Goal == BootTight' /\ IdleTight' /\ UserTight' /\ TLSTight'
  <1>0. /\ job \in JobRec /\ NoJob.kind = "none" /\ NoJob.pc = "idle"
        /\ cfg \in [current : Revs, previous : Revs]
        /\ boot \in [pc : BootPcs, rev : Revs]
    BY DEF TypeOK, NoJob
  <1>a. ~UserRestart /\ ~ControllerStop => Clean /\ BootTight /\ IdleTight /\ UserTight /\ TLSTight
    BY CleanBefore DEF Tight
  <1>b. Clean /\ job.pc # "idle" => boot.pc = "done"
    BY CleanAlone
  <1>c. ASSUME NEW kinds, Harm(kinds) PROVE kinds \cap Kinds = {}
    BY <1>c DEF Harm, Clean, Unharmed
  \* What is left to show, according to who holds the lock after the step.
  <1>u. ASSUME boot'.pc = "done", job'.kind = "user", job'.pc # "idle", UserTight' PROVE Goal
    BY <1>u DEF BootTight, IdleTight, TLSTight
  <1>t. ASSUME boot'.pc = "done", job'.kind = "tls", job'.pc # "idle", TLSTight' PROVE Goal
    BY <1>t DEF BootTight, IdleTight, UserTight
  <1>i. ASSUME boot'.pc = "done", job' = NoJob,
               Present(users') # {} => cfg'.current = active' /\ active' = Render(users', meta')
                                       /\ Has(proc', users')
        PROVE  Goal
    BY <1>i, <1>0 DEF BootTight, IdleTight, UserTight, TLSTight, Agreed
  \* A user operation does not change what was before it.
  <1>k. ASSUME users' = users, meta' = meta, job'.user = job.user, job'.before = job.before
        PROVE  RowsBefore' = RowsBefore /\ Before' = Before
    BY <1>k DEF RowsBefore, Before
  <1>l. Before.creds = Creds(RowsBefore)
    BY RenderCreds DEF Before
  <1>r. \A p \in Pairs \cup {None} : Render(users, p) # None /\ Render(users, p).creds = Creds(users)
    BY Rendered, RenderCreds
  <1> USE <1>0 DEF db, stores
  <1>1. ASSUME NEW u \in Users, UserWrite(u) PROVE Goal
    <2>1. /\ job.pc = "idle" /\ boot.pc = "done" /\ Clean /\ IdleTight
      <3>1. ~UserRestart /\ ~ControllerStop
        BY <1>1, Written DEF UserRestart, ControllerStop
      <3>2. boot.pc = "done"
        BY <1>1, <1>c DEF UserWrite, Raced, Early, Kinds
      <3> QED BY <1>1, <1>a, <3>1, <3>2, Written
    <2>2. /\ RowsBefore' = users /\ Before' = Render(users, meta) /\ job'.pc = "apply"
          /\ job'.kind = "user" /\ boot' = boot
          /\ UNCHANGED <<cfg, active, proc>>
      BY <1>1, Written DEF Before
    <2>3. UserTight'
      BY <2>1, <2>2 DEF UserTight, IdleTight, Agreed
    <2> QED BY <1>u, <2>1, <2>2, <2>3
  <1>2. ASSUME NEW p \in Pairs, PublishPair(p) PROVE Goal
    <2>1. job.pc = "idle" /\ ~UserRestart /\ ~ControllerStop
      BY <1>2 DEF PublishPair, UserRestart, ControllerStop
    <2>2. Clean /\ BootTight /\ IdleTight
      BY <1>a, <2>1
    <2>3. CASE job' = job
      <3>1. UNCHANGED <<boot, job, proc, users, meta, cfg, active>> /\ job = NoJob
        BY <1>2, <2>3 DEF PublishPair
      <3> QED BY <2>2, <3>1 DEF BootTight, IdleTight, UserTight, TLSTight, Agreed
    <2>4. CASE job' # job
      <3>1. boot.pc = "done"
        BY <1>2, <2>4, <1>c, Taken DEF Raced, Early, Kinds
      <3>2. /\ job'.pc = "apply" /\ job'.kind = "tls" /\ job'.old = active
            /\ UNCHANGED <<boot, proc, users, meta, cfg, active>>
        BY <1>2, <2>4, Taken DEF PublishPair
      <3>3. TLSTight'
        BY <2>1, <2>2, <3>1, <3>2 DEF TLSTight, IdleTight, Agreed
      <3> QED BY <1>t, <3>1, <3>2, <3>3
    <2> QED BY <2>3, <2>4
  <1> USE DEF JobRec
  \* A user operation: nobody else is at work, and its rows are kept.
  <1>ku. ASSUME job.kind = "user", job.pc # "idle", ~UserRestart, ~ControllerStop,
                users' = users, meta' = meta, job'.user = job.user, job'.before = job.before,
                job'.kind = job.kind, job'.pc # "idle", boot' = boot,
                Present(RowsBefore) # {} =>
                  /\ job'.pc \notin {"apply", "undoUser"} => job'.old = Before
                  /\ job'.pc \in {"apply", "undoUser", "rollActive", "rollProcess"} =>
                       cfg'.current = Before
                  /\ job'.pc \in {"apply", "undoUser", "setActive", "rollProcess"} =>
                       active' = Before
                  /\ job'.pc = "rollFiles" /\ job'.undo = "files" => active' = Before
                  /\ job'.pc \in {"setActive", "restart", "rollFiles"} =>
                       job'.new = job'.old \/ cfg'.previous = job'.old
                  /\ \/ job'.pc \in {"apply", "setActive", "restart", "undoUser"}
                     \/ job'.pc = "rollFiles" /\ job'.undo = "files"
                     => Has(proc', RowsBefore)
         PROVE  Goal
    <2>1. boot.pc = "done"
      BY <1>a, <1>b, <1>ku
    <2>2. UserTight'
      BY <1>k, <1>ku DEF UserTight
    <2> QED BY <1>u, <1>ku, <2>1, <2>2
  <1>3. CASE UserApply
    <2>0. /\ ~UserRestart /\ ~ControllerStop /\ job.pc = "apply" /\ job.kind = "user"
          /\ Clean /\ UserTight
      <3>1. ~UserRestart /\ job.pc = "apply" /\ job.kind = "user"
        BY <1>3 DEF UserApply, UserRestart
      <3>2. ~ControllerStop
        BY <1>3, <3>1 DEF UserApply, ControllerStop
      <3> QED BY <1>a, <3>1, <3>2
    <2>1. /\ job'.user = job.user /\ job'.before = job.before /\ job'.kind = job.kind
          /\ UNCHANGED <<users, meta, boot, active, proc>>
      BY <1>3 DEF UserApply, Goto
    <2>2. CASE job'.pc = "undoUser" /\ cfg' = cfg
      BY <1>ku, <2>0, <2>1, <2>2 DEF UserTight
    <2>3. CASE /\ job'.pc = "setActive" /\ job'.old = active /\ job'.new = Render(users, meta)
               /\ cfg' = Applied(cfg, Render(users, meta))
      <3>1. Render(users, meta) # None /\ cfg.current # None
        BY <1>r, <2>0 DEF TypeOK, Rooted
      <3>2. Present(RowsBefore) # {} => cfg.current = Before /\ active = Before /\ Has(proc, RowsBefore)
        BY <2>0 DEF UserTight
      <3>3. cfg.current # Render(users, meta) => cfg'.previous = cfg.current
        BY <2>3, <3>1, StoreMoves
      <3> QED BY <1>ku, <2>0, <2>1, <2>3, <3>2, <3>3
    <2> QED
      <3>1. \/ job' = [job EXCEPT !.pc = "undoUser"] /\ cfg' = cfg
            \/ /\ job' = [job EXCEPT !.pc = "setActive", !.old = active, !.new = Render(users, meta)]
               /\ cfg' = Applied(cfg, Render(users, meta))
        BY <1>3, <1>c DEF UserApply, Goto, Kinds
      <3> QED BY <2>2, <2>3, <3>1
  <1>4. CASE UserSetActive
    <2>0. /\ ~UserRestart /\ ~ControllerStop /\ job.pc = "setActive" /\ job.kind = "user"
          /\ Clean /\ UserTight
      <3>1. ~UserRestart /\ job.pc = "setActive" /\ job.kind = "user"
        BY <1>4 DEF UserSetActive, UserRestart
      <3>2. ~ControllerStop
        BY <1>4, <3>1 DEF UserSetActive, ControllerStop
      <3> QED BY <1>a, <3>1, <3>2
    <2>1. /\ job'.user = job.user /\ job'.before = job.before /\ job'.kind = job.kind
          /\ job'.old = job.old /\ job'.new = job.new
          /\ UNCHANGED <<users, meta, boot, cfg, proc>>
          /\ \/ job'.pc = "restart"
             \/ job'.pc = "rollFiles" /\ job'.undo = "files" /\ active' = active
      BY <1>4 DEF UserSetActive, Goto
    <2> QED BY <1>ku, <2>0, <2>1 DEF UserTight
  <1>5. CASE UserRestart
    <2>0. job.pc = "restart" /\ job.kind = "user" /\ job.pc # "idle"
      BY <1>5 DEF UserRestart, Shape, UserPcs
    <2>1. CASE RestartWorks(job.new) /\ job' = NoJob
      <3>1. ~job.early
        BY <1>5, <2>0, <2>1 DEF UserRestart, NoHarm, Overlap, Clean, Unharmed, Kinds
      <3>2. boot.pc = "done"
        BY <2>0, <3>1, Alone
      <3>3. cfg.current = job.new /\ job.new = Render(users, meta) /\ active = job.new
        BY <2>0, <3>1 DEF UserForward
      <3>4. UNCHANGED <<users, meta, active, cfg, boot>>
        BY <1>5 DEF UserRestart
      <3>5. Has(proc', users)
        BY <2>1, <3>3, <1>r, StartHas DEF TypeOK
      <3> QED BY <1>i, <2>1, <3>2, <3>3, <3>4, <3>5
    <2>2. CASE harm' = harm /\ job' = [job EXCEPT !.pc = "rollFiles", !.undo = "all"]
      <3>1. Clean /\ UserTight /\ boot.pc = "done"
        BY <2>0, <2>2, <1>b DEF Clean, Unharmed, Tight
      <3>2. /\ job'.user = job.user /\ job'.before = job.before /\ job'.kind = "user"
            /\ job'.old = job.old /\ job'.new = job.new
            /\ job'.pc = "rollFiles" /\ job'.undo = "all"
            /\ UNCHANGED <<users, meta, boot, cfg>>
        BY <1>5, <2>0, <2>2 DEF UserRestart
      <3>3. UserTight'
        BY <1>k, <2>0, <3>1, <3>2 DEF UserTight
      <3> QED BY <1>u, <3>1, <3>2, <3>3
    <2> QED BY <1>5, <2>1, <2>2 DEF UserRestart, Done, NoHarm
  <1>6. CASE RollFiles
    <2>0. /\ ~UserRestart /\ ~ControllerStop /\ job.pc = "rollFiles" /\ job.kind = "user"
          /\ Clean /\ UserTight
      <3>1. ~UserRestart /\ job.pc = "rollFiles" /\ job.kind = "user"
        BY <1>6 DEF RollFiles, UserRestart, Shape, UserPcs
      <3>2. job'.kind = "user"
        BY <1>6, <3>1 DEF RollFiles, Goto
      <3>3. ~ControllerStop
        BY <3>2 DEF ControllerStop
      <3> QED BY <1>a, <3>1, <3>3
    <2>1. /\ job'.user = job.user /\ job'.before = job.before /\ job'.kind = job.kind
          /\ job'.old = job.old
          /\ UNCHANGED <<users, meta, boot, active, proc>>
          /\ \/ job'.pc = "undoUser" /\ job.undo = "files"
             \/ job'.pc = "rollActive"
      BY <1>6 DEF RollFiles, Goto
    <2>2. cfg' = RolledBack(cfg) /\ job.new # job.old
      BY <1>6, <1>c DEF RollFiles, Kinds
    <2>3. Present(RowsBefore) # {} => cfg'.current = Before
      <3>1. Present(RowsBefore) # {} => cfg.previous = Before /\ job.old = Before
        BY <2>0, <2>2 DEF UserTight
      <3>2. job.old # None /\ cfg.current # None
        BY <2>0 DEF Rooted
      <3> QED BY <2>2, <3>1, <3>2, StoreMoves
    <2> QED BY <1>ku, <2>0, <2>1, <2>3 DEF UserTight
  <1>7. CASE RollActive
    <2>0. /\ ~UserRestart /\ ~ControllerStop /\ job.pc = "rollActive" /\ job.kind = "user"
          /\ Clean /\ UserTight
      <3>1. ~UserRestart /\ job.pc = "rollActive" /\ job.kind = "user"
        BY <1>7 DEF RollActive, UserRestart, Shape, UserPcs
      <3>2. job'.kind = "user"
        BY <1>7, <3>1 DEF RollActive, Goto
      <3>3. ~ControllerStop
        BY <3>2 DEF ControllerStop
      <3> QED BY <1>a, <3>1, <3>3
    <2>1. /\ job'.user = job.user /\ job'.before = job.before /\ job'.kind = job.kind
          /\ job'.old = job.old /\ job'.pc = "rollProcess"
          /\ UNCHANGED <<users, meta, boot, cfg, proc>>
      BY <1>7 DEF RollActive, Goto
    <2>2. active' = job.old
      BY <1>7, <1>c DEF RollActive, UndoFails, Kinds
    <2> QED BY <1>ku, <2>0, <2>1, <2>2 DEF UserTight
  <1>8. CASE RollProcess
    <2>0. /\ ~UserRestart /\ ~ControllerStop /\ job.pc = "rollProcess" /\ job.kind = "user"
          /\ Clean /\ UserTight
      <3>1. ~UserRestart /\ job.pc = "rollProcess" /\ job.kind = "user"
        BY <1>8 DEF RollProcess, UserRestart, Shape, UserPcs
      <3>2. job'.kind = "user"
        BY <1>8, <3>1 DEF RollProcess, Goto
      <3>3. ~ControllerStop
        BY <3>2 DEF ControllerStop
      <3> QED BY <1>a, <3>1, <3>3
    <2>1. /\ job'.user = job.user /\ job'.before = job.before /\ job'.kind = job.kind
          /\ job'.pc = "undoUser"
          /\ UNCHANGED <<users, meta, boot, cfg, active>>
      BY <1>8 DEF RollProcess, Goto
    <2>2. RestartWorks(job.old) \/ RestartFails(job.old)
      BY <1>8 DEF RollProcess
    <2>3. job.old # None
      BY <2>0 DEF Rooted
    <2>4. Present(RowsBefore) # {} => job.old = Before /\ cfg.current = Before /\ active = Before
      BY <2>0 DEF UserTight
    <2>5. Present(RowsBefore) # {} => Has(proc', RowsBefore)
      BY <1>l, <2>2, <2>3, <2>4, StartHas
    <2> QED BY <1>ku, <2>0, <2>1, <2>4, <2>5
  <1>9. CASE UserUndo
    <2>0. /\ ~UserRestart /\ job.pc = "undoUser" /\ job.kind = "user"
      BY <1>9 DEF UserUndo, UserRestart, Shape, UserPcs
    <2>1. users' = RowsBefore /\ job' = NoJob /\ UNCHANGED <<active, meta, cfg, proc, boot>>
      BY <1>9, <1>c DEF UserUndo, Done, RowsBefore, Kinds
    <2>2. CASE ControllerStop
      <3>1. boot' # boot
        BY <2>2 DEF ControllerStop
      <3> QED BY <2>1, <3>1
    <2>3. CASE ~ControllerStop
      <3>1. boot.pc = "done" /\ UserTight
        BY <1>a, <1>b, <2>0, <2>3
      <3>2. Present(RowsBefore) # {} => cfg.current = Before /\ active = Before /\ Has(proc, RowsBefore)
        BY <2>0, <3>1 DEF UserTight
      <3>3. Before = Render(users', meta')
        BY <2>1 DEF Before
      <3> QED BY <1>i, <2>1, <3>1, <3>2, <3>3
    <2> QED BY <2>2, <2>3
  \* A publication: nobody else is at work, and no row changes.
  <1>s. job.pc # "restart" /\ boot' = boot => Clean /\ BootTight /\ IdleTight /\ UserTight /\ TLSTight
    <2>1. job.pc # "restart" /\ boot' = boot => ~UserRestart /\ ~ControllerStop
      BY DEF UserRestart, ControllerStop
    <2> QED BY <1>a, <2>1
  <1>kt. ASSUME job.kind = "tls", job.pc \notin {"idle", "restart"}, job'.kind = "tls",
                job'.pc # "idle", users' = users, boot' = boot, TLSTight'
         PROVE  Goal
    BY <1>b, <1>s, <1>t, <1>kt
  <1>10. CASE TLSApply
    <2>1. /\ job.kind = "tls" /\ job.pc = "apply" /\ job.pair \in Pairs
          /\ UNCHANGED <<users, meta, boot, active, proc>>
      BY <1>10 DEF TLSApply, Shape
    <2>2. /\ job'.kind = "tls" /\ job'.old = job.old /\ job'.pair = job.pair
          /\ \/ job'.pc = "backConfig"
             \/ /\ job'.pc = "setActive" /\ job'.new = Render(users, job.pair)
                /\ cfg' = Applied(cfg, Render(users, job.pair))
      BY <1>10 DEF TLSApply
    <2>3. job'.pc = "setActive" => cfg'.current = job'.new
      BY <1>r, <2>1, <2>2, StoreMoves
    <2>4. TLSTight'
      BY <1>s, <2>1, <2>2, <2>3 DEF TLSTight
    <2> QED BY <1>kt, <2>1, <2>2, <2>4
  <1>11. CASE TLSSetActive
    <2>1. /\ job.kind = "tls" /\ job.pc = "setActive"
          /\ UNCHANGED <<users, meta, boot, cfg, proc>>
      BY <1>11 DEF TLSSetActive, Shape
    <2>2. /\ job'.kind = "tls" /\ job'.old = job.old /\ job'.pair = job.pair /\ job'.new = job.new
          /\ \/ job'.pc = "backConfig" /\ active' = active
             \/ job'.pc \in {"save", "reload"} /\ active' = job.new
      BY <1>11 DEF TLSSetActive, Goto
    <2>3. TLSTight'
      BY <1>s, <2>1, <2>2 DEF TLSTight
    <2> QED BY <1>kt, <2>1, <2>2, <2>3
  <1>12. CASE TLSReload
    <2>1. /\ job.kind = "tls" /\ job.pc = "reload" /\ job.pair \in Pairs
          /\ UNCHANGED <<users, meta, boot, cfg, active>>
      BY <1>12 DEF TLSReload, Shape, TLSPcs
    <2>2. /\ job'.kind = "tls" /\ job'.old = job.old /\ job'.pair = job.pair /\ job'.new = job.new
          /\ \/ job'.pc = "backConfig" /\ job'.undo = "reload"
             \/ job'.pc = "save"
      BY <1>12, <2>1 DEF TLSReload, Goto
    <2>3. ReloadWorks \/ ReloadFails
      BY <1>12 DEF TLSReload
    <2>4. Present(users) # {} =>
            /\ Has(proc, users) /\ job.old = Render(users, meta)
            /\ cfg.current = job.new /\ job.new = Render(users, job.pair) /\ active = job.new
      BY <1>s, <2>1 DEF TLSTight
    <2>5. Present(users) # {} => Has(proc', users)
      BY <1>r, <2>1, <2>3, <2>4, ReloadHas
    <2>6. TLSTight'
      BY <2>1, <2>2, <2>4, <2>5 DEF TLSTight
    <2> QED BY <1>kt, <2>1, <2>2, <2>6
  <1>13. CASE SaveMetadata
    <2>1. /\ job.kind = "tls" /\ job.pc = "save"
          /\ UNCHANGED <<users, boot, cfg, active, proc>>
      BY <1>13 DEF SaveMetadata, Shape, TLSPcs
    <2>2. /\ job'.kind = "tls" /\ job'.old = job.old /\ job'.pair = job.pair /\ job'.new = job.new
          /\ \/ job'.pc = "backConfig" /\ job'.undo = "revert" /\ meta' = meta
             \/ job'.pc = "complete" /\ meta' = job.pair
      BY <1>13, <2>1 DEF SaveMetadata, Goto
    <2>3. TLSTight'
      BY <1>s, <2>1, <2>2 DEF TLSTight
    <2> QED BY <1>kt, <2>1, <2>2, <2>3
  <1>14. CASE CompletePublished
    <2>1. /\ job.kind = "tls" /\ job.pc = "complete" /\ job' = NoJob
          /\ UNCHANGED <<users, meta, boot, cfg, active, proc>>
      BY <1>14 DEF CompletePublished, Shape, TLSPcs, Done
    <2> QED BY <1>b, <1>i, <1>s, <2>1 DEF TLSTight
  <1>15. CASE BackConfig
    <2>1. /\ job.kind = "tls" /\ job.pc = "backConfig"
          /\ UNCHANGED <<users, meta, boot, active, proc>>
          /\ cfg' = Restored(cfg, job.old)
      BY <1>15, <1>c DEF BackConfig, Shape, TLSPcs, Kinds
    <2>2. /\ job'.kind = "tls" /\ job'.old = job.old /\ job'.pair = job.pair
          /\ job'.undo = job.undo /\ job'.pc = "backPair"
      BY <1>15, <2>1 DEF BackConfig, Goto
    <2>3. Present(users) # {} => Has(proc, users) /\ job.old = Render(users, meta)
      BY <1>s, <2>1 DEF TLSTight
    <2>4. Present(users) # {} => cfg'.current = job.old
      BY <1>r, <2>1, <2>3, StoreMoves DEF TypeOK
    <2>5. TLSTight'
      BY <1>s, <2>1, <2>2, <2>3, <2>4 DEF TLSTight
    <2> QED BY <1>kt, <2>1, <2>2, <2>5
  <1>16. CASE BackPair
    <2>1. /\ job.kind = "tls" /\ job.pc = "backPair"
          /\ UNCHANGED <<users, meta, boot, cfg, active, proc>>
      BY <1>16 DEF BackPair, Shape, TLSPcs
    <2>2. CASE job.undo = "publish"
      <3>1. job' = NoJob
        BY <1>16, <2>2 DEF BackPair, AfterBackPair
      <3> QED BY <1>b, <1>i, <1>s, <2>1, <2>2, <3>1 DEF TLSTight
    <2>3. CASE job.undo # "publish"
      <3>1. job'.kind = "tls" /\ job'.old = job.old /\ job'.pair = job.pair /\ job'.pc = "backActive"
        BY <1>16, <2>1, <2>3 DEF BackPair, AfterBackPair
      <3>2. TLSTight'
        BY <1>s, <2>1, <3>1 DEF TLSTight
      <3> QED BY <1>kt, <2>1, <3>1, <3>2
    <2> QED BY <2>2, <2>3
  <1>17. CASE BackActive
    <2>1. /\ job.kind = "tls" /\ job.pc = "backActive" /\ active' = job.old
          /\ UNCHANGED <<users, meta, boot, cfg, proc>>
      BY <1>17, <1>c DEF BackActive, Shape, TLSPcs, UndoFails, Kinds
    <2>2. job'.kind = "tls" /\ job'.old = job.old /\ job'.pair = job.pair /\ job'.pc = "backProcess"
      BY <1>17, <2>1 DEF BackActive, Goto
    <2>3. TLSTight'
      BY <1>s, <2>1, <2>2 DEF TLSTight
    <2> QED BY <1>kt, <2>1, <2>2, <2>3
  <1>18. CASE BackProcess
    <2>1. /\ job.kind = "tls" /\ job.pc = "backProcess" /\ job' = NoJob
          /\ UNCHANGED <<users, meta, boot, cfg, active>>
      BY <1>18 DEF BackProcess, Shape, TLSPcs, Done
    <2>2. proc' = proc \/ ReloadWorks \/ ReloadFails
      BY <1>18 DEF BackProcess
    <2>3. Present(users) # {} =>
            /\ Has(proc, users) /\ job.old = Render(users, meta)
            /\ cfg.current = job.old /\ active = job.old
      BY <1>s, <2>1 DEF TLSTight
    <2>4. Present(users) # {} => Has(proc', users)
      BY <1>r, <2>2, <2>3, ReloadHas DEF TypeOK
    <2> QED BY <1>b, <1>i, <1>s, <2>1, <2>3, <2>4
  \* Recovery: it finds the lock free.
  <1>19. CASE BootStep
    <2>0. job' = job /\ UNCHANGED <<users, meta>> /\ boot.pc # "done"
      BY <1>19 DEF BootStep, BootServe, BootSnapshot, BootApply, BootSetActive, BootRestart
    <2>1. Clean /\ BootTight /\ job = NoJob
      <3>1. ~ControllerStop
        BY <1>19 DEF ControllerStop, BootStep, BootServe, BootSnapshot, BootApply, BootSetActive,
                     BootRestart
      <3>2. CASE job.pc = "idle"
        <4>1. job = NoJob /\ ~UserRestart
          BY <3>2 DEF Shape, UserRestart
        <4> QED BY <1>a, <3>1, <4>1
      <3>3. CASE job.pc # "idle"
        <4>1. job.early
          BY <2>0, <3>3 DEF Shape
        <4>2. "raced" \in harm'
          BY <1>19, <4>1 DEF Overlap, BootStep, BootServe, BootSnapshot, BootApply, BootSetActive,
                             BootRestart, NoHarm, Harm
        <4> QED BY <4>2 DEF Clean, Unharmed, Kinds
      <3> QED BY <3>2, <3>3
    <2>2. UserTight' /\ TLSTight'
      BY <2>0, <2>1 DEF UserTight, TLSTight
    <2>3. CASE BootServe
      BY <2>1, <2>2, <2>3 DEF BootServe, BootTight, IdleTight
    <2>4. CASE BootSnapshot
      BY <2>0, <2>1, <2>2, <2>4 DEF BootSnapshot, BootTight, IdleTight
    <2>5. CASE BootApply
      <3>1. cfg'.current = boot.rev
        BY <2>5, StoreMoves DEF BootApply, Rooted
      <3> QED BY <2>0, <2>1, <2>2, <2>5, <3>1 DEF BootApply, BootTight, IdleTight
    <2>6. CASE BootSetActive
      BY <2>0, <2>1, <2>2, <2>6 DEF BootSetActive, BootTight, IdleTight
    <2>7. CASE BootRestart
      <3>1. boot.rev = Render(users, meta) /\ cfg.current = boot.rev /\ active = boot.rev
        BY <2>1, <2>7 DEF BootRestart, BootTight
      <3>2. Has(proc', users)
        BY <1>r, <2>7, <3>1, StartHas DEF BootRestart, TypeOK
      <3>3. boot'.pc = "done" /\ UNCHANGED <<cfg, active>>
        BY <2>7 DEF BootRestart
      <3> QED BY <1>i, <2>0, <2>1, <3>1, <3>2, <3>3
    <2> QED BY <1>19, <2>3, <2>4, <2>5, <2>6, <2>7 DEF BootStep
  <1>20. CASE Cancel
    <2>1. /\ job.pc # "idle" /\ job'.pc = job.pc /\ job'.kind = job.kind /\ job'.user = job.user
          /\ job'.before = job.before /\ job'.old = job.old /\ job'.new = job.new
          /\ job'.pair = job.pair /\ job'.undo = job.undo
          /\ UNCHANGED <<users, meta, boot, cfg, active, proc, harm>>
      BY <1>20 DEF Cancel
    <2>2. Clean /\ BootTight /\ IdleTight /\ UserTight /\ TLSTight
      BY <2>1 DEF Clean, Unharmed, Tight
    <2>3. UserTight'
      BY <1>k, <2>1, <2>2 DEF UserTight
    <2>4. TLSTight'
      BY <2>1, <2>2 DEF TLSTight
    <2> QED BY <2>1, <2>2, <2>3, <2>4 DEF BootTight, IdleTight
  <1>21. CASE Exit \/ AutoRestart
    <2>0. UNCHANGED <<users, meta, boot, cfg, active, job>> /\ harm \ {"exit"} \subseteq harm'
      BY <1>21 DEF Exit, AutoRestart, NoHarm, Harm
    <2>1. Clean /\ BootTight /\ IdleTight /\ UserTight /\ TLSTight
      BY <2>0 DEF Clean, Unharmed, Tight, Kinds
    <2>2. proc.state # "down" /\ RowsBefore' = RowsBefore /\ Before' = Before
      BY <1>21, <2>0 DEF Exit, AutoRestart, RowsBefore, Before
    <2>3. CASE proc'.state = "up"
      <3>1. proc' = Started("up", proc.rev) /\ job = NoJob
        BY <1>21, <1>c, <2>3 DEF Exit, AutoRestart, Down, Clean, Unharmed, Kinds, TypeOK
      <3>2. Has(proc, users) /\ cfg.current.creds = Creds(users) => Has(proc', users)
        BY <2>2, <3>1 DEF Has, Started
      <3>3. boot.pc = "done"
        BY <2>1, <2>2 DEF BootTight
      <3>4. Present(users) # {} => Agreed /\ Has(proc, users)
        BY <2>1, <3>1, <3>3 DEF IdleTight
      <3>5. Present(users) # {} => cfg.current.creds = Creds(users)
        BY <3>4, RenderCreds DEF Agreed
      <3> QED BY <1>i, <2>0, <3>1, <3>2, <3>3, <3>4, <3>5 DEF Agreed
    <2>4. CASE proc'.state # "up"
      <3>1. ASSUME NEW x, Has(proc, x) PROVE Has(proc', x)
        BY <1>21, <2>2, <2>4, <3>1 DEF Exit, AutoRestart, Has, Down, Started, TypeOK
      <3>2. boot.pc = "done"
        BY <2>1, <2>2 DEF BootTight
      <3>3. IdleTight'
        BY <2>0, <2>1, <3>1 DEF IdleTight, Agreed
      <3>4. UserTight'
        BY <2>0, <2>1, <2>2, <3>1 DEF UserTight
      <3>5. TLSTight'
        BY <2>0, <2>1, <3>1 DEF TLSTight
      <3> QED BY <2>0, <3>2, <3>3, <3>4, <3>5 DEF BootTight
    <2> QED BY <2>3, <2>4
  <1>22. CASE ControllerStop
    <2>1. job' = NoJob /\ boot'.pc = "off" /\ proc'.state = "down"
      BY <1>22 DEF ControllerStop, Down
    <2> QED BY <2>1 DEF BootTight, IdleTight, UserTight, TLSTight
  <1>23. CASE UNCHANGED vars
    <2>1. UNCHANGED <<users, meta, boot, cfg, active, proc, job, harm>>
      BY <1>23 DEF vars
    <2>2. Clean /\ BootTight /\ IdleTight /\ UserTight /\ TLSTight
      BY <2>1 DEF Clean, Unharmed, Tight
    <2>3. UserTight'
      BY <1>k, <2>1, <2>2 DEF UserTight
    <2> QED BY <2>1, <2>2, <2>3 DEF BootTight, IdleTight, TLSTight, Agreed
  <1> QED
    BY <1>1, <1>2, <1>3, <1>4, <1>5, <1>6, <1>7, <1>8, <1>9, <1>10, <1>11, <1>12, <1>13, <1>14,
       <1>15, <1>16, <1>17, <1>18, <1>19, <1>20, <1>21, <1>22, <1>23
    DEF Next, UserStep, TLSStep

-----------------------------------------------------------------------------
\* The invariant of a publication: what every step relies on, and what agrees.
LEMMA AgreementHolds == Spec => [](TypeOK /\ Tight)
  <1>1. Init => Overlap /\ AdminInv /\ Rooted /\ UserForward /\ Tight
    <2> SUFFICES ASSUME Init PROVE Overlap /\ AdminInv /\ Rooted /\ UserForward /\ Tight
      OBVIOUS
    <2>1. /\ job.pc = "idle" /\ job.kind = "none" /\ ~job.early /\ boot.pc = "off"
          /\ proc.state = "down" /\ meta = None /\ admin = None /\ Present(users) = {}
      BY DEF Init, NoJob, Present, Absent, Down
    <2>2. Tight
      BY <2>1 DEF Tight, BootTight, IdleTight, UserTight, TLSTight
    <2> QED BY <2>1, <2>2 DEF Overlap, AdminInv, AdminFollowsMetadata, Rooted, UserForward
  <1> QED BY <1>1, TypeCorrect, ShapeInit, ShapeStep, OverlapStep, AdminStep, RootedStep,
             ForwardStep, TightStep, PTL DEF Spec

\* Whatever fails wherever in a change, its rollback or recovery, whenever the
\* request ends or the controller stops: with nobody at work config/current is the
\* active revision and what the database renders to, unless undoing failed, nothing
\* had been switched that could be swapped back, or recovery ran into the change.
THEOREM PublishedAlwaysAgrees == Spec => []PublishedAgrees
  <1>1. Tight => PublishedAgrees
    BY DEF Tight, Clean, Kinds, IdleTight, PublishedAgrees, Quiet, NoJob
  <1> QED BY <1>1, AgreementHolds, PTL

\* On the same terms an endpoint that is up accepts the credentials of the active
\* users and no others, by the revision in its arguments and by its directory.
THEOREM AlwaysServesDatabase == Spec => []ServesDatabase
  <1>1. Tight => ServesDatabase
    <2>1. Creds(users) = Render(users, meta).creds
      BY RenderCreds
    <2> QED BY <2>1 DEF Tight, Clean, Kinds, IdleTight, Has, ServesDatabase, Quiet, NoJob
  <1> QED BY <1>1, AgreementHolds, PTL
=============================================================================
