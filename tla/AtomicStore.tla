---------------------------- MODULE AtomicStore ----------------------------
(***************************************************************************)
(* What a versioned directory promises to the rest of the controller:      *)
(* a published revision is immutable and stays, and the links "current"    *)
(* and "previous" are absent or name a revision that was published, each   *)
(* of them moving from one to another in one step, also when the machine   *)
(* stops at an arbitrary moment.  The one reservation are the revisions    *)
(* whose publication broke off, which may be linked and yet be lost.       *)
(***************************************************************************)
CONSTANTS Revisions, None
VARIABLES published, unsure, current, previous

revs == <<published, unsure>>
Known == published \cup unsure \cup {None}

Init == published = {} /\ unsure = {} /\ current = None /\ previous = None

\* What becomes durable is published and no longer in doubt.
Publish(more) ==
  /\ published' = published \cup more
  /\ unsure' = unsure \ more
  /\ UNCHANGED <<current, previous>>

BreakOff(r) ==
  /\ unsure' = unsure \cup {r}
  /\ UNCHANGED <<published, current, previous>>

Select(r) ==
  /\ r \in Known
  /\ current' = r
  /\ UNCHANGED <<revs, previous>>

Remember(r) ==
  /\ r \in Known
  /\ previous' = r
  /\ UNCHANGED <<revs, current>>

\* The machine stops: publications under way and in doubt may turn out to be
\* complete, and each link is found at a revision that was known before.
Recover(more) ==
  /\ published' = published \cup more
  /\ unsure' = unsure \ more
  /\ current' \in Known /\ previous' \in Known

Next ==
  \/ \E more \in SUBSET Revisions : Publish(more) \/ Recover(more)
  \/ \E r \in Revisions : BreakOff(r)
  \/ \E r \in Revisions \cup {None} : Select(r) \/ Remember(r)

Spec == Init /\ [][Next]_<<revs, current, previous>>
=============================================================================
