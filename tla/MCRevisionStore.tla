--------------------------- MODULE MCRevisionStore ---------------------------
(* Instances of RevisionStore for TLC.                                     *)
EXTENDS RevisionStore
=============================================================================
