--------------------------- MODULE MCDataDirectory ---------------------------
(***************************************************************************)
(* Instances of DataDirectory.                                             *)
(***************************************************************************)
EXTENDS DataDirectory
==============================================================================
