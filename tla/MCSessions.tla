----------------------------- MODULE MCSessions -----------------------------
(* The instance of Sessions for TLC.                                       *)
EXTENDS Sessions
=============================================================================
