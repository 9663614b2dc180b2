---------------------------- MODULE MCSupervisor ----------------------------
(* Instances of Supervisor for TLC.                                        *)
EXTENDS Supervisor, TLC

Symmetry == Permutations(Procs) \cup Permutations(Revisions)
=============================================================================
