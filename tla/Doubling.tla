------------------------------ MODULE Doubling ------------------------------
(***************************************************************************)
(* Powers of two, by doubling, for the delays that double: the shift in    *)
(* internal/auth/limiter.go and the loop in internal/certificate/          *)
(* scheduler.go.  (The provers know nothing of 2 ^ n for a variable n.)    *)
(***************************************************************************)
EXTENDS Integers

TwoTo[n \in Nat] == IF n = 0 THEN 1 ELSE 2 * TwoTo[n - 1]
=============================================================================
