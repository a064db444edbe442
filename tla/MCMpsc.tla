------------------------------- MODULE MCMpsc -------------------------------
(* Instances of Mpsc for TLC. *)
EXTENDS Mpsc

CONSTANTS p1, p2, p3, n1, n2, n3
=============================================================================
