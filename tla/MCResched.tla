----------------------------- MODULE MCResched -----------------------------
(* Instances of Resched for TLC. *)
EXTENDS Resched

CONSTANTS idle, disp, user
=============================================================================
