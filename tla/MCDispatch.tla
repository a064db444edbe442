----------------------------- MODULE MCDispatch -----------------------------
(* Instances of Dispatch for TLC. *)
EXTENDS Dispatch, TLC

CONSTANTS c1, c2, c3, s1, s2, a1, a2

\* Each service has one alternative component.
OneSpare == [s \in Services |-> 1]

\* The alternative of s1 has no handle_msg.
DeafSpare == {<<s1, 1>>}

\* Calls to s1 wait out a pause, calls to s2 are refused during it.
Mixed == [s \in Services |-> IF s = s1 THEN "queue" ELSE "reject"]

\* Calls are refused during a pause.
Rejecting == [s \in Services |-> "reject"]
=============================================================================
