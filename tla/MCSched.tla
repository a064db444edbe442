------------------------------- MODULE MCSched -------------------------------
(* The scheduler and its wait queues on small instances. *)
EXTENDS Sched

CONSTANTS idle, disp, u1, u2, qd, qu

\* The dispatcher sleeps on its own queue, users on a shared one.
MCWaiters == [w \in {qd, qu} |-> IF w = qd THEN {disp} ELSE Tasks \ {idle, disp}]
\* Only the dispatcher waits.
MCDispWaits == [w \in {qd, qu} |-> IF w = qd THEN {disp} ELSE {}]
MCBootQueue == <<disp, idle>>
===============================================================================
