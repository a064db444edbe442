-------------------------------- MODULE Resched --------------------------------
(***************************************************************************)
(* sched_check_resched at the grain of its calls into the policy.  Sched   *)
(* takes a reschedule as one action, as the scheduler interface promises   *)
(* ("every op is bounded, non-preemptible, and fast").  This module looks  *)
(* at that promise: nx_task_yield called by a kernel thread (the idle      *)
(* loop, the drain loop of a pause, the end of a wait) runs with IRQs      *)
(* enabled and with preempt_count 0 until the switch itself, and the       *)
(* policy's yield takes a task off its list before it puts it back.        *)
(*                                                                         *)
(* The policy is sched_priority with all tasks on one level.               *)
(***************************************************************************)
EXTENDS Sequences, SequencesExt

CONSTANTS
    Tasks,
    Kthreads,   \* tasks whose kernel code runs with IRQs enabled
    Idle,       \* the idle task, which never blocks
    NoTask      \* NULL

VARIABLES
    rq,         \* the policy's list
    curr,       \* nx_task_current()
    blocked,    \* tasks that wait on a wait queue
    rpc,        \* where a kernel thread's own reschedule is
    node,       \* the task its policy op has taken off the list
    next        \* the task it picked

vars == <<rq, curr, blocked, rpc, node, next>>

Init ==
    /\ rq \in SetToSeqs(Tasks)
    /\ curr = Idle
    /\ blocked = {}
    /\ rpc = [t \in Kthreads |-> "run"]
    /\ node = [t \in Kthreads |-> NoTask]
    /\ next = [t \in Kthreads |-> NoTask]

\* The task the policy's yield rotates: the running task if it is queued, else
\* the head of the list.
Victim(q, t) == IF t \in ToSet(q) THEN t ELSE Head(q)

Rotated(q, t) == IF q = <<>> THEN q ELSE Append(Remove(q, Victim(q, t)), Victim(q, t))

\* pick_next and the switch, with nothing in between.
SwitchTo(q) == curr' = IF q = <<>> THEN curr ELSE Head(q)
-----------------------------------------------------------------------------
(* Reschedules that nothing interrupts: in the return path of an interrupt, *)
(* and in a system call.                                                    *)

\* An interrupt ends the quantum of a user task or of a kernel thread, which
\* may be in the middle of a reschedule of its own.
Irq ==
    /\ rq' = Rotated(rq, curr)
    /\ SwitchTo(rq')
    /\ UNCHANGED <<blocked, rpc, node, next>>

\* A user task waits, in a system call.
UserWait ==
    /\ curr \notin Kthreads
    /\ blocked' = blocked \cup {curr}
    /\ rq' = Rotated(Remove(rq, curr), curr)
    /\ SwitchTo(rq')
    /\ UNCHANGED <<rpc, node, next>>
-----------------------------------------------------------------------------
(* The steps of a kernel thread *)

Running(t, where) == curr = t /\ t \in Kthreads /\ rpc[t] = where

\* nx_task_yield, or the end of a wait's critical section.
Yield(t) ==
    /\ Running(t, "run")
    /\ rpc' = [rpc EXCEPT ![t] = "yield"]
    /\ UNCHANGED <<rq, curr, blocked, node, next>>

Wait(t) ==
    /\ Running(t, "run") /\ t # Idle
    /\ blocked' = blocked \cup {t}
    /\ rq' = Remove(rq, t)
    /\ rpc' = [rpc EXCEPT ![t] = "yield"]
    /\ UNCHANGED <<curr, node, next>>

\* The policy's yield: nx_list_remove ...
YieldRemove(t) ==
    /\ Running(t, "yield")
    /\ IF rq = <<>>
       THEN /\ rpc' = [rpc EXCEPT ![t] = "pick"]
            /\ UNCHANGED <<rq, node>>
       ELSE /\ rpc' = [rpc EXCEPT ![t] = "removed"]
            /\ node' = [node EXCEPT ![t] = Victim(rq, t)]
            /\ rq' = Remove(rq, Victim(rq, t))
    /\ UNCHANGED <<curr, blocked, next>>

\* ... and nx_list_add_tail.
YieldAddTail(t) ==
    /\ Running(t, "removed")
    /\ rq' = Append(rq, node[t])
    /\ node' = [node EXCEPT ![t] = NoTask]
    /\ rpc' = [rpc EXCEPT ![t] = "pick"]
    /\ UNCHANGED <<curr, blocked, next>>

PickNext(t) ==
    /\ Running(t, "pick")
    /\ next' = [next EXCEPT ![t] = IF rq = <<>> THEN t ELSE Head(rq)]
    /\ rpc' = [rpc EXCEPT ![t] = "picked"]
    /\ UNCHANGED <<rq, curr, blocked, node>>

\* Nothing else to run, or nx_preempt_disable and cpu_switch_to.  The thread
\* returns from the reschedule when it is switched to again.
Switch(t) ==
    /\ Running(t, "picked")
    /\ curr' = next[t]
    /\ next' = [next EXCEPT ![t] = NoTask]
    /\ rpc' = [rpc EXCEPT ![t] = "run"]
    /\ UNCHANGED <<rq, blocked, node>>

\* The running task, or an interrupt handler, wakes a waiting one.
Wake(t) ==
    /\ t \in blocked
    /\ blocked' = blocked \ {t}
    /\ rq' = Append(rq, t)
    /\ UNCHANGED <<curr, rpc, node, next>>

KthreadStep(t) ==
    Yield(t) \/ Wait(t) \/ YieldRemove(t) \/ YieldAddTail(t) \/ PickNext(t) \/ Switch(t)

Next ==
    \/ Irq \/ UserWait
    \/ \E t \in Kthreads : KthreadStep(t)
    \/ \E t \in Tasks : Wake(t)

Spec == Init /\ [][Next]_vars

\* A task that does not wait is on the policy's list, or the CPU is between the
\* two halves of the policy op that moves it.  scheduler.h: "every op is
\* bounded, non-preemptible, and fast".
NoTaskStranded ==
    \A t \in Tasks \ blocked :
        t \in ToSet(rq) \/ (curr \in Kthreads /\ rpc[curr] = "removed" /\ node[curr] = t)
=============================================================================
