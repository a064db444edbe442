------------------------------- MODULE RunQueue -------------------------------
(***************************************************************************)
(* The run queue of the two scheduler policies, sched_rr and               *)
(* sched_priority, as operators on the value q of the policy's lists: a    *)
(* function from priority level to the list (head first) of that level.    *)
(* sched_rr keeps one list; it is the case Levels = {0}.                   *)
(*                                                                         *)
(* The intrusive list node of a task (sched_node) is shared between the    *)
(* run queue and the wait queues, so unlinking is by task, not by index.   *)
(***************************************************************************)
EXTENDS Integers, Sequences, SequencesExt

CONSTANTS
    Tasks,      \* every task the instance may ever run
    Idle,       \* g_idle_task
    MaxLevel,   \* SCHED_PRIORITY_LEVELS - 1; 0 for sched_rr
    Policy,     \* the bound scheduler component: "rr" or "priority"
    NoTask      \* NULL

ASSUME TaskAssumption  == Idle \in Tasks /\ NoTask \notin Tasks
ASSUME LevelAssumption == MaxLevel \in Nat
ASSUME PolicyAssumption ==
    /\ Policy \in {"rr", "priority"}
    /\ Policy = "rr" => MaxLevel = 0

Levels == 0 .. MaxLevel

\* The lists of a policy: no task twice in a level, none in two levels.
WellFormed(q) ==
    /\ q \in [Levels -> Seq(Tasks)]
    /\ \A p \in Levels : IsInjective(q[p])
    /\ \A p, o \in Levels : p # o => ToSet(q[p]) \cap ToSet(q[o]) = {}

\* task_priority() >= 0 / on_queue(): some level's list links t.
OnQueue(q, t) == \E p \in Levels : t \in ToSet(q[p])

\* task_priority(): the level whose list links t.
TaskLevel(q, t) == CHOOSE p \in Levels : t \in ToSet(q[p])

\* Both policies append to the default level, whatever level t had before.
Enqueue(q, t) ==
    IF OnQueue(q, t) THEN q ELSE [q EXCEPT ![0] = Append(@, t)]

Dequeue(q, t) ==
    IF OnQueue(q, t)
    THEN [q EXCEPT ![TaskLevel(q, t)] = RemoveFirst(@, t)]
    ELSE q

\* Mutant of MoveToTail: the task is unlinked and not linked again.
MoveDropsTask(q, t, p) == Dequeue(q, t)

\* nx_list_remove then nx_list_add_tail: a linked task moves to the tail of p.
MoveToTail(q, t, p) ==
    [Dequeue(q, t) EXCEPT ![p] = Append(@, t)]

(***************************************************************************)
(* yield.  sched_rr moves the head of its list to the tail, whether or     *)
(* not the head is the running task.  sched_priority moves the running     *)
(* task to the tail of its level when it is linked, and otherwise (the     *)
(* running task has just blocked or exited) the head of the highest        *)
(* non-empty level.  Rotates(q, c, t): t is the task yield moves when c    *)
(* is running.                                                             *)
(***************************************************************************)
IsTopHead(q, t) ==
    \E p \in Levels :
        /\ q[p] # <<>>
        /\ t = Head(q[p])
        /\ \A o \in Levels : o > p => q[o] = <<>>

Rotates(q, c, t) ==
    IF Policy = "priority" /\ OnQueue(q, c) THEN t = c ELSE IsTopHead(q, t)

\* Mutant of IsYield: the rotation is left out.
NoRotation(q, c, qNew) == qNew = q

IsYield(q, c, qNew) ==
    IF \A p \in Levels : q[p] = <<>> THEN qNew = q
    ELSE \E t \in Tasks : Rotates(q, c, t) /\ qNew = MoveToTail(q, t, TaskLevel(q, t))

\* pick_next: highest level first, list order within it, BLOCKED tasks skipped.
Pickable(q, st) ==
    {t \in Tasks : OnQueue(q, t) /\ st[t] # "BLOCKED"}

Position(q, t) == CHOOSE i \in DOMAIN q[TaskLevel(q, t)] : q[TaskLevel(q, t)][i] = t

Before(q, a, b) ==
    \/ TaskLevel(q, a) > TaskLevel(q, b)
    \/ /\ TaskLevel(q, a) = TaskLevel(q, b)
       /\ Position(q, a) <= Position(q, b)

IsPickNext(q, st, n) ==
    IF Pickable(q, st) = {} THEN n = NoTask
    ELSE /\ n \in Pickable(q, st)
         /\ \A o \in Pickable(q, st) : Before(q, n, o)

(***************************************************************************)
(* set_priority: refused outside the levels and for a task that is not     *)
(* queued; sched_rr refuses always (its only level is the task's own, so   *)
(* the queue is unchanged either way).                                     *)
(***************************************************************************)
SetPriority(q, t, p) ==
    IF ~OnQueue(q, t) \/ p \notin Levels \/ TaskLevel(q, t) = p THEN q
    ELSE MoveToTail(q, t, p)
===============================================================================
