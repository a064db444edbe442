-------------------------------- MODULE Sched --------------------------------
(***************************************************************************)
(* The core scheduler driver (core/sched/sched.c) with its wait queues     *)
(* (core/sched/waitq.c), the policy bound below it (RunQueue), the timer   *)
(* tick, and the two ways a task ends (nx_process_exit, sched_reap_task).  *)
(*                                                                         *)
(* One CPU.  A thread step is a step of the running task `curr`.  Kernel   *)
(* threads and EL0 code run with IRQs enabled; a system call runs with     *)
(* IRQs masked from entry to return, and so do the interrupt handlers and  *)
(* every wait-queue critical section.  A critical section is one action.   *)
(* What the CPU must finish before anything else can happen is kept in     *)
(* `phase` (the rest of the timer interrupt, or a reschedule) and in       *)
(* `waking` (the wait queues a wake_all is still emptying).                *)
(*                                                                         *)
(* Producers and consumers of a wait queue are modelled by a condition per *)
(* queue: cond[w] stands for what waiters of w wait for (a message in a    *)
(* channel, a byte in the console ring, an exited child, pending work of   *)
(* the dispatcher).                                                        *)
(***************************************************************************)
EXTENDS RunQueue, FiniteSets

CONSTANTS
    Kthreads,   \* tasks that run kernel code with IRQs enabled
    Waitqs,     \* wait queues
    NoWaitq,    \* NULL
    Waiters,    \* Waiters[w]: the tasks whose code waits on w
    WakeOneQs,  \* queues woken with nx_waitq_wake_one (the others: wake_all)
    IsrQs,      \* queues an interrupt handler feeds (console RX)
    ExitQs,     \* queues an exiting process may satisfy (exit_waitq, pipes)
    Budgets,    \* wait budgets, in ticks; 0 waits without a deadline
    Quantum,    \* quantum_ticks of the policy
    BootQueue,  \* the run queue when sched_start returns
    Killable,   \* user tasks that may be sent SIGKILL or SIGTERM
    Reapers     \* user tasks that collect exited children with sys_wait

ASSUME SchedAssumption ==
    /\ Idle \in Kthreads /\ Kthreads \subseteq Tasks
    /\ NoWaitq \notin Waitqs
    /\ WakeOneQs \subseteq Waitqs /\ IsrQs \subseteq Waitqs /\ ExitQs \subseteq Waitqs
    /\ Waiters \in [Waitqs -> SUBSET (Tasks \ {Idle})]
    /\ Budgets \subseteq Nat
    /\ Quantum \in Nat \ {0}
    /\ BootQueue \in Seq(Kthreads) /\ Idle \in ToSet(BootQueue)
    /\ IsInjective(BootQueue)
    /\ Killable \subseteq Tasks \ Kthreads
    /\ Reapers \subseteq Tasks \ Kthreads

\* reply_waitq and the dispatcher's queue are waited on by one task only.
ASSUME WakeOneAssumption ==
    \A w \in WakeOneQs, s, t \in Tasks : {s, t} \subseteq Waiters[w] => s = t

VARIABLES
    queues,         \* the policy's lists
    remaining,      \* ticks left of the current quantum
    curr,           \* nx_task_current()
    state,          \* nx_task.state
    need_resched,   \* nx_task.need_resched
    waiters,        \* nx_waitq.waiters, head first
    wait_q,         \* nx_task.wait_q
    wait_woken,     \* nx_task.wait_woken
    deadline_list,  \* g_deadline_list, in registration order
    ticks_left,     \* ticks until a listed task's deadline has elapsed
    cond,           \* what the waiters of a queue wait for
    pc,             \* where a task is in its own code
    target,         \* the wait queue the task is waiting on or about to wake
    budget,         \* the budget of the task's current wait
    pending,        \* pending_signals holds SIGKILL or SIGTERM
    exited,         \* the task's process is EXITED
    phase,          \* what the CPU is in the middle of
    waking          \* queues a wake_all in progress is still emptying

rqVars   == <<queues, remaining, curr, need_resched>>
waitVars == <<waiters, wait_q, wait_woken, deadline_list, ticks_left, state>>
callVars == <<pc, target, budget>>
lifeVars == <<pending, exited>>
vars == <<rqVars, waitVars, callVars, lifeVars, cond, phase, waking>>

PCs == {"new",      \* created, not yet enqueued
        "run",      \* EL0 or kernel-thread code
        "check",    \* found its condition false, about to call wait_unless
        "parked",   \* linked on the wait queue, about to call nx_task_yield
        "return",   \* inside that nx_task_yield, then returns from the wait
        "wake",     \* made a condition true, about to wake its queue
        "dead",     \* in nx_process_exit's wfe loop
        "freed"}    \* destroyed by sched_reap_task

(***************************************************************************)
(* Contexts                                                                *)
(***************************************************************************)

\* The running task executes its own code, no critical section or ISR is open.
InThread == phase = "thread" /\ waking = {}

\* Only kernel threads and EL0 code (and the unmasked wfe loop) take IRQs.
IrqsEnabled == InThread /\ (curr \in Kthreads \/ pc[curr] \in {"run", "dead"})

(***************************************************************************)
(* Initial state: sched_start has enqueued idle behind the kernel threads  *)
(* that the bootstrap spawned, and the boot context has become idle.       *)
(***************************************************************************)
Init ==
    /\ queues = [p \in Levels |-> IF p = 0 THEN BootQueue ELSE <<>>]
    /\ remaining = Quantum
    /\ curr = Idle
    /\ state = [t \in Tasks |-> IF t = Idle THEN "RUNNING" ELSE "READY"]
    /\ need_resched = [t \in Tasks |-> FALSE]
    /\ waiters = [w \in Waitqs |-> <<>>]
    /\ wait_q = [t \in Tasks |-> NoWaitq]
    /\ wait_woken = [t \in Tasks |-> FALSE]
    /\ deadline_list = <<>>
    /\ ticks_left = [t \in Tasks |-> 0]
    /\ cond = [w \in Waitqs |-> FALSE]
    /\ pc = [t \in Tasks |-> IF t \in ToSet(BootQueue) THEN "run" ELSE "new"]
    /\ target = [t \in Tasks |-> NoWaitq]
    /\ budget = [t \in Tasks |-> 0]
    /\ pending = [t \in Tasks |-> FALSE]
    /\ exited = [t \in Tasks |-> FALSE]
    /\ phase = "thread"
    /\ waking = {}

(***************************************************************************)
(* Policy enqueue as the kernel calls it: append, and when idle is running *)
(* ask for a reschedule at the next interrupt return.                      *)
(***************************************************************************)
EnqueueTask(t) ==
    /\ queues' = Enqueue(queues, t)
    /\ need_resched' =
         IF curr = Idle /\ t # Idle /\ ~OnQueue(queues, t)
         THEN [need_resched EXCEPT ![Idle] = TRUE]
         ELSE need_resched

\* sched_spawn_kthread / sys_fork: the new task becomes runnable.
Spawn(t) ==
    /\ InThread /\ pc[curr] = "run"
    /\ pc[t] = "new"
    /\ EnqueueTask(t)
    /\ pc' = [pc EXCEPT ![t] = "run"]
    /\ UNCHANGED <<remaining, curr, waitVars, target, budget, lifeVars, cond, phase, waking>>

\* The idle task's loop only waits for interrupts and yields.
SetTaskPriority(t, p) ==
    /\ InThread /\ pc[curr] = "run" /\ curr # Idle
    /\ queues' = SetPriority(queues, t, p)
    /\ UNCHANGED <<remaining, curr, need_resched, waitVars, callVars, lifeVars, cond, phase, waking>>
------------------------------------------------------------------------------
(***************************************************************************)
(* Waiting                                                                 *)
(***************************************************************************)

\* The consumer's own test of its condition, outside any critical section.
CheckCond(w, b) ==
    /\ InThread /\ pc[curr] = "run" /\ curr \in Waiters[w]
    /\ \/ /\ cond[w]
          /\ cond' = [cond EXCEPT ![w] = FALSE]
          /\ UNCHANGED callVars
       \/ /\ ~cond[w]
          /\ pc' = [pc EXCEPT ![curr] = "check"]
          /\ target' = [target EXCEPT ![curr] = w]
          /\ budget' = [budget EXCEPT ![curr] = b]
          /\ UNCHANGED cond
    /\ UNCHANGED <<rqVars, waitVars, lifeVars, phase, waking>>

\* Mutant of Register: the waiter stays on the run queue.
RegisterKeepQueued(t, w, b) ==
    /\ queues' = queues
    /\ waiters' = [waiters EXCEPT ![w] = Append(@, t)]
    /\ wait_q' = [wait_q EXCEPT ![t] = w]
    /\ wait_woken' = [wait_woken EXCEPT ![t] = FALSE]
    /\ deadline_list' = IF b > 0 THEN Append(deadline_list, t) ELSE deadline_list
    /\ ticks_left' = [ticks_left EXCEPT ![t] = b]
    /\ state' = [state EXCEPT ![t] = "BLOCKED"]

\* waitq_register_and_wait_locked, up to the unlock.
Register(t, w, b) ==
    /\ queues' = Dequeue(queues, t)
    /\ waiters' = [waiters EXCEPT ![w] = Append(@, t)]
    /\ wait_q' = [wait_q EXCEPT ![t] = w]
    /\ wait_woken' = [wait_woken EXCEPT ![t] = FALSE]
    /\ deadline_list' = IF b > 0 THEN Append(deadline_list, t) ELSE deadline_list
    /\ ticks_left' = [ticks_left EXCEPT ![t] = b]
    /\ state' = [state EXCEPT ![t] = "BLOCKED"]

\* Mutant of WaitUnless: the condition is not tested inside the critical section.
WaitWithoutRecheck ==
    /\ InThread /\ pc[curr] = "check"
    /\ Register(curr, target[curr], budget[curr])
    /\ pc' = [pc EXCEPT ![curr] = "parked"]
    /\ UNCHANGED <<remaining, curr, need_resched, target, budget, lifeVars, cond, phase, waking>>

\* nx_waitq_wait_unless: the condition is tested again inside the critical
\* section, and the task is linked only if it is still false.
WaitUnless ==
    /\ InThread /\ pc[curr] = "check"
    /\ \/ /\ cond[target[curr]]
          /\ pc' = [pc EXCEPT ![curr] = "run"]
          /\ target' = [target EXCEPT ![curr] = NoWaitq]
          /\ budget' = [budget EXCEPT ![curr] = 0]
          /\ UNCHANGED <<queues, waitVars>>
       \/ /\ ~cond[target[curr]]
          /\ Register(curr, target[curr], budget[curr])
          /\ pc' = [pc EXCEPT ![curr] = "parked"]
          /\ UNCHANGED <<target, budget>>
    /\ UNCHANGED <<remaining, curr, need_resched, lifeVars, cond, phase, waking>>

\* nx_waitq_wait_with_deadline, which links the task without a test.  Its
\* callers are system calls (ppoll, nx_slot_call_blocking), whose own test
\* cannot be separated from it: IRQs are masked in between.
WaitWithDeadline ==
    /\ InThread /\ pc[curr] = "check" /\ curr \notin Kthreads
    /\ Register(curr, target[curr], budget[curr])
    /\ pc' = [pc EXCEPT ![curr] = "parked"]
    /\ UNCHANGED <<remaining, curr, need_resched, target, budget, lifeVars, cond, phase, waking>>

\* Mutant of ParkYield: the reschedule request is forgotten.
ParkWithoutRequest ==
    /\ InThread /\ pc[curr] = "parked"
    /\ pc' = [pc EXCEPT ![curr] = "return"]
    /\ phase' = "resched"
    /\ UNCHANGED <<rqVars, waitVars, target, budget, lifeVars, cond, waking>>

\* The nx_task_yield at the end of a wait.
ParkYield ==
    /\ InThread /\ pc[curr] = "parked"
    /\ need_resched' = [need_resched EXCEPT ![curr] = TRUE]
    /\ pc' = [pc EXCEPT ![curr] = "return"]
    /\ phase' = "resched"
    /\ UNCHANGED <<queues, remaining, curr, waitVars, target, budget, lifeVars, cond, waking>>

\* Back from that yield: NX_OK if wait_woken, NX_EDEADLINE otherwise.
WaitReturn ==
    /\ InThread /\ pc[curr] = "return"
    /\ pc' = [pc EXCEPT ![curr] = "run"]
    /\ target' = [target EXCEPT ![curr] = NoWaitq]
    /\ budget' = [budget EXCEPT ![curr] = 0]
    /\ UNCHANGED <<rqVars, waitVars, lifeVars, cond, phase, waking>>
------------------------------------------------------------------------------
(***************************************************************************)
(* Waking                                                                  *)
(***************************************************************************)

Unlink(t) == waiters' = [waiters EXCEPT ![wait_q[t]] = RemoveFirst(@, t)]

UnlinkDeadline(t) ==
    /\ deadline_list' = RemoveFirst(deadline_list, t)
    /\ ticks_left' = [ticks_left EXCEPT ![t] = 0]

\* Mutant of Release: a woken task stays on the deadline list.
ReleaseKeepDeadline(t) ==
    /\ Unlink(t)
    /\ wait_q' = [wait_q EXCEPT ![t] = NoWaitq]
    /\ wait_woken' = [wait_woken EXCEPT ![t] = TRUE]
    /\ state' = [state EXCEPT ![t] = "READY"]
    /\ EnqueueTask(t)
    /\ UNCHANGED <<deadline_list, ticks_left>>

\* waitq_release_locked.
Release(t) ==
    /\ Unlink(t)
    /\ UnlinkDeadline(t)
    /\ wait_q' = [wait_q EXCEPT ![t] = NoWaitq]
    /\ wait_woken' = [wait_woken EXCEPT ![t] = TRUE]
    /\ state' = [state EXCEPT ![t] = "READY"]
    /\ EnqueueTask(t)

\* A producer makes the condition of w true ...
Produce(w) ==
    /\ InThread /\ pc[curr] = "run" /\ curr # Idle
    /\ cond' = [cond EXCEPT ![w] = TRUE]
    /\ pc' = [pc EXCEPT ![curr] = "wake"]
    /\ target' = [target EXCEPT ![curr] = w]
    /\ UNCHANGED <<rqVars, waitVars, budget, lifeVars, phase, waking>>

\* ... and then wakes w.
WakeDone ==
    /\ pc' = [pc EXCEPT ![curr] = "run"]
    /\ target' = [target EXCEPT ![curr] = NoWaitq]

WakeOne ==
    /\ InThread /\ pc[curr] = "wake" /\ target[curr] \in WakeOneQs
    /\ LET w == target[curr] IN
       IF waiters[w] = <<>> THEN UNCHANGED <<queues, need_resched, waitVars>>
       ELSE Release(Head(waiters[w]))
    /\ WakeDone
    /\ UNCHANGED <<remaining, curr, budget, lifeVars, cond, phase, waking>>

WakeAll ==
    /\ InThread /\ pc[curr] = "wake" /\ target[curr] \notin WakeOneQs
    /\ waking' = {target[curr]}
    /\ WakeDone
    /\ UNCHANGED <<rqVars, waitVars, budget, lifeVars, cond, phase>>

\* One turn of nx_waitq_wake_all's loop.
WakeAllStep(w) ==
    /\ w \in waking
    /\ IF waiters[w] = <<>>
       THEN /\ waking' = waking \ {w}
            /\ UNCHANGED <<queues, need_resched, waitVars>>
       ELSE /\ Release(Head(waiters[w]))
            /\ UNCHANGED waking
    /\ UNCHANGED <<remaining, curr, callVars, lifeVars, cond, phase>>
------------------------------------------------------------------------------
(***************************************************************************)
(* Interrupts.  An interrupt ends in sched_check_resched.                  *)
(***************************************************************************)

\* A device interrupt whose handler makes the condition of w true and wakes
\* every waiter (nx_console_rx_isr).
DeviceIrq(w) ==
    /\ IrqsEnabled
    /\ cond' = [cond EXCEPT ![w] = TRUE]
    /\ waking' = {w}
    /\ phase' = "resched"
    /\ UNCHANGED <<rqVars, waitVars, callVars, lifeVars>>

\* Mutant of Tick: the quantum is not reloaded when it runs out.
TickNoReload ==
    /\ IrqsEnabled
    /\ remaining' = IF remaining = 0 THEN 0 ELSE remaining - 1
    /\ need_resched' = IF remaining <= 1 THEN [need_resched EXCEPT ![curr] = TRUE]
                       ELSE need_resched
    /\ ticks_left' = [t \in Tasks |-> IF ticks_left[t] > 0 THEN ticks_left[t] - 1 ELSE 0]
    /\ phase' = "expire"
    /\ UNCHANGED <<queues, curr, waiters, wait_q, wait_woken, deadline_list, state,
                   callVars, lifeVars, cond, waking>>

\* Mutant of Tick: sched_tick does not look at the deadline list.
TickNoDeadlines ==
    /\ IrqsEnabled
    /\ remaining' = IF remaining <= 1 THEN Quantum ELSE remaining - 1
    /\ need_resched' = IF remaining <= 1 THEN [need_resched EXCEPT ![curr] = TRUE]
                       ELSE need_resched
    /\ phase' = "resched"
    /\ UNCHANGED <<queues, curr, waitVars, callVars, lifeVars, cond, waking>>

\* The policy's tick, and the passing of time for the deadline list.
Tick ==
    /\ IrqsEnabled
    /\ remaining' = IF remaining <= 1 THEN Quantum ELSE remaining - 1
    /\ need_resched' = IF remaining <= 1 THEN [need_resched EXCEPT ![curr] = TRUE]
                       ELSE need_resched
    /\ ticks_left' = [t \in Tasks |-> IF ticks_left[t] > 0 THEN ticks_left[t] - 1 ELSE 0]
    /\ phase' = "expire"
    /\ UNCHANGED <<queues, curr, waiters, wait_q, wait_woken, deadline_list, state,
                   callVars, lifeVars, cond, waking>>

Elapsed == {t \in ToSet(deadline_list) : ticks_left[t] = 0}

\* Mutant of Expire: the timed-out task is not enqueued again.
ExpireNoEnqueue(t) ==
    /\ phase = "expire"
    /\ t \in Elapsed
    /\ Unlink(t)
    /\ UnlinkDeadline(t)
    /\ wait_q' = [wait_q EXCEPT ![t] = NoWaitq]
    /\ state' = [state EXCEPT ![t] = "READY"]
    /\ UNCHANGED <<rqVars, wait_woken, callVars, lifeVars, cond, phase, waking>>

\* One turn of nx_waitq_tick_deadlines' loop: the first listed task whose
\* deadline has elapsed is unlinked and becomes runnable, wait_woken unset.
Expire(t) ==
    /\ phase = "expire"
    /\ t \in Elapsed
    /\ \A i, j \in DOMAIN deadline_list :
          deadline_list[i] = t /\ deadline_list[j] \in Elapsed => i <= j
    /\ Unlink(t)
    /\ UnlinkDeadline(t)
    /\ wait_q' = [wait_q EXCEPT ![t] = NoWaitq]
    /\ state' = [state EXCEPT ![t] = "READY"]
    /\ EnqueueTask(t)
    /\ UNCHANGED <<remaining, curr, wait_woken, callVars, lifeVars, cond, phase, waking>>

ExpireDone ==
    /\ phase = "expire"
    /\ Elapsed = {}
    /\ phase' = "resched"
    /\ UNCHANGED <<rqVars, waitVars, callVars, lifeVars, cond, waking>>
------------------------------------------------------------------------------
(***************************************************************************)
(* Rescheduling and the end of a task                                      *)
(***************************************************************************)

\* nx_process_exit: the process is EXITED, its handles are closed and its
\* parent's waiters woken (W), the task leaves the run queue and parks in the
\* wfe loop, still the running task.
ExitProcess(t, W) ==
    /\ exited' = [exited EXCEPT ![t] = TRUE]
    /\ cond' = [w \in Waitqs |-> cond[w] \/ w \in W]
    /\ waking' = W
    /\ queues' = Dequeue(queues, t)
    /\ pc' = [pc EXCEPT ![t] = "dead"]
    /\ target' = [target EXCEPT ![t] = NoWaitq]
    /\ budget' = [budget EXCEPT ![t] = 0]
    /\ UNCHANGED <<remaining, curr, need_resched, waitVars, pending>>

\* sys_exit, or a fault at EL0.
Exit(W) ==
    /\ InThread /\ curr \notin Kthreads /\ pc[curr] = "run"
    /\ ExitProcess(curr, W)
    /\ UNCHANGED phase

\* sys_signal or a console interrupt character marks t for termination.
PostSignal(t) ==
    /\ InThread /\ pc[curr] = "run" /\ curr \notin Kthreads
    /\ ~exited[t] /\ ~pending[t] /\ pc[t] # "new"
    /\ pending' = [pending EXCEPT ![t] = TRUE]
    /\ UNCHANGED <<rqVars, waitVars, callVars, exited, cond, phase, waking>>

\* nx_task_yield outside a wait (the idle loop, slot_drain_cb, sched_yield).
Yield ==
    /\ InThread /\ pc[curr] = "run"
    /\ need_resched' = [need_resched EXCEPT ![curr] = TRUE]
    /\ phase' = "resched"
    /\ UNCHANGED <<queues, remaining, curr, waitVars, callVars, lifeVars, cond, waking>>

\* sched_check_resched: a pending signal ends the running task before the
\* need_resched test.
Deliver(W) ==
    /\ phase = "resched" /\ waking = {}
    /\ pending[curr] /\ ~exited[curr]
    /\ ExitProcess(curr, W)
    /\ phase' = "thread"

\* sched_check_resched: rotate, pick, switch.
Reschedule ==
    /\ need_resched' = [need_resched EXCEPT ![curr] = FALSE]
    /\ IsYield(queues, curr, queues')
    /\ remaining' = IF \A p \in Levels : queues[p] = <<>> THEN remaining ELSE Quantum
    /\ \E n \in Tasks \cup {NoTask} :
          /\ IsPickNext(queues', state, n)
          /\ curr' = IF n = NoTask THEN curr ELSE n

CheckResched ==
    /\ phase = "resched" /\ waking = {}
    /\ ~(pending[curr] /\ ~exited[curr])
    /\ IF need_resched[curr] THEN Reschedule ELSE UNCHANGED rqVars
    /\ phase' = "thread"
    /\ UNCHANGED <<waitVars, callVars, lifeVars, cond, waking>>

\* sys_wait collects an exited child: sched_reap_task destroys its task.
Reap(t) ==
    /\ InThread /\ pc[curr] = "run" /\ curr \in Reapers
    /\ pc[t] = "dead" /\ t # curr
    /\ pc' = [pc EXCEPT ![t] = "freed"]
    /\ UNCHANGED <<rqVars, waitVars, target, budget, lifeVars, cond, phase, waking>>

ThreadStep ==
    \/ \E t \in Tasks : Spawn(t)
    \/ \E t \in Tasks, p \in Levels : SetTaskPriority(t, p)
    \/ \E w \in Waitqs, b \in Budgets : CheckCond(w, b)
    \/ WaitUnless \/ WaitWithDeadline \/ ParkYield \/ WaitReturn
    \/ \E w \in Waitqs : Produce(w)
    \/ WakeOne \/ WakeAll
    \/ \E W \in SUBSET ExitQs : Exit(W)
    \/ \E t \in Killable : PostSignal(t)
    \/ Yield
    \/ \E t \in Tasks : Reap(t)

KernelStep ==
    \/ \E w \in Waitqs : WakeAllStep(w)
    \/ \E t \in Tasks : Expire(t)
    \/ ExpireDone
    \/ \E W \in SUBSET ExitQs : Deliver(W)
    \/ CheckResched

Irq == Tick \/ \E w \in IsrQs : DeviceIrq(w)

Next == ThreadStep \/ KernelStep \/ Irq

Spec == Init /\ [][Next]_vars
------------------------------------------------------------------------------
(***************************************************************************)
(* Properties                                                              *)
(***************************************************************************)

TypeOK ==
    /\ queues \in [Levels -> Seq(Tasks)]
    /\ remaining \in 1 .. Quantum
    /\ curr \in Tasks
    /\ state \in [Tasks -> {"READY", "RUNNING", "BLOCKED"}]
    /\ need_resched \in [Tasks -> BOOLEAN]
    /\ waiters \in [Waitqs -> Seq(Tasks)]
    /\ wait_q \in [Tasks -> Waitqs \cup {NoWaitq}]
    /\ wait_woken \in [Tasks -> BOOLEAN]
    /\ deadline_list \in Seq(Tasks)
    /\ ticks_left \in [Tasks -> Nat]
    /\ cond \in [Waitqs -> BOOLEAN]
    /\ pc \in [Tasks -> PCs]
    /\ target \in [Tasks -> Waitqs \cup {NoWaitq}]
    /\ budget \in [Tasks -> Nat]
    /\ pending \in [Tasks -> BOOLEAN]
    /\ exited \in [Tasks -> BOOLEAN]
    /\ phase \in {"thread", "expire", "resched"}
    /\ waking \in SUBSET Waitqs

(***************************************************************************)
(* sched_node is one list node: a task is linked at most once, over all    *)
(* levels of the run queue and all wait queues together.  waitq.h states   *)
(* it as "when a task is on a waitq it is NOT on the scheduler runqueue".  *)
(***************************************************************************)
LinkedOnce ==
    /\ WellFormed(queues)
    /\ \A w \in Waitqs : IsInjective(waiters[w])
    /\ \A w \in Waitqs : \A t \in ToSet(waiters[w]) : wait_q[t] = w /\ ~OnQueue(queues, t)

(***************************************************************************)
(* The task fields and the lists agree: a task is BLOCKED exactly while it *)
(* is linked on the wait queue wait_q names, and only such a task is on    *)
(* the global deadline list, once.                                         *)
(***************************************************************************)
BlockedIffWaiting ==
    /\ \A t \in Tasks : state[t] = "BLOCKED" <=> wait_q[t] # NoWaitq
    /\ \A t \in Tasks : wait_q[t] # NoWaitq => t \in ToSet(waiters[wait_q[t]])
    /\ IsInjective(deadline_list)
    /\ \A t \in ToSet(deadline_list) : wait_q[t] # NoWaitq

(***************************************************************************)
(* No task is dropped: every task that was started, has not ended and is   *)
(* not waiting is on the run queue, whatever order blocking, waking,       *)
(* expiring and rotating happened in.                                      *)
(***************************************************************************)
NoTaskDropped ==
    \A t \in Tasks :
        pc[t] \notin {"new", "dead", "freed"} /\ wait_q[t] = NoWaitq => OnQueue(queues, t)

(***************************************************************************)
(* The contract of nx_waitq_wait_*: when the yield inside a wait returns,  *)
(* the task is no longer linked, and NX_EDEADLINE (wait_woken unset) is    *)
(* possible only for a wait that was given a budget.                       *)
(***************************************************************************)
WaitContract ==
    InThread /\ pc[curr] = "return" =>
        /\ wait_q[curr] = NoWaitq
        /\ ~wait_woken[curr] => budget[curr] > 0

(***************************************************************************)
(* The lost-wakeup-safe pattern of waitq.h: a task sleeps on a queue whose *)
(* condition is true only while a producer is between making it true and   *)
(* waking the queue.                                                       *)
(***************************************************************************)
NoLostWakeup ==
    \A w \in Waitqs :
        cond[w] /\ waiters[w] # <<>> =>
            \/ w \in waking
            \/ \E p \in Tasks : pc[p] = "wake" /\ target[p] = w
------------------------------------------------------------------------------
(***************************************************************************)
(* What the safety properties rest on.                                     *)
(***************************************************************************)

\* Where a task can be in its code, by what it is linked on.
PcAgrees ==
    /\ pc[Idle] = "run"
    /\ \A t \in Tasks :
        /\ wait_q[t] # NoWaitq => /\ pc[t] \in {"parked", "return", "dead", "freed"}
                                  /\ t \in Waiters[wait_q[t]]
        /\ pc[t] \in {"check", "parked", "return"} =>
              target[t] \in Waitqs /\ t \in Waiters[target[t]]
        /\ pc[t] = "wake" => target[t] \in Waitqs
        /\ exited[t] <=> pc[t] \in {"dead", "freed"}
        /\ pending[t] => t \notin Kthreads

\* A wait in progress can only end unwoken if it has a budget.
BudgetAgrees ==
    \A t \in Tasks :
        pc[t] \in {"parked", "return"} =>
            /\ t \in ToSet(deadline_list) => budget[t] > 0
            /\ wait_q[t] = NoWaitq /\ ~wait_woken[t] => budget[t] > 0

\* The running task is linked on a wait queue while inside the wait's yield
\* only until the reschedule it asked for.
LeavesWhenBlocked ==
    pc[curr] = "return" /\ wait_q[curr] # NoWaitq => phase = "resched" /\ need_resched[curr]

\* A system call is not interrupted: its steps belong to the running task, and
\* what it found of its condition still holds.
SyscallMasked ==
    \A t \in Tasks \ Kthreads :
        /\ pc[t] \in {"check", "parked", "wake"} => curr = t /\ InThread
        /\ pc[t] = "check" => ~cond[target[t]]

SchedInv ==
    /\ TypeOK /\ LinkedOnce /\ BlockedIffWaiting /\ NoTaskDropped
    /\ PcAgrees /\ BudgetAgrees /\ LeavesWhenBlocked /\ SyscallMasked
    /\ NoLostWakeup
------------------------------------------------------------------------------
(***************************************************************************)
(* Fairness.  The CPU always executes: what the kernel is in the middle of *)
(* proceeds.  A pending timer interrupt stays pending at the GIC while     *)
(* IRQs are masked, so it is taken if IRQs are enabled again and again     *)
(* (strong fairness).  A task on its way through a wait or a wake gets     *)
(* through it if it runs again and again: a tick is 100 ms, the path a few *)
(* hundred instructions.  Nothing is assumed of what tasks do otherwise.   *)
(***************************************************************************)
InWaitPath == WaitUnless \/ WaitWithDeadline \/ ParkYield \/ WaitReturn \/ WakeOne \/ WakeAll

Fairness ==
    /\ WF_vars(KernelStep)
    /\ SF_vars(Tick)
    /\ \A t \in Tasks : SF_vars(curr = t /\ InWaitPath)

FairSpec == Spec /\ Fairness

(***************************************************************************)
(* A wait with a budget ends: a task on the deadline list leaves it.       *)
(***************************************************************************)
DeadlineEnds ==
    \A t \in Tasks : t \in ToSet(deadline_list) ~> t \notin ToSet(deadline_list)

\* Nobody is parked.
Unparked == \A w \in Waitqs : waiters[w] = <<>>

\* Once the tasks stop blocking they share the CPU: each one that is queued
\* runs again, whatever order the blocks and wakes before left the queue in
\* (README of sched_priority, "share the CPU in FIFO order"; task_tick and
\* yield).  While tasks keep blocking this is not so: every block rotates the
\* task behind the one that blocks to the tail.
QueuedRuns ==
    <>[]Unparked => \A t \in Tasks : OnQueue(queues, t) ~> (curr = t \/ ~OnQueue(queues, t))
===============================================================================
