----------------------------- MODULE SchedProofs -----------------------------
(***************************************************************************)
(* The safety properties of Sched, proved for every set of tasks and wait  *)
(* queues, every budget, quantum, policy and number of levels.             *)
(*                                                                         *)
(* SchedInv is inductive.  SchedWaitProofs has the lists and the actions   *)
(* of a wait; this module has waking, interrupts, rescheduling and the end *)
(* of a task, and the theorems.                                            *)
(***************************************************************************)
EXTENDS SchedWaitProofs

USE DEF rqVars, waitVars, callVars, lifeVars

\* A producer that has made a condition true and is about to wake its queue keeps
\* the invariant.
LEMMA ProduceInv ==
    ASSUME SchedInv, NEW w \in Waitqs, Produce(w)
    PROVE  SchedInv'
<1>0. curr \in Tasks /\ curr # Idle /\ pc[curr] = "run" /\ InThread /\ Idle \in Tasks
  BY TaskAssumption DEF SchedInv, TypeOK, Produce
<1>1. TypeOK' BY <1>0 DEF SchedInv, TypeOK, PCs, Produce
<1>2. \A x \in Tasks : /\ pc'[x] = IF x = curr THEN "wake" ELSE pc[x]
                       /\ target'[x] = IF x = curr THEN w ELSE target[x]
  BY <1>0 DEF SchedInv, TypeOK, Produce
<1>3. \A v \in Waitqs : cond'[v] = (v = w \/ cond[v])
  BY DEF SchedInv, TypeOK, Produce
<1>4. (LinkedOnce /\ BlockedIffWaiting)' BY DEF SchedInv, LinkedOnce, BlockedIffWaiting, Produce
<1>5. NoTaskDropped' BY <1>0, <1>2 DEF SchedInv, NoTaskDropped, Produce
<1>6. PcAgrees' BY <1>0, <1>2 DEF SchedInv, PcAgrees, Produce
<1>7. BudgetAgrees' BY <1>0, <1>2 DEF SchedInv, BudgetAgrees, Produce
<1>8. LeavesWhenBlocked' BY <1>0, <1>2 DEF SchedInv, LeavesWhenBlocked, Produce
<1>9. SyscallMasked'
  <2>1. ASSUME NEW x \in Tasks \ Kthreads, x # curr
        PROVE  pc'[x] \notin {"check", "parked", "wake"}
    BY <1>0, <1>2, <2>1 DEF SchedInv, SyscallMasked
  <2>2. pc'[curr] # "check" /\ curr' = curr /\ InThread'
    BY <1>0, <1>2 DEF Produce, InThread
  <2> QED BY <2>1, <2>2 DEF SyscallMasked
<1>10. NoLostWakeup'
  <2>1. pc'[curr] = "wake" /\ target'[curr] = w BY <1>0, <1>2
  <2>2. \A x \in Tasks : pc[x] = "wake" => pc'[x] = "wake" /\ target'[x] = target[x]
    BY <1>0, <1>2
  <2> QED BY <1>0, <1>3, <2>1, <2>2 DEF SchedInv, NoLostWakeup, Produce
<1> QED BY <1>1, <1>4, <1>5, <1>6, <1>7, <1>8, <1>9, <1>10 DEF SchedInv

\* A waiter leaves its wait queue for the run queue, woken or timed out.
LEMMA ReleaseInv ==
    ASSUME SchedInv, NEW t \in Tasks, wait_q[t] # NoWaitq,
           Unlink(t), UnlinkDeadline(t), EnqueueTask(t),
           wait_q' = [wait_q EXCEPT ![t] = NoWaitq],
           state' = [state EXCEPT ![t] = "READY"],
           \/ wait_woken' = [wait_woken EXCEPT ![t] = TRUE]
           \/ wait_woken' = wait_woken /\ t \in ToSet(deadline_list),
           \/ UNCHANGED callVars
           \/ InThread /\ pc[curr] = "wake" /\ WakeDone /\ budget' = budget,
           UNCHANGED <<remaining, curr, lifeVars, cond, phase, waking>>
    PROVE  /\ TypeOK' /\ LinkedOnce' /\ BlockedIffWaiting' /\ NoTaskDropped'
           /\ PcAgrees' /\ BudgetAgrees' /\ LeavesWhenBlocked' /\ SyscallMasked'
           /\ \A v \in Waitqs : ToSet(waiters'[v]) = ToSet(waiters[v]) \ {t}
           /\ \A x \in Tasks : x # curr => pc'[x] = pc[x] /\ target'[x] = target[x]
<1>0. curr \in Tasks /\ Idle \in Tasks BY TaskAssumption DEF SchedInv, TypeOK
<1>1. ListInv BY DEF SchedInv, ListInv
<1>2. /\ LinkedOnce' /\ BlockedIffWaiting'
      /\ queues' \in [Levels -> Seq(Tasks)]
      /\ waiters' \in [Waitqs -> Seq(Tasks)]
      /\ deadline_list' \in Seq(Tasks)
      /\ \A x : OnQueue(queues', x) <=> OnQueue(queues, x) \/ x = t
      /\ ToSet(deadline_list') = ToSet(deadline_list) \ {t}
      /\ \A v \in Waitqs : ToSet(waiters'[v]) = ToSet(waiters[v]) \ {t}
  BY <1>1, UnlinkLists
<1>3. /\ pc' \in [Tasks -> PCs] /\ target' \in [Tasks -> Waitqs \cup {NoWaitq}]
      /\ budget' = budget
      /\ \A x \in Tasks : \/ pc'[x] = pc[x] /\ target'[x] = target[x]
                          \/ x = curr /\ pc[x] = "wake" /\ pc'[x] = "run"
  <2>1. CASE UNCHANGED callVars BY <2>1 DEF SchedInv, TypeOK
  <2>2. CASE pc[curr] = "wake" /\ WakeDone /\ budget' = budget
    BY <1>0, <2>2 DEF SchedInv, TypeOK, WakeDone, PCs
  <2> QED BY <2>1, <2>2
<1>4. \A x \in Tasks : /\ wait_q'[x] = IF x = t THEN NoWaitq ELSE wait_q[x]
                       /\ x # t => wait_woken'[x] = wait_woken[x]
                       /\ need_resched[x] => need_resched'[x]
  BY <1>0 DEF SchedInv, TypeOK, EnqueueTask
<1>5. TypeOK'
  <2>1. /\ wait_q' \in [Tasks -> Waitqs \cup {NoWaitq}]
        /\ wait_woken' \in [Tasks -> BOOLEAN]
        /\ ticks_left' \in [Tasks -> Nat]
        /\ state' \in [Tasks -> {"READY", "RUNNING", "BLOCKED"}]
        /\ need_resched' \in [Tasks -> BOOLEAN]
    BY DEF SchedInv, TypeOK, UnlinkDeadline, EnqueueTask
  <2> QED BY <1>2, <1>3, <2>1 DEF SchedInv, TypeOK
<1>6. NoTaskDropped' BY <1>2, <1>3, <1>4 DEF SchedInv, NoTaskDropped
<1>7. PcAgrees' BY <1>0, <1>3, <1>4 DEF SchedInv, PcAgrees
<1>8. BudgetAgrees'
  <2> SUFFICES ASSUME NEW x \in Tasks, pc'[x] \in {"parked", "return"}
               PROVE  /\ x \in ToSet(deadline_list') => budget'[x] > 0
                      /\ wait_q'[x] = NoWaitq /\ ~wait_woken'[x] => budget'[x] > 0
    BY DEF BudgetAgrees
  <2>1. pc[x] \in {"parked", "return"} BY <1>3
  <2>2. CASE x # t BY <1>2, <1>3, <1>4, <2>1, <2>2 DEF SchedInv, BudgetAgrees
  <2>3. CASE x = t
    <3>1. x \notin ToSet(deadline_list') BY <1>2, <2>3
    <3>2. wait_woken'[x] \/ x \in ToSet(deadline_list)
      BY <2>3 DEF SchedInv, TypeOK
    <3> QED BY <1>3, <2>1, <3>1, <3>2 DEF SchedInv, BudgetAgrees
  <2> QED BY <2>2, <2>3
<1>9. LeavesWhenBlocked' BY <1>0, <1>3, <1>4 DEF SchedInv, LeavesWhenBlocked
<1>10. SyscallMasked'
  <2>1. InThread' = InThread BY DEF InThread
  <2> QED BY <1>3, <2>1 DEF SchedInv, SyscallMasked
<1> QED BY <1>2, <1>3, <1>5, <1>6, <1>7, <1>8, <1>9, <1>10

\* nx_waitq_wake_one keeps the invariant.
LEMMA WakeOneInv ==
    ASSUME SchedInv, WakeOne
    PROVE  SchedInv'
<1> DEFINE w == target[curr]
<1>0. /\ curr \in Tasks /\ Idle \in Tasks /\ curr # Idle /\ pc[curr] = "wake"
      /\ InThread /\ w \in Waitqs /\ w \in WakeOneQs /\ WakeDone
      /\ UNCHANGED <<remaining, curr, budget, lifeVars, cond, phase, waking>>
  BY TaskAssumption DEF SchedInv, TypeOK, PcAgrees, WakeOne
<1>1. CASE waiters[w] = <<>>
  <2>0. UNCHANGED <<queues, need_resched, waitVars>> BY <1>1 DEF WakeOne
  <2>1. \A x \in Tasks : /\ pc'[x] = IF x = curr THEN "run" ELSE pc[x]
                         /\ target'[x] = IF x = curr THEN NoWaitq ELSE target[x]
    BY <1>0 DEF SchedInv, TypeOK, WakeDone
  <2>2. TypeOK' BY <1>0, <2>0 DEF SchedInv, TypeOK, PCs, WakeDone
  <2>3. (LinkedOnce /\ BlockedIffWaiting)' BY <2>0 DEF SchedInv, LinkedOnce, BlockedIffWaiting
  <2>4. NoTaskDropped' BY <1>0, <2>0, <2>1 DEF SchedInv, NoTaskDropped
  <2>5. PcAgrees' BY <1>0, <2>0, <2>1 DEF SchedInv, PcAgrees
  <2>6. BudgetAgrees' BY <1>0, <2>0, <2>1 DEF SchedInv, BudgetAgrees
  <2>7. LeavesWhenBlocked' BY <1>0, <2>0, <2>1 DEF SchedInv, LeavesWhenBlocked
  <2>8. SyscallMasked' BY <1>0, <2>0, <2>1 DEF SchedInv, SyscallMasked, InThread
  <2>9. NoLostWakeup' BY <1>0, <1>1, <2>0, <2>1 DEF SchedInv, NoLostWakeup
  <2> QED BY <2>2, <2>3, <2>4, <2>5, <2>6, <2>7, <2>8, <2>9 DEF SchedInv
<1>2. CASE waiters[w] # <<>>
  <2> DEFINE t == Head(waiters[w])
  <2>0. Release(t) BY <1>2 DEF WakeOne
  <2>1. ListInv BY DEF SchedInv, ListInv
  <2>2. t \in Tasks /\ t \in ToSet(waiters[w]) /\ wait_q[t] = w /\ wait_q[t] # NoWaitq
    BY <1>0, <1>2, <2>1, HeadWaits, SchedAssumption
  <2> HIDE DEF t
  <2>3. /\ TypeOK' /\ LinkedOnce' /\ BlockedIffWaiting' /\ NoTaskDropped'
        /\ PcAgrees' /\ BudgetAgrees' /\ LeavesWhenBlocked' /\ SyscallMasked'
        /\ \A v \in Waitqs : ToSet(waiters'[v]) = ToSet(waiters[v]) \ {t}
        /\ \A x \in Tasks : x # curr => pc'[x] = pc[x] /\ target'[x] = target[x]
    BY <1>0, <2>0, <2>2, ReleaseInv DEF Release
  <2>4. ToSet(waiters'[w]) = {}
    <3>1. ASSUME NEW x \in ToSet(waiters[w]) PROVE x = t
      <4>0. waiters[w] \in Seq(Tasks) BY <1>0 DEF SchedInv, TypeOK
      <4>1. x \in Tasks /\ wait_q[x] = w
        <5>1. x \in Tasks BY <3>1, <4>0 DEF ToSet
        <5> QED BY <1>0, <3>1, <5>1 DEF SchedInv, LinkedOnce
      <4>2. x \in Waiters[w] /\ t \in Waiters[w]
        BY <1>0, <2>2, <4>1, SchedAssumption DEF SchedInv, PcAgrees
      <4> QED BY <1>0, <2>2, <4>1, <4>2, WakeOneAssumption
    <3> QED BY <1>0, <2>3, <3>1
  <2>5. \A v \in Waitqs : waiters[v] \in Seq(Tasks) /\ waiters'[v] \in Seq(Tasks)
    BY <2>3 DEF SchedInv, TypeOK
  <2>6. waiters'[w] = <<>> BY <1>0, <2>4, <2>5, EmptyWaiters
  <2>7. \A v \in Waitqs : waiters'[v] # <<>> => waiters[v] # <<>>
    BY <2>3, <2>5, EmptyWaiters
  <2>8. NoLostWakeup'
    <3> SUFFICES ASSUME NEW v \in Waitqs, cond'[v], waiters'[v] # <<>>
                 PROVE  \/ v \in waking'
                        \/ \E p \in Tasks : pc'[p] = "wake" /\ target'[p] = v
      BY DEF NoLostWakeup
    <3>1. cond[v] /\ waiters[v] # <<>> /\ v # w BY <1>0, <2>6, <2>7
    <3>2. CASE v \in waking BY <1>0, <3>2
    <3>3. ASSUME NEW p \in Tasks, pc[p] = "wake", target[p] = v
          PROVE  pc'[p] = "wake" /\ target'[p] = v
      BY <2>3, <3>1, <3>3
    <3> QED BY <3>1, <3>2, <3>3 DEF SchedInv, NoLostWakeup
  <2> QED BY <2>3, <2>8 DEF SchedInv
<1> QED BY <1>1, <1>2

\* The start of nx_waitq_wake_all keeps the invariant.
LEMMA WakeAllInv ==
    ASSUME SchedInv, WakeAll
    PROVE  SchedInv'
<1>0. /\ curr \in Tasks /\ Idle \in Tasks /\ curr # Idle /\ pc[curr] = "wake"
      /\ InThread /\ waking = {} /\ target[curr] \in Waitqs
  BY TaskAssumption DEF SchedInv, TypeOK, PcAgrees, WakeAll, InThread
<1>1. \A x \in Tasks : /\ pc'[x] = IF x = curr THEN "run" ELSE pc[x]
                       /\ target'[x] = IF x = curr THEN NoWaitq ELSE target[x]
  BY <1>0 DEF SchedInv, TypeOK, WakeAll, WakeDone
<1>2. TypeOK' BY <1>0 DEF SchedInv, TypeOK, PCs, WakeAll, WakeDone
<1>3. (LinkedOnce /\ BlockedIffWaiting)' BY DEF SchedInv, LinkedOnce, BlockedIffWaiting, WakeAll
<1>4. NoTaskDropped' BY <1>0, <1>1 DEF SchedInv, NoTaskDropped, WakeAll
<1>5. PcAgrees' BY <1>0, <1>1 DEF SchedInv, PcAgrees, WakeAll
<1>6. BudgetAgrees' BY <1>0, <1>1 DEF SchedInv, BudgetAgrees, WakeAll
<1>7. LeavesWhenBlocked' BY <1>0, <1>1 DEF SchedInv, LeavesWhenBlocked, WakeAll
<1>8. SyscallMasked'
  <2>1. \A x \in Tasks \ Kthreads : pc'[x] \notin {"check", "parked", "wake"}
    BY <1>0, <1>1 DEF SchedInv, SyscallMasked
  <2> QED BY <2>1 DEF SyscallMasked
<1>9. NoLostWakeup' BY <1>0, <1>1 DEF SchedInv, NoLostWakeup, WakeAll
<1> QED BY <1>2, <1>3, <1>4, <1>5, <1>6, <1>7, <1>8, <1>9 DEF SchedInv

\* Each waiter that nx_waitq_wake_all releases keeps the invariant.
LEMMA WakeAllStepInv ==
    ASSUME SchedInv, NEW w \in Waitqs, WakeAllStep(w)
    PROVE  SchedInv'
<1>0. /\ Idle \in Tasks /\ w \in waking
      /\ UNCHANGED <<remaining, curr, callVars, lifeVars, cond, phase>>
  BY TaskAssumption DEF WakeAllStep
<1>1. \A x \in Tasks \ Kthreads : pc[x] \notin {"check", "parked", "wake"}
  BY <1>0 DEF SchedInv, SyscallMasked, InThread
<1>2. CASE waiters[w] = <<>>
  <2>0. waking' = waking \ {w} /\ UNCHANGED <<queues, need_resched, waitVars>>
    BY <1>2 DEF WakeAllStep
  <2>1. TypeOK' BY <1>0, <2>0 DEF SchedInv, TypeOK
  <2>2. (LinkedOnce /\ BlockedIffWaiting /\ NoTaskDropped)'
    BY <1>0, <2>0 DEF SchedInv, LinkedOnce, BlockedIffWaiting, NoTaskDropped
  <2>3. (PcAgrees /\ BudgetAgrees /\ LeavesWhenBlocked)'
    BY <1>0, <2>0 DEF SchedInv, PcAgrees, BudgetAgrees, LeavesWhenBlocked
  <2>4. SyscallMasked' BY <1>0, <1>1, <2>0 DEF SyscallMasked
  <2>5. NoLostWakeup' BY <1>0, <1>2, <2>0 DEF SchedInv, NoLostWakeup
  <2> QED BY <2>1, <2>2, <2>3, <2>4, <2>5 DEF SchedInv
<1>3. CASE waiters[w] # <<>>
  <2> DEFINE t == Head(waiters[w])
  <2>0. Release(t) /\ waking' = waking BY <1>3 DEF WakeAllStep
  <2>1. ListInv BY DEF SchedInv, ListInv
  <2>2. t \in Tasks /\ wait_q[t] # NoWaitq
    BY <1>3, <2>1, HeadWaits, SchedAssumption
  <2> HIDE DEF t
  <2>3. /\ TypeOK' /\ LinkedOnce' /\ BlockedIffWaiting' /\ NoTaskDropped'
        /\ PcAgrees' /\ BudgetAgrees' /\ LeavesWhenBlocked' /\ SyscallMasked'
        /\ \A v \in Waitqs : ToSet(waiters'[v]) = ToSet(waiters[v]) \ {t}
    BY <1>0, <2>0, <2>2, ReleaseInv DEF Release
  <2>4. \A v \in Waitqs : waiters[v] \in Seq(Tasks) /\ waiters'[v] \in Seq(Tasks)
    BY <2>3 DEF SchedInv, TypeOK
  <2>5. \A v \in Waitqs : waiters'[v] # <<>> => waiters[v] # <<>>
    BY <2>3, <2>4, EmptyWaiters
  <2>6. NoLostWakeup' BY <1>0, <2>0, <2>5 DEF SchedInv, NoLostWakeup
  <2> QED BY <2>3, <2>6 DEF SchedInv
<1> QED BY <1>2, <1>3

\* An expired deadline that nx_waitq_tick_deadlines finds keeps the invariant.
LEMMA ExpireInv ==
    ASSUME SchedInv, NEW t \in Tasks, Expire(t)
    PROVE  SchedInv'
<1>1. t \in ToSet(deadline_list) /\ wait_q[t] # NoWaitq
  BY DEF Expire, Elapsed, SchedInv, BlockedIffWaiting
<1>2. /\ Unlink(t) /\ UnlinkDeadline(t) /\ EnqueueTask(t)
      /\ wait_q' = [wait_q EXCEPT ![t] = NoWaitq]
      /\ state' = [state EXCEPT ![t] = "READY"]
      /\ wait_woken' = wait_woken
      /\ UNCHANGED callVars
      /\ UNCHANGED <<remaining, curr, lifeVars, cond, phase, waking>>
  BY DEF Expire
<1>3. /\ TypeOK' /\ LinkedOnce' /\ BlockedIffWaiting' /\ NoTaskDropped'
      /\ PcAgrees' /\ BudgetAgrees' /\ LeavesWhenBlocked' /\ SyscallMasked'
      /\ \A v \in Waitqs : ToSet(waiters'[v]) = ToSet(waiters[v]) \ {t}
  BY <1>1, <1>2, ReleaseInv
<1>4. \A v \in Waitqs : waiters[v] \in Seq(Tasks) /\ waiters'[v] \in Seq(Tasks)
  BY <1>3 DEF SchedInv, TypeOK
<1>5. \A v \in Waitqs : waiters'[v] # <<>> => waiters[v] # <<>>
  BY <1>3, <1>4, EmptyWaiters
<1>6. NoLostWakeup' BY <1>2, <1>5 DEF SchedInv, NoLostWakeup
<1> QED BY <1>3, <1>6 DEF SchedInv

\* What an interrupt finds: no system call is in progress.
LEMMA IrqFindsNoSyscall ==
    ASSUME SchedInv, IrqsEnabled
    PROVE  \A x \in Tasks \ Kthreads : pc[x] \notin {"check", "parked", "wake"}
BY DEF SchedInv, SyscallMasked, IrqsEnabled

\* An interrupt handler that feeds a queue keeps the invariant.
LEMMA DeviceIrqInv ==
    ASSUME SchedInv, NEW w \in IsrQs, DeviceIrq(w)
    PROVE  SchedInv'
<1>0. w \in Waitqs /\ waking = {} /\ IrqsEnabled
  BY SchedAssumption DEF DeviceIrq, IrqsEnabled, InThread
<1>1. TypeOK' BY <1>0 DEF SchedInv, TypeOK, DeviceIrq
<1>2. (LinkedOnce /\ BlockedIffWaiting /\ NoTaskDropped)'
  BY DEF SchedInv, LinkedOnce, BlockedIffWaiting, NoTaskDropped, DeviceIrq
<1>3. (PcAgrees /\ BudgetAgrees)' BY DEF SchedInv, PcAgrees, BudgetAgrees, DeviceIrq
<1>4. LeavesWhenBlocked' BY DEF SchedInv, LeavesWhenBlocked, DeviceIrq, IrqsEnabled, InThread
<1>5. SyscallMasked' BY <1>0, IrqFindsNoSyscall DEF SyscallMasked, DeviceIrq
<1>6. NoLostWakeup' BY <1>0 DEF SchedInv, TypeOK, NoLostWakeup, DeviceIrq
<1> QED BY <1>1, <1>2, <1>3, <1>4, <1>5, <1>6 DEF SchedInv

\* The timer interrupt keeps the invariant.
LEMMA TickInv ==
    ASSUME SchedInv, Tick
    PROVE  SchedInv'
<1>0. waking = {} /\ IrqsEnabled /\ curr \in Tasks /\ phase = "thread"
  BY DEF Tick, IrqsEnabled, InThread, SchedInv, TypeOK
<1>1. TypeOK'
  <2>1. remaining' \in 1 .. Quantum BY SchedAssumption DEF SchedInv, TypeOK, Tick
  <2>2. ticks_left' \in [Tasks -> Nat] BY DEF SchedInv, TypeOK, Tick
  <2>3. need_resched' \in [Tasks -> BOOLEAN] BY DEF SchedInv, TypeOK, Tick
  <2> QED BY <2>1, <2>2, <2>3 DEF SchedInv, TypeOK, Tick
<1>2. (LinkedOnce /\ BlockedIffWaiting /\ NoTaskDropped)'
  BY DEF SchedInv, LinkedOnce, BlockedIffWaiting, NoTaskDropped, Tick
<1>3. (PcAgrees /\ BudgetAgrees)' BY DEF SchedInv, PcAgrees, BudgetAgrees, Tick
<1>4. LeavesWhenBlocked' BY <1>0 DEF SchedInv, LeavesWhenBlocked, Tick
<1>5. SyscallMasked' BY <1>0, IrqFindsNoSyscall DEF SyscallMasked, Tick
<1>6. NoLostWakeup' BY DEF SchedInv, NoLostWakeup, Tick
<1> QED BY <1>1, <1>2, <1>3, <1>4, <1>5, <1>6 DEF SchedInv

\* The end of the deadline scan keeps the invariant.
LEMMA ExpireDoneInv ==
    ASSUME SchedInv, ExpireDone
    PROVE  SchedInv'
<1>1. TypeOK' BY DEF SchedInv, TypeOK, ExpireDone
<1>2. (LinkedOnce /\ BlockedIffWaiting /\ NoTaskDropped)'
  BY DEF SchedInv, LinkedOnce, BlockedIffWaiting, NoTaskDropped, ExpireDone
<1>3. (PcAgrees /\ BudgetAgrees)' BY DEF SchedInv, PcAgrees, BudgetAgrees, ExpireDone
<1>4. LeavesWhenBlocked' BY DEF SchedInv, LeavesWhenBlocked, ExpireDone
<1>5. SyscallMasked' BY DEF SchedInv, SyscallMasked, ExpireDone, InThread
<1>6. NoLostWakeup' BY DEF SchedInv, NoLostWakeup, ExpireDone
<1> QED BY <1>1, <1>2, <1>3, <1>4, <1>5, <1>6 DEF SchedInv

\* The running user task ends, by itself or by a signal.
LEMMA ExitProcessInv ==
    ASSUME SchedInv, NEW W \in SUBSET ExitQs, ExitProcess(curr, W),
           curr \notin Kthreads, pc[curr] # "wake", waking = {}, phase' = "thread",
           pending' = pending
    PROVE  SchedInv'
<1>0. curr \in Tasks /\ Idle \in Tasks /\ curr # Idle /\ W \subseteq Waitqs
  BY TaskAssumption, SchedAssumption DEF SchedInv, TypeOK
<1>1. WellFormed(queues) BY DEF SchedInv, LinkedOnce
<1>2. WellFormed(queues') /\ \A x : OnQueue(queues', x) <=> OnQueue(queues, x) /\ x # curr
  BY <1>0, <1>1, DequeueLemma DEF ExitProcess
<1>3. \A x \in Tasks : /\ pc'[x] = IF x = curr THEN "dead" ELSE pc[x]
                       /\ target'[x] = IF x = curr THEN NoWaitq ELSE target[x]
                       /\ budget'[x] = IF x = curr THEN 0 ELSE budget[x]
                       /\ exited'[x] = IF x = curr THEN TRUE ELSE exited[x]
  BY <1>0 DEF SchedInv, TypeOK, ExitProcess
<1>4. TypeOK'
  <2>1. queues' \in [Levels -> Seq(Tasks)] BY <1>2 DEF WellFormed
  <2>2. cond' \in [Waitqs -> BOOLEAN] BY DEF SchedInv, TypeOK, ExitProcess
  <2> QED BY <1>0, <2>1, <2>2 DEF SchedInv, TypeOK, PCs, ExitProcess
<1>u. UNCHANGED <<curr, need_resched, waitVars, pending>> BY DEF ExitProcess
<1>5. LinkedOnce' BY <1>2, <1>u DEF SchedInv, LinkedOnce
<1>6. BlockedIffWaiting' BY <1>u DEF SchedInv, BlockedIffWaiting
<1>7. NoTaskDropped'
  <2> SUFFICES ASSUME NEW x \in Tasks, pc'[x] \notin {"new", "dead", "freed"},
                      wait_q'[x] = NoWaitq
               PROVE  OnQueue(queues', x)
    BY DEF NoTaskDropped
  <2>1. x # curr /\ pc'[x] = pc[x] /\ wait_q[x] = NoWaitq BY <1>3, <1>u
  <2>2. OnQueue(queues, x) BY <2>1 DEF SchedInv, NoTaskDropped
  <2> QED BY <1>2, <2>1, <2>2
<1>8. PcAgrees'
  <2>1. pc'[Idle] = "run" BY <1>0, <1>3 DEF SchedInv, PcAgrees
  <2>2. ASSUME NEW x \in Tasks, x # curr
        PROVE  /\ wait_q'[x] # NoWaitq => /\ pc'[x] \in {"parked", "return", "dead", "freed"}
                                          /\ x \in Waiters[wait_q'[x]]
               /\ pc'[x] \in {"check", "parked", "return"} =>
                     target'[x] \in Waitqs /\ x \in Waiters[target'[x]]
               /\ pc'[x] = "wake" => target'[x] \in Waitqs
               /\ exited'[x] <=> pc'[x] \in {"dead", "freed"}
               /\ pending'[x] => x \notin Kthreads
    BY <1>3, <1>u, <2>2 DEF SchedInv, PcAgrees
  <2>3. /\ wait_q'[curr] # NoWaitq => curr \in Waiters[wait_q'[curr]]
        /\ pc'[curr] = "dead" /\ exited'[curr]
    BY <1>0, <1>3, <1>u DEF SchedInv, PcAgrees
  <2> QED BY <1>0, <2>1, <2>2, <2>3 DEF PcAgrees
<1>9. BudgetAgrees'
  <2>1. \A x \in Tasks : pc'[x] \in {"parked", "return"} =>
            pc'[x] = pc[x] /\ budget'[x] = budget[x]
    BY <1>0, <1>3
  <2> QED BY <1>u, <2>1 DEF SchedInv, BudgetAgrees
<1>10. LeavesWhenBlocked' BY <1>0, <1>3, <1>u DEF LeavesWhenBlocked
<1>11. SyscallMasked'
  <2>1. \A x \in Tasks \ Kthreads : pc'[x] \notin {"check", "parked", "wake"}
    BY <1>0, <1>3 DEF SchedInv, SyscallMasked
  <2> QED BY <2>1 DEF SyscallMasked
<1>12. NoLostWakeup'
  <2>1. \A w \in Waitqs : cond'[w] = (cond[w] \/ w \in W) BY DEF ExitProcess
  <2>2. waking' = W /\ waiters' = waiters BY DEF ExitProcess
  <2>3. \A x \in Tasks : pc[x] = "wake" => pc'[x] = "wake" /\ target'[x] = target[x]
    BY <1>0, <1>3
  <2>4. ASSUME NEW w \in Waitqs, cond'[w], waiters'[w] # <<>>, w \notin W
        PROVE  \E x \in Tasks : pc'[x] = "wake" /\ target'[x] = w
    <3>1. cond[w] BY <2>1, <2>4
    <3>2. PICK x \in Tasks : pc[x] = "wake" /\ target[x] = w
      BY <2>2, <2>4, <3>1 DEF SchedInv, NoLostWakeup
    <3> QED BY <2>3, <3>2
  <2> QED BY <2>2, <2>4 DEF NoLostWakeup
<1> QED BY <1>4, <1>5, <1>6, <1>7, <1>8, <1>9, <1>10, <1>11, <1>12 DEF SchedInv

\* A task that ends its own process keeps the invariant.
LEMMA ExitInv ==
    ASSUME SchedInv, NEW W \in SUBSET ExitQs, Exit(W)
    PROVE  SchedInv'
<1>1. /\ curr \notin Kthreads /\ pc[curr] # "wake" /\ waking = {} /\ phase' = "thread"
      /\ ExitProcess(curr, W) /\ pending' = pending
  BY DEF Exit, InThread, ExitProcess
<1> QED BY <1>1, ExitProcessInv

\* The delivery of a signal in the reschedule check keeps the invariant.
LEMMA DeliverInv ==
    ASSUME SchedInv, NEW W \in SUBSET ExitQs, Deliver(W)
    PROVE  SchedInv'
<1>1. /\ curr \in Tasks \ Kthreads /\ waking = {} /\ phase' = "thread"
      /\ ExitProcess(curr, W) /\ pending' = pending /\ phase = "resched"
  BY DEF Deliver, ExitProcess, SchedInv, TypeOK, PcAgrees
<1>2. pc[curr] # "wake" BY <1>1 DEF SchedInv, SyscallMasked, InThread
<1> QED BY <1>1, <1>2, ExitProcessInv

\* Posting a signal keeps the invariant.
LEMMA PostSignalInv ==
    ASSUME SchedInv, NEW t \in Killable, PostSignal(t)
    PROVE  SchedInv'
<1>0. t \in Tasks /\ t \notin Kthreads BY SchedAssumption
<1>1. \A x \in Tasks : pending'[x] = IF x = t THEN TRUE ELSE pending[x]
  BY <1>0 DEF SchedInv, TypeOK, PostSignal
<1>2. TypeOK' BY <1>0 DEF SchedInv, TypeOK, PostSignal
<1>3. (LinkedOnce /\ BlockedIffWaiting /\ NoTaskDropped)'
  BY DEF SchedInv, LinkedOnce, BlockedIffWaiting, NoTaskDropped, PostSignal
<1>4. PcAgrees' BY <1>0, <1>1 DEF SchedInv, PcAgrees, PostSignal
<1>5. (BudgetAgrees /\ LeavesWhenBlocked)'
  BY DEF SchedInv, BudgetAgrees, LeavesWhenBlocked, PostSignal
<1>6. SyscallMasked' BY DEF SchedInv, SyscallMasked, InThread, PostSignal
<1>7. NoLostWakeup' BY DEF SchedInv, NoLostWakeup, PostSignal
<1> QED BY <1>2, <1>3, <1>4, <1>5, <1>6, <1>7 DEF SchedInv

\* nx_task_yield keeps the invariant.
LEMMA YieldInv ==
    ASSUME SchedInv, Yield
    PROVE  SchedInv'
<1>0. curr \in Tasks /\ pc[curr] = "run" BY DEF SchedInv, TypeOK, Yield
<1>1. TypeOK' BY <1>0 DEF SchedInv, TypeOK, Yield
<1>2. (LinkedOnce /\ BlockedIffWaiting /\ NoTaskDropped)'
  BY DEF SchedInv, LinkedOnce, BlockedIffWaiting, NoTaskDropped, Yield
<1>3. (PcAgrees /\ BudgetAgrees)' BY DEF SchedInv, PcAgrees, BudgetAgrees, Yield
<1>4. LeavesWhenBlocked' BY <1>0 DEF LeavesWhenBlocked, Yield
<1>5. SyscallMasked' BY <1>0 DEF SchedInv, SyscallMasked, Yield
<1>6. NoLostWakeup' BY DEF SchedInv, NoLostWakeup, Yield
<1> QED BY <1>1, <1>2, <1>3, <1>4, <1>5, <1>6 DEF SchedInv

\* The collection of a dead task keeps the invariant.
LEMMA ReapInv ==
    ASSUME SchedInv, NEW t \in Tasks, Reap(t)
    PROVE  SchedInv'
<1>0. curr \in Tasks /\ Idle \in Tasks /\ t # curr /\ pc[t] = "dead"
  BY TaskAssumption DEF SchedInv, TypeOK, Reap
<1>1. \A x \in Tasks : pc'[x] = IF x = t THEN "freed" ELSE pc[x]
  BY DEF SchedInv, TypeOK, Reap
<1>2. TypeOK' BY DEF SchedInv, TypeOK, PCs, Reap
<1>3. (LinkedOnce /\ BlockedIffWaiting)' BY DEF SchedInv, LinkedOnce, BlockedIffWaiting, Reap
<1>4. NoTaskDropped' BY <1>0, <1>1 DEF SchedInv, NoTaskDropped, Reap
<1>5. PcAgrees' BY <1>0, <1>1 DEF SchedInv, PcAgrees, Reap
<1>6. BudgetAgrees' BY <1>0, <1>1 DEF SchedInv, BudgetAgrees, Reap
<1>7. LeavesWhenBlocked' BY <1>0, <1>1 DEF SchedInv, LeavesWhenBlocked, Reap
<1>8. SyscallMasked'
  <2>1. UNCHANGED <<curr, cond, target, phase, waking>> BY DEF Reap
  <2>2. InThread' = InThread BY <2>1 DEF InThread
  <2>3. \A x \in Tasks : pc'[x] \in {"check", "parked", "wake"} => pc'[x] = pc[x]
    BY <1>0, <1>1
  <2> QED BY <2>1, <2>2, <2>3 DEF SchedInv, SyscallMasked
<1>9. NoLostWakeup' BY <1>0, <1>1 DEF SchedInv, NoLostWakeup, Reap
<1> QED BY <1>2, <1>3, <1>4, <1>5, <1>6, <1>7, <1>8, <1>9 DEF SchedInv

\* sched_check_resched with its switch to the next task keeps the invariant.
LEMMA CheckReschedInv ==
    ASSUME SchedInv, CheckResched
    PROVE  SchedInv'
<1>0. /\ curr \in Tasks /\ Idle \in Tasks /\ phase = "resched" /\ phase' = "thread"
      /\ UNCHANGED <<waitVars, callVars, lifeVars, cond, waking>>
  BY TaskAssumption DEF SchedInv, TypeOK, CheckResched
<1>1. WellFormed(queues) BY DEF SchedInv, LinkedOnce
<1>2. /\ WellFormed(queues') /\ \A x : OnQueue(queues', x) <=> OnQueue(queues, x)
      /\ remaining' \in 1 .. Quantum /\ need_resched' \in [Tasks -> BOOLEAN]
      /\ curr' \in Tasks
      /\ pc[curr'] = "return" => wait_q[curr'] = NoWaitq
  <2>1. CASE need_resched[curr]
    <3>0. Reschedule BY <2>1 DEF CheckResched
    <3>1. WellFormed(queues') /\ \A x : OnQueue(queues', x) <=> OnQueue(queues, x)
      BY <1>0, <1>1, <3>0, YieldLemma DEF Reschedule
    <3>2. remaining' \in 1 .. Quantum /\ need_resched' \in [Tasks -> BOOLEAN]
      BY <3>0, SchedAssumption DEF Reschedule, SchedInv, TypeOK
    <3>3. PICK n \in Tasks \cup {NoTask} :
             IsPickNext(queues', state, n) /\ curr' = IF n = NoTask THEN curr ELSE n
      BY <3>0 DEF Reschedule
    <3>4. wait_q[Idle] = NoWaitq /\ OnQueue(queues', Idle) /\ state[Idle] # "BLOCKED"
      BY <1>0, <3>1 DEF SchedInv, PcAgrees, NoTaskDropped, BlockedIffWaiting
    <3>5. n \in Tasks /\ state[n] # "BLOCKED"
      BY <1>0, <3>3, <3>4 DEF IsPickNext, Pickable
    <3>6. curr' = n BY <3>3, <3>5, TaskAssumption
    <3> QED BY <3>1, <3>2, <3>5, <3>6 DEF SchedInv, BlockedIffWaiting
  <2>2. CASE ~need_resched[curr]
    <3>1. UNCHANGED rqVars BY <2>2 DEF CheckResched
    <3> QED BY <1>1, <2>2, <3>1 DEF SchedInv, TypeOK, LeavesWhenBlocked
  <2> QED BY <2>1, <2>2
<1>3. queues' \in [Levels -> Seq(Tasks)] BY <1>2 DEF WellFormed
<1>4. TypeOK' BY <1>0, <1>2, <1>3 DEF SchedInv, TypeOK
<1>5. LinkedOnce' BY <1>0, <1>2 DEF SchedInv, LinkedOnce
<1>6. BlockedIffWaiting' BY <1>0 DEF SchedInv, BlockedIffWaiting
<1>7. NoTaskDropped' BY <1>0, <1>2 DEF SchedInv, NoTaskDropped
<1>8. (PcAgrees /\ BudgetAgrees)' BY <1>0 DEF SchedInv, PcAgrees, BudgetAgrees
<1>9. LeavesWhenBlocked' BY <1>0, <1>2 DEF LeavesWhenBlocked
<1>10. SyscallMasked' BY <1>0 DEF SchedInv, SyscallMasked, InThread
<1>11. NoLostWakeup' BY <1>0 DEF SchedInv, NoLostWakeup
<1> QED BY <1>4, <1>5, <1>6, <1>7, <1>8, <1>9, <1>10, <1>11 DEF SchedInv

(***************************************************************************)
(* SchedInv is an invariant.                                               *)
(***************************************************************************)
LEMMA NextInv == SchedInv /\ [Next]_vars => SchedInv'
<1> SUFFICES ASSUME SchedInv, [Next]_vars PROVE SchedInv' OBVIOUS
<1>1. CASE ThreadStep
  <2>1. ASSUME NEW t \in Tasks, Spawn(t) PROVE SchedInv' BY <2>1, SpawnInv
  <2>2. ASSUME NEW t \in Tasks, NEW p \in Levels, SetTaskPriority(t, p) PROVE SchedInv'
    BY <2>2, SetTaskPriorityInv
  <2>3. ASSUME NEW w \in Waitqs, NEW b \in Budgets, CheckCond(w, b) PROVE SchedInv'
    BY <2>3, CheckCondInv
  <2>4. CASE WaitUnless \/ WaitWithDeadline BY <2>4, WaitInv
  <2>5. CASE ParkYield BY <2>5, ParkYieldInv
  <2>6. CASE WaitReturn BY <2>6, WaitReturnInv
  <2>7. ASSUME NEW w \in Waitqs, Produce(w) PROVE SchedInv' BY <2>7, ProduceInv
  <2>8. CASE WakeOne BY <2>8, WakeOneInv
  <2>9. CASE WakeAll BY <2>9, WakeAllInv
  <2>10. ASSUME NEW W \in SUBSET ExitQs, Exit(W) PROVE SchedInv' BY <2>10, ExitInv
  <2>11. ASSUME NEW t \in Killable, PostSignal(t) PROVE SchedInv' BY <2>11, PostSignalInv
  <2>12. CASE Yield BY <2>12, YieldInv
  <2>13. ASSUME NEW t \in Tasks, Reap(t) PROVE SchedInv' BY <2>13, ReapInv
  <2> QED
    BY <1>1, <2>1, <2>2, <2>3, <2>4, <2>5, <2>6, <2>7, <2>8, <2>9, <2>10, <2>11, <2>12, <2>13
    DEF ThreadStep
<1>2. CASE KernelStep
  <2>1. ASSUME NEW w \in Waitqs, WakeAllStep(w) PROVE SchedInv' BY <2>1, WakeAllStepInv
  <2>2. ASSUME NEW t \in Tasks, Expire(t) PROVE SchedInv' BY <2>2, ExpireInv
  <2>3. CASE ExpireDone BY <2>3, ExpireDoneInv
  <2>4. ASSUME NEW W \in SUBSET ExitQs, Deliver(W) PROVE SchedInv' BY <2>4, DeliverInv
  <2>5. CASE CheckResched BY <2>5, CheckReschedInv
  <2> QED BY <1>2, <2>1, <2>2, <2>3, <2>4, <2>5 DEF KernelStep
<1>3. CASE Irq
  <2>1. CASE Tick BY <2>1, TickInv
  <2>2. ASSUME NEW w \in IsrQs, DeviceIrq(w) PROVE SchedInv' BY <2>2, DeviceIrqInv
  <2> QED BY <1>3, <2>1, <2>2 DEF Irq
<1>4. CASE UNCHANGED vars
  <2>1. TypeOK' BY <1>4 DEF vars, SchedInv, TypeOK
  <2>2. (LinkedOnce /\ BlockedIffWaiting /\ NoTaskDropped)'
    BY <1>4 DEF vars, SchedInv, LinkedOnce, BlockedIffWaiting, NoTaskDropped
  <2>3. (PcAgrees /\ BudgetAgrees /\ LeavesWhenBlocked)'
    BY <1>4 DEF vars, SchedInv, PcAgrees, BudgetAgrees, LeavesWhenBlocked
  <2>4. (SyscallMasked /\ NoLostWakeup)'
    BY <1>4 DEF vars, SchedInv, SyscallMasked, InThread, NoLostWakeup
  <2> QED BY <2>1, <2>2, <2>3, <2>4 DEF SchedInv
<1> QED BY <1>1, <1>2, <1>3, <1>4 DEF Next

\* The scheduler, its wait queues, the tick and the end of a task keep every
\* conjunct of SchedInv, in every interleaving.
THEOREM SchedInvariant == Spec => []SchedInv
<1>1. Init => SchedInv BY InitInv
<1>2. SchedInv /\ [Next]_vars => SchedInv' BY NextInv
<1> QED BY <1>1, <1>2, PTL DEF Spec

\* Every variable of the scheduler keeps its type: lists hold tasks, the
\* remaining quantum stays in 1 .. Quantum.
THEOREM TypeCorrect == Spec => []TypeOK
<1>1. SchedInv => TypeOK BY DEF SchedInv
<1> QED BY <1>1, SchedInvariant, PTL

\* The list node a task shares between the run queue and the wait queues is
\* linked at most once.
THEOREM NodeLinkedOnce == Spec => []LinkedOnce
<1>1. SchedInv => LinkedOnce BY DEF SchedInv
<1> QED BY <1>1, SchedInvariant, PTL

\* Task state, wait_q, the wait queues and the deadline list agree.
THEOREM WaitStateAgrees == Spec => []BlockedIffWaiting
<1>1. SchedInv => BlockedIffWaiting BY DEF SchedInv
<1> QED BY <1>1, SchedInvariant, PTL

\* A started task that has not ended and does not wait is on the run queue.
THEOREM NeverDropped == Spec => []NoTaskDropped
<1>1. SchedInv => NoTaskDropped BY DEF SchedInv
<1> QED BY <1>1, SchedInvariant, PTL

\* A wait returns only unlinked, and unwoken only if it had a budget.
THEOREM WaitKeepsContract == Spec => []WaitContract
<1>1. SchedInv => WaitContract
  <2> SUFFICES ASSUME SchedInv, InThread, pc[curr] = "return"
               PROVE  wait_q[curr] = NoWaitq /\ (~wait_woken[curr] => budget[curr] > 0)
    BY DEF WaitContract
  <2>1. curr \in Tasks BY DEF SchedInv, TypeOK
  <2>2. wait_q[curr] = NoWaitq BY DEF SchedInv, LeavesWhenBlocked, InThread
  <2> QED BY <2>1, <2>2 DEF SchedInv, BudgetAgrees
<1> QED BY <1>1, SchedInvariant, PTL

\* A task sleeps on a queue whose condition holds only while a producer is
\* about to wake that queue.
THEOREM WakeupsNotLost == Spec => []NoLostWakeup
<1>1. SchedInv => NoLostWakeup BY DEF SchedInv
<1> QED BY <1>1, SchedInvariant, PTL
==============================================================================
