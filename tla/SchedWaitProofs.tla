--------------------------- MODULE SchedWaitProofs ---------------------------
(***************************************************************************)
(* The first half of the proof that SchedInv is an invariant of Sched: the *)
(* initial state, what a wait that links itself and a wake or a deadline   *)
(* that unlinks a waiter do to the lists, and the actions of a task up to  *)
(* the return from its wait.  SchedProofs has the rest and the theorems.   *)
(***************************************************************************)
EXTENDS Sched, RunQueueProofs

\* The conjuncts about lists only.
ListInv == TypeOK /\ LinkedOnce /\ BlockedIffWaiting

\* The state that sched_start leaves satisfies the invariant.
LEMMA InitInv == Init => SchedInv
<1> SUFFICES ASSUME Init PROVE SchedInv OBVIOUS
<1>1. 0 \in Levels BY LevelZero
<1>2. BootQueue \in Seq(Tasks) /\ IsInjective(BootQueue) /\ Idle \in ToSet(BootQueue)
  BY SchedAssumption
<1>3. <<>> \in Seq(Tasks) /\ IsInjective(<<>>) /\ ToSet(<<>>) = {}
  BY DEF IsInjective, ToSet
<1>4. TypeOK
  BY <1>1, <1>2, <1>3, SchedAssumption, TaskAssumption DEF TypeOK, Init, PCs
<1>5. WellFormed(queues)
  BY <1>1, <1>2, <1>3, <1>4 DEF WellFormed, Init, TypeOK
<1>6. \A t \in Tasks : OnQueue(queues, t) <=> t \in ToSet(BootQueue)
  BY <1>1, <1>3 DEF OnQueue, Init
<1>7. LinkedOnce BY <1>3, <1>5 DEF LinkedOnce, Init
<1>8. BlockedIffWaiting BY <1>3 DEF BlockedIffWaiting, Init
<1>9. NoTaskDropped BY <1>6 DEF NoTaskDropped, Init
<1>10. PcAgrees BY <1>2, TaskAssumption DEF PcAgrees, Init
<1>11. BudgetAgrees /\ LeavesWhenBlocked /\ SyscallMasked /\ NoLostWakeup
  <2>1. \A t \in Tasks : pc[t] \in {"run", "new"} BY DEF Init
  <2>2. BudgetAgrees /\ SyscallMasked BY <2>1 DEF BudgetAgrees, SyscallMasked
  <2>3. LeavesWhenBlocked BY TaskAssumption, <1>4, <2>1 DEF LeavesWhenBlocked, TypeOK
  <2>4. NoLostWakeup BY DEF NoLostWakeup, Init
  <2> QED BY <2>2, <2>3, <2>4
<1> QED BY <1>4, <1>7, <1>8, <1>9, <1>10, <1>11 DEF SchedInv

\* A wait links a task that is on no list.
LEMMA RegisterLists ==
    ASSUME ListInv, NEW t \in Tasks, NEW w \in Waitqs, NEW b \in Nat,
           wait_q[t] = NoWaitq, Register(t, w, b)
    PROVE  /\ LinkedOnce' /\ BlockedIffWaiting'
           /\ queues' \in [Levels -> Seq(Tasks)]
           /\ waiters' \in [Waitqs -> Seq(Tasks)]
           /\ deadline_list' \in Seq(Tasks)
           /\ \A x : OnQueue(queues', x) <=> OnQueue(queues, x) /\ x # t
           /\ ToSet(deadline_list') = IF b > 0 THEN ToSet(deadline_list) \cup {t}
                                      ELSE ToSet(deadline_list)
<1>1. WellFormed(queues) BY DEF ListInv, LinkedOnce
<1>2. WellFormed(queues') /\ \A x : OnQueue(queues', x) <=> OnQueue(queues, x) /\ x # t
  BY <1>1, DequeueLemma DEF Register
<1>3. \A v \in Waitqs : t \notin ToSet(waiters[v])
  BY SchedAssumption DEF ListInv, LinkedOnce
<1>4. waiters \in [Waitqs -> Seq(Tasks)] /\ waiters[w] \in Seq(Tasks)
  BY DEF ListInv, TypeOK
<1>5. /\ Append(waiters[w], t) \in Seq(Tasks)
      /\ IsInjective(Append(waiters[w], t))
      /\ ToSet(Append(waiters[w], t)) = ToSet(waiters[w]) \cup {t}
  <2>1. IsInjective(waiters[w]) BY DEF ListInv, LinkedOnce
  <2> QED BY <1>3, <1>4, <2>1, AppendNew
<1>6. \A v \in Waitqs : waiters'[v] = IF v = w THEN Append(waiters[w], t) ELSE waiters[v]
  BY <1>4 DEF Register
<1>7. waiters' \in [Waitqs -> Seq(Tasks)] BY <1>4, <1>5 DEF Register
<1>8. \A v \in Waitqs : /\ IsInjective(waiters'[v])
                        /\ ToSet(waiters'[v]) = IF v = w THEN ToSet(waiters[v]) \cup {t}
                                                ELSE ToSet(waiters[v])
  BY <1>5, <1>6 DEF ListInv, LinkedOnce
<1>9. \A x \in Tasks : wait_q'[x] = IF x = t THEN w ELSE wait_q[x]
  BY DEF Register, ListInv, TypeOK
<1>10. \A v \in Waitqs : ToSet(waiters[v]) \subseteq Tasks
  BY <1>4 DEF ToSet
<1>11. LinkedOnce'
  <2>1. ASSUME NEW v \in Waitqs, NEW x \in ToSet(waiters'[v])
        PROVE  wait_q'[x] = v /\ ~OnQueue(queues', x)
    <3>1. CASE x = t
      BY <1>2, <1>3, <1>8, <1>9, <2>1, <3>1
    <3>2. CASE x # t
      <4>1. x \in ToSet(waiters[v]) BY <1>8, <2>1, <3>2
      <4>2. wait_q[x] = v /\ ~OnQueue(queues, x) BY <4>1 DEF ListInv, LinkedOnce
      <4> QED BY <1>2, <1>9, <1>10, <3>2, <4>1, <4>2
    <3> QED BY <3>1, <3>2
  <2> QED BY <1>2, <1>8, <2>1 DEF LinkedOnce
<1>12. t \notin ToSet(deadline_list) BY DEF ListInv, BlockedIffWaiting
<1>13. /\ deadline_list' \in Seq(Tasks) /\ IsInjective(deadline_list')
       /\ ToSet(deadline_list') = IF b > 0 THEN ToSet(deadline_list) \cup {t}
                                  ELSE ToSet(deadline_list)
  <2>1. deadline_list \in Seq(Tasks) /\ IsInjective(deadline_list)
    BY DEF ListInv, TypeOK, BlockedIffWaiting
  <2>2. deadline_list' = IF b > 0 THEN Append(deadline_list, t) ELSE deadline_list
    BY DEF Register
  <2>3. CASE b > 0
    <3>1. deadline_list' = Append(deadline_list, t) BY <2>2, <2>3
    <3> QED BY <1>12, <2>1, <2>3, <3>1, AppendNew
  <2>4. CASE ~(b > 0)
    BY <2>1, <2>2, <2>4
  <2> QED BY <2>3, <2>4
<1>14. ToSet(deadline_list) \subseteq Tasks BY DEF ToSet, ListInv, TypeOK
<1>15. \A x \in Tasks : state'[x] = IF x = t THEN "BLOCKED" ELSE state[x]
  BY DEF Register, ListInv, TypeOK
<1>16. BlockedIffWaiting'
  <2>1. \A x \in Tasks : state'[x] = "BLOCKED" <=> wait_q'[x] # NoWaitq
    BY <1>9, <1>15, SchedAssumption DEF ListInv, BlockedIffWaiting
  <2>2. \A x \in Tasks : wait_q'[x] # NoWaitq => x \in ToSet(waiters'[wait_q'[x]])
    BY <1>8, <1>9 DEF ListInv, BlockedIffWaiting, TypeOK
  <2>3. \A x \in ToSet(deadline_list') : wait_q'[x] # NoWaitq
    BY <1>9, <1>13, <1>14, SchedAssumption DEF ListInv, BlockedIffWaiting
  <2> QED BY <1>13, <2>1, <2>2, <2>3 DEF BlockedIffWaiting
<1> QED BY <1>2, <1>7, <1>11, <1>13, <1>16 DEF WellFormed

\* A wake and an expired deadline both unlink a waiter and queue it to run.
LEMMA UnlinkLists ==
    ASSUME ListInv, NEW t \in Tasks, wait_q[t] # NoWaitq,
           Unlink(t), UnlinkDeadline(t), EnqueueTask(t),
           wait_q' = [wait_q EXCEPT ![t] = NoWaitq],
           state' = [state EXCEPT ![t] = "READY"]
    PROVE  /\ LinkedOnce' /\ BlockedIffWaiting'
           /\ queues' \in [Levels -> Seq(Tasks)]
           /\ waiters' \in [Waitqs -> Seq(Tasks)]
           /\ deadline_list' \in Seq(Tasks)
           /\ \A x : OnQueue(queues', x) <=> OnQueue(queues, x) \/ x = t
           /\ ToSet(deadline_list') = ToSet(deadline_list) \ {t}
           /\ \A v \in Waitqs : ToSet(waiters'[v]) = ToSet(waiters[v]) \ {t}
<1> DEFINE w == wait_q[t]
<1>0. w \in Waitqs BY DEF ListInv, TypeOK
<1>1. WellFormed(queues) BY DEF ListInv, LinkedOnce
<1>2. WellFormed(queues') /\ \A x : OnQueue(queues', x) <=> OnQueue(queues, x) \/ x = t
  BY <1>1, EnqueueLemma DEF EnqueueTask
<1>3. \A v \in Waitqs : v # w => t \notin ToSet(waiters[v])
  BY DEF ListInv, LinkedOnce
<1>4. waiters \in [Waitqs -> Seq(Tasks)] /\ waiters[w] \in Seq(Tasks)
  BY <1>0 DEF ListInv, TypeOK
<1>5. /\ RemoveFirst(waiters[w], t) \in Seq(Tasks)
      /\ IsInjective(RemoveFirst(waiters[w], t))
      /\ ToSet(RemoveFirst(waiters[w], t)) = ToSet(waiters[w]) \ {t}
  <2>1. IsInjective(waiters[w]) BY <1>0 DEF ListInv, LinkedOnce
  <2> QED BY <1>4, <2>1, RemoveFirstElement
<1>6. waiters' = [waiters EXCEPT ![w] = RemoveFirst(waiters[w], t)] BY DEF Unlink
<1> HIDE DEF w
<1>7. \A v \in Waitqs : waiters'[v] = IF v = w THEN RemoveFirst(waiters[w], t) ELSE waiters[v]
  BY <1>0, <1>4, <1>6
<1>8. waiters' \in [Waitqs -> Seq(Tasks)] BY <1>0, <1>4, <1>5, <1>6
<1>9. \A v \in Waitqs : IsInjective(waiters'[v])
  BY <1>5, <1>7 DEF ListInv, LinkedOnce
<1>10. \A v \in Waitqs : ToSet(waiters'[v]) = ToSet(waiters[v]) \ {t}
  BY <1>3, <1>5, <1>7
<1>11. \A x \in Tasks : wait_q'[x] = IF x = t THEN NoWaitq ELSE wait_q[x]
  BY DEF ListInv, TypeOK
<1>12. \A v \in Waitqs : ToSet(waiters[v]) \subseteq Tasks
  BY <1>4 DEF ToSet
<1>13. LinkedOnce'
  <2>1. ASSUME NEW v \in Waitqs, NEW x \in ToSet(waiters'[v])
        PROVE  wait_q'[x] = v /\ ~OnQueue(queues', x)
    <3>1. x \in ToSet(waiters[v]) /\ x # t BY <1>10, <2>1
    <3>2. wait_q[x] = v /\ ~OnQueue(queues, x) BY <3>1 DEF ListInv, LinkedOnce
    <3> QED BY <1>2, <1>11, <1>12, <3>1, <3>2
  <2> QED BY <1>2, <1>9, <2>1 DEF LinkedOnce
<1>14. /\ deadline_list' \in Seq(Tasks) /\ IsInjective(deadline_list')
       /\ ToSet(deadline_list') = ToSet(deadline_list) \ {t}
  <2>1. deadline_list \in Seq(Tasks) /\ IsInjective(deadline_list)
    BY DEF ListInv, TypeOK, BlockedIffWaiting
  <2>2. deadline_list' = RemoveFirst(deadline_list, t) BY DEF UnlinkDeadline
  <2> QED BY <2>1, <2>2, RemoveFirstElement
<1>15. ToSet(deadline_list) \subseteq Tasks BY DEF ToSet, ListInv, TypeOK
<1>16. \A x \in Tasks : state'[x] = IF x = t THEN "READY" ELSE state[x]
  BY DEF ListInv, TypeOK
<1>17. BlockedIffWaiting'
  <2>1. \A x \in Tasks : state'[x] = "BLOCKED" <=> wait_q'[x] # NoWaitq
    BY <1>11, <1>16 DEF ListInv, BlockedIffWaiting
  <2>2. \A x \in Tasks : wait_q'[x] # NoWaitq => x \in ToSet(waiters'[wait_q'[x]])
    <3> SUFFICES ASSUME NEW x \in Tasks, wait_q'[x] # NoWaitq
                 PROVE  x \in ToSet(waiters'[wait_q'[x]])
      OBVIOUS
    <3>1. x # t /\ wait_q'[x] = wait_q[x] BY <1>11
    <3>2. wait_q[x] \in Waitqs /\ x \in ToSet(waiters[wait_q[x]])
      BY <3>1 DEF ListInv, BlockedIffWaiting, TypeOK
    <3> QED BY <1>10, <3>1, <3>2
  <2>3. \A x \in ToSet(deadline_list') : wait_q'[x] # NoWaitq
    BY <1>11, <1>14, <1>15 DEF ListInv, BlockedIffWaiting
  <2> QED BY <1>14, <2>1, <2>2, <2>3 DEF BlockedIffWaiting
<1> QED BY <1>2, <1>8, <1>10, <1>13, <1>14, <1>17 DEF WellFormed

\* The first waiter of a queue is linked on it.
LEMMA HeadWaits ==
    ASSUME ListInv, NEW w \in Waitqs, waiters[w] # <<>>
    PROVE  /\ Head(waiters[w]) \in Tasks
           /\ Head(waiters[w]) \in ToSet(waiters[w])
           /\ wait_q[Head(waiters[w])] = w
<1>1. waiters[w] \in Seq(Tasks) BY DEF ListInv, TypeOK
<1>2. 1 \in DOMAIN waiters[w] /\ Head(waiters[w]) = waiters[w][1] BY <1>1
<1>3. Head(waiters[w]) \in Tasks /\ Head(waiters[w]) \in ToSet(waiters[w])
  BY <1>1, <1>2 DEF ToSet
<1> QED BY <1>3 DEF ListInv, LinkedOnce

\* A queue is empty when no task is linked on it.
LEMMA EmptyWaiters ==
    ASSUME NEW s \in Seq(Tasks)
    PROVE  s = <<>> <=> ToSet(s) = {}
<1>1. CASE s = <<>> BY <1>1 DEF ToSet
<1>2. CASE s # <<>>
  <2>1. 1 \in DOMAIN s BY <1>2
  <2> QED BY <1>2, <2>1 DEF ToSet
<1> QED BY <1>1, <1>2
------------------------------------------------------------------------------
USE DEF rqVars, waitVars, callVars, lifeVars

\* sched_spawn_kthread and the creation of a process's task keep the invariant.
LEMMA SpawnInv ==
    ASSUME SchedInv, NEW t \in Tasks, Spawn(t)
    PROVE  SchedInv'
<1>0. curr \in Tasks /\ Idle \in Tasks BY TaskAssumption DEF SchedInv, TypeOK
<1>1. wait_q[t] = NoWaitq BY DEF SchedInv, PcAgrees, Spawn
<1>2. WellFormed(queues') /\ \A x : OnQueue(queues', x) <=> OnQueue(queues, x) \/ x = t
  BY EnqueueLemma DEF SchedInv, LinkedOnce, Spawn, EnqueueTask
<1>3. TypeOK'
  BY <1>0, <1>2 DEF SchedInv, TypeOK, Spawn, EnqueueTask, WellFormed, PCs
<1>4. LinkedOnce'
  BY <1>1, <1>2, SchedAssumption DEF SchedInv, LinkedOnce, Spawn
<1>5. BlockedIffWaiting' BY DEF SchedInv, BlockedIffWaiting, Spawn
<1>6. NoTaskDropped'
  BY <1>2 DEF SchedInv, NoTaskDropped, Spawn, TypeOK
<1>7. PcAgrees'
  BY <1>0, <1>1 DEF SchedInv, PcAgrees, Spawn, TypeOK
<1>8. BudgetAgrees' BY DEF SchedInv, BudgetAgrees, Spawn, TypeOK
<1>9. LeavesWhenBlocked'
  BY <1>0 DEF SchedInv, LeavesWhenBlocked, Spawn, EnqueueTask, TypeOK, InThread
<1>10. SyscallMasked' BY DEF SchedInv, SyscallMasked, Spawn, TypeOK, InThread
<1>11. NoLostWakeup' BY DEF SchedInv, NoLostWakeup, Spawn, TypeOK
<1> QED BY <1>3, <1>4, <1>5, <1>6, <1>7, <1>8, <1>9, <1>10, <1>11 DEF SchedInv

\* The policy's set_priority keeps the invariant.
LEMMA SetTaskPriorityInv ==
    ASSUME SchedInv, NEW t \in Tasks, NEW p \in Levels, SetTaskPriority(t, p)
    PROVE  SchedInv'
<1>1. WellFormed(queues') /\ \A x : OnQueue(queues', x) <=> OnQueue(queues, x)
  BY SetPriorityLemma DEF SchedInv, LinkedOnce, SetTaskPriority
<1>2. TypeOK' BY <1>1 DEF SchedInv, TypeOK, SetTaskPriority, WellFormed
<1>3. LinkedOnce' BY <1>1 DEF SchedInv, LinkedOnce, SetTaskPriority
<1>4. NoTaskDropped' BY <1>1 DEF SchedInv, NoTaskDropped, SetTaskPriority
<1>5. (BlockedIffWaiting /\ PcAgrees /\ BudgetAgrees /\ NoLostWakeup)'
  BY DEF SchedInv, SetTaskPriority, BlockedIffWaiting, PcAgrees, BudgetAgrees, NoLostWakeup
<1>6. (LeavesWhenBlocked /\ SyscallMasked)'
  BY DEF SchedInv, SetTaskPriority, LeavesWhenBlocked, SyscallMasked, InThread
<1> QED BY <1>2, <1>3, <1>4, <1>5, <1>6 DEF SchedInv

\* A consumer's own check before its wait keeps the invariant.
LEMMA CheckCondInv ==
    ASSUME SchedInv, NEW w \in Waitqs, NEW b \in Budgets, CheckCond(w, b)
    PROVE  SchedInv'
<1>0. curr \in Tasks /\ curr \in Waiters[w] /\ curr # Idle /\ b \in Nat
  BY SchedAssumption DEF SchedInv, TypeOK, CheckCond
<1>1. (LinkedOnce /\ BlockedIffWaiting)'
  BY DEF SchedInv, CheckCond, LinkedOnce, BlockedIffWaiting
<1>2. CASE cond[w] /\ cond' = [cond EXCEPT ![w] = FALSE] /\ UNCHANGED callVars
  <2>1. TypeOK' BY <1>2 DEF SchedInv, TypeOK, CheckCond
  <2>2. (NoTaskDropped /\ PcAgrees /\ BudgetAgrees /\ LeavesWhenBlocked)'
    BY <1>2 DEF SchedInv, CheckCond, NoTaskDropped, PcAgrees, BudgetAgrees, LeavesWhenBlocked
  <2>3. \A v \in Waitqs : cond'[v] => cond[v] BY <1>2 DEF SchedInv, TypeOK
  <2>4. SyscallMasked'
    BY <1>2, <2>3 DEF SchedInv, CheckCond, SyscallMasked, InThread, PcAgrees
  <2>5. NoLostWakeup' BY <1>2, <2>3 DEF SchedInv, CheckCond, NoLostWakeup
  <2> QED BY <1>1, <2>1, <2>2, <2>4, <2>5 DEF SchedInv
<1>3. CASE /\ ~cond[w]
           /\ pc' = [pc EXCEPT ![curr] = "check"]
           /\ target' = [target EXCEPT ![curr] = w]
           /\ budget' = [budget EXCEPT ![curr] = b]
           /\ UNCHANGED cond
  <2>0. pc[curr] = "run" /\ InThread /\ UNCHANGED <<rqVars, waitVars, lifeVars, phase, waking>>
    BY DEF CheckCond
  <2>1. TypeOK'
    <3>1. pc' \in [Tasks -> PCs] BY <1>0, <1>3 DEF SchedInv, TypeOK, PCs
    <3>2. target' \in [Tasks -> Waitqs \cup {NoWaitq}] /\ budget' \in [Tasks -> Nat]
      BY <1>0, <1>3 DEF SchedInv, TypeOK
    <3> QED BY <1>3, <2>0, <3>1, <3>2 DEF SchedInv, TypeOK
  <2>2. \A x \in Tasks : /\ pc'[x] = IF x = curr THEN "check" ELSE pc[x]
                         /\ target'[x] = IF x = curr THEN w ELSE target[x]
                         /\ budget'[x] = IF x = curr THEN b ELSE budget[x]
    BY <1>0, <1>3 DEF SchedInv, TypeOK
  <2>3. NoTaskDropped' BY <2>0, <2>2 DEF SchedInv, NoTaskDropped
  <2>4. PcAgrees' BY <1>0, <2>0, <2>2, TaskAssumption DEF SchedInv, PcAgrees
  <2>5. BudgetAgrees' BY <2>0, <2>2 DEF SchedInv, BudgetAgrees
  <2>6. LeavesWhenBlocked' BY <1>0, <2>0, <2>2 DEF SchedInv, LeavesWhenBlocked
  <2>7. SyscallMasked' BY <1>3, <2>0, <2>2 DEF SchedInv, SyscallMasked, InThread
  <2>8. NoLostWakeup' BY <1>3, <2>0, <2>2 DEF SchedInv, NoLostWakeup
  <2> QED BY <1>1, <2>1, <2>3, <2>4, <2>5, <2>6, <2>7, <2>8 DEF SchedInv
<1> QED BY <1>2, <1>3 DEF CheckCond

\* Linking the running task on a wait queue whose condition is false.
LEMMA RegisterInv ==
    ASSUME SchedInv, InThread, pc[curr] = "check", ~cond[target[curr]],
           Register(curr, target[curr], budget[curr]),
           pc' = [pc EXCEPT ![curr] = "parked"],
           UNCHANGED <<remaining, curr, need_resched, target, budget, lifeVars, cond, phase, waking>>
    PROVE  SchedInv'
<1> DEFINE w == target[curr]
           b == budget[curr]
<1>0. /\ curr \in Tasks /\ curr # Idle /\ w \in Waitqs /\ curr \in Waiters[w]
      /\ b \in Nat /\ wait_q[curr] = NoWaitq
  BY DEF SchedInv, TypeOK, PcAgrees
<1>1. ListInv BY DEF SchedInv, ListInv
<1>2. /\ LinkedOnce' /\ BlockedIffWaiting'
      /\ queues' \in [Levels -> Seq(Tasks)]
      /\ waiters' \in [Waitqs -> Seq(Tasks)]
      /\ deadline_list' \in Seq(Tasks)
      /\ \A x : OnQueue(queues', x) <=> OnQueue(queues, x) /\ x # curr
      /\ ToSet(deadline_list') = IF b > 0 THEN ToSet(deadline_list) \cup {curr}
                                 ELSE ToSet(deadline_list)
  BY <1>0, <1>1, RegisterLists
<1>3. \A x \in Tasks : /\ pc'[x] = IF x = curr THEN "parked" ELSE pc[x]
                       /\ wait_q'[x] = IF x = curr THEN w ELSE wait_q[x]
                       /\ wait_woken'[x] = IF x = curr THEN FALSE ELSE wait_woken[x]
  BY <1>0 DEF SchedInv, TypeOK, Register
<1>4. TypeOK'
  <2>1. pc' \in [Tasks -> PCs] BY <1>0 DEF SchedInv, TypeOK, PCs
  <2>2. /\ wait_q' \in [Tasks -> Waitqs \cup {NoWaitq}]
        /\ wait_woken' \in [Tasks -> BOOLEAN]
        /\ ticks_left' \in [Tasks -> Nat]
        /\ state' \in [Tasks -> {"READY", "RUNNING", "BLOCKED"}]
    BY <1>0 DEF SchedInv, TypeOK, Register
  <2> QED BY <1>2, <2>1, <2>2 DEF SchedInv, TypeOK
<1>5. NoTaskDropped'
  BY <1>0, <1>2, <1>3, SchedAssumption DEF SchedInv, NoTaskDropped
<1>6. PcAgrees'
  <2>1. Idle \in Tasks /\ NoWaitq \notin Waitqs BY TaskAssumption, SchedAssumption
  <2>2. ASSUME NEW x \in Tasks
        PROVE  /\ wait_q'[x] # NoWaitq => /\ pc'[x] \in {"parked", "return", "dead", "freed"}
                                         /\ x \in Waiters[wait_q'[x]]
               /\ pc'[x] \in {"check", "parked", "return"} =>
                     target'[x] \in Waitqs /\ x \in Waiters[target'[x]]
               /\ pc'[x] = "wake" => target'[x] \in Waitqs
               /\ exited'[x] <=> pc'[x] \in {"dead", "freed"}
               /\ pending'[x] => x \notin Kthreads
    <3>1. CASE x = curr
      <4>1. pc'[x] = "parked" /\ wait_q'[x] = w /\ target'[x] = w BY <1>0, <1>3, <3>1
      <4>2. exited'[x] = exited[x] /\ pending'[x] = pending[x] OBVIOUS
      <4> HIDE DEF w
      <4> QED BY <1>0, <3>1, <4>1, <4>2 DEF SchedInv, PcAgrees
    <3>2. CASE x # curr BY <1>3, <3>2 DEF SchedInv, PcAgrees
    <3> QED BY <3>1, <3>2
  <2>3. pc'[Idle] = "run" BY <1>0, <1>3, <2>1 DEF SchedInv, PcAgrees
  <2> QED BY <2>2, <2>3 DEF PcAgrees
<1>7. BudgetAgrees'
  <2>1. NoWaitq \notin Waitqs BY SchedAssumption
  <2>2. curr \notin ToSet(deadline_list) BY <1>0 DEF SchedInv, BlockedIffWaiting
  <2>3. ASSUME NEW x \in Tasks, pc'[x] \in {"parked", "return"}
        PROVE  /\ x \in ToSet(deadline_list') => budget'[x] > 0
               /\ wait_q'[x] = NoWaitq /\ ~wait_woken'[x] => budget'[x] > 0
    <3>1. CASE x = curr BY <1>0, <1>2, <1>3, <2>1, <2>2, <3>1
    <3>2. CASE x # curr BY <1>2, <1>3, <2>3, <3>2 DEF SchedInv, BudgetAgrees
    <3> QED BY <3>1, <3>2
  <2> QED BY <2>3 DEF BudgetAgrees
<1>8. LeavesWhenBlocked' BY <1>0, <1>3 DEF LeavesWhenBlocked
<1>9. SyscallMasked' BY <1>3 DEF SchedInv, SyscallMasked, InThread
<1>10. NoLostWakeup'
  <2>1. \A v \in Waitqs : v # w => waiters'[v] = waiters[v]
    BY <1>0 DEF SchedInv, TypeOK, Register
  <2>2. \A x \in Tasks : pc[x] = "wake" => pc'[x] = "wake" BY <1>3
  <2> QED BY <2>1, <2>2 DEF SchedInv, NoLostWakeup
<1> QED BY <1>2, <1>4, <1>5, <1>6, <1>7, <1>8, <1>9, <1>10 DEF SchedInv

\* Both kinds of wait keep the invariant: the predicate is tested again, or the
\* wait has a deadline.
LEMMA WaitInv ==
    ASSUME SchedInv, WaitUnless \/ WaitWithDeadline
    PROVE  SchedInv'
<1>0. curr \in Tasks BY DEF SchedInv, TypeOK
<1>1. CASE WaitUnless /\ cond[target[curr]]
  <2>0. /\ pc' = [pc EXCEPT ![curr] = "run"]
        /\ target' = [target EXCEPT ![curr] = NoWaitq]
        /\ budget' = [budget EXCEPT ![curr] = 0]
        /\ pc[curr] = "check" /\ InThread
        /\ UNCHANGED <<rqVars, waitVars, lifeVars, cond, phase, waking>>
    BY <1>1 DEF WaitUnless
  <2>1. TypeOK' BY <1>0, <2>0 DEF SchedInv, TypeOK, PCs
  <2>2. \A x \in Tasks : /\ pc'[x] = IF x = curr THEN "run" ELSE pc[x]
                         /\ target'[x] = IF x = curr THEN NoWaitq ELSE target[x]
                         /\ budget'[x] = IF x = curr THEN 0 ELSE budget[x]
    BY <1>0, <2>0 DEF SchedInv, TypeOK
  <2>3. (LinkedOnce /\ BlockedIffWaiting)' BY <2>0 DEF SchedInv, LinkedOnce, BlockedIffWaiting
  <2>4. NoTaskDropped' BY <1>0, <2>0, <2>2 DEF SchedInv, NoTaskDropped
  <2>5. PcAgrees'
    <3>1. Idle \in Tasks /\ pc'[Idle] = "run"
      BY <1>0, <2>0, <2>2, TaskAssumption DEF SchedInv, PcAgrees
    <3>2. ASSUME NEW x \in Tasks
          PROVE  /\ wait_q'[x] # NoWaitq => /\ pc'[x] \in {"parked", "return", "dead", "freed"}
                                           /\ x \in Waiters[wait_q'[x]]
                 /\ pc'[x] \in {"check", "parked", "return"} =>
                       target'[x] \in Waitqs /\ x \in Waiters[target'[x]]
                 /\ pc'[x] = "wake" => target'[x] \in Waitqs
                 /\ exited'[x] <=> pc'[x] \in {"dead", "freed"}
                 /\ pending'[x] => x \notin Kthreads
      <4>1. CASE x = curr BY <2>0, <2>2, <4>1 DEF SchedInv, PcAgrees
      <4>2. CASE x # curr BY <2>0, <2>2, <4>2 DEF SchedInv, PcAgrees
      <4> QED BY <4>1, <4>2
    <3> QED BY <3>1, <3>2 DEF PcAgrees
  <2>6. BudgetAgrees' BY <2>0, <2>2 DEF SchedInv, BudgetAgrees
  <2>7. LeavesWhenBlocked' BY <1>0, <2>0, <2>2 DEF SchedInv, LeavesWhenBlocked
  <2>8. SyscallMasked' BY <2>0, <2>2 DEF SchedInv, SyscallMasked, InThread
  <2>9. NoLostWakeup' BY <2>0, <2>2 DEF SchedInv, NoLostWakeup
  <2> QED BY <2>1, <2>3, <2>4, <2>5, <2>6, <2>7, <2>8, <2>9 DEF SchedInv
<1>2. CASE WaitUnless /\ ~cond[target[curr]]
  BY <1>2, RegisterInv DEF WaitUnless
<1>3. CASE WaitWithDeadline
  <2>1. ~cond[target[curr]] BY <1>0, <1>3 DEF SchedInv, SyscallMasked, WaitWithDeadline
  <2> QED BY <1>3, <2>1, RegisterInv DEF WaitWithDeadline
<1> QED BY <1>1, <1>2, <1>3

\* Steps that change only where the running task is in its code (pc, target,
\* budget), its need_resched flag and the phase.
LEMMA ParkYieldInv ==
    ASSUME SchedInv, ParkYield
    PROVE  SchedInv'
<1>0. curr \in Tasks /\ curr # Idle /\ pc[curr] = "parked" /\ InThread
  BY DEF SchedInv, TypeOK, PcAgrees, ParkYield
<1>1. TypeOK' BY <1>0 DEF SchedInv, TypeOK, PCs, ParkYield
<1>2. \A x \in Tasks : /\ pc'[x] = IF x = curr THEN "return" ELSE pc[x]
                       /\ need_resched'[x] = IF x = curr THEN TRUE ELSE need_resched[x]
  BY <1>0 DEF SchedInv, TypeOK, ParkYield
<1>3. (LinkedOnce /\ BlockedIffWaiting)' BY DEF SchedInv, LinkedOnce, BlockedIffWaiting, ParkYield
<1>4. NoTaskDropped' BY <1>0, <1>2 DEF SchedInv, NoTaskDropped, ParkYield
<1>5. PcAgrees' BY <1>0, <1>2 DEF SchedInv, PcAgrees, ParkYield
<1>6. BudgetAgrees' BY <1>0, <1>2 DEF SchedInv, BudgetAgrees, ParkYield
<1>7. LeavesWhenBlocked' BY <1>0, <1>2 DEF SchedInv, LeavesWhenBlocked, ParkYield
<1>8. SyscallMasked'
  <2>1. ASSUME NEW x \in Tasks \ Kthreads PROVE pc'[x] \notin {"check", "parked", "wake"}
    BY <1>0, <1>2 DEF SchedInv, SyscallMasked
  <2> QED BY <2>1 DEF SyscallMasked
<1>9. NoLostWakeup' BY <1>0, <1>2 DEF SchedInv, NoLostWakeup, ParkYield
<1> QED BY <1>1, <1>3, <1>4, <1>5, <1>6, <1>7, <1>8, <1>9 DEF SchedInv

\* The return from a wait keeps the invariant.
LEMMA WaitReturnInv ==
    ASSUME SchedInv, WaitReturn
    PROVE  SchedInv'
<1>0. curr \in Tasks /\ curr # Idle /\ pc[curr] = "return" /\ InThread
  BY DEF SchedInv, TypeOK, PcAgrees, WaitReturn
<1>1. wait_q[curr] = NoWaitq BY <1>0 DEF SchedInv, LeavesWhenBlocked, InThread
<1>2. TypeOK' BY <1>0 DEF SchedInv, TypeOK, PCs, WaitReturn
<1>3. \A x \in Tasks : /\ pc'[x] = IF x = curr THEN "run" ELSE pc[x]
                       /\ target'[x] = IF x = curr THEN NoWaitq ELSE target[x]
                       /\ budget'[x] = IF x = curr THEN 0 ELSE budget[x]
  BY <1>0 DEF SchedInv, TypeOK, WaitReturn
<1>4. (LinkedOnce /\ BlockedIffWaiting)' BY DEF SchedInv, LinkedOnce, BlockedIffWaiting, WaitReturn
<1>5. NoTaskDropped' BY <1>0, <1>3 DEF SchedInv, NoTaskDropped, WaitReturn
<1>6. PcAgrees' BY <1>0, <1>1, <1>3 DEF SchedInv, PcAgrees, WaitReturn
<1>7. BudgetAgrees' BY <1>0, <1>3 DEF SchedInv, BudgetAgrees, WaitReturn
<1>8. LeavesWhenBlocked' BY <1>0, <1>3 DEF SchedInv, LeavesWhenBlocked, WaitReturn
<1>9. SyscallMasked' BY <1>0, <1>3 DEF SchedInv, SyscallMasked, WaitReturn, InThread
<1>10. NoLostWakeup' BY <1>0, <1>3 DEF SchedInv, NoLostWakeup, WaitReturn
<1> QED BY <1>2, <1>4, <1>5, <1>6, <1>7, <1>8, <1>9, <1>10 DEF SchedInv
==============================================================================
