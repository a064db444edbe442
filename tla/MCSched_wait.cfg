SPECIFICATION FairSpec
CONSTANTS
    idle = idle
    disp = disp
    u1 = u1
    u2 = u2
    qd = qd
    qu = qu
    Tasks = {idle, disp, u1}
    Idle = idle
    NoTask = NoTask
    MaxLevel = 1
    Policy = "priority"
    Kthreads = {idle, disp}
    Waitqs = {qd, qu}
    NoWaitq = NoWaitq
    Waiters <- MCWaiters
    WakeOneQs = {qd}
    IsrQs = {qu}
    ExitQs = {qu}
    Budgets = {0, 1}
    Quantum = 1
    BootQueue <- MCBootQueue
    Killable = {u1}
    Reapers = {}
INVARIANTS TypeOK LinkedOnce BlockedIffWaiting NoTaskDropped WaitContract NoLostWakeup
PROPERTY DeadlineEnds
