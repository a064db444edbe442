SPECIFICATION FairSpec
CONSTANTS
    idle = idle
    disp = disp
    u1 = u1
    u2 = u2
    qd = qd
    qu = qu
    Tasks = {idle, disp, u1, u2}
    Idle = idle
    NoTask = NoTask
    MaxLevel = 0
    Policy = "rr"
    Kthreads = {idle, disp}
    Waitqs = {qd, qu}
    NoWaitq = NoWaitq
    Waiters <- MCDispWaits
    WakeOneQs = {qd}
    IsrQs = {qd}
    ExitQs = {qd}
    Budgets = {0}
    Quantum = 1
    BootQueue <- MCBootQueue
    Killable = {}
    Reapers = {u1}
INVARIANT NoTaskDropped
PROPERTY QueuedRuns
