\* Three user tasks, one of which may be killed, can keep one service busy; one replacement.
SPECIFICATION SpecDispatcher
CONSTANTS
    c1 = c1
    c2 = c2
    c3 = c3
    s1 = s1
    s2 = s2
    a1 = a1
    a2 = a2
    Callers = {c1, c2, c3}
    Kcallers = {}
    Killable = {c1}
    Services = {s1}
    Policy <- Rejecting
    Spares <- OneSpare
    Admins = {a1}
    Aborts = {"send", "req"}
    Results = {"OK"}
    Deaf <- DeafSpare
    PoolSize = 3
    NoLeg = NoLeg
    NoSlot = NoSlot
INVARIANTS
    InFlightExact
    PoolSuffices
    DispatcherAwake
    ParkedIsOwedReply
    HandlerOnBoundImpl
PROPERTIES
    
    DrainSettles
CHECK_DEADLOCK FALSE
