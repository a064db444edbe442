\* A kernel thread and a user task call the same services; two admins.
SPECIFICATION Spec
CONSTANTS
    c1 = c1
    c2 = c2
    c3 = c3
    s1 = s1
    s2 = s2
    a1 = a1
    a2 = a2
    Callers = {c1, c2}
    Kcallers = {c2}
    Killable = {}
    Services = {s1, s2}
    Policy <- Mixed
    Spares <- OneSpare
    Admins = {a1, a2}
    Aborts = {"send", "req"}
    Results = {"OK", "EBUSY"}
    Deaf <- DeafSpare
    PoolSize = 2
    NoLeg = NoLeg
    NoSlot = NoSlot
INVARIANTS
    InFlightExact
    AtMostOnce
PROPERTIES
    ReplacedQuiet
CHECK_DEADLOCK FALSE
