\* A call held by a pause with the QUEUE policy.
SPECIFICATION Spec
CONSTANTS
    c1 = c1
    c2 = c2
    c3 = c3
    s1 = s1
    s2 = s2
    a1 = a1
    a2 = a2
    Callers = {c1}
    Kcallers = {}
    Killable = {}
    Services = {s1}
    Policy <- Mixed
    Spares <- OneSpare
    Admins = {a1}
    Aborts = {"send", "req"}
    Results = {"OK"}
    Deaf <- DeafSpare
    PoolSize = 2
    NoLeg = NoLeg
    NoSlot = NoSlot
PROPERTIES
    HeldCallerReleased
CHECK_DEADLOCK FALSE
