CONSTANTS
    Envs = {"default", "other"}
    Default = "default"
    p1 = p1
    p2 = p2
    p3 = p3
    r1 = r1
    r2 = r2
    Ports = {p1, p2, p3}
    Reserved <- MCReserved
    ValidatorNum = 0
    Base = 10
    MaxCmds = 3
SPECIFICATION Spec
SYMMETRY Symmetry
INVARIANTS
    TypeOK
    SharedPortsHaveCause
    UsedPortsAreCached
    CachedPortsAreUsed
    RunningIsConfigured
PROPERTY StopLeavesNone
CHECK_DEADLOCK FALSE
