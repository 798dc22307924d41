\* The unit as installed: two starts per interval.  Three pids as for Daemon.
SPECIFICATION UnitSpec
CONSTANTS
    Pids = {p1, p2, p3}
    NoPid = NoPid
    SyscallsMayFail = TRUE
    SigpipeMayKill = FALSE
    GreeterCommand = TRUE
    StartLimitBurst = 2
INVARIANTS
    UnitTypeOK
    SurvivorKeepsLogin
PROPERTIES
    OnlyTheKilledLeak
