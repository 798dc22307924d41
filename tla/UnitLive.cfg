\* What must happen under systemd, when fork and poll succeed.  Two pids: a
\* greeter and a session are all the children one life has at a time.
SPECIFICATION UnitLiveSpec
CONSTANTS
    Pids = {p1, p2}
    NoPid = NoPid
    SyscallsMayFail = FALSE
    SigpipeMayKill = FALSE
    GreeterCommand = TRUE
    StartLimitBurst = 2
PROPERTIES
    SeatServed
    StopCompletes
