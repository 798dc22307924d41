\* What must happen, when fork and poll succeed and a greeter is configured.
SPECIFICATION LiveSpec
CONSTANTS
    Pids = {p1, p2, p3}
    NoPid = NoPid
    SyscallsMayFail = FALSE
    SigpipeMayKill = FALSE
    GreeterCommand = TRUE
PROPERTIES
    GreeterComesBack
    StopHonoured
    EveryRequestAnswered
    AdmittedGetsSession
