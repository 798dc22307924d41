\* Fails: the daemon waits for the session to end by itself.
SPECIFICATION LiveSpec
CONSTANTS
    Pids = {p1, p2, p3}
    NoPid = NoPid
    SyscallsMayFail = FALSE
    SigpipeMayKill = FALSE
    GreeterCommand = TRUE
PROPERTY StopEndsSession
