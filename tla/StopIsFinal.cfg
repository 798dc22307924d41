\* Fails: run() sets m_running after a signal that arrived during init().
SPECIFICATION Spec
CONSTANTS
    Pids = {p1, p2, p3}
    NoPid = NoPid
    SyscallsMayFail = FALSE
    SigpipeMayKill = FALSE
    GreeterCommand = TRUE
INVARIANT StopIsFinal
