\* Three pids: a greeter left unreaped, a session and a greeter can coexist.
\* fork and poll may fail.
SPECIFICATION Spec
CONSTANTS
    Pids = {p1, p2, p3}
    NoPid = NoPid
    SyscallsMayFail = TRUE
    SigpipeMayKill = TRUE
    GreeterCommand = TRUE
INVARIANTS
    TypeOK
    SeatExclusive
    ChildrenTracked
    SessionIsAdmitted
    CleanExit
    PidsAreChildren
PROPERTIES
    GreeterPamOutlivesGreeter
    PamProtocol
    SeatRefinement
    LinkRefinement
