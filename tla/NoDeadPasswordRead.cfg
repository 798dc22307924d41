\* Fails: PAM_CONV still points into authenticate()'s frame after it returned.
SPECIFICATION Spec
CONSTANTS
    Objects = {greeter_pam, login_pam}
    Handles = {h1, h2, h3}
    NoHandle = nullptr
INVARIANT NoDeadPasswordRead
