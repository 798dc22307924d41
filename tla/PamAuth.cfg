\* Two objects (the greeter's and a login's) over three handles, so that a
\* handle the library still holds something for can be left behind.
SPECIFICATION Spec
CONSTANTS
    Objects = {greeter_pam, login_pam}
    Handles = {h1, h2, h3}
    NoHandle = nullptr
INVARIANTS
    TypeOK
    FlagsMirrorLibrary
    NothingOutlivesHandle
    OneOwner
PROPERTY ImplementsGrants
