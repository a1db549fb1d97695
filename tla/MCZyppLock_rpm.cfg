CONSTANTS
    p1 = p1
    p2 = p2
    u1 = u1
    h1 = h1
    h2 = h2
    None = None
    Proc <- MCProc
    Helper <- MCHelper
    Users <- MCUsers
    LockTimeout = "finite"
    PidReuse = FALSE
    MaxRefs = 1
SPECIFICATION Spec
INVARIANT OnlyOneRpm
