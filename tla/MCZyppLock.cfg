CONSTANTS
    p1 = p1
    p2 = p2
    u1 = u1
    h1 = h1
    h2 = h2
    None = None
    Proc <- MCProc
    Helper <- MCHelper
    Users <- MCUsers
    LockTimeout = "finite"
    PidReuse = TRUE
    MaxRefs = 2
SPECIFICATION FairSpec
INVARIANTS TypeOK MutualExclusion OwnerRecorded InstanceBacked
PROPERTIES ImplementsMutex NoFalseOwner NeverBlockedByTheDead
