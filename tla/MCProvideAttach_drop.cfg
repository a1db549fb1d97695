CONSTANTS
    a1 = a1
    a2 = a2
    a3 = a3
    u1 = u1
    u2 = u2
    NoMaster = NoMaster
    Item <- MCItem
    Url <- MCUrl
    UrlsOf <- MCUrlsOf
    f1 = f1
    f2 = f2
    NoFile = NoFile
    File <- MCFile
    Setup <- MCSetup
    Broken <- MCBroken
SPECIFICATION AttachSpec
INVARIANT NoDestroyedIsResumed
CHECK_DEADLOCK FALSE
