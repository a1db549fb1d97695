CONSTANTS
    a1 = a1
    a2 = a2
    a3 = a3
    u1 = u1
    u2 = u2
    NoMaster = NoMaster
    Item <- MCItem
    Url <- MCUrl
    UrlsOf <- MCUrlsOf
    f1 = f1
    f2 = f2
    NoFile = NoFile
    File <- MCFile
    Setup <- MCSetup
    Broken <- MCBroken
    Transactions <- LiveTransactions
    PipeSize = 2
    Plans <- MCPlans
    p1 = p1
    p2 = p2
    Program <- MCProgram
    Builder <- MCBuilder
    MaxVersion = 2
    r1 = r1
    r2 = r2
    r3 = r3
    r4 = r4
    h1 = h1
    h2 = h2
    h3 = h3
    None = None
    Request = {r1, r2, r3}
    Mirror = {h1, h2, h3}
    Origin <- ThreeFiles
    MaxConnPerHost = 1
    MaxConn = 2
    MaxWorkers = 2
    Failures = {"cancel", "die", "nostart"}
    Number = {1, 2}
    Drives = 3
    Machines <- MCMachines
    Download = {1, 2}
    MaxConnections = 2
    Wanted <- FewWanted
    MirrorsOf <- MCMirrorsOf
    MaxAuth = 1
    v1 = v1
    v2 = v2
    v3 = v3
    PoolItem = {v1, v2, v3}
    NoneChosen = NoneChosen
    Pools <- MCPools
    Parts = {"media"}
SPECIFICATION LibrarySpec
INVARIANT ProvidedIsDesired
CHECK_DEADLOCK FALSE
