SPECIFICATION SchedSpec
CONSTANTS
    r1 = r1
    r2 = r2
    r3 = r3
    r4 = r4
    h1 = h1
    h2 = h2
    h3 = h3
    None = None
    Request = {r1}
    Mirror = {h1, h2}
    Origin <- Second
    MaxConnPerHost = 1
    MaxConn = 2
    MaxWorkers = 2
    Failures = {"missing"}
INVARIANT RunningIsPlaced
CHECK_DEADLOCK FALSE
