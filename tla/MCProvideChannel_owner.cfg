CONSTANTS
    f1 = f1  f2 = f2  a1 = a1  d1 = d1
    None = None
    Files <- TwoFiles
    Attaches <- Nothing
    Detaches <- Nothing
    Capabilities <- HttpOnly
    FaultSets <- AllFaults
    MaxId = 2
SPECIFICATION Spec
\* the ids run out, the queue is destroyed, the worker dies
CHECK_DEADLOCK FALSE
INVARIANTS NoDanglingOwner
