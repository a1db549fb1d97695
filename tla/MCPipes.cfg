CONSTANTS
    f1 = f1  f2 = f2  a1 = a1  d1 = d1
    None = None
    Files <- TwoFiles
    Attaches <- OneAttach
    Detaches <- OneDetach
    Capabilities <- AllWorkers
    FaultSets <- AllFaults
    MaxId = 3
    Transactions <- MCTransactions
    PipeSize = 2
SPECIFICATION PipesSpec
\* the ids run out, the queue is destroyed, the worker dies, the commits are over
CHECK_DEADLOCK FALSE
INVARIANTS TypeOK ToldAtMostOnce WaitingIsHeld ActiveIsInFlight
INVARIANT BlockedOnlyByCancel
INVARIANTS LoggedIsDone ResultTellsTruth OutputInOrder
PROPERTY ImplementsService
