---------------------------- MODULE ProvideSched ----------------------------
(***************************************************************************)
(* The scheduler of the media provider for downloading workers             *)
(* (ProvidePrivate::doSchedule() in provide.cc) with the items that ask for *)
(* files (ProvideFileItem in provideitem.cc).  One item has one request,   *)
(* which may be sent to any mirror of its origin; each mirror has a host of *)
(* its own, and the provider keeps one worker queue per host.              *)
(*                                                                         *)
(* A worker queue is what ProvideQueue shows of it: requests under way,    *)
(* some of them cancelled (None), which no answer ever removes; requests   *)
(* that wait, which a downloading worker only has when it is shut down.    *)
(*                                                                         *)
(* One run of doSchedule() is a sequence of steps, one per request of the  *)
(* queue; nothing but a new call of provide() comes in between.            *)
(***************************************************************************)
EXTENDS Naturals, Sequences, SequencesExt, FiniteSets

CONSTANTS
    Request,          \* the requests, with their items
    Mirror,           \* URLs, each with a host of its own
    Origin,           \* origin of a request: authority first, then mirrors
    None,             \* a cancelled request; no queue
    MaxConnPerHost,   \* DEFAULT_ACTIVE_CONN_PER_HOST
    MaxConn,          \* DEFAULT_ACTIVE_CONN
    MaxWorkers,       \* DEFAULT_MAX_DYNAMIC_WORKERS
    Failures          \* what may go wrong

ASSUME OriginType == /\ Origin \in [Request -> Seq(Mirror)]
                     /\ \A r \in Request : Origin[r] # <<>> /\ IsInjective(Origin[r])
ASSUME NoneIsNone == None \notin Request \cup Mirror
ASSUME MirrorsAreFinite == IsFiniteSet(Mirror)
ASSUME LimitsArePositive == {MaxConnPerHost, MaxConn, MaxWorkers} \subseteq Nat \ {0}
ASSUME FailuresAreKnown ==
    Failures \subseteq { "cancel",  \* owners drop the result they wait for
                         "die",     \* worker processes die
                         "nostart", \* a worker process can not be started
                         "missing" } \* a mirror lacks a file, is down, ...

VARIABLES
    item,       \* state of the items; "running": _runningReq is set
    newItems,   \* the uninitialized ones in _items
    tried,      \* _pastRedirects: the mirrors a request was sent to
    requests,   \* _requests of the scheme: what is to be scheduled
    queueOf,    \* currentQueue() of a request
    workers,    \* _workerQueues, by host
    idle,       \* hosts of the queues with an _idleSince, the oldest first
    trigger,    \* _scheduleTrigger will fire
    pos         \* position of the loop in requests; 0: not scheduling

schedVars == <<item, newItems, tried, requests, queueOf, workers, idle, trigger, pos>>

WorkerType == [ state  : {"none", "up", "dead"},
                active : Seq(Request \cup {None}),
                wait   : Seq(Request) ]

NoWorker == [state |-> "none", active |-> <<>>, wait |-> <<>>]

SchedInit ==
    /\ item = [r \in Request |-> "none"] /\ newItems = <<>>
    /\ tried = [r \in Request |-> {}]
    /\ requests = <<>>
    /\ queueOf = [r \in Request |-> None]
    /\ workers = [m \in Mirror |-> NoWorker]
    /\ idle = <<>>
    /\ trigger = FALSE /\ pos = 0

-----------------------------------------------------------------------------
(* The worker queues                                                        *)

Existing == {m \in Mirror : workers[m].state # "none"}

RequestCount(m) == Len(workers[m].active) + Len(workers[m].wait)

IsIdle(m) == m \in Existing /\ RequestCount(m) = 0

\* enqueue(): a queue that was shut down keeps the request and never sends it.
Enqueued(w, r) ==
    IF w.state = "dead" THEN [w EXCEPT !.wait = Append(@, r)]
    ELSE [w EXCEPT !.state = "up", !.active = Append(@, r)]

-----------------------------------------------------------------------------
(* The items                                                                *)

\* provide(): queueItem().  Possible at any time: what runs during doSchedule(),
\* like the callbacks of items that end, may ask for more files.
ProvideFile(r) ==
    /\ item[r] = "none"
    /\ item' = [item EXCEPT ![r] = "new"]
    /\ newItems' = Append(newItems, r)
    /\ trigger' = TRUE
    /\ UNCHANGED <<tried, requests, queueOf, workers, idle, pos>>

\* The item has got a result that ends it.
End(r) == item' = [item EXCEPT ![r] = IF @ = "running" THEN "ended" ELSE @]

\* finishReq() with an error that another mirror could help with: the request
\* is enqueued again.  But _runningReq still is this request, so that
\* enqueueRequest() returns true and does nothing.
Recover(r) ==
    IF \A k \in DOMAIN Origin[r] : Origin[r][k] \in tried[r]
    THEN End(r)
    ELSE UNCHANGED item

-----------------------------------------------------------------------------
(* Answers and the end of workers                                           *)

\* Mutant: nobody tells the scheduler.
DequeueSilently(m, r) ==
    /\ workers' = [workers EXCEPT ![m].active = RemoveFirst(@, r)]
    /\ idle' = IF workers'[m].active = <<>> THEN Append(RemoveFirst(idle, m), m) ELSE idle
    /\ queueOf' = [queueOf EXCEPT ![r] = None]
    /\ UNCHANGED trigger

\* dequeueActive(): the request is out of the worker queue, which may be idle
\* now; the scheduler is triggered.
Dequeue(m, r) ==
    /\ workers' = [workers EXCEPT ![m].active = RemoveFirst(@, r)]
    /\ idle' = IF workers'[m].active = <<>> THEN Append(RemoveFirst(idle, m), m) ELSE idle
    /\ queueOf' = [queueOf EXCEPT ![r] = None]
    /\ trigger' = TRUE

\* The worker answers.  A request that was enqueued twice has the id of the
\* last time, the answer of another queue is not recognised.
Answer(m, r) ==
    /\ pos = 0
    /\ workers[m].state = "up" /\ r \in ToSet(workers[m].active) /\ queueOf[r] = m
    /\ End(r) \/ ("missing" \in Failures /\ Recover(r))
    /\ Dequeue(m, r)
    /\ UNCHANGED <<newItems, tried, requests, pos>>

\* Mutant: the owners are not told.
DieSilently(m) ==
    /\ pos = 0 /\ "die" \in Failures
    /\ workers[m].state = "up"
    /\ LET told == ToSet(workers[m].active)
       IN  queueOf' = [r \in Request |-> IF r \in told THEN None ELSE queueOf[r]]
    /\ workers' = [workers EXCEPT
                     ![m].state = "dead", ![m].active = [k \in DOMAIN @ |-> None]]
    /\ UNCHANGED <<item, newItems, tried, requests, idle, trigger, pos>>

\* The worker dies: immediateShutdown() tells the items.  Neither is the queue
\* removed nor the scheduler triggered.
Die(m) ==
    /\ pos = 0 /\ "die" \in Failures
    /\ workers[m].state = "up"
    /\ LET told == ToSet(workers[m].active)
       IN  /\ item' = [r \in Request |-> IF r \in told /\ item[r] = "running"
                                     THEN "ended" ELSE item[r]]
           /\ queueOf' = [r \in Request |-> IF r \in told THEN None ELSE queueOf[r]]
    /\ workers' = [workers EXCEPT
                     ![m].state = "dead", ![m].active = [k \in DOMAIN @ |-> None]]
    /\ UNCHANGED <<newItems, tried, requests, idle, trigger, pos>>

\* ~IOTaskAwaiter calls released(): the item ends, and dequeueRequest() takes the
\* request from wherever it is.  A request under way is only blanked.
ReleaseFile(r) ==
    /\ pos = 0 /\ "cancel" \in Failures
    /\ item[r] \in {"new", "running"}
    /\ item' = [item EXCEPT ![r] = "gone"]
    /\ newItems' = RemoveFirst(newItems, r)
    /\ LET m == queueOf[r]
       IN  IF m = None
           THEN /\ requests' = RemoveFirst(requests, r)
                /\ UNCHANGED <<workers, trigger>>
           ELSE /\ workers' = [workers EXCEPT
                        ![m].wait   = RemoveFirst(@, r),
                        ![m].active = [k \in DOMAIN @ |-> IF @[k] = r THEN None ELSE @[k]]]
                /\ trigger' = (trigger \/ r \in ToSet(workers[m].wait))
                /\ UNCHANGED requests
    /\ queueOf' = [queueOf EXCEPT ![r] = None]
    /\ UNCHANGED <<tried, idle, pos>>

-----------------------------------------------------------------------------
(* doSchedule()                                                             *)

\* The timer fires: new items put their request into the queue, and what
\* triggered the timer so far is forgotten.
BeginSchedule ==
    /\ trigger /\ pos = 0
    /\ trigger' = FALSE /\ pos' = 1
    /\ item' = [r \in Request |-> IF r \in ToSet(newItems) THEN "running" ELSE item[r]]
    /\ requests' = requests \o newItems
    /\ newItems' = <<>>
    /\ UNCHANGED <<tried, queueOf, workers, idle>>

\* Mutant: the timer is stopped when the loop is done.
EndAndForget ==
    /\ pos > Len(requests)
    /\ pos' = 0 /\ trigger' = FALSE
    /\ UNCHANGED <<item, newItems, tried, requests, queueOf, workers, idle>>

EndSchedule ==
    /\ pos > Len(requests)
    /\ pos' = 0
    /\ UNCHANGED <<item, newItems, tried, requests, queueOf, workers, idle, trigger>>

Scheduling == pos \in DOMAIN requests

\* The request that is scheduled, and the URLs it may be sent to, as positions in
\* its origin.
Current     == requests[pos]
MirrorAt(k) == Origin[Current][k]
Usable      == {k \in DOMAIN Origin[Current] : MirrorAt(k) \notin tried[Current]}

\* Usable mirrors by the state of their worker queue.
WithoutWorker == {k \in Usable : MirrorAt(k) \notin Existing}

\* Mutant: off by one.
OpenOneMore ==
    {m \in {MirrorAt(k) : k \in Usable} \cap Existing : RequestCount(m) <= MaxConnPerHost}

OpenQueues ==
    {m \in {MirrorAt(k) : k \in Usable} \cap Existing : RequestCount(m) < MaxConnPerHost}

\* "Request has NO usable URLs".
NoUsableURL ==
    /\ Scheduling /\ Usable = {}
    /\ End(Current)
    /\ requests' = RemoveAt(requests, pos)
    /\ UNCHANGED <<newItems, tried, queueOf, workers, idle, trigger, pos>>

Connections == Cardinality(UNION {{m} \X DOMAIN workers[m].active : m \in Mirror})

MayConnect == Scheduling /\ Usable # {} /\ Connections < MaxConn

\* "need to wait for requests to finish in order to schedule more requests":
\* the loop is left.
TooManyConnections ==
    /\ Scheduling /\ Usable # {} /\ Connections >= MaxConn
    /\ pos' = 0
    /\ UNCHANGED <<item, newItems, tried, requests, queueOf, workers, idle, trigger>>

\* The current request is sent to the queue of the host m.
SendTo(m) ==
    /\ workers' = [workers EXCEPT ![m] = Enqueued(@, Current)]
    /\ queueOf' = [queueOf EXCEPT ![Current] = m]
    /\ idle' = IF workers[m].state = "dead" THEN idle ELSE RemoveFirst(idle, m)
    /\ requests' = RemoveAt(requests, pos)
    /\ UNCHANGED <<item, newItems, trigger, pos>>

FreeSlot == Cardinality(Existing) < MaxWorkers /\ WithoutWorker # {}
FirstMirror == MirrorAt(Min(WithoutWorker))

\* A free slot: start a worker for the first mirror that has none.
StartWorker ==
    /\ MayConnect /\ FreeSlot
    /\ tried' = [tried EXCEPT ![Current] = @ \cup {FirstMirror}]
    /\ SendTo(FirstMirror)

\* What was tried before the loop comes to the existing queues: nothing, or
\* the mirror whose worker could not be started.
TriedBefore ==
    IF ~FreeSlot THEN {{}}
    ELSE IF "nostart" \in Failures THEN {{FirstMirror}} ELSE {}

\* The existing queue with the fewest requests under way.
UseWorker ==
    /\ MayConnect /\ OpenQueues # {}
    /\ \E t \in TriedBefore, m \in OpenQueues :
        /\ \A n \in OpenQueues : Len(workers[m].active) <= Len(workers[n].active)
        /\ tried' = [tried EXCEPT ![Current] = @ \cup t \cup {m}]
        /\ SendTo(m)

\* The places of the idle queues, and the one that is idle for the longest time.
IdleQueues == {k \in DOMAIN idle : IsIdle(idle[k])}
Laziest    == idle[Min(IdleQueues)]

\* Nothing is left but to stop an idle queue and to start workers for the mirrors
\* that have none, all of them, until one can not be started.  (At position 0 of
\* the origin there is no mirror: none fails.)
ReplaceWorker ==
    /\ MayConnect /\ OpenQueues = {} /\ IdleQueues # {} /\ WithoutWorker # {}
    /\ \E t \in TriedBefore :
        LET left == {k \in WithoutWorker : MirrorAt(k) \notin t}
        IN  \E failed \in (IF "nostart" \in Failures THEN left ELSE {}) \cup {0} :
            LET started == {k \in left : failed # 0 => k < failed}
            IN  /\ tried' = [tried EXCEPT ![Current] =
                                @ \cup t \cup {MirrorAt(k) : k \in started \cup ({failed} \ {0})}]
                /\ workers' = [m \in Mirror |->
                                IF m \in {MirrorAt(k) : k \in started} THEN Enqueued(NoWorker, Current)
                                ELSE IF m = Laziest THEN NoWorker ELSE workers[m]]
                /\ idle' = RemoveFirst(idle, Laziest)
                /\ \/ /\ started = {}
                      /\ pos' = pos + 1
                      /\ UNCHANGED <<queueOf, requests>>
                   \/ /\ started # {}
                      /\ queueOf' = [queueOf EXCEPT ![Current] = MirrorAt(Max(started))]
                      /\ requests' = RemoveAt(requests, pos)
                      /\ UNCHANGED pos
    /\ UNCHANGED <<item, newItems, trigger>>

\* "End of line, deferring request for next try."
Defer ==
    /\ MayConnect /\ OpenQueues = {} /\ (IdleQueues = {} \/ WithoutWorker = {})
    /\ \E t \in TriedBefore : tried' = [tried EXCEPT ![Current] = @ \cup t]
    /\ pos' = pos + 1
    /\ UNCHANGED <<item, newItems, requests, queueOf, workers, idle, trigger>>

Schedule ==
    \/ BeginSchedule \/ EndSchedule \/ NoUsableURL \/ TooManyConnections
    \/ StartWorker \/ UseWorker \/ ReplaceWorker \/ Defer

SchedNext ==
    \/ \E r \in Request : ProvideFile(r) \/ ReleaseFile(r)
    \/ \E m \in Mirror : Die(m) \/ \E r \in Request : Answer(m, r)
    \/ Schedule

SchedSpec == SchedInit /\ [][SchedNext]_schedVars

\* The event loop runs, and a living worker answers what it was sent.
SchedFairness ==
    /\ WF_schedVars(Schedule)
    /\ \A r \in Request : WF_schedVars(\E m \in Mirror : Answer(m, r))

-----------------------------------------------------------------------------
(* Properties                                                               *)

\* The type invariant: a request is queued once, and only while its item waits.
SchedTypeOK ==
    /\ item \in [Request -> {"none", "new", "running", "ended", "gone"}]
    /\ newItems \in Seq({r \in Request : item[r] = "new"}) /\ IsInjective(newItems)
    /\ tried \in [Request -> SUBSET Mirror]
    /\ requests \in Seq({r \in Request : item[r] = "running"}) /\ IsInjective(requests)
    /\ queueOf \in [Request -> Existing \cup {None}]
    /\ workers \in [Mirror -> WorkerType]
    /\ idle \in Seq(Existing) /\ IsInjective(idle)
    /\ trigger \in BOOLEAN /\ pos \in 0 .. Len(requests) + 1

\* The requests a living or a dead worker was sent, and not only cancelled ones.
UnderWay == {r \in Request : \E m \in Mirror : r \in ToSet(workers[m].active)}

\* No host is sent more requests than DEFAULT_ACTIVE_CONN_PER_HOST at a time,
\* whatever mixture of new, used and replaced workers serves it.
\* And there are never more than DEFAULT_ACTIVE_CONN requests under way, over all
\* hosts, although each request is only checked when it is scheduled.  (One that
\* is sent to several hosts when a worker is replaced counts once: of the
\* connections there may be more.)
ConnectionLimits ==
    /\ \A m \in Mirror : RequestCount(m) <= MaxConnPerHost
    /\ Cardinality(UnderWay) <= MaxConn

\* There are never more than DEFAULT_MAX_DYNAMIC_WORKERS workers.
WorkerLimit == Cardinality(Existing) <= MaxWorkers

\* An item that waits for its result has its request somewhere it can still
\* be answered from: to be scheduled, or held by a worker queue.  Sending,
\* deferring, replacing workers and their death never lose it.  (The request
\* written to a worker that is dead already is the channel's subject.)
RunningIsPlaced ==
    \A r \in Request : item[r] = "running" =>
        \/ r \in ToSet(requests)
        \/ \E m \in Mirror : r \in ToSet(workers[m].active \o workers[m].wait)

\* What the code has no answer to: a dead queue stays and takes requests; what
\* was cancelled, or sent to another queue as well, counts as a connection
\* forever; and after the failed start of a worker the request may be left with
\* no mirror to wait for.
Troubled ==
    \/ \E m \in Mirror :
          \/ workers[m].state = "dead"
          \/ \E x \in ToSet(workers[m].active) : x = None \/ queueOf[x] # m
    \/ \E r \in ToSet(requests) : tried[r] # {}

\* Between two runs of doSchedule() a deferred request, or an item not yet
\* initialized, has something that will start the next one: the timer, or the
\* answer to a request under way.  There is no other wake-up in the code.
DeferredHasWaker ==
    pos = 0 /\ requests \o newItems # <<>> /\ ~Troubled =>
        \/ trigger
        \/ \E m \in Mirror, r \in Request :
              workers[m].state = "up" /\ r \in ToSet(workers[m].active) /\ queueOf[r] = m

\* Every file that is asked for gets a result, with more files than connections
\* and more mirrors than workers, unless the owner drops it or one of the cases
\* of Troubled comes up.
EveryItemEnds ==
    \A r \in Request : item[r] \in {"new", "running"}
                   ~> item[r] \in {"ended", "gone"} \/ Troubled
=============================================================================
