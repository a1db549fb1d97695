---------------------------- MODULE ProvideQueue ----------------------------
(***************************************************************************)
(* The controller side of one worker (providequeue.cc): the wait queue, the *)
(* active items and the handlers of the worker's messages.                 *)
(*                                                                         *)
(* The functions of ProvideQueue call each other (a message handler        *)
(* dequeues, dequeuing schedules, scheduling may shut the queue down), so  *)
(* each is an operator from a queue record to a queue record.  A step of   *)
(* the event loop applies one of them; what it sends is collected in the   *)
(* field "out".  finishReq() of an owner is the increment of "told".       *)
(***************************************************************************)
EXTENDS ProvidePipe

VARIABLES
    queue,       \* the ProvideQueue and the owners of its requests
    nextId       \* ProvidePrivate::_nextRequestId

queueVars == <<queue, nextId>>

QueueType ==
    [ wait     : Seq(Req),             \* _waitQueue
      active   : Seq(Req \cup {None}), \* _activeItems; None: _request was reset
      id       : [Req -> Id],          \* requestId() of the message
      linked   : [Req -> BOOLEAN],     \* is currentQueue() this queue?
      shutting : BOOLEAN,              \* _queueShuttingDown
      canWrite : BOOLEAN,              \* _messageStream can still send
      deleted  : BOOLEAN,              \* the destructor has run
      owner    : [Req -> {"idle", "waits", "gone"}],
      told     : [Req -> Nat],         \* results since the last enqueue
      out      : Seq(ControllerMsg) ]  \* sent in the current step

QueueInit ==
    /\ queue = [ wait |-> <<>>, active |-> <<>>,
                 id |-> [r \in Req |-> InvalidId],
                 linked |-> [r \in Req |-> FALSE],
                 shutting |-> FALSE, canWrite |-> TRUE, deleted |-> FALSE,
                 owner |-> [r \in Req |-> IF r \in Detaches THEN "gone" ELSE "idle"],
                 told |-> [r \in Req |-> 0], out |-> <<>> ]
    /\ nextId = 1

-----------------------------------------------------------------------------
(* The functions of the class                                               *)

\* owner->finishReq( ... ) for the requests in R that have an owner.
Tell(q, R) ==
    [q EXCEPT !.told  = [r \in Req |-> IF r \in R \ Detaches THEN @[r] + 1 ELSE @[r]],
              !.owner = [r \in Req |-> IF r \in R /\ @[r] = "waits" THEN "idle" ELSE @[r]]]

\* Mutant: only the items that wait are told.
ShutdownWaitOnly(q) ==
    [Tell(q, ToSet(q.wait)) EXCEPT
        !.wait = <<>>, !.shutting = TRUE, !.canWrite = FALSE]

\* immediateShutdown(): everybody is told, active items are cancelled, and
\* the stdin of the worker is closed; waitForExit() returns when it is dead.
ImmediateShutdown(q) ==
    LET owned == ToSet(q.active) \ ({None} \cup Detaches)
    IN  [Tell(q, owned \cup ToSet(q.wait)) EXCEPT
            !.wait     = <<>>,
            !.active   = [i \in DOMAIN @ |-> IF @[i] \in owned THEN None ELSE @[i]],
            !.linked   = [r \in Req |-> @[r] /\ r \notin owned],
            !.shutting = TRUE,
            !.canWrite = FALSE]

\* _messageStream->sendMessage(); on failure fatalWorkerError().
SendOrShutdown(q, m) ==
    IF q.canWrite THEN [q EXCEPT !.out = Append(@, m)] ELSE ImmediateShutdown(q)

CanScheduleMore(q) == q.wait # <<>> /\ (q.active = <<>> \/ caps.pipeline)

\* Mutant: the head of the wait queue is sent but stays in the queue.
ScheduleWithoutPop(q) ==
    IF q.shutting \/ ~CanScheduleMore(q) THEN q
    ELSE IF ~q.canWrite THEN ImmediateShutdown([q EXCEPT !.wait = Tail(@)])
    ELSE [q EXCEPT !.active = @ \o SubSeq(q.wait, 1, 1),
                   !.out = Append(@, Msg("Request", q.id[Head(q.wait)], Head(q.wait)))]

\* scheduleNext(): the whole wait queue goes to a pipelining worker, else one
\* request.  If the first cannot be written, it was popped already.
ScheduleNext(q) ==
    LET n == IF caps.pipeline THEN Len(q.wait) ELSE 1
    IN  IF q.shutting \/ ~CanScheduleMore(q) THEN q
        ELSE IF ~q.canWrite THEN ImmediateShutdown([q EXCEPT !.wait = Tail(@)])
        ELSE [q EXCEPT
                !.wait   = SubSeq(@, n + 1, Len(@)),
                !.active = @ \o SubSeq(q.wait, 1, n),
                !.out    = @ \o [k \in 1..n |->
                                    Msg("Request", q.id[q.wait[k]], q.wait[k])]]

\* dequeueActive() of an item that has a request.
DequeueActive(q, i) ==
    ScheduleNext([q EXCEPT !.linked[q.active[i]] = FALSE, !.active = RemoveAt(@, i)])

\* The request has got its result: tell the owner and dequeue.
FinishActive(q, i) == DequeueActive(Tell(q, {q.active[i]}), i)

\* Mutant: the item keeps its request.
CancelKeepsRequest(q, i) ==
    LET r == q.active[i]
        sent == IF q.canWrite THEN <<Msg("Cancel", q.id[r], r)>> ELSE <<>>
    IN  [Tell(q, {r}) EXCEPT !.out = @ \o sent, !.linked[r] = FALSE]

\* cancelActiveItem(): tell the worker and the owner; the item stays among
\* the active ones, without its request.
CancelActiveItem(q, i) ==
    LET r == q.active[i]
        sent == IF q.canWrite THEN <<Msg("Cancel", q.id[r], r)>> ELSE <<>>
    IN  [Tell(q, {r}) EXCEPT !.out = @ \o sent,
                             !.linked[r] = FALSE, !.active[i] = None]

\* cancel(), called by dequeueRequest() for a request in this queue.
CancelRequest(q, r) ==
    IF r \in ToSet(q.wait)
    THEN [Tell(q, {r}) EXCEPT !.linked[r] = FALSE, !.wait = RemoveFirst(@, r)]
    ELSE IF r \in ToSet(q.active)
         THEN CancelActiveItem(q, SelectInSeq(q.active, LAMBDA x : x = r))
         ELSE q

\* Mutant: the request is dequeued but not queued again.
CacheMissDropped(q, i) == DequeueActive(q, i)

\* A cache hit whose file is gone: the request starts over, ahead of the
\* others, under the id InvalidId.  dequeueActive() then takes the queue
\* away from this very request.
CacheMiss(q, i) ==
    LET r == q.active[i]
    IN  DequeueActive([q EXCEPT !.id[r] = InvalidId, !.wait = <<r>> \o @], i)

\* Mutant: answers are expected in the order of the requests.
GetRequestInOrder(q, id) == SelectInSeq(q.active, LAMBDA r : r # None)

\* getRequest(): the active item of a message, 0 if there is none.
GetRequest(q, id) == SelectInSeq(q.active, LAMBDA r : r # None /\ q.id[r] = id)

-----------------------------------------------------------------------------
(* Steps of the event loop                                                  *)

\* The queue becomes q, what it sent is in the pipe.  After a shutdown the
\* worker has exited.
Become(q) ==
    /\ queue' = [q EXCEPT !.out = <<>>]
    /\ alive' = (alive /\ ~q.shutting)
    /\ toWorker' = IF q.shutting THEN <<>> ELSE toWorker \o q.out

\* A request that may come to this queue: its owner wants to have it done.
\* The scheduler refuses media requests for downloading workers.
\* A detach request is made once.
Enqueueable(r) ==
    /\ ~queue.deleted
    /\ Downloading => r \in Files
    /\ queue.owner[r] = "idle" \/ (r \in Detaches /\ queue.id[r] = InvalidId)

\* enqueue(), called by the scheduler.
Enqueue(r) ==
    /\ Enqueueable(r) /\ nextId <= MaxId
    /\ nextId' = nextId + 1
    /\ Become(ScheduleNext(
            [queue EXCEPT !.id[r] = nextId, !.linked[r] = TRUE,
                          !.wait = Append(@, r), !.told[r] = 0,
                          !.owner[r] = IF r \in Detaches THEN "gone" ELSE "waits"]))
    /\ UNCHANGED fromWorker

\* The owner gives up (ProvideItem::released(), cancelWithError()) and is
\* destroyed.  A request that is linked to no queue is not found.
OwnerCancels(r) ==
    /\ "cancel" \in faults /\ ~queue.deleted /\ queue.owner[r] = "waits"
    /\ Become([(IF queue.linked[r] THEN CancelRequest(queue, r) ELSE queue)
                  EXCEPT !.owner[r] = "gone"])
    /\ UNCHANGED <<nextId, fromWorker>>

\* A final message for the active item i.  Only files of a downloading worker
\* are added to the file cache; that may fail (a query that only checks the
\* existence of the file skips it).
HandleFinal(m, i) ==
    \/ Become(FinishActive(queue, i))
    \/ /\ "vanish" \in faults /\ Downloading /\ m.kind = "CacheHit"
       /\ Become(CacheMiss(queue, i))

\* Mutant: no message tells the worker that the user has refused.
RefuseSilently(m, i) ==
    \/ Become(SendOrShutdown(queue, Msg("Granted", queue.id[queue.active[i]], queue.active[i])))
    \/ Become(queue)

\* AuthDataRequest, MediaChangeRequest: the user or the credential manager
\* answers while the event loop waits.
HandleAsk(m, i) ==
    \E k \in {"Granted", "Refused"} :
        Become(SendOrShutdown(queue, Msg(k, queue.id[queue.active[i]], queue.active[i])))

\* processMessage(): one message of the worker.
ProcessMessage ==
    /\ ~queue.deleted /\ fromWorker # <<>>
    /\ fromWorker' = Tail(fromWorker)
    /\ UNCHANGED nextId
    /\ LET m == Head(fromWorker)
           i == GetRequest(queue, m.id)
       IN  IF i = 0 THEN UNCHANGED <<queue, alive, toWorker>>   \* "unknown request ID"
           ELSE IF m.kind \in FinalKinds THEN HandleFinal(m, i)
           ELSE HandleAsk(m, i)

\* A write to a dead worker has failed with EPIPE.
WriteFails ==
    /\ ~alive /\ queue.canWrite
    /\ queue' = [queue EXCEPT !.canWrite = FALSE]
    /\ UNCHANGED <<nextId, toWorker, fromWorker, alive>>

\* Process::sigFinished.  Output still in the pipe may come after it.
ProcFinished ==
    /\ ~alive /\ ~queue.shutting
    /\ Become(ImmediateShutdown(queue))
    /\ UNCHANGED <<nextId, fromWorker>>

\* ~ProvideQueue(): the scheduler needs the worker slot, or the provider ends.
Destroy ==
    /\ ~queue.deleted
    /\ Become([ImmediateShutdown(queue) EXCEPT !.deleted = TRUE])
    /\ UNCHANGED <<nextId, fromWorker>>

QueueNext ==
    \/ \E r \in Req : Enqueue(r) \/ OwnerCancels(r)
    \/ ProcessMessage \/ WriteFails \/ ProcFinished \/ Destroy
=============================================================================
