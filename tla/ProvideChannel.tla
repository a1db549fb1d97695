--------------------------- MODULE ProvideChannel ---------------------------
(***************************************************************************)
(* A provide queue and its worker process, connected by two pipes: the     *)
(* composition of ProvideQueue and ProvideWorker, and what the pair should  *)
(* guarantee to the owners of the requests.                                *)
(***************************************************************************)
EXTENDS ProvideQueue, ProvideWorker

vars == <<queue, nextId, worker, pipeVars>>

Init == QueueInit /\ WorkerInit /\ PipeInit

Next ==
    \/ QueueNext /\ UNCHANGED <<worker, caps, faults>>
    \/ WorkerNext /\ UNCHANGED <<queueVars, caps, faults>>

Spec == Init /\ [][Next]_vars

\* The request with this id makes progress in the worker.
Work(id) ==
    /\ \E i \in DOMAIN worker.items :
            worker.items[i].id = id /\ (StartDownload(i) \/ Finish(i))
    /\ UNCHANGED <<queueVars, caps, faults>>

\* Both event loops run: messages are read, the end of the process is noticed
\* and whatever a worker has started ends (transfers have timeouts).  Nothing
\* is assumed of the owners, and no worker has to die.
Fairness ==
    /\ WF_vars(ProcessMessage /\ UNCHANGED <<worker, caps, faults>>)
    /\ WF_vars(ProcFinished /\ UNCHANGED <<worker, caps, faults>>)
    /\ WF_vars(Receive /\ UNCHANGED <<queueVars, caps, faults>>)
    /\ WF_vars(Answered /\ UNCHANGED <<queueVars, caps, faults>>)
    /\ \A id \in Id : WF_vars(Work(id))

FairSpec == Spec /\ Fairness

-----------------------------------------------------------------------------
(* Properties                                                               *)

\* The type invariant of queue, worker and pipes.
TypeOK ==
    /\ queue \in QueueType /\ queue.out = <<>>
    /\ nextId \in 1..(MaxId + 1)
    /\ worker \in WorkerStateType
    /\ PipeTypeOK

Held == ToSet(queue.wait) \cup (ToSet(queue.active) \ {None})

\* finishReq() is called at most once for a request that was enqueued, in
\* whatever order its answer, its cancellation, the end of the worker and the
\* shutdown of the queue come.
ToldAtMostOnce == \A r \in Req : queue.told[r] <= 1

\* Unless the queue is shut down, a request whose owner waits for a result is
\* in one of the two lists of the queue, and no request is in them twice, through
\* requeueing after a cache miss, retries of the owner and cancellations.
WaitingIsHeld ==
    LET all == queue.wait \o queue.active
    IN  /\ \A r \in Req : queue.owner[r] = "waits" => r \in Held \/ queue.shutting
        /\ \A i, j \in DOMAIN all : all[i] = all[j] /\ all[i] # None => i = j

\* Where the id of r is in the hands of the worker, or under way.
Tokens(r) ==
    LET id == queue.id[r]
    IN  {<<"sent", k>> : k \in {j \in DOMAIN toWorker :
                                   toWorker[j].kind = "Request" /\ toWorker[j].id = id}}
        \cup {<<"taken", k>> : k \in {j \in DOMAIN worker.items : worker.items[j].id = id}}
        \cup (IF ~Downloading /\ worker.asking.id = id THEN {<<"asked", 0>>} ELSE {})
        \cup (IF \E k \in DOMAIN fromWorker : fromWorker[k].kind \in FinalKinds
                                              /\ fromWorker[k].id = id
              THEN {<<"answered", 0>>} ELSE {})

\* The active items of the queue and the work of the worker agree: a living
\* worker has, for each active request, either one message to read, or one
\* request in hand, or its answer is in the pipe, so none is forgotten and none
\* is worked on twice; and an answer reaches the request it was made for: a late
\* answer to a request that was cancelled, or that meanwhile was enqueued again,
\* matches nothing.  (Requests of a cache miss share InvalidId.)
ActiveIsInFlight ==
    /\ alive => \A r \in ToSet(queue.active) \ {None} :
                    queue.id[r] # InvalidId => Cardinality(Tokens(r)) = 1
    /\ \A k \in DOMAIN fromWorker :
          LET i == GetRequest(queue, fromWorker[k].id)
          IN  i # 0 /\ fromWorker[k].id # InvalidId => queue.active[i] = fromWorker[k].req

\* "destructor of ProvideItem will dequeue the item, so no need to do refcount
\* here" (provideitem_p.h): the queue only holds requests of living owners.
NoDanglingOwner == \A r \in Held \ Detaches : queue.owner[r] # "gone"

\* "if the file was cancelled we send a failure back" (providequeue.cc), as the
\* worker is blocked until it gets an answer: a blocked worker has its question
\* or an answer under way.
AskIsAnswered ==
    alive /\ worker.asking # NoItem =>
        \/ FirstAnswer # 0
        \/ \E k \in DOMAIN fromWorker : fromWorker[k].kind = "Ask"

\* What the code achieves: a worker is only left blocked with a question about
\* a request that is not active any more.
BlockedOnlyByCancel ==
    AskIsAnswered \/ GetRequest(queue, worker.asking.id) = 0

\* Every request of a working queue gets its result, whether the worker answers,
\* asks, dies or is shut down.
EveryRequestIsAnswered ==
    \A r \in Req : queue.owner[r] = "waits" /\ ~queue.shutting ~> queue.owner[r] # "waits"

Service == INSTANCE ProvideService WITH
    Req   <- Files \cup Attaches,
    owner <- [r \in Files \cup Attaches |-> queue.owner[r]],
    mode  <- IF queue.deleted THEN "destroyed" ELSE IF queue.shutting THEN "stopped" ELSE "works"

\* To the owners, queue and worker are the service: one answer each while it
\* works, and a shutdown that forgets at most one of them.
ImplementsService == Service!Spec
=============================================================================
