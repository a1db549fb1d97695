---------------------------- MODULE ProvideWorker ----------------------------
(***************************************************************************)
(* The worker side: worker/provideworker.cc with the two kinds of backends. *)
(* The downloading worker (zypp-media-http) runs many requests at once; a   *)
(* running one stays in the request queue.  The mounting workers take a    *)
(* request from the queue and serve it within one call of provide().       *)
(*                                                                         *)
(* A worker may have to ask the controller (credentials, other medium).  It *)
(* then blocks in sendAndWaitForResponse() until an answer comes; other    *)
(* messages are remembered in their order.  toWorker holds both what is    *)
(* remembered and what is still in the pipe.                               *)
(***************************************************************************)
EXTENDS ProvidePipe

VARIABLE
    worker    \* its request queue, and the request it asks for

ItemType == [id : Id, req : Req, running : BOOLEAN, asked : BOOLEAN]
NoItem == [id |-> InvalidId, req |-> None, running |-> FALSE, asked |-> FALSE]

WorkerStateType ==
    [ items  : Seq(ItemType),            \* _pendingProvides
      asking : ItemType \cup {NoItem} ]  \* blocked in sendAndWaitForResponse()

WorkerInit == worker = [items |-> <<>>, asking |-> NoItem]

-----------------------------------------------------------------------------
\* Ready to run the event loop.
Free == alive /\ worker.asking = NoItem

Reply(k, item) == fromWorker' = Append(fromWorker, Msg(k, item.id, item.req))

ReplyTwice(k1, k2, item) ==
    fromWorker' = fromWorker \o <<Msg(k1, item.id, item.req), Msg(k2, item.id, item.req)>>

FindItem(id) == SelectInSeq(worker.items, LAMBDA x : x.id = id)

\* Mutant: the cancel message itself is sent back.
CancelEchoed(i) ==
    /\ worker' = [worker EXCEPT !.items = RemoveAt(@, i)]
    /\ Reply("Cancel", worker.items[i])

\* A pending request is answered with 408.  A running download is stopped
\* and removed without an answer.
CancelItem(i) ==
    /\ worker' = [worker EXCEPT !.items = RemoveAt(@, i)]
    /\ IF worker.items[i].running THEN UNCHANGED fromWorker
       ELSE Reply("Failed", worker.items[i])

\* handleSingleMessage(); answers nobody waits for are not supported requests.
Receive ==
    /\ Free /\ toWorker # <<>>
    /\ toWorker' = Tail(toWorker)
    /\ UNCHANGED alive
    /\ LET m == Head(toWorker)
           i == FindItem(m.id)
       IN  \/ /\ m.kind = "Request"
              /\ worker' = [worker EXCEPT !.items = Append(@,
                    [id |-> m.id, req |-> m.req, running |-> FALSE, asked |-> FALSE])]
              /\ UNCHANGED fromWorker
           \/ /\ m.kind = "Cancel" /\ i # 0
              /\ CancelItem(i)
           \/ /\ IsAnswer(m) \/ (m.kind = "Cancel" /\ i = 0)
             /\ UNCHANGED <<worker, fromWorker>>

\* provide() of the downloading worker starts a pending download.
StartDownload(i) ==
    /\ Free /\ Downloading /\ ~worker.items[i].running
    /\ worker' = [worker EXCEPT !.items[i].running = TRUE]
    /\ UNCHANGED <<toWorker, fromWorker, alive>>

\* The request at i leaves the queue with a result.  A cache hit and an error
\* are found before the download starts, the rest by the download; a mounting
\* worker serves the first request of its queue.  If it was only to be checked
\* that the file exists, the success is followed by the result of renaming the
\* staging file.
Finish(i) ==
    /\ Free
    /\ Downloading \/ i = 1
    /\ LET success == IF ~Downloading \/ worker.items[i].running THEN "Finished"
                      ELSE "CacheHit"
       IN  \/ \E k \in {success, "Failed"} : Reply(k, worker.items[i])
           \/ /\ "exists" \in faults /\ worker.items[i].running
              /\ \E k \in {"Finished", "Failed"} : ReplyTwice("Finished", k, worker.items[i])
    /\ worker' = [worker EXCEPT !.items = RemoveAt(@, i)]
    /\ UNCHANGED <<toWorker, alive>>

\* requireAuthorization() of a running download, requestMediaChange() for
\* the attach request a mounting worker is serving.  Bound: one question per
\* request.
Ask(i) ==
    /\ Free /\ "ask" \in faults /\ ~worker.items[i].asked
    /\ IF Downloading THEN worker.items[i].running
       ELSE i = 1 /\ worker.items[i].req \in Attaches
    /\ worker' = [ items  |-> IF Downloading THEN [worker.items EXCEPT ![i].asked = TRUE]
                              ELSE RemoveAt(worker.items, i),
                   asking |-> [worker.items[i] EXCEPT !.asked = TRUE] ]
    /\ Reply("Ask", worker.items[i])
    /\ UNCHANGED <<toWorker, alive>>

\* Mutant: the first message is taken for the answer.
AnyMessageAnswers == IF toWorker = <<>> THEN 0 ELSE 1

\* sendAndWaitForResponse() looks at the codes of the messages only.
FirstAnswer == SelectInSeq(toWorker, IsAnswer)

\* The answer comes.  With credentials the download goes on, without it fails;
\* the attach request ends either way.
Answered ==
    /\ alive /\ worker.asking # NoItem /\ FirstAnswer # 0
    /\ toWorker' = RemoveAt(toWorker, FirstAnswer)
    /\ UNCHANGED alive
    /\ LET granted == toWorker[FirstAnswer].kind = "Granted"
           item    == worker.asking
           i       == FindItem(item.id)
       IN  IF Downloading /\ granted
           THEN /\ worker' = [worker EXCEPT !.asking = NoItem]
                /\ UNCHANGED fromWorker
           ELSE /\ worker' = [ items  |-> IF Downloading THEN RemoveAt(worker.items, i)
                                          ELSE worker.items,
                               asking |-> NoItem ]
                /\ \E k \in {"Failed"} \cup (IF granted THEN {"Finished"} ELSE {}) :
                        Reply(k, item)

\* The process is killed or fails.
Die ==
    /\ alive /\ "die" \in faults
    /\ alive' = FALSE
    /\ UNCHANGED <<worker, toWorker, fromWorker>>

WorkerNext ==
    \/ Receive \/ Answered \/ Die
    \/ \E i \in DOMAIN worker.items : StartDownload(i) \/ Finish(i) \/ Ask(i)
=============================================================================
