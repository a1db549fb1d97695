---------------------------- MODULE NetworkDispatch ----------------------------
(***************************************************************************)
(* NetworkRequestDispatcher: requests wait in one queue, run in one curl      *)
(* multi handle and are finished from several places, most of which call     *)
(* slots of their users, who call the dispatcher again.  The calls under way  *)
(* are a stack; an action runs its top up to the next call.                   *)
(*                                                                         *)
(* curl is external: it completes transfers, calls the write callback, and    *)
(* refuses to remove a handle while it is in one of its calls.  Requests are  *)
(* files without ranges, of one priority; curl calls that only move bytes    *)
(* change nothing here.                                                      *)
(***************************************************************************)
EXTENDS Integers, Sequences, SequencesExt

CONSTANTS Download,     \* the requests
          MaxConnections   \* _maxConnections

ASSUME ConnectionsAssumption == MaxConnections \in Nat \ {0}

DownloadResult == {"ok", "error", "auth", "cancelled"}

VARIABLES net,      \* the dispatcher, its requests and the curl handles
          calls     \* the calls under way, innermost first

netVars == <<net, calls>>

NetTypeOK ==
    /\ net.pending \in Seq(Download) /\ net.running \in Seq(Download)
    /\ net.locked \in BOOLEAN
    /\ net.mode \in [Download -> {"pending", "running", "finished"}]
    /\ net.inMulti \subseteq Download
    /\ net.done \subseteq [req : Download, res : DownloadResult]
    /\ net.loop \in {"stopped", "running", "quit"}
    /\ \A i \in DOMAIN calls : calls[i].op \in
          {"enqueue", "dequeue", "setFinished", "finished", "cancelAll", "curl", "read",
           "nextJob", "taint"}

NetInit ==
    /\ net = [ pending |-> <<>>,        \* _pendingDownloads
               running |-> <<>>,        \* _runningDownloads
               locked  |-> FALSE,
               mode    |-> [d \in Download |-> "pending"],     \* _runningMode
               inMulti |-> {},          \* handles in _multi
               done    |-> {},          \* messages curl_multi_info_read() will give
               loop    |-> "stopped" ]  \* the event loop of the user
    /\ calls = <<>>

-----------------------------------------------------------------------------
(* The stack.                                                              *)

EnqueueCall(d)          == [op |-> "enqueue", req |-> d]
DequeueCall             == [op |-> "dequeue"]
SetFinishedCall(d, res) == [op |-> "setFinished", req |-> d, res |-> res]
FinishedCall(d, res)    == [op |-> "finished", req |-> d, res |-> res]
CancelAllCall(res)      == [op |-> "cancelAll", res |-> res, was |-> net.locked]
CurlCall                == [op |-> "curl"]
ReadCall                == [op |-> "read"]

Runs(op)        == calls # <<>> /\ Head(calls).op = op
Becomes(frames) == frames \o Tail(calls)
Calls(frame)    == <<frame>> \o calls
LoopIdle            == net.loop = "running" /\ calls = <<>>
InCurl          == \E i \in DOMAIN calls : calls[i].op = "curl"

-----------------------------------------------------------------------------
(* Queueing.                                                               *)

Enqueue ==
    /\ Runs("enqueue")
    /\ LET d == Head(calls).req IN
       IF d \in ToSet(net.running) \cup ToSet(net.pending)
       THEN calls' = Tail(calls) /\ UNCHANGED net
       ELSE /\ net' = [net EXCEPT !.pending = Append(@, d)]
            /\ calls' = Becomes(<<DequeueCall>>)

CanDequeue == ~net.locked /\ net.pending # <<>> /\ Len(net.running) < MaxConnections

DequeueStops ==
    /\ Runs("dequeue") /\ ~CanDequeue
    /\ calls' = Tail(calls)
    /\ UNCHANGED net

\* The handle can not be initialized, or not be added.
DequeueFails ==
    /\ Runs("dequeue") /\ CanDequeue
    /\ LET d == Head(net.pending) IN
       /\ net' = [net EXCEPT !.pending = Tail(@), !.mode[d] = "pending"]
       /\ calls' = Calls(SetFinishedCall(d, "error"))

DequeueStarts ==
    /\ Runs("dequeue") /\ CanDequeue
    /\ LET d == Head(net.pending) IN
       /\ d \notin net.inMulti
       /\ net' = [net EXCEPT !.pending = Tail(@), !.mode[d] = "running",
                             !.inMulti = @ \cup {d}, !.running = Append(@, d)]
    /\ UNCHANGED calls

-----------------------------------------------------------------------------
(* Finishing.                                                              *)

\* Mutant: a request that runs is not taken out of its list.
SetFinishedStaysListed ==
    /\ Runs("setFinished")
    /\ LET d == Head(calls).req IN
       /\ net' = [net EXCEPT !.pending = RemoveFirst(@, d), !.mode[d] = "finished",
                             !.inMulti = @ \ {d}]
       /\ calls' = Becomes(<<FinishedCall(d, Head(calls).res), DequeueCall>>)

\* setFinished for a request that is not in the progress callback: it leaves its
\* list, the slots of its user are called, another one may start.
SetFinished ==
    /\ Runs("setFinished")
    /\ LET d == Head(calls).req IN
       /\ net' = [net EXCEPT
             !.running = RemoveFirst(@, d), !.pending = RemoveFirst(@, d), !.mode[d] = "finished",
             !.inMulti = IF InCurl THEN @ ELSE @ \ {d},
             !.done    = IF InCurl THEN @ ELSE {e \in @ : e.req # d}]
       /\ calls' = Becomes(<<FinishedCall(d, Head(calls).res), DequeueCall>>)

\* One turn of the loops of cancelAll().
CancelAll ==
    /\ Runs("cancelAll")
    /\ IF net.running \o net.pending = <<>>
       THEN /\ net' = [net EXCEPT !.locked = Head(calls).was]
            /\ calls' = Tail(calls)
       ELSE /\ net' = [net EXCEPT !.locked = TRUE]
            /\ calls' = Calls(SetFinishedCall(
                 Last(IF net.running # <<>> THEN net.running ELSE net.pending), Head(calls).res))

ActivityTimeout(d) ==
    /\ LoopIdle /\ net.mode[d] = "running"
    /\ calls' = Calls(SetFinishedCall(d, "error"))
    /\ UNCHANGED net

-----------------------------------------------------------------------------
(* handleMultiSocketAction.                                                *)

Transferring(d) ==
    /\ LoopIdle \/ Runs("curl")
    /\ d \in net.inMulti /\ \A e \in net.done : e.req # d
WithinCurl == IF LoopIdle THEN <<CurlCall>> ELSE calls

\* The callbacks of a request that does not run any more fail.
Outcomes(d) ==
    IF net.mode[d] = "running" THEN {"ok", "error", "auth"} ELSE {"error", "cancelled"}

Completes(d) ==
    /\ Transferring(d)
    /\ \E res \in Outcomes(d) :
          net' = [net EXCEPT !.locked = TRUE, !.done = @ \cup {[req |-> d, res |-> res]}]
    /\ calls' = WithinCurl

CurlReturns ==
    /\ Runs("curl")
    /\ net' = [net EXCEPT !.locked = FALSE]
    /\ calls' = Becomes(<<ReadCall>>)

CurlFails ==
    /\ Runs("curl")
    /\ net' = [net EXCEPT !.locked = FALSE]
    /\ calls' = Becomes(<<[CancelAllCall("error") EXCEPT !.was = FALSE]>>)

\* In which order curl tells of its transfers is its own business.
ReadInfo ==
    /\ Runs("read")
    /\ \/ /\ net.done = {}
          /\ calls' = Becomes(<<DequeueCall>>) /\ UNCHANGED net
       \/ \E e \in net.done :
             /\ net' = [net EXCEPT !.done = @ \ {e}]
             /\ calls' = Calls(SetFinishedCall(e.req, e.res))

DispatchNext ==
    \/ Enqueue \/ DequeueStops \/ DequeueFails \/ DequeueStarts
    \/ SetFinished \/ CancelAll
    \/ \E d \in Download : ActivityTimeout(d) \/ Completes(d)
    \/ CurlReturns \/ CurlFails \/ ReadInfo

=============================================================================
