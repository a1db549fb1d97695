---------------------------- MODULE ProvidePipe ----------------------------
(***************************************************************************)
(* What a provide queue of the media provider and its worker process share: *)
(* the two pipes between them and the messages of the protocol described   *)
(* in private/providemessage_p.h.  A message is abstracted to its kind and *)
(* its request id; the field "req" is the request the sender has in mind.  *)
(* It is not in the real message, no handler reads it, only properties do. *)
(***************************************************************************)
EXTENDS Naturals, Sequences, SequencesExt

CONSTANTS
    Files,         \* requests for a file (Prov)
    Attaches,      \* requests to attach a medium (Attach)
    Detaches,      \* requests to detach a medium, they have no owner (Detach)
    None,          \* no request
    Capabilities,  \* what a worker may report in the handshake
    FaultSets,     \* what may go wrong in one behaviour
    MaxId          \* bound: request ids handed out by the provider

Faults == { "cancel",   \* owners cancel their requests
            "vanish",   \* files vanish before they are added to the file cache
            "exists",   \* files are only checked for existence (checkExistsOnly)
            "ask",      \* the worker needs credentials or another medium
            "die" }     \* the worker process dies

ASSUME RequestKinds ==
    /\ Files \cap Attaches = {} /\ Files \cap Detaches = {} /\ Attaches \cap Detaches = {}
    /\ None \notin Files \cup Attaches \cup Detaches
ASSUME CapabilitiesAreCaps ==
    Capabilities \subseteq [type : {"Downloading", "Mounting"}, pipeline : BOOLEAN]
ASSUME FaultSetsAreFaults == FaultSets \subseteq SUBSET Faults
ASSUME MaxIdIsNat == MaxId \in Nat

VARIABLES
    caps,        \* _capabilities: worker type and the flag Pipeline
    faults,      \* the faults of this behaviour
    toWorker,    \* stdin of the worker, with what it remembers for later
    fromWorker,  \* stdout of the worker
    alive        \* is the worker process running?

pipeVars == <<caps, faults, toWorker, fromWorker, alive>>

Req == Files \cup Attaches \cup Detaches

InvalidId == 0         \* (uint32_t)-1, an id nextRequestId() never returns
Id == InvalidId..MaxId

ControllerMsg ==
    [kind : {"Request", "Cancel", "Granted", "Refused"}, id : Id, req : Req]

\* Answers that finish a request.  No worker sends a Redirect; the queue would
\* handle it like Finished.
FinalKinds == {"Finished", "CacheHit", "Failed"}

WorkerMsg == [kind : FinalKinds \cup {"Ask"}, id : Id, req : Req]

Msg(k, i, r) == [kind |-> k, id |-> i, req |-> r]

PipeTypeOK ==
    /\ caps \in Capabilities /\ faults \in FaultSets
    /\ toWorker \in Seq(ControllerMsg)
    /\ fromWorker \in Seq(WorkerMsg)
    /\ alive \in BOOLEAN

\* startup(): the worker runs, the handshake is over.
PipeInit ==
    /\ caps \in Capabilities /\ faults \in FaultSets
    /\ toWorker = <<>> /\ fromWorker = <<>> /\ alive = TRUE

Downloading == caps.type = "Downloading"

\* AuthInfo and MediaChanged, NoAuthData, MediaChangeAbort and -Skip.
IsAnswer(m) == m.kind \in {"Granted", "Refused"}
=============================================================================
