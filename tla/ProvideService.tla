--------------------------- MODULE ProvideService ---------------------------
(***************************************************************************)
(* What a provide queue with its worker promises to the owners of requests, *)
(* with no word about pipes, messages, ids and lists: each request is      *)
(* answered once, in any order, while the service works; when it stops,    *)
(* for whatever reason, everybody is told, except for one request that may *)
(* get lost; a stopped service takes requests and never answers them,      *)
(* until the queue is destroyed.  ProvideChannel implements it.            *)
(***************************************************************************)
CONSTANT Req      \* the requests that expect an answer

VARIABLES
    owner,        \* who made a request "waits", or is "idle" or "gone"
    mode          \* of the service: "works", "stopped" or "destroyed"

Init == owner = [r \in Req |-> "idle"] /\ mode = "works"

Waiting(f) == {r \in Req : f[r] = "waits"}

\* The owners in f are told, but for at most one.
Stop(f, m) ==
    /\ \E lost \in SUBSET Waiting(f) :
            /\ \A r, s \in lost : r = s
            /\ owner' = [r \in Req |-> IF r \in Waiting(f) \ lost THEN "idle" ELSE f[r]]
    /\ mode' = m

\* One owner changes, and the service goes on or stops because of it.
Change(r, s) ==
    LET f == [owner EXCEPT ![r] = s]
    IN  \/ owner' = f /\ UNCHANGED mode
        \/ mode = "works" /\ Stop(f, "stopped")

Accept(r) == mode # "destroyed" /\ owner[r] = "idle" /\ Change(r, "waits")

Answer(r) == mode = "works" /\ owner[r] = "waits" /\ Change(r, "idle")

GiveUp(r) ==
    /\ mode # "destroyed" /\ owner[r] = "waits"
    /\ owner' = [owner EXCEPT ![r] = "gone"] /\ UNCHANGED mode

\* The worker is dead, or can not be written to.
Break == mode = "works" /\ Stop(owner, "stopped")

Destroy == mode # "destroyed" /\ Stop(owner, "destroyed")

Next == Break \/ Destroy \/ \E r \in Req : Accept(r) \/ Answer(r) \/ GiveUp(r)

Spec == Init /\ [][Next]_<<owner, mode>>
=============================================================================
