------------------------------- MODULE MCPipes -------------------------------
(* Model checking instances of the two parts in which libzypp talks to another *)
(* process by pipes: a provide queue with its worker, and a commit with        *)
(* zypp-rpm.  They have no state in common: "part" says which one moves, the   *)
(* other stays in one initial state.                                         *)
EXTENDS MCProvideChannel, CommitSingle

VARIABLE part

pipesVars == <<part, vars, commitVars>>

(* Transactions for zypp-rpm: every kind of step, every kind of element of the *)
(* rpm transaction, and an order that differs from the one rpm takes.         *)
MCTransactions ==
    { <<"install", "remove">>, <<"ignored", "source", "install">>, <<"product", "install">> }

PipesInit ==
    /\ part \in {"channel", "commit"}
    /\ Init       /\ (part # "channel" => caps = Http)
    /\ CommitInit /\ (part # "commit" => lz.kind = CHOOSE t \in Transactions : TRUE)

\* What does not move is said first: TLC then evaluates it once for each state.
PipesNext ==
    \/ part = "channel" /\ UNCHANGED <<part, commitVars>> /\ Next
    \/ part = "commit"  /\ UNCHANGED <<part, vars>>       /\ CommitNext

PipesSpec == PipesInit /\ [][PipesNext]_pipesVars
=============================================================================
