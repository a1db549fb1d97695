----------------------------- MODULE GlobalMutex -----------------------------
(***************************************************************************)
(* What the global lock of libzypp promises: at any time at most one       *)
(* process owns the right to manage the system.  Nothing is said about how *)
(* the owner is recorded, about waiting, or about the helper zypp-rpm.     *)
(* ZyppLock implements it (see ZyppLock!Mutex).                            *)
(***************************************************************************)
CONSTANTS Proc,    \* the processes that use libzypp
          NoProc   \* nobody owns the lock

VARIABLE owner

Init == owner = NoProc

\* The lock is free and p takes it.
Acquire(p) == owner = NoProc /\ owner' = p

\* The owner gives the lock back, or dies.
Release(p) == owner = p /\ owner' = NoProc

Next == \E p \in Proc : Acquire(p) \/ Release(p)

Spec == Init /\ [][Next]_owner
=============================================================================
