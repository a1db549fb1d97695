----------------------------- MODULE MCZyppLock -----------------------------
(* Model checking instance of ZyppLock: two root programs, one user program *)
(* (who must never get in the way) and the zypp-rpm processes of commits.   *)
EXTENDS ZyppLock, TLC

CONSTANTS p1, p2, u1, h1, h2

MCProc   == {p1, p2, u1}
MCHelper == {h1, h2}
MCUsers  == {u1}
=============================================================================
