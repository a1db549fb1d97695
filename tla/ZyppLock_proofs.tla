--------------------------- MODULE ZyppLock_proofs ---------------------------
(***************************************************************************)
(* Proofs about the global lock, for every number of programs, every       *)
(* timeout and with pid reuse: its state is well typed, an owner is alive  *)
(* and recorded in the lock file, there is at most one, every instance of  *)
(* a root program is backed by the lock, and the pid file implements a     *)
(* mutual exclusion lock.                                                  *)
(***************************************************************************)
EXTENDS ZyppLock, TLAPS

\* Every state a behaviour of the lock reaches is well typed.
THEOREM TypeCorrect == Spec => []TypeOK
<1>1. Init => TypeOK
  BY MaxRefsPositive DEF Init, TypeOK
<1>2. TypeOK /\ [Next]_vars => TypeOK'
  <2> SUFFICES ASSUME TypeOK, [Next]_vars PROVE TypeOK'
    OBVIOUS
  <2> USE DistinctPids, UsersAreProcs, MaxRefsPositive DEF TypeOK, ProcVars, HelperVars
  <2>1. ASSUME NEW p \in Proc, GetZYpp(p) PROVE TypeOK'
    <3>1. CASE GetExisting(p)  BY <3>1 DEF GetExisting
    <3>2. CASE GetUnlocked(p)  BY <3>2 DEF GetUnlocked
    <3>3. CASE GetLocked(p)  BY <3>3 DEF GetLocked, WriteLockFile
    <3>4. CASE StartWaiting(p)  BY <3>4 DEF StartWaiting
    <3>5. CASE RetrySucceeds(p)  BY <3>5 DEF RetrySucceeds, WriteLockFile
    <3>6. CASE GiveUp(p)  BY <3>6 DEF GiveUp
    <3>7. CASE CheckRpm(p)
      <4>1. CASE RpmIsLocked  BY <3>7, <4>1 DEF CheckRpm, DropGlobalLock
      <4>2. CASE ~RpmIsLocked  BY <3>7, <4>2 DEF CheckRpm
      <4> QED  BY <4>1, <4>2
    <3> QED  BY <2>1, <3>1, <3>2, <3>3, <3>4, <3>5, <3>6, <3>7 DEF GetZYpp
  <2>2. ASSUME NEW p \in Proc, DropRef(p) PROVE TypeOK'
    <3>1. refs[p] - 1 \in 0..MaxRefs  BY <2>2 DEF DropRef
    <3>2. refs' \in [Proc -> 0..MaxRefs]  BY <2>2, <3>1 DEF DropRef
    <3>3. /\ lockFile' \in Proc \cup {None}
          /\ pc' \in [Proc -> {"idle", "waiting", "checkRpm", "on", "commit"}]
          /\ cleanLock' \in [Proc -> BOOLEAN]
      BY <2>2 DEF DropRef, DropGlobalLock
    <3> QED  BY <2>2, <3>2, <3>3 DEF DropRef
  <2>3. ASSUME NEW p \in Proc, IWantIt(p) PROVE TypeOK'
    BY <2>3 DEF IWantIt
  <2>4. ASSUME NEW p \in Proc, NEW h \in Helper, StartCommit(p, h) \/ CommitDone(p, h)
        PROVE TypeOK'
    BY <2>4 DEF StartCommit, CommitDone
  <2>5. ASSUME NEW p \in Proc, StartProc(p) \/ Reap(p) PROVE TypeOK'
    BY <2>5 DEF StartProc, Reap
  <2>6. ASSUME NEW p \in Proc, Exit(p) \/ Crash(p) PROVE TypeOK'
    <3>1. lockFile' \in Proc \cup {None}  BY <2>6 DEF Exit, Crash, DropGlobalLock
    <3>2. cleanLock' = [cleanLock EXCEPT ![p] = FALSE]  BY <2>6 DEF Exit, Crash, DropGlobalLock
    <3>3. Forget(p)  BY <2>6 DEF Exit, Crash
    <3>4. PICK s \in {"absent", "zombie"} : proc' = [proc EXCEPT ![p] = s]
      BY <2>6 DEF Exit, Crash
    <3>5. proc' \in [Proc \cup Helper -> {"absent", "running", "zombie", "foreign"}]
      BY <3>4
    <3>6. /\ pc' \in [Proc -> {"idle", "waiting", "checkRpm", "on", "commit"}]
          /\ refs' \in [Proc -> 0..MaxRefs]
          /\ readonly' \in [Proc -> BOOLEAN]
          /\ UNCHANGED <<rpmLockFile, helper>>
      BY <3>3 DEF Forget
    <3>7. parent' \in [Helper -> Proc \cup {None}]  BY <3>3 DEF Forget
    <3>8. cleanLock' \in [Proc -> BOOLEAN]  BY <3>2
    <3> QED  BY <3>1, <3>5, <3>6, <3>7, <3>8
  <2>7. ASSUME NEW h \in Helper, HelperStep(h) PROVE TypeOK'
    BY <2>7 DEF HelperStep, HelperOpen, HelperWrite, HelperExit, HelperDies
  <2>8. ASSUME NEW x \in Proc \cup Helper, ForeignStart(x) \/ ForeignExit(x)
        PROVE TypeOK'
    BY <2>8 DEF ForeignStart, ForeignExit
  <2>9. CASE UNCHANGED vars
    BY <2>9 DEF vars
  <2> QED
    BY <2>1, <2>2, <2>3, <2>4, <2>5, <2>6, <2>7, <2>8, <2>9 DEF Next, ProcStep
<1> QED
  BY <1>1, <1>2, PTL DEF Spec

-----------------------------------------------------------------------------
(* The inductive invariant.  OwnerRecorded alone is nearly inductive; that  *)
(* nobody steals the lock of a living owner follows from it, because a      *)
(* program writes the file only when the pid in it is dead or its own.      *)
(* InstanceBacked needs to know in which places of getZYpp() the file has   *)
(* already been written, and that a program that is not running is idle.    *)

PlacesOK ==
    \A p \in Proc :
        /\ pc[p] = "checkRpm" => refs[p] = 0 /\ cleanLock[p] /\ ~readonly[p] /\ p \notin Users
        /\ pc[p] \in {"on", "commit"} => refs[p] >= 1
        /\ pc[p] \in {"on", "commit"} /\ p \notin Users /\ ~readonly[p] => cleanLock[p]
        /\ pc[p] \in {"idle", "waiting"} => refs[p] = 0 /\ ~cleanLock[p]
        /\ pc[p] = "waiting" => ~readonly[p] /\ p \notin Users
        /\ proc[p] # "running" => pc[p] = "idle" /\ ~readonly[p]

IInv == TypeOK /\ OwnerRecorded /\ PlacesOK

\* Two owners would both be the pid in the file.
LEMMA RecordedOwnerIsUnique == OwnerRecorded => MutualExclusion
  BY DEF OwnerRecorded, MutualExclusion, Holds

LEMMA PlacesBackInstances == PlacesOK => InstanceBacked
  BY DEF PlacesOK, InstanceBacked, Holds

LEMMA InitIInv == Init => IInv
  BY MaxRefsPositive DEF Init, IInv, TypeOK, OwnerRecorded, PlacesOK, Holds
\* No step makes an owner unrecorded: the pid of a living owner is neither
\* overwritten nor truncated by anybody else.
LEMMA StepOwnerRecorded ==
    ASSUME IInv, [Next]_vars
    PROVE  OwnerRecorded'
<1> USE DistinctPids DEF IInv, TypeOK, OwnerRecorded, Holds, ProcVars, HelperVars, Alive
<1>1. ASSUME NEW p \in Proc, GetLocked(p) \/ RetrySucceeds(p) PROVE OwnerRecorded'
  <2>1. /\ lockFile' = p /\ cleanLock' = [cleanLock EXCEPT ![p] = TRUE]
        /\ UNCHANGED proc /\ proc[p] = "running" /\ ~SafeCheckIsLocked(p)
    BY <1>1 DEF GetLocked, RetrySucceeds, NeedsLock, WriteLockFile
  <2>2. ASSUME NEW q \in Proc \ {p} PROVE ~cleanLock[q]
    BY <2>1, <2>2 DEF SafeCheckIsLocked, IsProcessRunning
  <2> QED  BY <2>1, <2>2
<1>2. ASSUME NEW p \in Proc, CheckRpm(p) \/ DropRef(p) PROVE OwnerRecorded'
  <2>1. UNCHANGED proc  BY <1>2 DEF CheckRpm, DropRef
  <2>2. UNCHANGED <<lockFile, cleanLock>> \/ DropGlobalLock(p)
    BY <1>2 DEF CheckRpm, DropRef
  <2> QED  BY <2>1, <2>2 DEF DropGlobalLock
<1>3. ASSUME NEW p \in Proc, Exit(p) \/ Crash(p) PROVE OwnerRecorded'
  <2>1. PICK s \in {"absent", "zombie"} : proc' = [proc EXCEPT ![p] = s]
    BY <1>3 DEF Exit, Crash
  <2>2. /\ cleanLock' = [cleanLock EXCEPT ![p] = FALSE]
        /\ lockFile' = lockFile \/ (cleanLock[p] /\ lockFile' = None)
    BY <1>3 DEF Exit, Crash, DropGlobalLock
  <2> QED  BY <2>1, <2>2
<1>4. ASSUME NEW p \in Proc, StartProc(p) \/ Reap(p) PROVE OwnerRecorded'
  BY <1>4 DEF StartProc, Reap
<1>5. ASSUME NEW p \in Proc,
             \/ GetExisting(p) \/ GetUnlocked(p) \/ StartWaiting(p) \/ GiveUp(p)
             \/ IWantIt(p)
      PROVE  OwnerRecorded'
  BY <1>5 DEF GetExisting, GetUnlocked, StartWaiting, GiveUp, IWantIt
<1>6. ASSUME NEW p \in Proc, NEW h \in Helper, StartCommit(p, h) \/ CommitDone(p, h)
      PROVE OwnerRecorded'
  BY <1>6 DEF StartCommit, CommitDone
<1>7. ASSUME NEW h \in Helper, HelperStep(h) PROVE OwnerRecorded'
  BY <1>7 DEF HelperStep, HelperOpen, HelperWrite, HelperExit, HelperDies
<1>8. ASSUME NEW x \in Proc \cup Helper, ForeignStart(x) \/ ForeignExit(x)
      PROVE OwnerRecorded'
  BY <1>8 DEF ForeignStart, ForeignExit
<1>9. CASE UNCHANGED vars
  BY <1>9 DEF vars
<1> QED
  BY <1>1, <1>2, <1>3, <1>4, <1>5, <1>6, <1>7, <1>8, <1>9 DEF Next, ProcStep, GetZYpp

\* The places of getZYpp() at which the lock has been taken.
LEMMA StepPlacesOK ==
    ASSUME IInv, [Next]_vars
    PROVE  PlacesOK'
<1> USE DistinctPids DEF IInv, TypeOK, PlacesOK, ProcVars, HelperVars, Alive
<1>1. ASSUME NEW p \in Proc, GetLocked(p) \/ RetrySucceeds(p) PROVE PlacesOK'
  BY <1>1 DEF GetLocked, RetrySucceeds, NeedsLock, WriteLockFile
<1>2. ASSUME NEW p \in Proc, CheckRpm(p) PROVE PlacesOK'
  <2>1. CASE RpmIsLocked  BY <1>2, <2>1 DEF CheckRpm, DropGlobalLock
  <2>2. CASE ~RpmIsLocked  BY <1>2, <2>2 DEF CheckRpm
  <2> QED  BY <2>1, <2>2
<1>3. ASSUME NEW p \in Proc, DropRef(p) PROVE PlacesOK'
  <2>1. CASE refs[p] = 1  BY <1>3, <2>1 DEF DropRef, DropGlobalLock
  <2>2. CASE refs[p] # 1
    <3>1. refs[p] - 1 >= 1  BY <1>3, <2>2 DEF DropRef
    <3>2. /\ refs'[p] = refs[p] - 1
          /\ \A q \in Proc \ {p} : refs'[q] = refs[q]
          /\ UNCHANGED <<pc, cleanLock, readonly, proc>>
          /\ pc[p] = "on" /\ proc[p] = "running"
      BY <1>3, <2>2 DEF DropRef
    <3> QED  BY <3>1, <3>2
  <2> QED  BY <2>1, <2>2
<1>4. ASSUME NEW p \in Proc, Exit(p) \/ Crash(p) PROVE PlacesOK'
  <2>1. PICK s \in {"absent", "zombie"} : proc' = [proc EXCEPT ![p] = s]
    BY <1>4 DEF Exit, Crash
  <2>2. /\ cleanLock' = [cleanLock EXCEPT ![p] = FALSE]
        /\ pc' = [pc EXCEPT ![p] = "idle"]
        /\ refs' = [refs EXCEPT ![p] = 0]
        /\ readonly' = [readonly EXCEPT ![p] = FALSE]
    BY <1>4 DEF Exit, Crash, DropGlobalLock, Forget
  <2> QED  BY <2>1, <2>2
<1>5. ASSUME NEW p \in Proc, StartProc(p) \/ Reap(p) PROVE PlacesOK'
  BY <1>5 DEF StartProc, Reap
<1>6. ASSUME NEW p \in Proc, GetExisting(p) PROVE PlacesOK'
  BY <1>6 DEF GetExisting
<1>7. ASSUME NEW p \in Proc, GetUnlocked(p) \/ StartWaiting(p) \/ GiveUp(p) \/ IWantIt(p)
      PROVE  PlacesOK'
  BY <1>7 DEF GetUnlocked, StartWaiting, GiveUp, IWantIt, NeedsLock
<1>8. ASSUME NEW p \in Proc, NEW h \in Helper, StartCommit(p, h) \/ CommitDone(p, h)
      PROVE PlacesOK'
  BY <1>8 DEF StartCommit, CommitDone
<1>9. ASSUME NEW h \in Helper, HelperStep(h) PROVE PlacesOK'
  BY <1>9 DEF HelperStep, HelperOpen, HelperWrite, HelperExit, HelperDies
<1>10. ASSUME NEW x \in Proc \cup Helper, ForeignStart(x) \/ ForeignExit(x)
       PROVE PlacesOK'
  BY <1>10 DEF ForeignStart, ForeignExit
<1>11. CASE UNCHANGED vars
  BY <1>11 DEF vars
<1> QED
  BY <1>1, <1>2, <1>3, <1>4, <1>5, <1>6, <1>7, <1>8, <1>9, <1>10, <1>11
     DEF Next, ProcStep, GetZYpp

\* Every reachable state satisfies the inductive invariant.
THEOREM Invariance == Spec => []IInv
<1>1. IInv /\ [Next]_vars => OwnerRecorded' /\ PlacesOK'
  BY StepOwnerRecorded, StepPlacesOK
<1>2. OwnerRecorded /\ PlacesOK /\ TypeOK <=> IInv
  BY DEF IInv
<1> QED
  BY <1>1, <1>2, InitIInv, TypeCorrect, PTL DEF Spec

\* An owner is alive and is the process the lock file names.
THEOREM OwnerAlwaysRecorded == Spec => []OwnerRecorded
<1>1. IInv => OwnerRecorded  BY DEF IInv
<1> QED  BY <1>1, Invariance, PTL

\* At most one program owns the system.
THEOREM AtMostOneOwner == Spec => []MutualExclusion
  BY OwnerAlwaysRecorded, RecordedOwnerIsUnique, PTL

\* Every instance of a root program in normal mode is backed by the lock.
THEOREM InstancesAreBacked == Spec => []InstanceBacked
<1>1. IInv => PlacesOK  BY DEF IInv
<1> QED  BY <1>1, Invariance, PlacesBackInstances, PTL

\* The action of NoFalseOwner, for one program.
LetsGo(p) == Holds(p) /\ ~Holds(p)' => lockFile' # p \/ proc'[p] # "running"

\* ~ZYppGlobalLock() empties the file for an owner and only for an owner, and a
\* program that ends without it does not run any more.
LEMMA StepLetsGo ==
    ASSUME IInv, [Next]_vars, NEW p \in Proc
    PROVE  LetsGo(p)
<1> USE DistinctPids DEF IInv, TypeOK, LetsGo, Holds, ProcVars
<1>1. ASSUME NEW q \in Proc, ProcStep(q) PROVE LetsGo(p)
  <2>1. ASSUME cleanLock[q], DropGlobalLock(q) PROVE lockFile' # p
    BY <2>1 DEF DropGlobalLock
  <2>2. ASSUME q # p, cleanLock' = [cleanLock EXCEPT ![q] = FALSE] PROVE LetsGo(p)
    BY <2>2
  <2>3. CASE DropGlobalLock(q)
    <3>1. CASE q = p  BY <2>1, <2>3, <3>1
    <3>2. CASE q # p  BY <2>2, <2>3, <3>2 DEF DropGlobalLock
    <3> QED  BY <3>1, <3>2
  <2>4. CASE cleanLock' = cleanLock  BY <2>4
  <2>5. CASE GetZYpp(q)
    <3>1. CASE GetLocked(q) \/ RetrySucceeds(q)
      <4>1. cleanLock' = [cleanLock EXCEPT ![q] = TRUE]
        BY <3>1 DEF GetLocked, RetrySucceeds, WriteLockFile
      <4> QED  BY <4>1
    <3>2. CASE CheckRpm(q)  BY <2>3, <2>4, <3>2 DEF CheckRpm
    <3>3. CASE GetExisting(q) \/ GetUnlocked(q) \/ StartWaiting(q) \/ GiveUp(q)
      BY <2>4, <3>3 DEF GetExisting, GetUnlocked, StartWaiting, GiveUp
    <3> QED  BY <2>5, <3>1, <3>2, <3>3 DEF GetZYpp
  <2>6. CASE DropRef(q)  BY <2>3, <2>4, <2>6 DEF DropRef
  <2>7. CASE Exit(q)  BY <2>3, <2>7 DEF Exit
  <2>8. CASE Crash(q)
    <3>1. CASE q = p
      <4>1. PICK s \in {"absent", "zombie"} : proc' = [proc EXCEPT ![q] = s]
        BY <2>8 DEF Crash
      <4>2. proc'[p] # "running"  BY <3>1, <4>1
      <4> QED  BY <4>2
    <3>2. CASE q # p  BY <2>2, <2>8, <3>2 DEF Crash
    <3> QED  BY <3>1, <3>2
  <2>9. CASE IWantIt(q) \/ StartProc(q) \/ Reap(q)
    BY <2>4, <2>9 DEF IWantIt, StartProc, Reap
  <2>10. CASE \E h \in Helper : StartCommit(q, h) \/ CommitDone(q, h)
    BY <2>4, <2>10 DEF StartCommit, CommitDone
  <2> QED  BY <1>1, <2>5, <2>6, <2>7, <2>8, <2>9, <2>10 DEF ProcStep
<1>2. ASSUME NEW h \in Helper, HelperStep(h) PROVE LetsGo(p)
  BY <1>2 DEF HelperStep, HelperOpen, HelperWrite, HelperExit, HelperDies
<1>3. ASSUME NEW x \in Proc \cup Helper, ForeignStart(x) \/ ForeignExit(x) PROVE LetsGo(p)
  BY <1>3 DEF ForeignStart, ForeignExit
<1>4. CASE UNCHANGED vars
  BY <1>4 DEF vars
<1> QED
  BY <1>1, <1>2, <1>3, <1>4 DEF Next

\* No program that lives on gives the lock up and leaves its pid in the file.
THEOREM NoFalseOwnerIsLeft == Spec => NoFalseOwner
<1>1. ASSUME IInv, [Next]_vars
      PROVE  [\A p \in Proc : Holds(p) /\ ~Holds(p)' => lockFile' # p \/ proc'[p] # "running"]_vars
  <2>1. \A p \in Proc : LetsGo(p)  BY <1>1, StepLetsGo
  <2> QED  BY <2>1 DEF LetsGo
<1> QED
  BY <1>1, Invariance, PTL DEF Spec, NoFalseOwner
-----------------------------------------------------------------------------
(* The refinement.                                                          *)

\* With one owner, the owner of the abstract lock is that program.
LEMMA OwnerOfHolder ==
    ASSUME MutualExclusion, NEW p \in Proc, Holds(p)
    PROVE  Owner = p
<1>1. (CHOOSE q \in Proc : Holds(q)) = p
  BY DEF MutualExclusion
<1> QED
  BY <1>1 DEF Owner

\* Without an owner the abstract lock is free.
LEMMA OwnerOfNobody == (\A p \in Proc : ~Holds(p)) => Owner = None
  BY DEF Owner

\* A step changes the lock of at most one program.
LEMMA OneLockChanges ==
    ASSUME IInv, [Next]_vars
    PROVE  \/ cleanLock' = cleanLock
           \/ \E p \in Proc : \E b \in BOOLEAN : cleanLock' = [cleanLock EXCEPT ![p] = b]
<1>1. ASSUME NEW p \in Proc, ProcStep(p)
      PROVE  \/ cleanLock' = cleanLock
             \/ \E b \in BOOLEAN : cleanLock' = [cleanLock EXCEPT ![p] = b]
  <2>1. CASE GetZYpp(p)
    <3>1. CASE GetLocked(p) \/ RetrySucceeds(p)
      BY <3>1 DEF GetLocked, RetrySucceeds, WriteLockFile
    <3>2. CASE CheckRpm(p)
      BY <3>2 DEF CheckRpm, DropGlobalLock
    <3>3. CASE GetExisting(p) \/ GetUnlocked(p) \/ StartWaiting(p) \/ GiveUp(p)
      BY <3>3 DEF GetExisting, GetUnlocked, StartWaiting, GiveUp
    <3> QED  BY <2>1, <3>1, <3>2, <3>3 DEF GetZYpp
  <2>2. CASE DropRef(p)  BY <2>2 DEF DropRef, DropGlobalLock
  <2>3. CASE Exit(p) \/ Crash(p)  BY <2>3 DEF Exit, Crash, DropGlobalLock
  <2>4. CASE IWantIt(p) \/ StartProc(p) \/ Reap(p)
    BY <2>4 DEF IWantIt, StartProc, Reap, ProcVars
  <2>5. CASE \E h \in Helper : StartCommit(p, h) \/ CommitDone(p, h)
    BY <2>5 DEF StartCommit, CommitDone
  <2> QED  BY <1>1, <2>1, <2>2, <2>3, <2>4, <2>5 DEF ProcStep
<1>2. ASSUME NEW h \in Helper, HelperStep(h) PROVE cleanLock' = cleanLock
  BY <1>2 DEF HelperStep, HelperOpen, HelperWrite, HelperExit, HelperDies, ProcVars
<1>3. ASSUME NEW x \in Proc \cup Helper, ForeignStart(x) \/ ForeignExit(x)
      PROVE cleanLock' = cleanLock
  BY <1>3 DEF ForeignStart, ForeignExit, ProcVars
<1>4. CASE UNCHANGED vars
  BY <1>4 DEF vars
<1> QED
  BY <1>1, <1>2, <1>3, <1>4 DEF Next

\* A step of the lock is an acquisition, a release, or invisible.
LEMMA StepSimulation ==
    ASSUME IInv, IInv', [Next]_vars
    PROVE  [Mutex!Next]_Owner
<1>1. MutualExclusion /\ MutualExclusion'
  BY RecordedOwnerIsUnique DEF IInv, OwnerRecorded, MutualExclusion, Holds
<1>2. CASE cleanLock' = cleanLock
  BY <1>2 DEF Owner, Holds
<1>3. ASSUME NEW p \in Proc, NEW b \in BOOLEAN, cleanLock' = [cleanLock EXCEPT ![p] = b]
      PROVE [Mutex!Next]_Owner
  <2> USE DEF IInv, TypeOK, Holds
  <2>1. CASE cleanLock[p] = b
    <3>1. cleanLock' = cleanLock  BY <1>3, <2>1
    <3> QED  BY <1>2, <3>1
  <2>2. CASE cleanLock[p] /\ ~b
    <3>1. Owner = p  BY <1>1, <2>2, OwnerOfHolder
    <3>2. \A q \in Proc : ~cleanLock'[q]
      BY <1>1, <1>3, <2>2 DEF MutualExclusion
    <3>3. Owner' = None  BY <3>2 DEF Owner
    <3> QED  BY <3>1, <3>3 DEF Mutex!Next, Mutex!Release
  <2>3. CASE ~cleanLock[p] /\ b
    <3>1. cleanLock'[p]  BY <1>3, <2>3
    <3>2. (CHOOSE q \in Proc : cleanLock'[q]) = p
      BY <1>1, <3>1 DEF MutualExclusion
    <3>3. Owner' = p  BY <3>1, <3>2 DEF Owner
    <3>4. \A q \in Proc : ~cleanLock[q]
      BY <1>1, <1>3, <2>3, <3>1 DEF MutualExclusion
    <3>5. Owner = None  BY <3>4, OwnerOfNobody
    <3> QED  BY <3>3, <3>5 DEF Mutex!Next, Mutex!Acquire
  <2> QED  BY <2>1, <2>2, <2>3 DEF TypeOK
<1> QED
  BY <1>2, <1>3, OneLockChanges

\* The pid file, with crashes, stale pids and the zypp-rpm check, implements
\* the lock that GlobalMutex describes.
THEOREM Implementation == Spec => ImplementsMutex
<1>1. Init => Mutex!Init
  BY DEF Init, Mutex!Init, Owner, Holds
<1>2. IInv /\ IInv' /\ [Next]_vars => [Mutex!Next]_Owner
  BY StepSimulation
<1> QED
  BY <1>1, <1>2, Invariance, PTL DEF Spec, ImplementsMutex, Mutex!Spec
=============================================================================
