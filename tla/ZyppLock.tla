------------------------------ MODULE ZyppLock ------------------------------
(***************************************************************************)
(* The global lock of libzypp (ZYppFactory.cc) and the pid file of the     *)
(* helper process that runs the rpm transaction (tools/zypp-rpm/main.cc).  *)
(*                                                                         *)
(* The lock is a pid written into <root>/run/zypp.pid.  Every access to    *)
(* the file is made under an flock, so reading the pid, asking /proc       *)
(* whether that process is alive and writing the own pid is ONE action.    *)
(* Processes die at any time and leave their pid in the file; a pid may be *)
(* given to an unrelated ("foreign") process, which /proc shows as alive.  *)
(* A zypp process that commits starts a zypp-rpm process, which survives   *)
(* its parent and records itself in <root>/run/zypp-rpm.pid.               *)
(*                                                                         *)
(* Time is abstracted: the sleep of the retry loop is the gap between two  *)
(* Retry steps, a finite timeout may expire after any failed retry.        *)
(***************************************************************************)
EXTENDS Naturals

CONSTANTS
    Proc,          \* pids of programs using libzypp
    Helper,        \* pids of zypp-rpm processes
    None,          \* empty pid file; no parent
    Users,         \* the Procs with geteuid() != 0
    LockTimeout,   \* ZYPP_LOCK_TIMEOUT: "zero", "finite" or "forever" (< 0)
    PidReuse,      \* may a pid still found in zypp.pid be reassigned?
    MaxRefs        \* bound: ZYpp::Ptr held at once by one program

ASSUME DistinctPids == /\ Proc \cap Helper = {}
                       /\ None \notin Proc \cup Helper
ASSUME UsersAreProcs == Users \subseteq Proc
ASSUME LockTimeoutValues == LockTimeout \in {"zero", "finite", "forever"}
ASSUME PidReuseIsFlag == PidReuse \in BOOLEAN
ASSUME MaxRefsPositive == MaxRefs \in Nat /\ MaxRefs >= 1

VARIABLES
    proc,         \* what /proc says of a pid
    lockFile,     \* pid in zypp.pid
    rpmLockFile,  \* pid in zypp-rpm.pid
    pc,           \* where a program is in getZYpp() and commit()
    refs,         \* ZYpp::Ptr copies the program holds
    cleanLock,    \* ZYppGlobalLock::_cleanLock of _theGlobalLock
    readonly,     \* zypp_readonly_hack::active
    helper,       \* progress of a zypp-rpm process
    parent        \* the program whose commit() waits for a zypp-rpm

vars == <<proc, lockFile, rpmLockFile, pc, refs, cleanLock, readonly, helper, parent>>

ProcVars   == <<pc, refs, cleanLock, readonly>>
HelperVars == <<rpmLockFile, helper, parent>>

TypeOK ==
    /\ proc \in [Proc \cup Helper -> {"absent", "running", "zombie", "foreign"}]
    /\ lockFile \in Proc \cup {None}
    /\ rpmLockFile \in Helper \cup {None}
    /\ pc \in [Proc -> {"idle", "waiting", "checkRpm", "on", "commit"}]
    /\ refs \in [Proc -> 0..MaxRefs]
    /\ cleanLock \in [Proc -> BOOLEAN]
    /\ readonly \in [Proc -> BOOLEAN]
    /\ helper \in [Helper -> {"none", "started", "opened", "rpm"}]
    /\ parent \in [Helper -> Proc \cup {None}]

Init ==
    /\ proc = [x \in Proc \cup Helper |-> "absent"]
    /\ lockFile = None
    /\ rpmLockFile = None
    /\ pc = [p \in Proc |-> "idle"]
    /\ refs = [p \in Proc |-> 0]
    /\ cleanLock = [p \in Proc |-> FALSE]
    /\ readonly = [p \in Proc |-> FALSE]
    /\ helper = [h \in Helper |-> "none"]
    /\ parent = [h \in Helper |-> None]

-----------------------------------------------------------------------------
(* Reading the pid files                                                   *)

\* Mutant: a zombie still counts as running.
ZombieIsRunning(x) == proc[x] # "absent"

\* /proc/<pid> exists and has a command line; a zombie has none.
IsProcessRunning(x) == proc[x] \in {"running", "foreign"}

\* safeCheckIsLocked() of zypp.pid, called by p.
SafeCheckIsLocked(p) ==
    /\ lockFile \notin {None, p}
    /\ IsProcessRunning(lockFile)

\* isZyppLocked() of zypp-rpm.pid.
RpmIsLocked == rpmLockFile # None /\ IsProcessRunning(rpmLockFile)

\* writeLockFile() by p.
WriteLockFile(p) ==
    /\ lockFile' = p
    /\ cleanLock' = [cleanLock EXCEPT ![p] = TRUE]

\* Mutant: the destructor truncates the file whoever wrote it.
TruncateAlways(p) ==
    /\ lockFile' = None
    /\ cleanLock' = [cleanLock EXCEPT ![p] = FALSE]

\* Mutant: the destructor leaves the pid in the file.
LeavePid(p) ==
    /\ lockFile' = lockFile
    /\ cleanLock' = [cleanLock EXCEPT ![p] = FALSE]

\* ~ZYppGlobalLock() of p's lock object: truncate what it has written.
DropGlobalLock(p) ==
    /\ lockFile' = IF cleanLock[p] THEN None ELSE lockFile
    /\ cleanLock' = [cleanLock EXCEPT ![p] = FALSE]

-----------------------------------------------------------------------------
(* ZYppFactory::getZYpp()                                                  *)

Alive(p) == proc[p] = "running"

\* The program asks for the lock: root, not in readonly mode, no instance yet.
NeedsLock(p) == Alive(p) /\ pc[p] = "idle" /\ p \notin Users /\ ~readonly[p]

\* Mutant: the copy is counted twice.
CountTwice(p) ==
    /\ Alive(p) /\ pc[p] = "on" /\ refs[p] < MaxRefs
    /\ refs' = [refs EXCEPT ![p] = @ + 2]
    /\ UNCHANGED <<proc, lockFile, HelperVars, pc, cleanLock, readonly>>

\* An instance exists: getZYpp() returns another reference to it.
GetExisting(p) ==
    /\ Alive(p) /\ pc[p] = "on" /\ refs[p] < MaxRefs
    /\ refs' = [refs EXCEPT ![p] = @ + 1]
    /\ UNCHANGED <<proc, lockFile, HelperVars, pc, cleanLock, readonly>>

\* Normal users and readonly programs get their instance without a lock.
GetUnlocked(p) ==
    /\ Alive(p) /\ pc[p] = "idle" /\ (p \in Users \/ readonly[p])
    /\ pc' = [pc EXCEPT ![p] = "on"]
    /\ refs' = [refs EXCEPT ![p] = 1]
    /\ UNCHANGED <<proc, lockFile, HelperVars, cleanLock, readonly>>

\* Mutant: the lock file is written without looking at the pid in it.
GetUnchecked(p) ==
    /\ NeedsLock(p)
    /\ WriteLockFile(p)
    /\ pc' = [pc EXCEPT ![p] = "on"]
    /\ refs' = [refs EXCEPT ![p] = 1]
    /\ UNCHANGED <<proc, HelperVars, readonly>>

\* zyppLocked() returns false at the first call: the lock is ours, and the
\* instance is created.  zypp-rpm.pid is not looked at on this path.
GetLocked(p) ==
    /\ NeedsLock(p) /\ ~SafeCheckIsLocked(p)
    /\ WriteLockFile(p)
    /\ pc' = [pc EXCEPT ![p] = "on"]
    /\ refs' = [refs EXCEPT ![p] = 1]
    /\ UNCHANGED <<proc, HelperVars, readonly>>

\* Somebody else has the lock: throw at once (a step that changes nothing)
\* or enter the loop.
StartWaiting(p) ==
    /\ NeedsLock(p) /\ SafeCheckIsLocked(p)
    /\ LockTimeout # "zero"
    /\ pc' = [pc EXCEPT ![p] = "waiting"]
    /\ UNCHANGED <<proc, lockFile, HelperVars, refs, cleanLock, readonly>>

\* Mutant: after the sleep the lock is simply taken.
RetryUnchecked(p) ==
    /\ Alive(p) /\ pc[p] = "waiting"
    /\ WriteLockFile(p)
    /\ pc' = [pc EXCEPT ![p] = "checkRpm"]
    /\ UNCHANGED <<proc, HelperVars, refs, readonly>>

\* After a sleep zyppLocked() succeeds.
RetrySucceeds(p) ==
    /\ Alive(p) /\ pc[p] = "waiting" /\ ~SafeCheckIsLocked(p)
    /\ WriteLockFile(p)
    /\ pc' = [pc EXCEPT ![p] = "checkRpm"]
    /\ UNCHANGED <<proc, HelperVars, refs, readonly>>

\* After a sleep zyppLocked() fails and a finite timeout has expired: throw.
GiveUp(p) ==
    /\ Alive(p) /\ pc[p] = "waiting" /\ SafeCheckIsLocked(p)
    /\ LockTimeout = "finite"
    /\ pc' = [pc EXCEPT ![p] = "idle"]
    /\ UNCHANGED <<proc, lockFile, HelperVars, refs, cleanLock, readonly>>

\* The waiter got the lock; "now make sure zypp-rpm is not still running".
\* If it is, the global lock is released and the call throws.
CheckRpm(p) ==
    /\ Alive(p) /\ pc[p] = "checkRpm"
    /\ IF RpmIsLocked
       THEN /\ DropGlobalLock(p)
            /\ pc' = [pc EXCEPT ![p] = "idle"]
            /\ UNCHANGED refs
       ELSE /\ pc' = [pc EXCEPT ![p] = "on"]
            /\ refs' = [refs EXCEPT ![p] = 1]
            /\ UNCHANGED <<lockFile, cleanLock>>
    /\ UNCHANGED <<proc, HelperVars, readonly>>

\* Mutant: every reference that goes away cleans the lock.
DropRefCleans(p) ==
    /\ Alive(p) /\ pc[p] = "on" /\ refs[p] >= 1
    /\ refs' = [refs EXCEPT ![p] = @ - 1]
    /\ DropGlobalLock(p)
    /\ pc' = [pc EXCEPT ![p] = IF refs[p] = 1 THEN "idle" ELSE "on"]
    /\ UNCHANGED <<proc, HelperVars, readonly>>

\* A reference to the instance goes away; with the last one ~ZYpp() resets
\* the global lock.
DropRef(p) ==
    /\ Alive(p) /\ pc[p] = "on" /\ refs[p] >= 1
    /\ refs' = [refs EXCEPT ![p] = @ - 1]
    /\ IF refs[p] = 1
       THEN DropGlobalLock(p) /\ pc' = [pc EXCEPT ![p] = "idle"]
       ELSE UNCHANGED <<lockFile, cleanLock, pc>>
    /\ UNCHANGED <<proc, HelperVars, readonly>>

\* zypp_readonly_hack::IWantIt() may be called at any time and is never undone.
IWantIt(p) ==
    /\ Alive(p) /\ pc[p] \in {"idle", "on"} /\ ~readonly[p]
    /\ readonly' = [readonly EXCEPT ![p] = TRUE]
    /\ UNCHANGED <<proc, lockFile, HelperVars, pc, refs, cleanLock>>

-----------------------------------------------------------------------------
(* commit(): the program runs zypp-rpm and waits for it                     *)

\* Only an owner of the global lock that is not readonly commits.
StartCommit(p, h) ==
    /\ Alive(p) /\ pc[p] = "on" /\ cleanLock[p] /\ ~readonly[p]
    /\ proc[h] = "absent" /\ parent[h] = None
    /\ proc' = [proc EXCEPT ![h] = "running"]
    /\ helper' = [helper EXCEPT ![h] = "started"]
    /\ parent' = [parent EXCEPT ![h] = p]
    /\ pc' = [pc EXCEPT ![p] = "commit"]
    /\ UNCHANGED <<lockFile, rpmLockFile, refs, cleanLock, readonly>>

\* fopen( zypp-rpm.pid, "w" ) truncates the file, before the flock is taken.
HelperOpen(h) ==
    /\ helper[h] = "started"
    /\ rpmLockFile' = None
    /\ helper' = [helper EXCEPT ![h] = "opened"]
    /\ UNCHANGED <<proc, lockFile, ProcVars, parent>>

\* Under the flock: write the own pid.  The rpm transaction follows.
HelperWrite(h) ==
    /\ helper[h] = "opened"
    /\ rpmLockFile' = h
    /\ helper' = [helper EXCEPT ![h] = "rpm"]
    /\ UNCHANGED <<proc, lockFile, ProcVars, parent>>

\* Every return after that point: ~s_lockinfo() truncates the file.
HelperExit(h) ==
    /\ helper[h] = "rpm"
    /\ rpmLockFile' = None
    /\ helper' = [helper EXCEPT ![h] = "none"]
    /\ proc' = [proc EXCEPT ![h] = "absent"]
    /\ UNCHANGED <<lockFile, ProcVars, parent>>

\* zypp-rpm is killed, or returns before it opened the pid file.
HelperDies(h) ==
    /\ helper[h] # "none"
    /\ helper' = [helper EXCEPT ![h] = "none"]
    /\ proc' = [proc EXCEPT ![h] = "absent"]
    /\ UNCHANGED <<lockFile, rpmLockFile, ProcVars, parent>>

\* commit() leaves its event loop when its zypp-rpm has finished.
CommitDone(p, h) ==
    /\ Alive(p) /\ pc[p] = "commit" /\ parent[h] = p /\ helper[h] = "none"
    /\ pc' = [pc EXCEPT ![p] = "on"]
    /\ parent' = [parent EXCEPT ![h] = None]
    /\ UNCHANGED <<proc, lockFile, rpmLockFile, refs, cleanLock, readonly, helper>>

-----------------------------------------------------------------------------
(* The processes themselves (the operating system)                         *)

\* A program is started.  Its pid may be one that a dead owner left behind.
StartProc(p) ==
    /\ proc[p] = "absent"
    /\ PidReuse \/ lockFile # p
    /\ proc' = [proc EXCEPT ![p] = "running"]
    /\ UNCHANGED <<lockFile, HelperVars, ProcVars>>

Forget(p) ==
    /\ pc' = [pc EXCEPT ![p] = "idle"]
    /\ refs' = [refs EXCEPT ![p] = 0]
    /\ readonly' = [readonly EXCEPT ![p] = FALSE]
    /\ parent' = [h \in Helper |-> IF parent[h] = p THEN None ELSE parent[h]]
    /\ UNCHANGED <<rpmLockFile, helper>>

\* exit(): the destructor of the static _theGlobalLock cleans the lock file.
Exit(p) ==
    /\ Alive(p) /\ pc[p] \in {"idle", "on"}
    /\ DropGlobalLock(p)
    /\ Forget(p)
    /\ \E s \in {"absent", "zombie"} : proc' = [proc EXCEPT ![p] = s]

\* The program is killed: nothing is cleaned, its zypp-rpm goes on.
Crash(p) ==
    /\ Alive(p)
    /\ cleanLock' = [cleanLock EXCEPT ![p] = FALSE]
    /\ Forget(p)
    /\ \E s \in {"absent", "zombie"} : proc' = [proc EXCEPT ![p] = s]
    /\ UNCHANGED lockFile

\* The parent of a zombie collects its exit status.
Reap(p) ==
    /\ proc[p] = "zombie"
    /\ proc' = [proc EXCEPT ![p] = "absent"]
    /\ UNCHANGED <<lockFile, HelperVars, ProcVars>>

\* A process that has nothing to do with libzypp gets the pid.
ForeignStart(x) ==
    /\ PidReuse /\ proc[x] = "absent"
    /\ x \in Helper => parent[x] = None    \* an uncollected child keeps its pid
    /\ proc' = [proc EXCEPT ![x] = "foreign"]
    /\ UNCHANGED <<lockFile, HelperVars, ProcVars>>

ForeignExit(x) ==
    /\ proc[x] = "foreign"
    /\ proc' = [proc EXCEPT ![x] = "absent"]
    /\ UNCHANGED <<lockFile, HelperVars, ProcVars>>

-----------------------------------------------------------------------------
GetZYpp(p) ==
    \/ GetExisting(p) \/ GetUnlocked(p) \/ GetLocked(p) \/ StartWaiting(p)
    \/ RetrySucceeds(p) \/ GiveUp(p) \/ CheckRpm(p)

ProcStep(p) ==
    \/ GetZYpp(p) \/ DropRef(p) \/ IWantIt(p)
    \/ StartProc(p) \/ Exit(p) \/ Crash(p) \/ Reap(p)
    \/ \E h \in Helper : StartCommit(p, h) \/ CommitDone(p, h)

HelperStep(h) == HelperOpen(h) \/ HelperWrite(h) \/ HelperExit(h) \/ HelperDies(h)

Next ==
    \/ \E p \in Proc : ProcStep(p)
    \/ \E h \in Helper : HelperStep(h)
    \/ \E x \in Proc \cup Helper : ForeignStart(x) \/ ForeignExit(x)

Spec == Init /\ [][Next]_vars

\* The retry loop of a waiting program goes on; nothing is assumed of the
\* applications, of zypp-rpm or of the owner of the lock.
FairSpec == Spec /\ \A p \in Proc : WF_vars(RetrySucceeds(p)) /\ WF_vars(CheckRpm(p))

-----------------------------------------------------------------------------
(* Properties                                                               *)

Holds(p) == cleanLock[p]

\* At most one program believes that it owns the system, whatever dies and
\* whichever pids are given away again.
MutualExclusion == \A p, q \in Proc : Holds(p) /\ Holds(q) => p = q

\* Whoever owns the lock is alive and is the one the lock file names; nobody
\* truncates or overwrites the file under a living owner.
OwnerRecorded == \A p \in Proc : Holds(p) => lockFile = p /\ proc[p] = "running"

\* An instance of a root program in normal mode is always backed by the lock:
\* no path through getZYpp(), commit() or the copies of the pointer keeps an
\* instance whose lock file entry was already cleaned.
InstanceBacked ==
    \A p \in Proc \ Users :
        pc[p] \in {"on", "commit"} /\ ~readonly[p] => Holds(p) /\ refs[p] >= 1

\* A living program that gives the lock up, on the error paths of getZYpp()
\* (zypp-rpm still running) or at its exit, leaves no entry behind that would
\* lock everybody out.
NoFalseOwner ==
    [][\A p \in Proc : Holds(p) /\ ~Holds(p)' => lockFile' # p \/ proc'[p] # "running"]_vars

OnReusedPid(x) == x # None /\ proc[x] \in {"running", "foreign"} /\ ~(x \in Proc /\ Holds(x))

\* A program that waits for ever is overtaken again and again, unless another
\* program got the pid of a dead owner: the dead owner itself or a zombie never
\* blocks it.
NeverBlockedByTheDead ==
    \A p \in Proc :
        <>[](pc[p] = "waiting") =>
            []<>(OnReusedPid(lockFile) \/ \E q \in Proc \ {p} : Holds(q))

\* "if we reach this place libzypp has its global lock and made sure there is
\* no still running zypp-rpm instance" (zypp-rpm/main.cc): a zypp-rpm about
\* to open the pid file is the only one.
OnlyOneRpm ==
    \A g, h \in Helper : helper[g] # "none" /\ helper[h] = "started" => g = h

\* The refinement: the owner is the program that holds.
Owner == IF \E p \in Proc : Holds(p) THEN CHOOSE p \in Proc : Holds(p) ELSE None

Mutex == INSTANCE GlobalMutex WITH NoProc <- None, owner <- Owner

\* The pid file implements a mutual exclusion lock.
ImplementsMutex == Mutex!Spec
=============================================================================
