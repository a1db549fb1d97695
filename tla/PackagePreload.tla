---------------------------- MODULE PackagePreload ----------------------------
(***************************************************************************)
(* CommitPackagePreloader: before a commit its packages are downloaded by one *)
(* worker per connection, each with one request for the dispatcher.  A worker *)
(* takes job after job, from the mirror of the repository the fewest workers  *)
(* use; what a mirror does not give is asked of the others.  The user may     *)
(* abort in a progress report.                                             *)
(*                                                                         *)
(* The contents of the files and the other reports are left out; a mirror is a *)
(* number, the lower the earlier in the list of its repository.              *)
(***************************************************************************)
EXTENDS NetworkDispatch, FiniteSets

CONSTANTS Wanted,     \* the repositories of the packages, in the order of the jobs
          MirrorsOf,  \* the mirrors of a repository
          MaxAuth     \* bound: how often the user gives credentials for one job

Job    == DOMAIN Wanted
RepoMirror == UNION {MirrorsOf[r] : r \in DOMAIN MirrorsOf}

ASSUME PreloadAssumption ==
    /\ Wanted \in Seq(DOMAIN MirrorsOf) /\ Wanted # <<>>
    /\ DOMAIN MirrorsOf \subseteq Nat
    /\ \A i, j \in Job : i <= j => Wanted[i] <= Wanted[j]
    /\ \A r \in DOMAIN MirrorsOf : MirrorsOf[r] # {} /\ MirrorsOf[r] \subseteq Nat \ {0}
    /\ \A r, q \in DOMAIN MirrorsOf : r # q => MirrorsOf[r] \cap MirrorsOf[q] = {}
    /\ Download = 1..MaxConnections /\ MaxAuth \in Nat

VARIABLES pre,      \* CommitPackagePreloader, what it reported, the directory it fills
          loader,   \* the PreloadWorkers; their requests are Download
          mirrors   \* RepoUrl

preVars == <<net, calls, pre, loader, mirrors>>

NoMirror == 0

PreloadTypeOK ==
    /\ NetTypeOK
    /\ pre.phase \in {"start", "loop", "shutdown", "over"}
    /\ pre.required \in Seq(Job) /\ pre.started \in 0..MaxConnections
    /\ pre.missed \in BOOLEAN /\ pre.aborted \in BOOLEAN
    /\ pre.cached \subseteq Job /\ pre.told \in [Job -> Nat]
    /\ \A w \in Download :
          /\ loader[w].finished \in BOOLEAN /\ loader[w].job \in {0} \cup Job
          /\ loader[w].mirror \in RepoMirror \cup {NoMirror} /\ loader[w].tainted \subseteq RepoMirror
          /\ loader[w].tmp \in BOOLEAN /\ loader[w].auths \in 0..MaxAuth
    /\ \A m \in RepoMirror : mirrors[m].refs \in Nat /\ mirrors[m].miss \in Nat

PreloadInit ==
    /\ NetInit
    /\ \E left \in SUBSET {1} :      \* a file of an earlier preload
          pre = [ phase    |-> "start",
                  required |-> [j \in Job |-> j],          \* _requiredDls
                  started  |-> 0,                          \* _workers
                  missed   |-> FALSE,                      \* _missedDownloads
                  aborted  |-> FALSE,                      \* observer: the user aborted
                  cached   |-> left,                       \* files at their place
                  told     |-> [j \in Job |-> 0] ]         \* observer: final fileDone()s
    /\ loader = [w \in Download |->
          [ finished |-> FALSE, job |-> 0, mirror |-> NoMirror, repo |-> 0,
            tainted |-> {}, tmp |-> FALSE, auths |-> 0 ]]
    /\ mirrors = [m \in RepoMirror |-> [refs |-> 0, miss |-> 0]]

NextJobCall(w) == [op |-> "nextJob", req |-> w]
TaintCall(w)   == [op |-> "taint", req |-> w]

\* The worker whose code runs.
This == Head(calls).req

\* finishCurrentJob: the last word about a job, good or bad.  (What is said before
\* another mirror is tried is not final.)
Told(j, fatal) == [pre EXCEPT !.told[j] = @ + 1, !.missed = @ \/ fatal]

-----------------------------------------------------------------------------
(* Mirrors.                                                                *)

\* findUsableMirror; the first of those with the fewest users and misses.
Load(m, table) == table[m].refs + table[m].miss
LeastUsed(usable, table) ==
    CHOOSE m \in usable : \A n \in usable :
        \/ Load(m, table) < Load(n, table)
        \/ Load(m, table) = Load(n, table) /\ m <= n

Unref(m, table) == IF m = NoMirror THEN table ELSE [table EXCEPT ![m].refs = @ - 1]
Ref(m, table)   == [table EXCEPT ![m].refs = @ + 1]

\* Mutant: the mirror of another repository is not released.
PrepareMirrorKeepsRef(w, j) ==
    IF loader[w].mirror # NoMirror /\ loader[w].repo = Wanted[j]
    THEN [mirror |-> loader[w].mirror, table |-> mirrors]
    ELSE LET choice == LeastUsed(MirrorsOf[Wanted[j]], mirrors)
         IN  [mirror |-> choice, table |-> Ref(choice, mirrors)]

\* prepareMirror: keep the mirror for a package of the same repository.
PrepareMirror(w, j) ==
    IF loader[w].mirror # NoMirror /\ loader[w].repo = Wanted[j]
    THEN [mirror |-> loader[w].mirror, table |-> mirrors]
    ELSE LET free   == Unref(loader[w].mirror, mirrors)
             choice == LeastUsed(MirrorsOf[Wanted[j]], free)
         IN  [mirror |-> choice, table |-> Ref(choice, free)]

-----------------------------------------------------------------------------
(* nextJob.                                                                *)

NoMoreJobs ==
    /\ Runs("nextJob") /\ pre.required = <<>>
    /\ loader' = [loader EXCEPT ![This] = [@ EXCEPT
          !.finished = TRUE, !.mirror = NoMirror, !.tainted = {}, !.tmp = FALSE,
          !.repo = IF loader[This].mirror = NoMirror THEN loader[This].repo ELSE 0]]
    /\ mirrors' = Unref(loader[This].mirror, mirrors)
    /\ net' = IF net.loop = "running" /\ \A w \in 1..pre.started : loader'[w].finished
              THEN [net EXCEPT !.loop = "quit"] ELSE net
    /\ calls' = Tail(calls)
    /\ UNCHANGED pre

\* A job the worker takes, with a temporary file if it is to be downloaded.
Takes(tmp) ==
    LET j == Head(pre.required)
        p == PrepareMirror(This, j)
    IN  /\ loader' = [loader EXCEPT ![This] = [@ EXCEPT
              !.job = j, !.mirror = p.mirror, !.repo = Wanted[j],
              !.tainted = {}, !.tmp = tmp, !.auths = 0]]
        /\ mirrors' = p.table

\* No directory, or no URL.
JobFails ==
    /\ Runs("nextJob") /\ pre.required # <<>>
    /\ Takes(FALSE)
    /\ pre' = [Told(Head(pre.required), TRUE) EXCEPT !.required = Tail(@)]
    /\ UNCHANGED netVars

JobCached ==
    /\ Runs("nextJob") /\ pre.required # <<>> /\ Head(pre.required) \in pre.cached
    /\ Takes(FALSE)
    /\ pre' = [Told(Head(pre.required), FALSE) EXCEPT !.required = Tail(@)]
    /\ UNCHANGED netVars

JobStarts ==
    /\ Runs("nextJob") /\ pre.required # <<>> /\ Head(pre.required) \notin pre.cached
    /\ Takes(TRUE)
    /\ pre' = [pre EXCEPT !.required = Tail(@)]
    /\ calls' = Becomes(<<EnqueueCall(This)>>)
    /\ UNCHANGED net

-----------------------------------------------------------------------------
(* onRequestFinished.                                                      *)

RequestFinished(res) == Runs("finished") /\ Head(calls).res = res

\* The file is moved to its place, or it can not be: always if there is none.
FinishedOk ==
    /\ RequestFinished("ok")
    /\ \/ /\ loader[This].tmp
          /\ pre' = [Told(loader[This].job, FALSE) EXCEPT !.cached = @ \cup {loader[This].job}]
          /\ loader' = [loader EXCEPT ![This].tmp = FALSE]
       \/ /\ pre' = Told(loader[This].job, TRUE)
          /\ UNCHANGED loader
    /\ calls' = Becomes(<<NextJobCall(This)>>)
    /\ UNCHANGED <<net, mirrors>>

FinishedError ==
    /\ RequestFinished("error")
    /\ calls' = Becomes(<<TaintCall(This)>>)
    /\ UNCHANGED <<net, pre, loader, mirrors>>

\* Mutant: the last mirror fails, but that is not a miss.
TaintMirrorForgiven ==
    /\ Runs("taint")
    /\ pre' = Told(loader[This].job, FALSE)
    /\ calls' = Becomes(<<NextJobCall(This)>>)
    /\ UNCHANGED <<net, loader, mirrors>>

\* Mutant: the mirror is skipped this time, but not tainted.
TaintMirrorForgets ==
    /\ Runs("taint")
    /\ LET old    == loader[This].mirror
           usable == MirrorsOf[Wanted[loader[This].job]] \ {old}
       IN  IF usable = {}
           THEN /\ pre' = Told(loader[This].job, TRUE)
                /\ calls' = Becomes(<<NextJobCall(This)>>)
                /\ UNCHANGED <<loader, mirrors>>
           ELSE LET new == LeastUsed(usable, mirrors) IN
                /\ loader' = [loader EXCEPT ![This].mirror = new]
                /\ mirrors' = Ref(new, Unref(old, mirrors))
                /\ calls' = Becomes(<<EnqueueCall(This)>>)
                /\ UNCHANGED pre
    /\ UNCHANGED net

\* One turn of the loop over taintCurrentMirror(): ask the next mirror, whose URL
\* may turn out to be useless, or give up.
TaintMirror ==
    /\ Runs("taint")
    /\ LET old     == loader[This].mirror
           tainted == loader[This].tainted \cup ({old} \ {NoMirror})
           table   == IF old = NoMirror THEN mirrors ELSE [mirrors EXCEPT ![old].miss = @ + 1]
           usable  == MirrorsOf[Wanted[loader[This].job]] \ tainted
       IN  IF usable = {}
           THEN /\ pre' = Told(loader[This].job, TRUE)
                /\ loader' = [loader EXCEPT ![This].tainted = tainted]
                /\ mirrors' = table
                /\ calls' = Becomes(<<NextJobCall(This)>>)
           ELSE LET new == LeastUsed(usable, table) IN
                /\ loader' = [loader EXCEPT ![This].tainted = tainted, ![This].mirror = new]
                /\ mirrors' = Ref(new, Unref(old, table))
                /\ \/ calls' = Becomes(<<EnqueueCall(This)>>)
                   \/ UNCHANGED calls
                /\ UNCHANGED pre
    /\ UNCHANGED net

FinishedAuth ==
    /\ RequestFinished("auth")
    /\ \/ /\ loader[This].auths < MaxAuth
          /\ loader' = [loader EXCEPT ![This].auths = @ + 1]
          /\ calls' = Becomes(<<EnqueueCall(This)>>)
          /\ UNCHANGED pre
       \/ /\ pre' = Told(loader[This].job, TRUE)
          /\ calls' = Becomes(<<NextJobCall(This)>>)
          /\ UNCHANGED loader
    /\ UNCHANGED <<net, mirrors>>

FinishedCancelled ==
    /\ RequestFinished("cancelled")
    /\ pre' = Told(loader[This].job, TRUE)
    /\ calls' = Becomes(<<NextJobCall(This)>>)
    /\ UNCHANGED <<net, loader, mirrors>>

-----------------------------------------------------------------------------
(* preloadTransaction.                                                     *)

StartPreloadWorker ==
    /\ pre.phase = "start" /\ calls = <<>>
    /\ pre.required # <<>> /\ pre.started < MaxConnections
    /\ pre' = [pre EXCEPT !.started = @ + 1]
    /\ calls' = <<NextJobCall(pre.started + 1)>>
    /\ UNCHANGED <<net, loader, mirrors>>

RunLoop ==
    /\ pre.phase = "start" /\ calls = <<>>
    /\ pre.required = <<>> \/ pre.started = MaxConnections
    /\ \E w \in 1..pre.started : ~loader[w].finished
    /\ pre' = [pre EXCEPT !.phase = "loop"]
    /\ net' = [net EXCEPT !.loop = "running"]
    /\ UNCHANGED <<calls, loader, mirrors>>

\* The loop has quit, or there was nothing to wait for: the end is reported and
\* the dispatcher destroyed.
LoopEnds ==
    /\ calls = <<>>
    /\ \/ pre.phase = "loop" /\ net.loop = "quit"
       \/ /\ pre.phase = "start" /\ pre.required = <<>>
          /\ \A w \in 1..pre.started : loader[w].finished
    /\ pre' = [pre EXCEPT !.phase = "shutdown"]
    /\ net' = [net EXCEPT !.loop = "stopped"]
    /\ calls' = <<CancelAllCall("cancelled")>>
    /\ UNCHANGED <<loader, mirrors>>

PreloadReturns ==
    /\ pre.phase = "shutdown" /\ calls = <<>>
    /\ pre' = [pre EXCEPT !.phase = "over"]
    /\ UNCHANGED <<net, calls, loader, mirrors>>

\* reportBytesDownloaded, in the write callback of curl: progress() returns false.
UserAborts(d) ==
    /\ Transferring(d) /\ net.mode[d] = "running"
    /\ pre' = [pre EXCEPT !.missed = TRUE, !.required = <<>>, !.aborted = TRUE]
    /\ net' = [net EXCEPT !.locked = TRUE]
    /\ calls' = <<[CancelAllCall("cancelled") EXCEPT !.was = TRUE]>> \o WithinCurl
    /\ UNCHANGED <<loader, mirrors>>

PreloadNext ==
    \/ DispatchNext /\ UNCHANGED <<pre, loader, mirrors>>
    \/ NoMoreJobs \/ JobFails \/ JobCached \/ JobStarts
    \/ FinishedOk \/ FinishedError \/ TaintMirror \/ FinishedAuth \/ FinishedCancelled
    \/ StartPreloadWorker \/ RunLoop \/ LoopEnds \/ PreloadReturns
    \/ \E d \in Download : UserAborts(d)

PreloadSpec == PreloadInit /\ [][PreloadNext]_preVars

\* The thread goes on with its calls, and curl ends every transfer: at the latest
\* the activity timer does.
PreloadFairness == WF_preVars(PreloadNext)

-----------------------------------------------------------------------------
(* Properties.                                                             *)

\* Whenever the event loop waits, every worker that is not finished has its
\* request in the dispatcher's list of running ones and its handle in curl, and
\* nobody else has: no slot is lost, no worker waits for a download nobody does.
WorkerHasTransfer ==
    calls = <<>> /\ net.loop = "running" =>
        /\ ToSet(net.running) = {w \in 1..pre.started : ~loader[w].finished}
        /\ net.inMulti = ToSet(net.running)
        /\ Len(net.running) = Cardinality(net.inMulti) /\ net.pending = <<>>

\* The preload says that nothing is missing only if every package has a file, and
\* unless the user aborted the last word about each package was said exactly once.
PreloadTellsTruth ==
    pre.phase = "over" =>
        /\ ~pre.missed => pre.cached = Job
        /\ ~pre.aborted => \A j \in Job : pre.told[j] = 1

\* The users of a mirror, by which the next one is chosen, are the workers that
\* have it, through all retries, changes of the repository and cancellations.
MirrorUsers ==
    \A m \in RepoMirror : mirrors[m].refs = Cardinality({w \in Download : loader[w].mirror = m})

\* A preload that has started ends, whatever mirrors and servers do and whenever the
\* user aborts.
PreloadEnds == pre.started > 0 ~> pre.phase = "over"

=============================================================================
