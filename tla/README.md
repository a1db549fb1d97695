# A TLA+ model of libzypp

libzypp is the package management library behind zypper and YaST: it reads
repositories, resolves dependencies with libsolv, downloads packages and runs
the rpm transaction.  This directory holds TLA+ modules that model the parts of
it whose correctness depends on *order*: processes that share a lock file or the
caches of a repository, asynchronous requests handed to worker processes,
schedulers with bounded pools, a commit that follows what another process does,
discs that users change, downloads whose slots call the dispatcher again, requests
of several authorities for the same package.  Every
definition is translated from the C++ sources; `PROJECT.json`
names for each one the file and the lines it stands for.

    tlc -config MCZyppLock.cfg MCZyppLock.tla      # check an instance
    tlc -config MCLibrary.cfg MCLibrary.tla        # check seven parts at once
    tlapm ZyppLock_proofs.tla                      # check the proofs of a module

All paths below are relative to `src/`; `NG` stands for
`zyppng/lib/zypp-media/ng`.

## 1. Inventory

### 1.1 The parts of the system

| Part | Sources | State it keeps | Operations |
|---|---|---|---|
| Global lock | `zypp/zypp/ZYppFactory.cc`, `zypp/tools/zypp-rpm/main.cc` | pid in `zypp.pid`, pid in `zypp-rpm.pid`, one `ZYpp` instance per process | `getZYpp`, last reference dropped, exit, crash |
| Media provider | `zyppng/lib/zypp-media/ng/provide.cc` | scheme queues, worker queues, attached media, file cache, provide items | `provide`, `attachMedia`, `schedule`, `ensureDownloadSpace`, cache expiry |
| Provide queue and worker | `zyppng/.../providequeue.cc`, `zyppng/tools/zypp-media-*`, `provideworker.cc`, `devicedriver.cc` | wait queue, active items, request ids, worker process | `enqueue`, `scheduleNext`, `cancel`, `processMessage`, `procFinished` |
| Provide items | `zyppng/.../provideitem.cc`, `attachedmediainfo.cc` | one request chain per file or medium, media reference counts | `initialize`, `finishReq`, `cancelWithError`, `onMasterItemReady` |
| Async framework | `zyppng/lib/zypp-core/ng/async`, `zypp-logic/zypp-core/ng/base` | coroutine tasks, timers, event loop, auto-disconnecting signals | `return_value`, `invokeAfter`, timer expiry |
| Stomp RPC | `zypp-logic/zypp-core/ng/rpc` | receive buffer, frame being parsed | `readyRead`, `sendMessage` |
| Network dispatcher | `zypp-logic/zypp-curl/ng/network` | pending and running curl requests, multi-range state, mirrors | `enqueue`, `dequeuePending`, `handleMultiSocketAction`, range retry |
| Legacy media access | `zypp/zypp/media`, `zypp/zypp/MediaSetAccess.cc`, `zypp/zypp/Fetcher.cc` | media manager table, attach points, reference counts | `open`, `attach`, `release`, `provideFile`, retry/redirect by user answer |
| Repository manager | `zypp/zypp/ng/repomanager.cc`, `ng/repo/workflows`, `RepoManager.cc` | `.repo` files, raw cache, solv cache, cookies | refresh, build cache, add/remove/modify repo |
| Key ring | `zypp-logic/zypp-common/private/keyring_p.cc`, `zypp/zypp/ng/workflows/keyringwf.cc` | trusted and general gpg rings | import, trust question, verify signature |
| Resolvable status, selectables | `zypp/zypp/ResStatus.h`, `zypp/zypp/ui/SelectableImpl.cc` | bit field per pool item, chosen candidate per name | `setTransact`, `setLock`, `setStatus`, `setPickStatus`, `setCandidate` |
| Resolver | `zypp/zypp/solver/detail`, `zypp/zypp/Resolver.cc` | job queue for libsolv, solver flags | `resolvePool`, `doUpgrade`, problem solutions |
| Sat pool and data types | `zypp/zypp/sat`, `zypp/zypp/{Arch,Edition,Rel,Range,...}.cc` | libsolv pool, id tables | comparisons, matching, pool preparation |
| Commit | `zypp/zypp/target/TargetImpl.cc`, `CommitPackageCache*.cc`, `commitpackagepreloader.cc`, `shared/commit` | transaction steps, package cache, reports | `commit`, messages of zypp-rpm |
| Rpm database | `zypp/zypp/target/rpm/RpmDb.cc` | rpmdb access, key synchronisation | `installPackage`, `syncTrustedKeys` |
| Purge kernels | `zypp/zypp/PurgeKernels.cc` | keep list of kernels | `markObsoleteKernels` |
| Locks, history, plugins | `zypp/zypp/Locks.cc`, `HistoryLog.cc`, `PluginScript.cc` | lock file entries, log, plugin process | merge, save, send/receive |
| Credentials, mirrors | `zypp-logic/zypp-media`, `zypp-curl` | credential files, mirror statistics | lookup, save |
| Base library | `zypp-logic/zypp-core` (strings, URLs, paths, xml, file system, dates) | none | pure functions |
| GLib API, tools, tests | `zyppng/api`, `zypp/tools`, `*/tests` | - | bindings, command line, tests |

### 1.2 How they interact

* Programs exclude each other through the pid file; inside one program
  everything of the classic API is single threaded and synchronous.  Two of its
  helpers outlive a parent that is killed: `zypp-rpm`, which keeps a pid file of its
  own, and `repo2solv`, which goes on writing the solv file.
* The media provider is asynchronous.  An *item* (a file to provide, a medium
  to attach) creates one *request* at a time and puts it into the queue of its
  URL scheme (`ProvidePrivate::queueRequest`).  The *scheduler* (`doSchedule`)
  moves requests to *worker queues*, each of which owns a worker *process* and
  talks to it over pipes with Stomp frames.  Answers come back as messages; the
  queue calls `finishReq` of the owning item, which ends or retries, and takes
  the request out of its list.
* All of that runs in one event loop.  Nothing is preemptive, but every signal
  handler, every destructor and every message can re-enter: a callback may
  cancel the item that is being finished, ask for another file, or drop the
  last reference.  The worker processes are the real concurrency.

### 1.3 What is hard, and what makes each part correct

| Part | Hard behaviour | Correct if |
|---|---|---|
| Global lock | programs die with their pid in the file, pids are reused, waiters race, `zypp-rpm` outlives its parent | one owner; the owner is the pid in the file; every instance of a root program is backed by it; the dead block nobody; one `zypp-rpm` |
| Provide queue and worker | cancellation crosses the answer; the worker blocks with a question; cache hits that vanish; death and shutdown at any time | the owner is told once; queue and worker agree on what is under way; an answer never reaches another request; a blocked worker is answered |
| Scheduler | limits that are checked while the queues fill; requests that are deferred; workers replaced, dead or impossible to start | limits hold; no request is lost or sent twice; something always wakes the scheduler while a request waits |
| Provide items | `finishReq`, `cancelWithError` and `dequeueRequest` call each other; retry on mirrors; one master attach for many | one result per item; a retry really is queued; the siblings of a cancelled master are told, once |
| Async framework, timers | callbacks that destroy their sender | a promise is fulfilled once |
| Stomp RPC | frames arrive in pieces | every frame is delivered once, in order, as soon as it is complete |
| Network dispatcher, preload | slots that enqueue, cancel and start requests in the middle of the dispatcher's loops and of curl's callbacks; mirrors that fail; an abort | whoever waits has a transfer; nothing is reported as there that is not, or reported twice; it ends |
| Legacy media access | shared attach points, changes of medium by the user, mounts of others | released exactly when the last user is gone; no file from the wrong medium |
| Repository manager | crash while caches are replaced, programs in read-only mode beside each other | a cache whose cookie matches is complete; metadata is never lost |
| Commit | death of `zypp-rpm`, two pipes read in any order, rpm replaced by itself | result and history say what rpm did; output belongs to the right report; scripts run once; the commit ends |
| Resolvable status, selectables | several authorities; requests for all versions of a name that are refused in the middle; names whose versions install side by side or not | a weaker cause never overrides a stronger one; a refused request changes no version; a granted one is what is shown |
| Key ring, credentials, locks, history, plugins | questions to the user, files shared with other programs | the answer is applied to what was asked; no entry of others is lost |
| Resolver, sat pool, data types, purge kernels, base library | none (sequential) | the documented functions; unit tests cover them |

The single hazards, each at its line and with the properties that watch it, are
in `PROJECT.json`.

## 2. Plan

The order follows the damage an error would do: first what protects the system
(the lock), then the code with the most interleavings (the provider, from the
pipe up), then what changes the system (commit) and what outlives the program
(caches), then what talks to users.

| Step | Modules | State |
|---|---|---|
| 1 | `GlobalMutex` (abstract), `ZyppLock` (refines it), `ZyppLock_proofs` | done |
| 2 | `ProvidePipe` <- `ProvideQueue`, `ProvideWorker` <- `ProvideChannel` (composition) | done |
| 3 | `ProvideSched` (downloading workers, file items) | done |
| 4 | `ProvideService` (abstract): what a queue promises to its items; `ProvideChannel` refines it | done |
| 5 | `ProvideAttach`: attach items, master and siblings, attached media, resumption of the owners | done |
| 6 | `CommitSingle` (one transaction by `zypp-rpm`), `CommitClassic` (rpm once per package) | done |
| 7 | `RepoCache`: refresh and solv cache of a repository, kills between any two steps | done |
| 8 | `MediaSet`: a set of discs over shared drives, with the user | done |
| 9 | `NetworkDispatch` (requests for curl) <- `PackagePreload` (its user before a commit) | done |
| 10 | `ResolvableStatus` <- `Selectable`: requests for a name or a version, the solver's result, locks | done |
| 11 | `MCPipes`, `MCLibrary`: the parts above that share nothing, in two instances for safety and one for progress | done |
| 12 | `ProvideChannel_proofs`, `Commit_proofs`, `Repository_proofs` (caches) | done |
| 13 | `ListLemmas`, `Provider_proofs` (scheduler and attaching), `PackagePreload_proofs`, `Selectable_proofs`, `Repository_proofs` (discs) | done |
| 14 | CPU bound and mounting workers and the file cache in the scheduler; Stomp frames; ranges of a request | if there is room |

The modules are written so that they can be proved about: constants with named
assumptions, one action per operation, handlers as operators from a state to a
state, no RECURSIVE operator, and no filter or fold over a list where an erased
element or a set says the same.

## 3. The modules

### 3.1 Global lock: `ZyppLock`, `GlobalMutex`

`ZYppFactory::getZYpp()` keeps a file `zypp.pid` in which the owner writes its
pid; it is read and written under a file lock, so a check with the write that
follows (`zyppLocked()`) is one action.  `proc` is what `/proc` says of a pid,
and it is all the code can see: a `foreign` process that got the pid of a dead
owner looks like the owner.  `pc` follows a program through `getZYpp()`: the
first check (`GetLocked`, `StartWaiting`), the loop with its sleep
(`RetrySucceeds`, `GiveUp`), the look at `zypp-rpm.pid` after waiting
(`CheckRpm`).  `refs` counts the copies of `ZYpp::Ptr`; the last one that goes
away (`DropRef`) and the end of the program (`Exit`) run the destructor of the
lock, which truncates the file if this program wrote it (`cleanLock`).  `Crash`
runs nothing.  `zypp-rpm` is the second process of the model: `HelperOpen`
(`fopen` with "w" truncates before the lock is taken), `HelperWrite`,
`HelperExit` (destructor of `s_lockinfo`), `HelperDies`.

`GlobalMutex` says what is promised: one owner at a time, taken when free.

### 3.2 A queue and its worker: `ProvidePipe`, `ProvideQueue`, `ProvideWorker`, `ProvideChannel`, `ProvideService`

`ProvidePipe` has what both sides share: the messages, the two pipes, the life
of the process.  `ProvideQueue` is the class of that name; its handlers call
each other (an answer dequeues, dequeuing schedules, scheduling may write to a
dead worker, which shuts down), so each is an operator from a queue record to a
queue record, and an action applies the whole chain at once, as the code does
within one callback.  `out` collects the messages sent on the way.  An active
item without its request (`None`) is one that was cancelled.  `owner` and `told`
are the item's side: whether it waits, and how often `finishReq()` was called.

`ProvideWorker` has the message loop of `provideworker.cc` and the two kinds of
backends: the http worker runs downloads side by side, the mounting workers
take one request at a time.  `Ask` blocks the worker until `FirstAnswer`;
messages it reads meanwhile are remembered in order.

A file that is only checked for existence (`exists`) is answered twice by the http
worker, which does not return after the first success
(`networkprovider.cc:629-650`); the queue must take the second answer for none.

`ProvideChannel` composes the two.  `Tokens(r)` has the places where the present
request of `r` is between them: a Request in the pipe, an item of the worker, its
question, its answer.  Each Request and each item is a place of its own; the
answers are one, as a file that exists is answered twice.  `ProvideService` is what the items see of the
pair: while it works every request is answered once, in any order; when it stops
everybody is told but for at most one request, the one that was being written to
a worker that is dead already; after that it takes requests and keeps them until
it is destroyed.

Decisions: a callback that acts on the queue again (an owner that cancels another
request from `finishReq`) is modelled as the step that follows.  The shutdown,
with the wait for the exit of the worker, is one step, and the pipes are
unbounded; the output a dead worker left in its pipe may be read before or after
the end of the process is noticed.  Left out: the handshake of `doStartup()`,
informal messages, malformed messages, requests without an active URL, and
Redirect, which no worker of the repository sends.  (An item could not follow
one: `safeRedirectTo()` puts the new URL among the past redirects,
`provideitem.cc:215`, and the scheduler then refuses it, `provide.cc:259`.)

### 3.3 The scheduler: `ProvideSched`

One run of `doSchedule()` is `BeginSchedule`, one step per request of the
scheme's queue (`pos` is the loop's iterator), and `EndSchedule`.  The branches
of the loop are actions, in the order of the code: `NoUsableURL`,
`TooManyConnections` (which leaves the loop), `StartWorker` for a mirror without
one, `UseWorker` with the fewest requests, `ReplaceWorker` of the queue that is
idle for the longest time, `Defer`.  `tried` is `_pastRedirects`: a mirror is
tried once, also if its worker could not be started.  The items are those of
`ProvideFileItem`: `ProvideFile`, `Answer` (with `Recover`, the retry on another
mirror), `ReleaseFile` (the owner drops the result it waits for).

A worker queue is reduced to what the scheduler sees of it, and to the behaviour
`ProvideService` allows a downloading worker (and `ProvideQueue` explains): a request that is cancelled
leaves a `None` no answer ever removes, a dead queue takes requests and keeps
them.  Decisions: one URL per host and mirror; the provider is started and not
destroyed; the death of a worker is noticed before anything else is sent to it
(the request lost otherwise is in `ProvideService`); workers die, and owners drop
items, between two runs of the scheduler (in the code a callback can do the latter during a run, which erases
from the queue the loop iterates over, see the hazard at `provide.cc:844`);
`provide()` may be called at any time.

A connection is a request under way (`UnderWay`): one that is sent to several
hosts when an idle worker is replaced (the failure of `sched_double`) counts once,
and every state in which a queue has a request that belongs to another one is
among the troubled ones.

### 3.4 Attaching media: `ProvideAttach`

The record `at` is the provider as attaching sees it: the list of items, the
state and the request of each, the media that are attached.  `AttachMedia` is the
call of an owner, which uses an attached medium at once or waits for an item;
`DoSchedule` is one run of the scheduler: it forgets media nobody refers to,
initializes the new items in their order (`Initialize`: an attached medium, a
master to wait for, or a request of its own) and hands requests to workers
(`Placed`).  `Attached` and `Failed` are the answers.  Items for the same medium
wait for the first one (`master`), also through each other: `Listeners` is the
smallest set that has with an item also those connected to it.  Of the requests
that fail in one run of the scheduler (`FailAll`) no two share a listener, so that
all end at once.

The owner is a coroutine.  `task` follows it from the call to the handle it holds;
`wake` has those that `invokeAfter()` is going to resume, which is a step of its
own: between the end of an item and `Resume` the scheduler may run.  `Destroy` is
an owner that drops its task while it waits; `CancelWithError` has the two rounds
`cancelWithError()` and `finishReq()` make of it when a request is under way.
Resuming a coroutine whose frame is gone is undefined: `ResumeDestroyed` goes
unnoticed or ends the process.

What happens between a request and its answer is in 3.2 and 3.3; here a request
is queued or sent and gets one answer.  One scheme, whose worker mounts or
downloads, is enough, as items of different schemes never share a medium.
Items that wait for a master fail with it when it is cancelled.  `onMasterItemReady()`
has a branch that lets them attach anew after a `MediaRequestCancelledException`
(`provideitem.cc:1021`), but `released()`, the only one to cancel an item, does it with a
plain `MediaException` (line 450), so that the branch is not reached.
Left out: `attachMediaIfNeeded()`, `ejectDevice()`, and workers that die with the
mounts they made.

### 3.5 One transaction: `CommitSingle`

`commitInSingleTransaction()` fills the list of steps (`Fill...`), starts
`zypp-rpm`, and reads from two pipes what librpm does: messages, and the output of
scripts, in which an end tag closes the output of one block.  `lz` is the
committing thread, `zr` is `zypp-rpm` with librpm in it (librpm is external: an
element of the transaction is scripts before, the package, scripts after, and any
of them may fail).  The handlers (`OnBegin`, `OnPackageError`, ...) take one
message each and wait for the end tag of the running report
(`WaitForScriptEnd`) without reading messages; `zypp-rpm` waits while the pipe of
messages is full (`PipeSize`).  `SigFinished` quits the loop with whatever is
still in the pipes, `LastReport` comes after the rest was read.  `Killed` is a
signal at any time; `held` is the write end of the script pipe in a process that a
script left behind.

librpm orders the elements as it likes (`RpmOrder`); source packages are kept for
after the transaction in the order they came (`SourceOrder`).  `did` is what rpm really did, `stage` what the result says, `logged` what the
history says.  Two observers are kept: `seen`, the block of the last tag that was
read, and `early`, that a tag was read before its report was started.  Left out:
progress and log messages, dry runs, how a package comes to disk (it does, or
the step is skipped, or aborts), plugins, and the update scripts but for their
abort.

### 3.6 rpm once per package: `CommitClassic`

The loop of `TargetImpl::commit( policy, cache, result )`: each step is one
action with what rpm did and what the user answered (`StepInstall`, `StepErase`,
`StepFails`, `StepIgnored`, ...).  `col` is `RpmPostTransCollector`: an rpm with
`--runposttrans` dumps lines for the %posttrans script of a package, of an older
one libzypp extracts the script.  The transaction may replace rpm itself (`newrpm`,
`oldrpm`), so both kinds may meet in one collector; `ExecuteScripts`, `RunScript`
and `RunDumped` put them together again.  Every package has a %posttrans script.
A transaction replaces rpm at most once (`OneRpm`: only one version of it can be
installed); `Owed` are the steps whose script has to run, `InOrder` says how.

What is no package is a step, too (`StepOther`): for a buddy, whose package is a step
of its own, nothing is done; the rest is done at once, but for a source package.
`StepSource` is `installSrcPackage()`: rpm is called without the collector, an IGNORE
of the user counts as done, and the history has no entry (`HistoryLog::install()`
writes none for what is no `Package`).  When the source package can not be provided or
the user answers ABORT, the exception leaves `commit()` (`StepSourceThrows`, phase
`thrown`): `abort` is still false, and neither `executeScripts()` nor
`discardScripts()` is reached.  `reported` is an observer of what `discardScripts()` warns of.
Left out: dry runs, RETRY, the file of a product without a package, which is removed,
and the notice before the first call of rpm, which a source package does not give.

### 3.7 The caches of a repository: `RepoCache`

`repo` is the disk (raw cache, solv file, cookie) and the server; `prog` is what
each program does.  Directories are abstracted to the version of their index and of
their data files, a solv file to the version it was made from, `Partial` or
`Mixed`.  A refresh is one step per file system call that matters: temporary
directory, index, data, and the three renames of `exchange()`, each of which may
fail; building the solv cache is: read the status, remove the old files in any
order, `repo2solv` start and end, write the cookie.  `KillProgram` may come before
any step.  Several programs run at once because programs in read-only mode take
no lock.

Decisions: one rpm-md repository; the test for a path and the rename that follows
it in `exchange()` are one step; the clean-up of foreign directories at the start
of a program is one step, and directories a killed program left behind are
forgotten at once, as nobody reads them; users refuse files with a wrong checksum; a
file is signed correctly or refused.  Observers: `had` (there was metadata and no
exception of `RawKept` happened), `raced` and `robbed` (another program interfered).
Left out: `cleanMetadata`, adding, changing and removing repositories, services,
other repository types.

### 3.8 A set of discs: `MediaSet`

`MediaSetAccess::provide()` and what it calls in `MediaManager`, `MediaHandler` and
`MediaCD`, for a set of numbered discs in the drives of a machine.  Every number
has a handler; handlers that find the same disc share its mount (`Sharing`).  `op`
is the call under way: open the handler, attach it, check the disc with the
verifier, skip to the next drive, provide the file, or fail and ask the user, who
aborts, ejects or answers with retry.  All that is one thread; users and other
programs act between two calls and while the question is shown (`ChangeDisc`,
`SystemMounts`, `SystemUnmounts`, `Uses`).  `seen` compares the time of the mount
table with that of the handler's last look, as `checkAttached()` does.

Decisions: attach points are reduced to "ours" and the system's; whether a
receiver is connected for the question is chosen per call; the file may have the
same name on each disc.  Observers: `pulled` (others unmounted the disc), `left`
(mounts the code is known to leave behind: a busy disc that can not be unmounted,
a reference that `MediaManager::attach()` still holds while it skips a drive,
lines 494 and 506, and the rest of a loop that ends at the first failure), `doubt` (a handler
that does not ask its verifier any more).  Left out: the other handlers and the
parents an ISO image needs, directories, `precacheFiles()`, the exception of a
handler that can not go to the next drive (CDs can), trays.  After
`releaseAll()` no other handler shares the disc, so that the branch of the eject
for a shared disc is never reached.

### 3.9 Downloads before a commit: `NetworkDispatch`, `PackagePreload`

`NetworkRequestDispatcher` runs curl transfers for its users and finishes a request
from many places: a message of curl, the activity timer, a handle that can not be
started, `cancelAll()`.  Finishing calls the user's slot, and the user may enqueue
the same request again, so `dequeuePending()` runs inside `setFinished()` inside
`cancelAll()` inside a callback of curl.  `calls` is that stack; each action runs
the innermost call up to the next one, so the order of the calls is that of the
code.  `net` has the two lists, the lock, the state of the requests, and of curl the
handles it has and the results it will give (`done`, a set: each handle has one
message, and which is read first is open).  The http worker of 3.2 is another user of the
dispatcher; its side is `ProvideWorker`.

`PackagePreload` is the user in the commit: one `loader` per connection takes job
after job (`JobStarts`, `JobCached`, `JobFails`), retries mirrors (`TaintMirror`),
asks for credentials (`FinishedAuth`), and the last one quits the event loop.
`UserAborts` is the answer to a progress report, given in the write callback:
`setFinished()` only knows the progress callback as one (`_isInCallback` is not set
in `writefunction()`), so curl refuses to give the handle back, and the request is
finished a second time when the transfer ends.  By then the worker is through; the
second end of its request taints a mirror and starts the download again, until the
loop stops and the dispatcher is destroyed.

Decisions: files without ranges, of one priority; a mirror belongs to one
repository; the jobs are sorted by repository; the loop is entered only when a
transfer is left to wait for.  Observers: `told`, how often the last word about a
package was said, and `aborted`.  Left out: ranges and their recovery, the progress
callback with its cached result, the reports other than `fileDone`, which packages
are wanted.

### 3.10 What is to become of packages: `ResolvableStatus`, `Selectable`

`ResolvableStatus` has the setters of `ResStatus` as operators that return the
status after the call, or `Refused`: a version is kept, locked or transacts, and
a causer decided it.  A lock or a transaction can only be ended by a causer that is not
weaker; what is kept is anybody's.

`Selectable` has the versions of each name (`PoolItem`; an installed one is not
available as the same item, `PoolAssumption`), and the calls a user interface makes:
`SetStatus` for the name, `SetPickStatus` for one version and those identical to
it, `SetCandidate`.  Each of them is a loop over versions (`ForEach`) that ends at
the first refusal and then restores what it backed up (`Outcome`).  A request for a
version that installs beside others and one that does not end each other's
transactions; the second is also a request for the candidate and one for the
name (`PickCandidate`), each with a backup of its own or none.  The pool is changed
by others as well: the solver clears its old result and copies the new one
(`ResolvePool`), takes it back (`UndoSolution`), the lock file is read
(`SetHardLocks`), a solution of a problem is chosen (`ExecuteSolution`).  All of
that is sequential; what is hard is the order of the calls.

Decisions: which versions libsolv takes is any choice with at most one version of
those that can not be beside each other; the default candidate of a name is a
constant.  A solution chosen for a problem (`ExecuteSolution`) sets the status of
one version and looks at no other, so that two versions may transact that do not
install beside each other.  Until the solver runs again a pick then moves only the
first of them (`setCandidate()` asks for one transacting item), and what is granted
may install another version than the one asked for.  Left out: the detail, validation, weak and licence fields,
`setSoftLock()` and `setSoftTransact()` (only tests call them), kinds that count as
installed when satisfied, two items with one status, saving and restoring the
pool.

### 3.11 The parts together: `MCLibrary`, `MCPipes`

The scheduler, attaching, the two commits, the preload, the caches, the discs and the
selectables have no state in common in these models: a behaviour of the library is an interleaving of behaviours of its
parts, and a property of one part holds in it exactly if it holds when only that
part moves.  `MCLibrary` therefore has one initial state for each part and lets
only that `part` move, so that one run checks all of them without the
product of their states; `MCPipes` does the same for the two parts that talk to
another process, the channel and the commit by `zypp-rpm`.  The safety run of
`MCLibrary` tells states apart by `part` and the variables of that part (`Moving`, a
VIEW), as the others keep the values they have in the one initial state.  Where
parts do interact (queue and worker, scheduler and items, attaching and its
requests) the composition is in the modules themselves.

## 4. What the runs show

| Run | Instance | Shows |
|---|---|---|
| `lock_safety` | two root programs, one user, two `zypp-rpm`; finite and infinite timeout, pid reuse, two references | `MutualExclusion`, `OwnerRecorded`, `InstanceBacked`; `NoFalseOwner`: no error path leaves an entry that locks others out; `NeverBlockedByTheDead`: who waits for ever is overtaken infinitely often; `ImplementsMutex`: the pid file implements `GlobalMutex` |
| `lock_two_rpms` | the same, finite timeout | **violated** `OnlyOneRpm`: after a crash of the owner the next program gets the lock without waiting, does not look at `zypp-rpm.pid`, and starts a second `zypp-rpm` |
| `pipes`, channel | two files, an attach, a detach, three kinds of workers, every fault, three ids | queue and worker agree (`ActiveIsInFlight`), owners are told once (`ToldAtMostOnce`, `WaitingIsHeld`); `BlockedOnlyByCancel` says how far the failure of `channel_ask` goes; `ImplementsService`: the pair implements `ProvideService` |
| one transaction | three transactions with every kind of step; two messages fit the pipe | `LoggedIsDone`, `ResultTellsTruth`, `OutputInOrder` |
| `channel_ask` | a device worker | **violated** `AskIsAnswered`: the question of a request that was just cancelled is dropped, and the worker blocks for ever |
| `channel_owner` | the http worker | **violated** `NoDanglingOwner`: after a cache miss the request is unlinked from the queue that holds it |
| `sched_recover` | a file with two mirrors that may lack it | **violated** `RunningIsPlaced`: the retry on another mirror queues nothing |
| `sched_double` | one worker slot, a file with two mirrors | **violated** `WorkerLimit`: an idle worker is replaced by two, and the request goes to both |
| `attach_drop` | three attach requests | **violated** `NoDestroyedIsResumed`: an owner that drops its task is resumed although its coroutine is gone |
| `library`, scheduler | four files, three hosts, two workers, two connections per host, three in all; cancel, die, failed starts | `ConnectionLimits`, `RunningIsPlaced`, `DeferredHasWaker` |
| attaching | three requests, the second shares a mirror with each of the others; three sets of media files | `OneMaster`, `ToldOnce`, `HandleIsAttached` |
| rpm per package | seven plans: rpm replaced before and after packages, erased, obsoleted and skipped packages, orphans, buddies, and source packages before and after packages and after a downgrade | `PosttransInOrder`, `HistoryTellsTruth` |
| caches | two programs, one of which builds; two versions on the server | `CacheTruth`, `RawKept` |
| discs | two numbers; three drives, or two with others that use, mount, or set the verifier late | `SharedStaysMounted`, `FreedForUser`, `WrongDiscIsKnown` |
| preload | three packages of two repositories, one with two mirrors; two connections; credentials once per package | `WorkerHasTransfer`, `PreloadTellsTruth`, `MirrorUsers` |
| selectables | a name with an installed and two available versions; one with two installed versions, all beside others; one with available versions of both kinds; one with three available versions, none beside another; all causers | `DecisionsStand`: nothing a stronger causer decided is changed, and a refused request changes no version; `GrantTakesEffect`: a granted request is what is shown, and what transacts can be installed together |
| `library_live` | three files; two attach requests; two transactions, one message fits the pipe; a channel with two files and an attach; two packages | `EveryItemEnds`, `EveryAttachEnds`, `CommitEnds`, `EveryRequestIsAnswered`, `PreloadEnds` |
| `repo_empty` | the caches of `library` | **violated** `BuildNeedsMetadata`: without metadata, and with a refresh that could not move what it has downloaded, the build succeeds and the load goes on to a file nobody made |
| `media_verifier` | the discs of `library` | **violated** `ProvidedIsDesired`: the verifier of a number is lost with the handler that is closed for a retry, and the next disc is not checked |

Each property of a passing run has a mutant: a changed definition of the code
(kept beside the original and marked so) under which the same run fails.

**Bounds.** Lock: two root programs race, and a third party (the user program or
a foreign process) is all that can come in between; two `zypp-rpm` are needed for
one to be orphaned.  `MaxRefs` 2 tells the last reference from the others.
Channel: two files are enough for one request to be taken for another or to wait
behind it; ids are never reused, so `MaxId` bounds how many requests are made in
one behaviour, and three allow a request to come again after two others.  Each
request is asked about once.  Scheduler: four requests are one more than
connections, three mirrors one more than workers, two per host less than in all,
so that every limit is met alone.  With three mirrors and two worker slots
`ReplaceWorker` finds at most one mirror without worker; with more the failure of
`sched_double` happens and spoils the other properties, as it spoils them in the
code.  In the same way the failure `missing` is only in `sched_recover`.
Attaching: three requests in a chain, so that one can be master and waiter in
turn and a waiter can wait through another.  Commit: three steps, so that a block
comes before and after the one that fails; each owner of a pipe can be ahead by
more than one block.  Caches: two versions tell old from new, and a third
program would only repeat what the second does; one builder, as two are the race
that is excepted.  Discs: two numbers for a shared mount, three drives so that
one can be skipped between two others; with the faults of other programs two
drives.  Preload: a worker takes a second package of its repository and one of
another, while the other worker may need the mirror it has; a third connection would
only fill the lists further.  Selectables: names have no state in common, so each
kind of name has a pool of its own; two versions of a kind tell the one asked for
from the other, the name with three that exclude each other has one that
transacts besides these two, and status and candidate take every value.  Progress: fewer items of each kind, as each obligation is about one
of them and the others are only in its way.

**What is excepted.** The properties say so where the code is known to fail, and
are violated without the exception:

* `DeferredHasWaker` and `EveryItemEnds` promise nothing in the states of
  `Troubled`: a dead queue that stays in the pool, a cancelled request that counts
  as a connection for ever, a request whose worker could not be started.  The
  code has no answer to these (the restart of a worker is a todo in
  `providequeue.cc:758`).
* `ToldOnce` does not count the destroyed owner, whose awaiter gets two values.
* `OutputInOrder` and `CommitEnds` except a first end tag that is read before the
  first report is started (`early`): the tags are one block off until the end.
  `OutputAlwaysInOrder` is the property without it.
* `LoggedIsDone` and `ResultTellsTruth` except a `zypp-rpm` ended by a signal: the
  exit code 128 + signal is in no case of the switch, the commit returns normally
  and the package in progress is logged as installed.  `LoggedIsAlwaysDone` is the
  property without it.
* `PosttransInOrder` excepts a downgrade of rpm by the last successful call the
  collector saw: libzypp then calls `--runposttrans` of an rpm that has none.  It also
  excepts the exception of a source package: the scripts of the packages installed
  before are neither run nor reported, contrary to the comment at `TargetImpl.cc:2007`
  ("If aborting, at least log if scripts were omitted").  The property says so: in the
  phase `thrown` nothing has run and nothing is reported.
* `HistoryTellsTruth` is about packages: rpm installs source packages that no history
  names.
* `CacheTruth` excepts programs that raced, until one builds
  alone; `RawKept` excepts the time between the second and the third rename, a
  kill there, and a refresh whose temporary directory another program removed.
* `PreloadTellsTruth` does not count the last words after an abort by the user, when
  a request may end twice (section 3.9).
* `GrantTakesEffect` does not ask that a granted request for `Taboo` is shown when a
  version is installed: the available versions are locked, and what is shown is
  about the installed one.  Nor does it ask anything of a pick for `Install` or
  `Update` while two versions transact that do not install beside each other
  (`OneGoing`, section 3.10).  `DecisionsStand` is about the status of versions: the
  candidate a refused pick had chosen stays chosen, and `setProtected()` and `setTaboo()`, for the user only, are never refused.
* `FreedForUser` excepts the mounts in `left`, `SharedStaysMounted` those that
  others pulled, `WrongDiscIsKnown` the handlers in `doubt`; that none of these
  sets grows otherwise is what the properties say.

**Fairness.** `lock_safety`: the retry loop of a waiting program goes on (it is
a loop with a sleep); nothing is assumed of owners, so the property is only that
waiters are overtaken by somebody alive.  `library_live`: event loops read what is
in their pipes, and what a worker has begun ends (transfers have timeouts); no
owner has to cancel and no worker to die.  The timer of the scheduler fires and
its loop goes on; for each request, a living worker answers what it was
sent, which is what `EveryRequestIsAnswered` shows of the channel; both processes
of a commit are scheduled; the thread of a preload goes on with its calls, and curl
ends every transfer (the activity timer does at the latest).  Weak fairness is enough everywhere: none of these
steps is disabled again by another process before it is taken, or the property
allows for it.  Deadlock is not checked where the owners may have all they want
and the commits may be over.

## 5. What is proved

`ZyppLock_proofs` proves for every set of programs and helpers, every bound and
every choice of timeout and pid reuse, from the five named assumptions of
`ZyppLock` (pids are distinct, users are programs, the flags have their values):

* `TypeCorrect`: `Spec => []TypeOK`.
* `Invariance`: `Spec => []IInv`, where `IInv` is `TypeOK`, `OwnerRecorded` and
  `PlacesOK`.
* `OwnerAlwaysRecorded`, `AtMostOneOwner`, `InstancesAreBacked` from it.
* `NoFalseOwnerIsLeft`: `Spec => NoFalseOwner`, by `StepLetsGo`: every way to give the
  lock up is the destructor, which empties the file for an owner, or a death.
* `Implementation`: `Spec => ImplementsMutex`, by `StepSimulation`.

Mutual exclusion is not inductive: nothing in "at most one holds" prevents a
second program from writing its pid.  What prevents it is that the holder is
alive and in the file (`OwnerRecorded`), so that `SafeCheckIsLocked` answers yes
to everybody else.  That in turn needs that only the program named in the file
truncates it, and that a program between the loop and its instance (`checkRpm`)
already holds: `PlacesOK` says for every place in the code whether the lock is
held and how many references there are.  The refinement needs one more fact, that
a step changes the lock of at most one program (`OneLockChanges`): no step hands
the lock from one owner to another.

`ProvideChannel_proofs` is about a queue and its worker, for all sets of files,
attach and detach requests, every combination of capabilities and of faults, and
any bound of the ids:

* `ChannelTypeCorrect`, `OwnersAreToldOnce`, `WaitingIsKept`: `Spec` implies
  `[]TypeOK`, `[]ToldAtMostOnce`, `[]WaitingIsHeld`.
* `QueueServesOwners`: `Spec => ImplementsService`.  Every step of the pair is a
  step of `ProvideService` or changes nothing the owners see.

The handlers of the queue call each other, so the proof follows them: `Sound(q)` is
what every handler asks of a queue record and leaves behind (nobody is twice in
the lists, an owner that waits is in one of them or is the `Lost` one, there is at
most one `Lost` and none before the shutdown, what was sent fits the pipe), and a
lemma says of each handler that it goes from a sound queue to a sound queue and
tells only who may be told.  The inductive invariant `Inv` adds what the other
side may still say: every message has an id that was given out, and as an id
belongs to one request for ever, an answer can only reach its own request.  One
lemma (`InvStep`) shows both that `Inv` is kept and that a step serves, as the
refinement needs `Inv` before and after the step.

The second part of the module continues with what is under way between the two
while the worker lives:

* `ActiveWorkIsKept`: `Spec => []ActiveIsInFlight`.
* `QuestionsAreAnswered`: `Spec => []BlockedOnlyByCancel`.

"An active request is somewhere" is not inductive: an answer might find the
worker without the item, or two answers meet.  `LiveInv` says of each id that it
is in one place at most, of an active request that it is in one, of a waiting one
that it is in none, and that nothing the queue holds has been cancelled under its present id.
Of a question it says that it is the last message of its worker, that it is
answered once, and that no active request has its id if it was dropped, which
is the failure that `channel_ask` shows.

`Commit_proofs` has one part for each kind of commit.  One is about the commit
in one transaction, for every set of transactions and every size of the pipe:

* `CommitTypeCorrect`, `OutputEndsInOrder` (`OutputInOrder`), `LogIsTrue`
  (`LoggedIsDone`), `ResultIsTrue` (`ResultTellsTruth`).

Two invariants do it.  `OrderInv` describes the stream of messages from the report
libzypp has open to the block rpm is in: blocks are numbered, each has its Begin,
Finished and perhaps Error (`PairInv`), the last message is about what rpm is doing
(`NowInv`), and as many tags are sent as blocks have ended (`TagInv`), wherever the
reader of each pipe is.  `RecordInv` adds that the stage of a step, together with the messages
that are still to change it, says what rpm did (`EffectInv`), so that the result is
true when nothing is unread, and that a report that was begun ends (`ReportInv`).

The other part is about rpm once per package, for every set of plans that replace
rpm at most once (`OneRpm`): `ClassicTypeCorrect`, `HistoryIsTrue` (`HistoryTellsTruth`),
`ScriptsRunInOrder` (`PosttransInOrder`).  All three include the source packages, which
rpm installs without the collector or the history knowing, and their exception, with the
part `thrown` of `ClassicOrderInv`.  The order of the scripts is kept in two
lists, one of extracted scripts and one of dumped lines, and depends on which rpm
made which call: `ClassicOrderInv` says that what the present rpm collects comes after all
of the other list, that the two lists are what is owed, and that, until rpm is
replaced, one of them is empty; while they run, that what ran comes before both; and
when the steps were aborted, that nothing ran and all that is owed was reported.

`Repository_proofs`, about the caches, for every number of programs and versions: `TypeCorrect`,
`RawCacheKept` (`RawKept`), `CookieTellsTruth` (`CacheTruth`).  `RawInv` says what a
refresh holds at each of its steps (`RefreshOK`): metadata with an index is whole,
unless another program removed the temporary directory, and in the middle of the
renames one program has what is missing from the disk.  `CacheInv` says, as long as
nobody raced, what a builder has made sure of at each step (`BuildOK`): the version it
goes by is the one on the disk, and the files it removed are not there.

The other part of `Repository_proofs` is about the discs, for every finite set of
numbered media, any number of drives, and any users of them:

* `MediaTypeCorrect`, `NobodyUnmountsShared` (`SharedStaysMounted`), `DrivesAreFreed`
  (`FreedForUser`), `WrongDiscsAreKnown` (`WrongDiscIsKnown`).

`MediaInv` has four parts.  `HandlerOK`: who is attached was right when it looked, and
still is unless the disc was pulled; handlers that share a disc agree on who owns the
mount, so that the last one unmounts it and no other does.  `OwnedOK`: what we mounted
and did not leave behind has an owner, which is why a release of every handler frees
the drives.  `TrustOK`: a handler that is not in doubt asks its verifier, and the disc
it found to be the desired one is the one it is attached to.  `CallOK`: what the call
under way relies on.  While a handler is attached or released parts of this are broken;
`DrivesBut` names the handlers and drives left out.  The release of one handler is followed to what it
leaves of itself and of the others (`ReleasedAs`); who was released stays so while the
next ones are (`Through`).  The loops over the handlers are recursive functions.

`ListLemmas` has the facts about lists and sets of numbers the last four need: the
smallest number of a set and a bound of a finite one exist, what is in a list after an element was
appended, erased or replaced, and that a loop has the result its steps say.

`Provider_proofs`, about the scheduler, for all requests, all finite sets of mirrors,
all positive limits and every combination of failures:

* `SchedTypeCorrect`, `LimitsKept` (`ConnectionLimits`), `DeferredIsWoken`
  (`DeferredHasWaker`).
* `NothingLost` (`RunningIsPlaced`), if no mirror can lack a file: with `missing`
  the property is false, which is what `sched_recover` shows.

`SchedInv` says of each worker queue that only a dead one keeps requests waiting and
that none has more than it may (`WorkerOK`); that the scheduler knows the idle ones
(`WorkersOK`); that what a queue holds is not to be scheduled as well, and that the
queue a request belongs to has it (`HeldOK`).  `Noticed` is about wake-ups: a request
that the present run has passed, or that is left after it, was deferred because some
queue is busy, or has a mirror whose worker did not start.  That is false in the
middle of the list, where the run is still going to look, so that it speaks of the
requests before `pos`.  The limit over all hosts is kept because a request is only
sent after the count of the connections, and a replaced worker's request is counted
as one.  `NothingLost` follows from `RunningPlaced`: who waits is to be scheduled, or has a
queue, and then `HeldOK` says where it is.

About attaching, in the same module, for all calls, origins with any mirrors, media
files that can be loaded or not, and both kinds of workers:

* `AttachTypeCorrect`, `OneMasterEach` (`OneMaster`), `OwnersToldOnce` (`ToldOnce`),
  `HandlesStayAttached` (`HandleIsAttached`).

`AttachInv` has two halves.  `ItemsOK` is about the items: who waits for a master has no
request, and hears from somebody who has one (`WaitersOK`); who is busy and waits for
nobody has a request (`RequestsOK`), and no two requests are for one medium (`ApartOK`).
While the scheduler initializes an item that is not true of that item, which is why
`RequestsOK` names those it leaves out.  `OwnersOK` is about what the owner was told:
nothing as long as the item is open, then one value, and the medium that value refers
to is attached.  Every handler ends a set of items that is closed under "waits for"
(`EndsAs`), so that nobody who is left waited for one of them (`RestListens`); this is
where it matters that `Listeners` is the smallest such set, and it needs no induction over
the length of the chain.  `CancelEnds` is the argument for `ToldOnce`: the second
signal of an item that is cancelled finds nobody connected.  The run of the
scheduler over the list of items is a recursive function, for which `ListLemmas`
shows that what each step keeps is kept at the end (`StepsStay`, by the smallest step
after which it is not).

`PackagePreload_proofs` is about the preload with the dispatcher under it, for all
packages, repositories with any sets of mirrors, and numbers of connections:

* `PreloadTypeCorrect`, `MirrorUsersCounted` (`MirrorUsers`), `NoConnectionLost`
  (`WorkerHasTransfer`), `PreloadIsTruthful` (`PreloadTellsTruth`).

`PreloadInv` is about the state between any two calls of the stack, where lists and
workers do not agree: `ListsOK` says that a worker that is not finished is in one
place, in one of the lists, or in the hand of the innermost call; `MultiOK` that curl
has what is listed as running; `JobsOK` that a job is required, somebody's, or was
reported, once.  An abort breaks all of that, as requests end twice.  While it is
carried out the stack can only be one of five (`Aborting`): the loop over all
requests on top of curl's callback, with the end of one request and what its slots
do above it; when that loop is over the event loop is left and all workers are through, and
what curl does afterwards touches types and counts only.  So each part says until
when it holds.  That all have a transfer when the event loop waits needs one
counting argument: a worker that waits in `pending` while nothing is going to
dequeue would mean that more are running than there are connections.

`Selectable_proofs`, for all pools, versions, causers and statuses:

* `SelectableTypeCorrect`, `DecisionsAreKept` (`DecisionsStand`), `GrantsAreShown`
  (`GrantTakesEffect`).

The two properties are about every request in every state of the pool, and the type is
the whole inductive invariant: the calls are right by what they do and not by what
happened before.  The proof follows them from the inside out.  A setter of a status
leaves what a stronger causer decided, or is refused (`Modest`).  `Kept(x, r, c)` says
of a request under way that every version it changed is in its backup as it was,
and that it changed nothing a stronger causer decided unless it is going to be
refused; a loop over versions keeps that (`Applied`), and the end of a request then
harms nobody (`Unharmed`).  A pick ends with a request for the name that has a backup of
its own; what it changes is not in the backup of the pick, which does no harm because nothing
is refused after it (`Sound`).  For grants the same loops are followed to what they leave
when nobody refuses (`GrantedTo`), and `StatusOf` and `PickStatusOf` are computed from
that.

The assumptions are the named ones of the modules, which say what the constants
are (sets of requests that do not overlap, capabilities and faults that exist,
sequences of the kinds of steps, bounds that are numbers, finitely many mirrors).
Two restrict what is modelled: `OneRpm`, a fact about rpm's database, and that of
`NothingLost`, which names the failure that is known to break it.

Only model checked: liveness, in every module (`NeverBlockedByTheDead` and the five
properties of `library_live`), as the prover has no rules for `ENABLED`.
`LibraryTypeOK` puts the type invariants of the parts together, each of which is
proved.  What a loop over a list *computes* is never proved, only what each of its
steps keeps: the prover can not use induction over data.

## 6. What is not modelled

`PROJECT.json` lists every part with its reason.  In short: the resolver's
algorithm is libsolv's; the data types, the purge of kernels and the base library
are sequential functions with good tests; the key ring, spawn engines and sockets
are wrappers of other programs and system calls; the ranges of a request, the CPU
bound workers, the file cache of the provider and the Stomp parser are on the
plan.  What is left out of a part that is modelled is said in section 3 and in
`PROJECT.json`.

Some hazards have no property.  The shutdown that waits for a worker without
reading its output (`providequeue.cc:179`) needs bounded pipes in the channel; the
shared InvalidId (`providequeue.cc:490`) is in the model, and the properties of
the channel except it; an erase from the list `doSchedule()` iterates over
(`provide.cc:844`) is undefined behaviour that no state of the model has; the file
cache and the CPU bound queues are not modelled.
