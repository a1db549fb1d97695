---------------------------- MODULE ProvideAttach ----------------------------
(***************************************************************************)
(* Attaching media: attachMedia() and the AttachMediaItems of a provider.  *)
(*                                                                         *)
(* The first item of a medium is its master, the later ones connect to the  *)
(* master's sigReady and wait.  The owner of an item is a coroutine that is  *)
(* suspended on an IOTaskAwaiter; it may be destroyed at any time.          *)
(*                                                                         *)
(* Where a request waits for a worker and how the worker handles it is the   *)
(* subject of ProvideSched and ProvideChannel; here it is "queued" (at the   *)
(* provider), "sent" (in a ProvideQueue) and gets one answer.  All items are  *)
(* for one scheme, whose worker mounts media or downloads.                  *)
(***************************************************************************)
EXTENDS Integers, FiniteSets, Sequences, SequencesExt

CONSTANTS
    Item,        \* the calls of attachMedia(), one item each
    NoMaster,
    Url,
    UrlsOf,      \* the mirrors of each item's origin, sanitized
    File,        \* media files, each with a number of a medium
    NoFile,
    Broken,      \* the media files that can not be loaded
    Setup        \* the worker types and media files to start from

ASSUME AttachAssumption ==
    /\ IsFiniteSet(Item) /\ NoMaster \notin Item
    /\ UrlsOf \in [Item -> SUBSET Url \ {{}}]
    /\ NoFile \notin File /\ Broken \subseteq File
    /\ {"none", "error"} \cap Item = {}
    /\ Setup \subseteq [mounts : BOOLEAN, file : [Item -> File \cup {NoFile}]]

VARIABLES
    at,          \* the provider: its items and attached media
    task,        \* the coroutine of each owner
    wake,        \* the coroutines invokeAfter() is going to resume
    process      \* "stopped": before Provide::start()

attachVars == <<at, task, wake, process>>

\* A medium is named by the item that registered it.
Result == Item \cup {"none", "error"}

ProviderType ==
    [ list    : Seq(Item),                                 \* _items
      state   : [Item -> {"absent", "Uninitialized", "Processing", "Downloading", "Finished"}],
      request : [Item -> {"none", "queued", "sent"}],      \* _runningReq
      master  : [Item -> Item \cup {NoMaster}],              \* _masterItemConn
      value   : [Item -> Result],                          \* the _resultStore of the awaiter
      told    : [Item -> 0..2],                            \* calls of return_value()
      media   : Seq(Item),                                 \* _attachedMediaInfos
      mirrors : [Item -> SUBSET Url],                      \* _originConfig of a medium
      mounts  : BOOLEAN,                                   \* worker_type() of the scheme
      file    : [Item -> File \cup {NoFile}],              \* mediaFile(), medianr()
      trigger : BOOLEAN ]                                  \* _scheduleTrigger is running

TaskState == {"none", "waits", "woken", "attached", "failed", "gone", "destroyed"}

AttachTypeOK ==
    /\ at \in ProviderType
    /\ task \in [Item -> TaskState]
    /\ wake \subseteq Item
    /\ process \in {"stopped", "runs", "crashed"}

EmptyProvider(setup) ==
    [ list    |-> <<>>,
      state   |-> [a \in Item |-> "absent"],
      request |-> [a \in Item |-> "none"],
      master  |-> [a \in Item |-> NoMaster],
      value   |-> [a \in Item |-> "none"],
      told    |-> [a \in Item |-> 0],
      media   |-> <<>>,
      mirrors |-> [a \in Item |-> {}],
      mounts  |-> setup.mounts,
      file    |-> setup.file,
      trigger |-> FALSE ]

AttachInit ==
    /\ at \in {EmptyProvider(setup) : setup \in Setup}
    /\ task = [a \in Item |-> "none"]
    /\ wake = {}
    /\ process = "stopped"

Set(f, S, v) == [x \in DOMAIN f |-> IF x \in S THEN v ELSE f[x]]

\* What is left of a list without the elements in B.
Without(s, B) ==
    LET kept[k \in 0 .. Len(s)] ==
            IF k = 0 THEN <<>>
            ELSE IF s[k] \in B THEN kept[k - 1] ELSE Append(kept[k - 1], s[k])
    IN  kept[Len(s)]

-----------------------------------------------------------------------------
(* Media                                                                    *)

\* ProvideMediaSpec::isSameMedium(): the media files decide, and the mirrors,
\* which have to intersect, if there is none.
SameMedium(f, U, g, V) == f = g /\ (f = NoFile => U \cap V # {})

\* The first attached medium that serves item a.
AttachedFor(S, a) ==
    SelectInSeq(S.media,
        LAMBDA m : SameMedium(S.file[m], S.mirrors[m], S.file[a], UrlsOf[a]))

SameOrigin(S, a, b) == SameMedium(S.file[a], UrlsOf[a], S.file[b], UrlsOf[b])

\* Mutant: a result that waits for its coroutine is no reference.
ReferencedByTasks(S, m) == \E a \in Item : S.value[a] = m /\ task[a] = "attached"

\* The references a medium has beside the one of _attachedMediaInfos.
Referenced(S, m) ==
    \E a \in Item : S.value[a] = m /\ task[a] \in {"waits", "woken", "attached"}

\* addMedium(): of a mounted medium only the used mirror is kept.
AddMedium(S, a, U) == [S EXCEPT !.media = Append(@, a), !.mirrors[a] = U]

-----------------------------------------------------------------------------
(* Items                                                                    *)

\* return_value() of the awaiters of the items in B.
ReturnValue(S, B, v) ==
    [S EXCEPT !.value = Set(@, B, v),
              !.told  = [a \in Item |-> IF a \in B THEN @[a] + 1 ELSE @[a]]]

\* updateState(Finished) and dequeueItem().
Finished(S, B) ==
    [S EXCEPT !.state   = Set(@, B, "Finished"),
              !.list    = Without(@, B),
              !.request = Set(@, B, "none"),
              !.master  = Set(@, B, NoMaster)]

\* The items that hear a's sigReady: those connected to a, and those connected
\* to one of these, as each emits its own signal when it finishes.
Connected(S, C)    == {b \in Item : S.master[b] \in C}
ClosedSets(S)      == {C \in SUBSET Item : Connected(S, C) \subseteq C}
Listeners(S, a)    == {b \in Item : \A C \in ClosedSets(S) : a \in C => b \in C} \ {a}

\* onMasterItemReady(): the listeners share the result of their master.  They
\* would attach anew after a MediaRequestCancelledException, but released()
\* cancels with a MediaException, so they fail with a master that is cancelled.
EmitReady(S, a, v) ==
    LET B == Listeners(S, a) IN Finished(ReturnValue(S, B, v), B)

FinishWithSuccess(S, a, m) ==
    Finished(EmitReady(ReturnValue(S, {a}, m), a, m), {a})

\* cancelWithError() of an item without running request.
FailItem(S, a) ==
    Finished(ReturnValue(EmitReady(S, a, "error"), {a}, "error"), {a})

\* Several requests that fail in one run of the scheduler: their items are no
\* listeners, and no two of them share one, so that the order does not matter.
FailAll(S, B) ==
    LET ended == B \cup UNION {Listeners(S, a) : a \in B}
    IN  Finished(ReturnValue(S, ended, "error"), ended)

\* Mutant: the listeners of an item with a request hear the second signal, too.
CancelTwice(S, a) ==
    LET twice == IF S.request[a] = "none" THEN {} ELSE Listeners(S, a)
    IN  ReturnValue(FailItem(S, a), twice, "error")

\* cancelWithError() of an item: the running request, unless its queue has
\* already let it go, is dequeued first; that calls finishReq() of this item,
\* which calls cancelWithError() again, before the outer call goes on.
CancelWithError(S, a) ==
    LET told == EmitReady(S, a, "error")
    IN  IF S.request[a] = "none"
        THEN FailItem(S, a)
        ELSE Finished(ReturnValue(FailItem(told, a), {a}, "error"), {a})

\* finishReq() with an error: _runningReq is reset, then cancelWithError().
\* The errors found while the media file is verified leave _runningReq alone;
\* the request is in no queue any more, so that this makes no difference.
RequestFailed(S, a) == FailItem(S, a)

Busy == {"Processing", "Downloading"}

\* Mutant: only items that are downloading count.
DownloadingMaster(S, a) ==
    SelectInSeq(S.list, LAMBDA b : /\ b # a /\ S.state[b] = "Downloading"
                                   /\ SameOrigin(S, a, b))

\* The first item in the list that attaches the same medium already.
MasterOf(S, a) ==
    SelectInSeq(S.list, LAMBDA b : /\ b # a /\ S.state[b] \in Busy
                                   /\ SameOrigin(S, a, b))

\* Mutant: the item is pending first, as the items of files are.
EnqueuePending(S, a) == [S EXCEPT !.request[a] = "queued", !.state[a] = "Pending"]

EnqueueRequest(S, a) ==
    [S EXCEPT !.request[a] = "queued",
              !.state[a] = IF S.mounts THEN @ ELSE "Downloading"]

StartAttach(S, a) ==
    CASE S.mounts                              -> EnqueueRequest(S, a)
      [] ~S.mounts /\ S.file[a] = NoFile       -> FinishWithSuccess(AddMedium(S, a, UrlsOf[a]), a, a)
      [] ~S.mounts /\ S.file[a] \in Broken     -> FailItem(S, a)
      [] OTHER                                 -> EnqueueRequest(S, a)

\* initialize()
Initialize(S, a) ==
    LET P == [S EXCEPT !.state[a] = "Processing"]
        m == AttachedFor(S, a)
        b == MasterOf(S, a)
    IN  CASE S.state[a] # "Uninitialized" -> S
          [] S.state[a] = "Uninitialized" /\ m # 0 -> FinishWithSuccess(P, a, S.media[m])
          [] S.state[a] = "Uninitialized" /\ m = 0 /\ b # 0 -> [P EXCEPT !.master[a] = S.list[b]]
          [] OTHER -> StartAttach(P, a)

-----------------------------------------------------------------------------
(* Steps                                                                    *)

\* The coroutines that got a value are resumed by the event loop.
Woken(S) ==
    LET new == {a \in Item : at.told[a] < S.told[a] /\ task[a] = "waits"}
    IN  /\ at' = S
        /\ task' = Set(task, new, "woken")
        /\ wake' = wake \cup new

\* Mutant: the items that were queued before are not thought of.
StartQuietly == process = "stopped" /\ process' = "runs" /\ UNCHANGED <<at, task, wake>>

\* Provide::start()
Start ==
    /\ process = "stopped"
    /\ process' = "runs"
    /\ at' = [at EXCEPT !.trigger = TRUE]
    /\ UNCHANGED <<task, wake>>

\* attachMedia(): a medium that is attached is used at once, otherwise an item
\* is queued and the owner waits.
AttachMedia(a) ==
    /\ process # "crashed" /\ task[a] = "none"
    /\ LET m == AttachedFor(at, a)
       IN  IF m # 0
           THEN /\ at' = [at EXCEPT !.value[a] = at.media[m]]
                /\ task' = [task EXCEPT ![a] = "attached"]
           ELSE /\ at' = [at EXCEPT !.state[a] = "Uninitialized",
                                    !.list = Append(@, a),
                                    !.trigger = TRUE]
                /\ task' = [task EXCEPT ![a] = "waits"]
    /\ UNCHANGED <<wake, process>>

\* The head of doSchedule(): media nobody refers to are forgotten, the mounted
\* ones at once (their queue gets a Detach), the others after an hour.
CleanUp(S, expired) ==
    [S EXCEPT !.media =
        Without(@, {m \in Item : ~Referenced(S, m) /\ (S.mounts \/ m \in expired)})]

InFlight(S) == {a \in Item : S.request[a] = "sent"}

\* The states the head of doSchedule() may lead to: media are cleaned up, the
\* inactive items are initialized in their order, the trigger is stopped.
Bumped ==
    LET CleanedUp == {CleanUp(at, expired) : expired \in SUBSET ToSet(at.media)}
        after[k \in 0 .. Len(at.list)] ==
            IF k = 0 THEN CleanedUp ELSE {Initialize(S, at.list[k]) : S \in after[k - 1]}
    IN  {[S EXCEPT !.trigger = FALSE] : S \in after[Len(at.list)]}

\* Placing requests: some may find no free queue as long as others occupy
\* them, some have no usable URL or no worker can be started for them.
Placed(S) ==
    LET queued == {a \in Item : S.request[a] = "queued"}
        Sends  == {Q \in SUBSET queued : Q = {} => queued = {} \/ InFlight(S) # {}}
    IN  UNION {{FailAll([S EXCEPT !.request = Set(@, sent, "sent")], bad) :
                bad \in SUBSET sent} : sent \in Sends}

\* doSchedule(), whose timer was started by schedule()
DoSchedule ==
    /\ process # "crashed" /\ at.trigger
    /\ IF process = "stopped"
       THEN at' = [at EXCEPT !.trigger = FALSE] /\ UNCHANGED <<task, wake>>
       ELSE \E T \in Bumped : \E S \in Placed(T) : Woken(S)
    /\ UNCHANGED process

\* The worker confirms that a cancelled request has ended: schedule( FinishReq ).
QueueGetsFree ==
    /\ process = "runs" /\ ~at.trigger /\ InFlight(at) = {}
    /\ \E a \in Item : at.request[a] = "queued"
    /\ at' = [at EXCEPT !.trigger = TRUE]
    /\ UNCHANGED <<task, wake, process>>

\* finishReq() with the answer to the request: AttachFinished of a mounting
\* worker, or the media file, which may be missing if the set has one medium.
\* The queue has a free slot and triggers the scheduler.
Attached(a) ==
    /\ process = "runs" /\ at.request[a] = "sent"
    /\ \E S \in {FinishWithSuccess(AddMedium([at EXCEPT !.trigger = TRUE], a, U), a, a) :
                    U \in IF at.mounts THEN {{u} : u \in UrlsOf[a]} ELSE {UrlsOf[a]}} :
            Woken(S)
    /\ UNCHANGED process

\* finishReq() with an error answer, another medium, or the end of the worker.
Failed(a) ==
    /\ process = "runs" /\ at.request[a] = "sent"
    /\ \E S \in {RequestFailed([at EXCEPT !.trigger = TRUE], a)} : Woken(S)
    /\ UNCHANGED process

\* The event loop resumes the coroutine, which takes the result.  A coroutine
\* that was destroyed meanwhile is resumed as well, which is undefined: the
\* freed frame is executed, which ends the process or goes unnoticed.
Resume(a) ==
    /\ a \in wake /\ task[a] = "woken"
    /\ wake' = wake \ {a}
    /\ task' = [task EXCEPT ![a] = IF at.value[a] = "error" THEN "failed" ELSE "attached"]
    /\ UNCHANGED <<at, process>>

ResumeDestroyed(a) ==
    /\ a \in wake /\ task[a] = "destroyed"
    /\ \/ wake' = wake \ {a} /\ UNCHANGED <<at, task, process>>
       \/ /\ process' = "crashed"
          /\ at' = EmptyProvider(at) /\ wake' = {} /\ task' = [b \in Item |-> "gone"]

\* The owner gives the media handle back.
Detach(a) ==
    /\ process # "crashed" /\ task[a] = "attached"
    /\ task' = [task EXCEPT ![a] = "gone"]
    /\ UNCHANGED <<at, wake, process>>

\* The owner destroys its task: ~IOTaskAwaiter() calls released(), which cancels
\* the item unless it is finished.  The awaiter being destroyed gets its
\* value, and so the coroutine is resumed later.  A request that waits in a
\* ProvideQueue leaves it and triggers the scheduler, one that is active does
\* so when the worker has confirmed.
Destroy(a) ==
    /\ process # "crashed" /\ task[a] \in {"waits", "woken"}
    /\ LET S == IF at.state[a] = "Finished" THEN at ELSE CancelWithError(at, a)
           new == {b \in Item : at.told[b] < S.told[b] /\ task[b] = "waits"}
       IN  /\ \E free \in {FALSE, at.request[a] = "sent"} :
                at' = [S EXCEPT !.trigger = @ \/ free]
           /\ task' = [Set(task, new, "woken") EXCEPT ![a] = "destroyed"]
           /\ wake' = wake \cup new
    /\ UNCHANGED process

AttachStep(a) ==
    \/ AttachMedia(a) \/ Attached(a) \/ Failed(a)
    \/ Resume(a) \/ ResumeDestroyed(a) \/ Detach(a) \/ Destroy(a)

AttachNext == Start \/ DoSchedule \/ QueueGetsFree \/ \E a \in Item : AttachStep(a)

AttachSpec == AttachInit /\ [][AttachNext]_attachVars

\* Requests are answered (EveryRequestIsAnswered of ProvideChannel) and the
\* timer runs: as only DoSchedule stops it, the last conjunct is the weak
\* fairness of DoSchedule.
AttachFairness ==
    /\ WF_attachVars(QueueGetsFree)
    /\ WF_attachVars(\E a \in Item : Failed(a) \/ Attached(a))
    /\ []<>(~at.trigger \/ process = "crashed")

AttachFairSpec == AttachSpec /\ AttachFairness

-----------------------------------------------------------------------------
(* Properties                                                               *)

Active(a) == at.state[a] \in Busy /\ at.master[a] = NoMaster

\* No medium is attached twice: two items for one medium are never busy
\* with a request of their own at the same time.  And whoever waits is
\* connected, directly or through others, to an item that has a request under
\* way; no end of the master leaves a waiter behind.
OneMaster ==
    /\ \A a, b \in {i \in Item : Active(i)} : a # b => ~SameOrigin(at, a, b)
    /\ process = "runs" => \A a \in Item :
        at.master[a] # NoMaster =>
            \E b \in Item : Active(b) /\ at.request[b] # "none" /\ a \in Listeners(at, b)

\* The signal of an item that is cancelled with a running request is emitted
\* twice; still nobody but the destroyed owner itself is given two values.
ToldOnce == \A a \in Item : task[a] # "destroyed" => at.told[a] <= 1

\* As long as an owner has a handle the medium stays attached: provide() finds
\* it, and the worker is not told to unmount it.
HandleIsAttached ==
    \A a \in Item : task[a] = "attached" => at.value[a] \in ToSet(at.media)

\* Every owner that waits gets a result, is destroyed, or the process ends.
EveryAttachEnds ==
    \A a \in Item :
        task[a] = "waits" /\ process = "runs" ~> task[a] # "waits" \/ process = "crashed"

\* "Wakes up the coroutine safely" (iotask.h): only coroutines that still exist
\* are resumed.
NoDestroyedIsResumed == \A a \in wake : task[a] # "destroyed"
=============================================================================
