------------------------------ MODULE MediaSet ------------------------------
(***************************************************************************)
(* A set of discs in the drives of the machine: MediaSetAccess::provide()  *)
(* with its question for another medium, over MediaManager, MediaHandler   *)
(* and MediaCD.  Every number of the set has a handler of its own, all of  *)
(* them use the same drives, and handlers that find the same disc share    *)
(* its mount.  The code is synchronous; between two calls and while the    *)
(* question is shown, users change discs, and other programs mount,        *)
(* unmount and use them.                                                    *)
(***************************************************************************)
EXTENDS Integers, Sequences, SequencesExt, FiniteSets

CONSTANTS
    Number,     \* the numbers of the media of the set
    Drives,     \* machines have at most the drives 1..Drives, tried in this order
    Machines    \* the drives of a machine, and what others do there

ASSUME MediaAssumption ==
    /\ IsFiniteSet(Number) /\ Number \subseteq Nat \ {0}
    /\ Drives \in Nat \ {0}
    /\ Machines \subseteq [drives : 1 .. Drives, others : SUBSET {"use", "mount", "verifier"}]

Drive == 1 .. Drives

VARIABLES
    ms,     \* drives and handlers
    op      \* the call of provide() that is under way

mediaVars == <<ms, op>>

\* Where a disc is mounted: nowhere, at an attach point of libzypp, or where the
\* system puts it.
Place == {"no", "ours", "system"}

DriveType ==
    [disc : Number \cup {0}, mounted : Place]

\* src and place are what the handler believes to be attached to, own is iown.
\* "seen" compares _attach_mtime with the mount table while something is attached:
\* not read yet, read since its last change, changed since.
HandlerType ==
    [ src : Drive \cup {0}, own : BOOLEAN, place : Place,
      seen : {"never", "now", "old"}, desired : BOOLEAN, verifier : BOOLEAN ]

MediaType ==
    [ drive  : [Drive -> DriveType],
      hd     : [Number -> HandlerType],
      opened : Seq(Number),       \* mediaMap
      saved  : SUBSET Number,     \* _verifiers
      machine : Machines,
      busy   : SUBSET Drive,      \* somebody uses the disc: umount fails
      pulled : SUBSET Number,     \* handlers whose disc others have unmounted
      left   : SUBSET Drive,      \* mounts that were lost, or could not be released
      doubt  : SUBSET Number,     \* handlers that do not ask for their disc any more
      got    : [nr : Number \cup {0}, disc : Number \cup {0}, doubt : BOOLEAN] ]

\* asks: whether the user is asked, always, when the medium is wrong only (non
\* interactive), or never (no receiver is connected).
CallType ==
    [ pc : {"idle", "open", "attach", "check", "next", "do", "failed", "ask", "gone"},
      nr : Number \cup {0}, what : {"file", "exists"}, asks : {"always", "wrong", "never"},
      first : BOOLEAN, tried : 0 .. Drives, why : {"wrong", "other"} ]

Closed == [ src |-> 0, own |-> FALSE, place |-> "no", seen |-> "never",
            desired |-> FALSE, verifier |-> FALSE ]

NoCall == [ pc |-> "idle", nr |-> 0, what |-> "file", asks |-> "always",
            first |-> TRUE, tried |-> 0, why |-> "other" ]

Nothing == [nr |-> 0, disc |-> 0, doubt |-> FALSE]

Discs == {f \in [Drive -> Number \cup {0}] :
            \A d, e \in Drive : d # e /\ f[d] = f[e] => f[d] = 0}

MediaInit ==
    /\ \E f \in Discs, m \in Machines :
        /\ \A d \in Drive : d > m.drives => f[d] = 0
        /\ ms = [ drive  |-> [d \in Drive |-> [disc |-> f[d], mounted |-> "no"]],
               hd     |-> [n \in Number |-> Closed], opened |-> <<>>,
               saved  |-> Number, machine |-> m, busy |-> {}, pulled |-> {}, left |-> {}, doubt |-> {},
               got    |-> Nothing ]
    /\ op = NoCall

-----------------------------------------------------------------------------
(* The mount table and what handlers know of it                             *)

TableChanged(S) ==
    [S EXCEPT !.hd = [n \in Number |->
        IF S.hd[n].seen = "now" THEN [S.hd[n] EXCEPT !.seen = "old"] ELSE S.hd[n]]]

Mounted(S, d, place) == TableChanged([S EXCEPT !.drive[d].mounted = place])

Unmounted(S, d) == [Mounted(S, d, "no") EXCEPT !.left = @ \ {d}]

\* What a handler is attached to is in the mount table.
IsMounted(S, n) == S.hd[n].src # 0 /\ S.drive[S.hd[n].src].mounted = S.hd[n].place

\* The handler lets go of its source; the next disc is verified.
Dropped(S, n) ==
    [S EXCEPT !.hd[n] = [@ EXCEPT !.src = 0, !.own = FALSE, !.place = "no", !.seen = "never"],
              !.pulled = @ \ {n},
              !.doubt = IF S.hd[n].verifier /\ ~S.hd[n].desired THEN @ \ {n} ELSE @]

\* checkAttached(): the table is read again when it was changed.  A medium
\* that was seen and is gone is forgotten; that it was the desired one is not.
CheckAttached(S, n) ==
    LET h == S.hd[n]
    IN  IF h.src = 0 \/ h.seen = "now" THEN S
        ELSE IF IsMounted(S, n) THEN [S EXCEPT !.hd[n].seen = "now"]
        ELSE Dropped(S, n)

IsAttached(S, n) == CheckAttached(S, n).hd[n].src # 0

\* All handlers look; what one forgets is nothing to the others.
CheckAll(S) ==
    [S EXCEPT !.hd     = [n \in Number |-> CheckAttached(S, n).hd[n]],
              !.pulled = {n \in @ : n \in CheckAttached(S, n).pulled},
              !.doubt  = {n \in @ : n \in CheckAttached(S, n).doubt}]

-----------------------------------------------------------------------------
(* Releasing                                                                *)

\* The other handlers that refer to the same source.
Sharing(S, n) ==
    {k \in Number \ {n} : /\ S.hd[n].src # 0 /\ S.hd[k].src = S.hd[n].src
                          /\ S.hd[k].place = S.hd[n].place}

\* umount fails
ReleaseFails(S, n) ==
    IsAttached(S, n) /\ S.hd[n].own /\ Sharing(S, n) = {} /\ S.hd[n].src \in S.busy

\* Mutant: the references are not counted.
ReleaseUncounted(S, n) ==
    LET T == CheckAttached(S, n)
    IN  IF ~T.hd[n].own THEN Dropped(T, n)
        ELSE IF ReleaseFails(S, n) THEN [T EXCEPT !.left = @ \cup {T.hd[n].src}]
        ELSE Unmounted(Dropped(T, n), T.hd[n].src)

\* MediaHandler::release() without eject: the last reference unmounts what was
\* mounted by a handler.
Release(S, n) ==
    LET T == CheckAttached(S, n)
    IN  IF ~T.hd[n].own \/ Sharing(T, n) # {} THEN Dropped(T, n)
        ELSE IF ReleaseFails(S, n) THEN [T EXCEPT !.left = @ \cup {T.hd[n].src}]
        ELSE Unmounted(Dropped(T, n), T.hd[n].src)

\* release() while the caller holds a reference of its own (the variable "media"
\* of MediaManager::attach()): the mount has nobody who would unmount it.
ReleaseReferenced(S, n) ==
    LET T == CheckAttached(S, n)
    IN  IF T.hd[n].own /\ Sharing(T, n) = {}
        THEN Dropped([T EXCEPT !.left = @ \cup {T.hd[n].src}], n)
        ELSE Dropped(T, n)

\* Mutant: what was verified stays verified.
ReleaseOnly(S, n) == IF IsAttached(S, n) THEN Release(S, n) ELSE CheckAttached(S, n)

\* The next disc has to be verified again.
Undesired(S, n) == [S EXCEPT !.hd[n].desired = FALSE]

\* One handler of MediaManager::releaseAll(); failures are logged.
ReleaseIfAttached(S, n) ==
    IF IsAttached(S, n) THEN Release(Undesired(S, n), n) ELSE CheckAttached(S, n)

\* MediaManager::releaseAll(), in the order the handlers were opened
ReleaseAll(S) ==
    LET after[k \in 0 .. Len(S.opened)] ==
            IF k = 0 THEN S ELSE ReleaseIfAttached(after[k - 1], S.opened[k])
    IN  after[Len(S.opened)]

\* MediaManager::release()
ReleaseNumber(S, n) == Release(Undesired(S, n), n)

\* MediaManager::close()
Close(S, n) == IF ReleaseFails(S, n) THEN Release(S, n)
               ELSE [Release(S, n) EXCEPT !.hd[n] = Closed, !.opened = RemoveFirst(@, n)]

\* Loops that release or close one handler after the other, in the order of the
\* numbers, end with the first failure; the rest is not reached.
UntilFailure(acc, n, what) ==
    IF acc.failed THEN [acc EXCEPT !.S.left = @ \cup ({acc.S.hd[n].src} \ {0})]
    ELSE [S      |-> IF what = "close" THEN Close(acc.S, n) ELSE ReleaseNumber(acc.S, n),
          failed |-> ReleaseFails(acc.S, n)]

UpToFailure(S, what) ==
    LET last == Max(Number \cup {0})
        after[k \in 0 .. last] ==
            IF k = 0 THEN [S |-> S, failed |-> FALSE]
            ELSE IF k \in ToSet(S.opened) THEN UntilFailure(after[k - 1], k, what)
            ELSE after[k - 1]
    IN  after[last].S

\* forceEject(): if no handler is attached to the drive, every mount of it goes.
ForceEject(S, d) ==
    IF S.drive[d].mounted # "no" /\ d \notin S.busy
       /\ \A n \in Number : S.hd[n].src # d
    THEN Unmounted(S, d) ELSE S

\* release() with eject, after releaseAll(): the handler is only attached if
\* its disc is busy.  If the tray of another drive opens this counts as success.
Eject(S, n, d) ==
    LET T   == Undesired(ReleaseAll(S), n)
        src == T.hd[n].src
    IN  IF src = 0 THEN ForceEject(CheckAll(T), d)
        ELSE IF d # src /\ T.drive[d].mounted = "no" THEN Dropped(T, n)
        ELSE T

-----------------------------------------------------------------------------
(* MediaSetAccess::provide()                                                *)

\* The call goes on, or fails for some reason.  The drives that were tried are
\* known during one MediaManager::attach() only.
CallAt(pc) == op' = [op EXCEPT !.pc = pc, !.first = TRUE, !.tried = 0, !.why = "other"]
Fails(why) == op' = [op EXCEPT !.pc = "failed", !.first = TRUE, !.tried = 0, !.why = why]

\* The user calls provideFile(), or doesFileExist().
Provide(n, what, asks) ==
    /\ op.pc = "idle"
    /\ what = "exists" => asks # "wrong"
    /\ op' = [NoCall EXCEPT !.pc = "open", !.nr = n, !.what = what, !.asks = asks]
    /\ ms' = [ms EXCEPT !.got = Nothing]

\* getMediaAccessId(): a new handler gets the verifier that was saved for the
\* number, which is forgotten with that.
GetMediaAccessId(S, n) ==
    IF n \in ToSet(S.opened) THEN S
    ELSE [S EXCEPT !.opened = Append(@, n),
                   !.hd[n].verifier = n \in S.saved,
                   !.doubt = IF n \in S.saved THEN @ \ {n} ELSE @ \cup {n},
                   !.saved = @ \ {n}]

Open ==
    /\ op.pc = "open"
    /\ LET S == GetMediaAccessId(ms, op.nr)
       IN  /\ ms' = CheckAttached(S, op.nr)
           /\ CallAt(IF IsAttached(S, op.nr) THEN "do" ELSE "attach")

-----------------------------------------------------------------------------
(* MediaManager::attach() with MediaCD::attachTo()                          *)

\* The drives that can be attached: shared, mounted by others, or with a disc.
Attachable(S) == {d \in Drive : S.drive[d].mounted # "no" \/ S.drive[d].disc # 0}

\* Mutant: a handler that shares the source is no owner of it.
AttachAsGuest(S, n, d) ==
    IF S.drive[d].mounted # "no" \/ \E k \in Number : S.hd[k].src = d
    THEN [S EXCEPT !.hd[n].src = d, !.hd[n].place = S.drive[d].mounted, !.hd[n].own = FALSE]
    ELSE [Mounted(S, d, "ours") EXCEPT
            !.hd[n].src = d, !.hd[n].place = "ours", !.hd[n].own = TRUE, !.hd[n].seen = "now"]

\* The disc of a drive: the source of another handler is shared, what the
\* system has mounted is used, otherwise it is mounted.
AttachDrive(S, n, d) ==
    LET with == {k \in Number : S.hd[k].src = d}
    IN  IF with # {} \/ S.drive[d].mounted # "no"
        THEN [S EXCEPT !.hd[n] = [@ EXCEPT !.src = d, !.place = S.drive[d].mounted,
                                           !.own = \E k \in with : S.hd[k].own]]
        ELSE [Mounted(S, d, "ours") EXCEPT
                !.hd[n] = [@ EXCEPT !.src = d, !.place = "ours", !.own = TRUE, !.seen = "now"]]

\* attach( next ): the first drive that works, behind those that were tried.
AttachTo ==
    /\ op.pc \in {"attach", "next"}
    /\ LET S  == CheckAll(ms)
           ok == {d \in Attachable(S) : op.pc = "next" => d > op.tried}
           d  == Min(ok)
       IN  IF ok = {}
           THEN /\ ms' = S
                /\ Fails("other")
           ELSE /\ ms' = AttachDrive(S, op.nr, d)
                /\ op' = [op EXCEPT !.pc = "check", !.first = op.pc = "attach", !.tried = d]

Read(S, n) == S.drive[S.hd[n].src].disc

\* checkDesired() of an attached medium; the answer of the verifier is kept.
CheckDesired(S, n) ==
    [S EXCEPT !.hd[n].desired = @ \/ ~S.hd[n].verifier \/ Read(S, n) = n]

\* A disc that is not desired is released if there is another drive to try.
\* The last one stays attached.
CheckAttachedDisc ==
    /\ op.pc = "check"
    /\ LET n == op.nr
           S == CheckDesired(CheckAttached(ms, n), n)
       IN  \/ /\ S.hd[n].desired
              /\ ms' = S /\ CallAt("do")
           \/ /\ ~S.hd[n].desired /\ op.tried = ms.machine.drives
              /\ ms' = S /\ Fails("wrong")
           \/ /\ ~S.hd[n].desired /\ op.tried < ms.machine.drives /\ ~op.first
              /\ ms' = ReleaseReferenced(S, n) /\ op' = [op EXCEPT !.pc = "next"]
           \/ /\ ~S.hd[n].desired /\ op.tried < ms.machine.drives /\ op.first
              /\ ms' = Release(S, n)
              /\ IF ReleaseFails(S, n) THEN Fails("other") ELSE op' = [op EXCEPT !.pc = "next"]

-----------------------------------------------------------------------------
(* The operation, and the question when it fails                            *)

\* provideFile() checks the disc, doesFileExist() only that one is attached.
\* The disc of the number has the file, others may have one of that name.
Do ==
    /\ op.pc = "do"
    /\ LET n == op.nr
           S == IF op.what = "file" THEN CheckDesired(CheckAttached(ms, n), n)
                ELSE CheckAttached(ms, n)
       IN  \/ /\ op.what = "exists"
              /\ ms' = S /\ op' = NoCall
           \/ /\ op.what = "file" /\ S.hd[n].desired
              /\ ms' = [S EXCEPT !.got = [nr |-> n, disc |-> Read(S, n), doubt |-> n \in S.doubt]]
              /\ op' = NoCall
           \/ /\ op.what = "file" /\ S.hd[n].desired /\ Read(S, n) # n
              /\ ms' = S /\ Fails("other")
           \/ /\ op.what = "file" /\ ~S.hd[n].desired
              /\ ms' = S /\ Fails("wrong")

\* Nobody is there to be asked: the error is thrown, the medium stays attached.
GiveError ==
    /\ op.pc = "failed"
    /\ op.asks = "never" \/ (op.asks = "wrong" /\ op.why = "other")
    /\ op' = NoCall
    /\ UNCHANGED ms

\* "release all media before requesting another"
RequestMedia ==
    /\ op.pc = "failed"
    /\ op.asks = "always" \/ (op.asks = "wrong" /\ op.why = "wrong")
    /\ ms' = ReleaseAll(ms)
    /\ CallAt("ask")

AnswerAbort == op.pc = "ask" /\ op' = NoCall /\ UNCHANGED ms

\* The question is shown again after all has been released once more.
AnswerEject(d) ==
    /\ op.pc = "ask"
    /\ ms' = ReleaseAll(Eject(ms, op.nr, d))
    /\ UNCHANGED op

\* Retry, also with another URL: the handler is closed and opened again.  The
\* failure to close it is not caught.
AnswerRetry ==
    /\ op.pc = "ask"
    /\ ms' = Close(ms, op.nr)
    /\ op' = IF ReleaseFails(ms, op.nr) THEN NoCall ELSE [op EXCEPT !.pc = "open"]

-----------------------------------------------------------------------------
(* Other calls                                                              *)

SetVerifier(n) ==
    /\ "verifier" \in ms.machine.others /\ op.pc = "idle"
    /\ ms' = IF n \in ToSet(ms.opened)
             THEN [ms EXCEPT !.hd[n] = [@ EXCEPT !.verifier = TRUE, !.desired = FALSE],
                             !.saved = @ \ {n},
                             !.doubt = @ \ {n}]
             ELSE [ms EXCEPT !.saved = @ \cup {n}]
    /\ UNCHANGED op

ReleaseSet == op.pc = "idle" /\ ms' = UpToFailure(ms, "release") /\ UNCHANGED op

DestroySet == op.pc = "idle" /\ ms' = UpToFailure(ms, "close") /\ CallAt("gone")

-----------------------------------------------------------------------------
(* Users and other programs                                                 *)

Waits == op.pc \in {"idle", "ask"}

ChangeDisc(d, n) ==
    /\ Waits /\ d <= ms.machine.drives
    /\ ms.drive[d].mounted = "no" /\ ms.drive[d].disc # n
    /\ n # 0 => \A e \in Drive : ms.drive[e].disc # n
    /\ ms' = [ms EXCEPT !.drive[d].disc = n]
    /\ UNCHANGED op

SystemMounts(d) ==
    /\ "mount" \in ms.machine.others /\ Waits
    /\ ms.drive[d].mounted = "no" /\ ms.drive[d].disc # 0
    /\ ms' = Mounted(ms, d, "system")
    /\ UNCHANGED op

SystemUnmounts(d) ==
    /\ "mount" \in ms.machine.others /\ Waits
    /\ ms.drive[d].mounted # "no" /\ d \notin ms.busy
    /\ ms' = Unmounted([ms EXCEPT
                !.pulled = @ \cup {n \in Number : ms.hd[n].src = d},
                !.doubt = @ \cup {n \in Number : ms.hd[n].src = d /\ ms.hd[n].desired}], d)
    /\ UNCHANGED op

Uses(d) ==
    /\ "use" \in ms.machine.others /\ Waits /\ ms.drive[d].mounted # "no"
    /\ ms' = [ms EXCEPT !.busy = IF d \in @ THEN @ \ {d} ELSE @ \cup {d}]
    /\ UNCHANGED op

MediaNext ==
    \/ \E n \in Number, what \in {"file", "exists"}, asks \in {"always", "wrong", "never"} :
            Provide(n, what, asks)
    \/ Open \/ AttachTo \/ CheckAttachedDisc \/ Do
    \/ GiveError \/ RequestMedia \/ AnswerAbort \/ AnswerRetry
    \/ ReleaseSet \/ DestroySet
    \/ \E n \in Number : SetVerifier(n)
    \/ \E d \in Drive : AnswerEject(d) \/ SystemMounts(d) \/ SystemUnmounts(d) \/ Uses(d)
    \/ \E d \in Drive, n \in Number \cup {0} : ChangeDisc(d, n)

MediaSpec == MediaInit /\ [][MediaNext]_mediaVars

-----------------------------------------------------------------------------
(* Properties                                                               *)

\* The type invariant of the drives, the handlers and the call.
MediaTypeOK == ms \in MediaType /\ IsInjective(ms.opened) /\ op \in CallType

\* Unless somebody else unmounts it, a disc stays mounted as long as a handler
\* is attached to it, whichever of those that share it is released, ejected,
\* closed or skips the drive.
SharedStaysMounted ==
    \A n \in Number : ms.hd[n].src # 0 /\ n \notin ms.pulled =>
        IsMounted(ms, n)

\* When the user is asked for another disc, and when the set is gone, libzypp
\* has no disc mounted, unless it was busy when it was to be released, was held
\* by a handler that a loop of releases did not reach because an earlier one
\* failed, or was lost when a drive was skipped.
FreedForUser ==
    op.pc \in {"ask", "gone"} =>
        \A d \in Drive : ms.drive[d].mounted = "ours" => d \in ms.left

\* A file is only taken from another disc if the verifier was lost in a retry,
\* the disc was exchanged behind an answer that is still remembered, or the
\* wrong disc stayed attached because nobody could be asked.
WrongDiscIsKnown == ms.got.disc # ms.got.nr => ms.got.doubt

\* "each media number can be assinged a media verifier which checks if the media
\* we are trying to access is the desired one" (MediaSetAccess.h)
ProvidedIsDesired == ms.got.disc = ms.got.nr
=============================================================================
