------------------------------ MODULE Selectable ------------------------------
(* The installed and the available versions of one name, as a user interface   *)
(* shows them: requests for the whole name (setStatus), for one version       *)
(* (setPickStatus), the choice of the candidate, the solver that copies its   *)
(* solution to the pool and takes it back, the locks read from a file, and    *)
(* the solution a user chooses for a problem.                                *)
EXTENDS ResolvableStatus, Sequences, SequencesExt

CONSTANTS
    PoolItem,
    Pools,        \* what pools may hold: sets of names, each with its installed and its
                  \* available versions in the order of the pool, what identical ones
                  \* have in common, those that install beside others, the default
    NoneChosen

VersionsIn(seq) == {seq[k] : k \in DOMAIN seq}

CatalogType ==
    [ installed : Seq(PoolItem), available : Seq(PoolItem), content : [PoolItem -> Nat],
      multi : SUBSET PoolItem, default : PoolItem \cup {NoneChosen} ]

\* A name has a version; one that is installed is not available.
ASSUME PoolAssumption ==
    /\ NoneChosen \notin PoolItem
    /\ \A names \in Pools : \A c \in names :
        /\ c \in CatalogType
        /\ c.installed # <<>> \/ c.available # <<>>
        /\ VersionsIn(c.installed) \cap VersionsIn(c.available) = {}
        /\ c.default \in VersionsIn(c.available) \cup {NoneChosen}

VARIABLE pool     \* one selectable per name: it, the status of its versions, the candidate chosen

poolVars == <<pool>>

InstalledOf(x)  == VersionsIn(x.catalog.installed)
AvailableOf(x)  == VersionsIn(x.catalog.available)
VersionsOf(x)   == InstalledOf(x) \cup AvailableOf(x)

Loaded(c) ==
    [catalog   |-> c,
     status    |-> [v \in VersionsIn(c.installed) \cup VersionsIn(c.available) |-> NoDecision],
     candidate |-> NoneChosen]

SelectableInit == \E names \in Pools : pool = {Loaded(c) : c \in names}

-----------------------------------------------------------------------------
(* What is installed and what would be: the first that transacts, else the     *)
(* first installed, and of the available ones the chosen or the default.     *)
FirstIn(seq, S, other) ==
    IF VersionsIn(seq) \cap S = {} THEN other
    ELSE seq[Min({k \in DOMAIN seq : seq[k] \in S})]

Transacting(x) == {v \in VersionsOf(x) : Transacts(x.status[v])}

TransactingCandidate(x) == FirstIn(x.catalog.available, Transacting(x), NoneChosen)

CandidateObj(x) ==
    FirstIn(x.catalog.available, Transacting(x),
            IF x.candidate = NoneChosen THEN x.catalog.default ELSE x.candidate)
InstalledObj(x) ==
    FirstIn(x.catalog.installed, Transacting(x),
            FirstIn(x.catalog.installed, VersionsOf(x), NoneChosen))

By(s, asked, auto) == IF s.by = USER THEN asked ELSE auto

StatusOf(x) ==
    LET cand == CandidateObj(x)
        inst == InstalledObj(x)
    IN  CASE cand # NoneChosen /\ Transacts(x.status[cand]) ->
                IF inst # NoneChosen THEN By(x.status[cand], "Update", "AutoUpdate")
                                    ELSE By(x.status[cand], "Install", "AutoInstall")
          [] OTHER ->
                IF inst = NoneChosen
                THEN IF \A v \in AvailableOf(x) : IsLocked(x.status[v]) THEN "Taboo" ELSE "NoInst"
                ELSE IF Transacts(x.status[inst]) THEN By(x.status[inst], "Del", "AutoDel")
                ELSE IF \A v \in InstalledOf(x) : IsLocked(x.status[v]) THEN "Protected"
                ELSE "KeepInstalled"

(* The same for one version and those identical to it.                        *)
Identical(x, v, S) == {w \in S : x.catalog.content[w] = x.catalog.content[v]}

PickStatusOf(x, v) ==
    LET ins   == Identical(x, v, InstalledOf(x))
        avs   == Identical(x, v, AvailableOf(x))
        ta    == FirstIn(x.catalog.available, avs \cap Transacting(x), NoneChosen)
        ti    == FirstIn(x.catalog.installed, ins \cap Transacting(x), NoneChosen)
    IN  IF ta # NoneChosen
        THEN IF ins = {} THEN By(x.status[ta], "Install", "AutoInstall")
                         ELSE By(x.status[ta], "Update", "AutoUpdate")
        ELSE IF ti # NoneChosen THEN By(x.status[ti], "Del", "AutoDel")
        ELSE IF \E w \in ins : IsLocked(x.status[w]) THEN "Protected"
        ELSE IF ins # {} THEN "KeepInstalled"
        ELSE IF \A w \in avs : IsLocked(x.status[w]) THEN "Taboo" ELSE "NoInst"

-----------------------------------------------------------------------------
(* A request under way: whether all went well so far, the status that versions *)
(* had when they were touched first, and the selectable as it is now.        *)
Begin(x)  == [ok |-> TRUE,  backup |-> <<>>, now |-> x]
Reject(x) == [ok |-> FALSE, backup |-> <<>>, now |-> x]

(* What was backed up first counts.                                           *)
Extended(backup, S, status) ==
    [v \in DOMAIN backup \cup S |-> IF v \in DOMAIN backup THEN backup[v] ELSE status[v]]

Backup(r, S) == [r EXCEPT !.backup = Extended(@, S, r.now.status)]

(* Setters: end or start a transaction, lock, unlock (which ends one as well),  *)
(* and start the transaction of what may be locked.                          *)
Ending(c)    == [s \in StatusType |-> SetTransact(s, FALSE, c)]
Starting(c)  == [s \in StatusType |-> SetTransact(s, TRUE, c)]
Locking(c)   == [s \in StatusType |-> Lock(s, c)]
Unlocking(c) == [s \in StatusType |-> Unlock(s, c)]
Forcing(c)   == [s \in StatusType |-> SetTransact(SetLock(s, FALSE, c), TRUE, c)]

(* One setter for all versions in S.  The loop ends at the first refusal; that *)
(* those behind it are changed as well makes no difference once restored.    *)
ForEach(r, S, F) ==
    LET old == r.now.status
    IN  IF ~ r.ok THEN r
        ELSE [ ok     |-> \A v \in S : F[old[v]] # Refused,
               backup |-> Backup(r, S).backup,
               now    |-> [r.now EXCEPT !.status = [v \in DOMAIN old |->
                                IF v \in S THEN Try(old[v], F[old[v]]) ELSE old[v]]] ]

(* A request that is a step of another one.                                   *)
Nested(r, q) == IF r.ok THEN [r EXCEPT !.ok = q.ok, !.now = q.now] ELSE r

(* A request that failed restores what it backed up.                          *)
Outcome(r) == IF r.ok THEN r ELSE [r EXCEPT !.now.status = Extended(r.backup, DOMAIN @, @)]

-----------------------------------------------------------------------------
(* Requests for the name.                                                     *)

(* Installed versions make way, as the solver would most probably do.         *)
MakeWay(s, c, multi) == IF multi THEN Unlock(s, c) ELSE SetTransact(Unlock(s, c), TRUE, SOLVER)

SetInstall(x, c) ==
    LET cand     == CandidateObj(x)
        ready    == ForEach(Begin(x), InstalledOf(x),
                            [s \in StatusType |-> MakeWay(s, c, cand \in x.catalog.multi)])
        unlocked == ForEach(ready, AvailableOf(x), Unlocking(c))
    IN  Outcome(ForEach(unlocked, {cand}, Starting(c)))

(* Mutant: an available version that transacts is left alone. *)
SetDeleteOnly(x, c) ==
    Outcome(ForEach(Begin(x), InstalledOf(x), Forcing(c)))

SetDelete(x, c) ==
    LET ready == ForEach(Begin(x), AvailableOf(x), Ending(c))
    IN  Outcome(ForEach(ready, InstalledOf(x), Forcing(c)))

Unset(x, c) ==
    Outcome(ForEach(ForEach(Begin(x), InstalledOf(x), Unlocking(c)),
                    AvailableOf(x), Unlocking(c)))

(* These two neither look at results nor restore.                             *)
SetProtected(x, c) ==
    LET ready == ForEach(Begin(x), AvailableOf(x), Ending(c))
    IN  [ForEach([ready EXCEPT !.ok = TRUE], InstalledOf(x), Locking(c)) EXCEPT !.ok = TRUE]

SetTaboo(x, c) ==
    [ForEach(Begin(x), AvailableOf(x), Locking(c)) EXCEPT !.ok = TRUE]

SetStatus(x, want, c) ==
    LET inst == InstalledObj(x) # NoneChosen
        cand == CandidateObj(x) # NoneChosen
    IN  CASE want = "Protected"     /\ c = USER /\ inst  -> SetProtected(x, c)
          [] want = "Taboo"         /\ c = USER /\ cand  -> SetTaboo(x, c)
          [] want = "Del"           /\ inst              -> SetDelete(x, c)
          [] want = "Install"       /\ cand /\ ~ inst    -> SetInstall(x, c)
          [] want = "Update"        /\ cand /\ inst      -> SetInstall(x, c)
          [] want = "KeepInstalled" /\ inst              -> Unset(x, c)
          [] want = "NoInst"        /\ ~ inst            -> Unset(x, c)
          [] OTHER                                       -> Reject(x)

(* The transaction moves to the new candidate if the causer may end the one    *)
(* and begin the other.  An invalid choice selects the default candidate.    *)
SetCandidate(x, v, c) ==
    LET new    == IF v \in AvailableOf(x) THEN v ELSE NoneChosen
        trans  == TransactingCandidate(x)
        ended  == SetTransact(x.status[trans], FALSE, c)
        begun  == SetTransact(x.status[new], TRUE, c)
        chosen == [Begin([x EXCEPT !.candidate = new]) EXCEPT !.ok = (new # NoneChosen)]
    IN  IF new = NoneChosen \/ trans \in {NoneChosen, new} THEN chosen
        ELSE IF Refused \in {ended, begun} THEN Reject(x)
        ELSE [chosen EXCEPT !.now.status = [@ EXCEPT ![trans] = ended, ![new] = begun]]

-----------------------------------------------------------------------------
(* Requests for one version.                                                  *)

(* Mutant: the loop looks only at the versions it changes. *)
BackupChanged(r) == r

(* The loop over all available versions backs up those it does not change as   *)
(* well: the candidate is changed afterwards, without a backup of its own.    *)
BackupAll(r) == IF r.ok THEN Backup(r, AvailableOf(r.now)) ELSE r

(* A version that installs beside others ends the transactions of those that  *)
(* do not; another one is the only one in the end, as the name's candidate.   *)
PickCandidate(r, x, cand, avs, c) ==
    LET cleared(S) == ForEach(BackupAll(r), AvailableOf(x) \cap S, Ending(c))
        among   == ForEach(cleared(VersionsOf(x) \ x.catalog.multi), avs, Unlocking(c))
        alone   == cleared(x.catalog.multi)
        chosen  == Nested(alone, SetCandidate(alone.now, cand, c))
        request == IF x.catalog.installed = <<>> THEN "Install" ELSE "Update"
    IN  IF cand \in x.catalog.multi
        THEN ForEach(among, {cand}, Starting(c))
        ELSE Nested(chosen, SetStatus(chosen.now, request, c))

PickSteps(x, v, want, c) ==
    LET ins      == Identical(x, v, InstalledOf(x))
        avs      == Identical(x, v, AvailableOf(x))
        cand     == IF v \in AvailableOf(x) THEN v
                    ELSE FirstIn(x.catalog.available, avs, NoneChosen)
        lock(S)   == ForEach(Begin(x), S, Locking(c))
        unlock(S) == ForEach(Begin(x), S, Unlocking(c))
        remove   == ForEach(Begin(x), ins, Forcing(c))
        only(r)  == ForEach(r, avs, Ending(c))
        replace  == ForEach(unlock(ins), ins, Starting(SOLVER))
    IN  CASE want = "Protected" /\ c = USER /\ ins # {} -> only(lock(ins))
          [] want = "Taboo" /\ c = USER /\ avs # {}     -> lock(avs)
          [] want = "Del" /\ ins # {}                   -> only(remove)
          [] want = "Install" /\ ins = {} /\ avs # {}   -> PickCandidate(Begin(x), x, cand, avs, c)
          [] want = "Update" /\ ins # {} /\ avs # {}    ->
                PickCandidate(IF cand \in x.catalog.multi THEN replace ELSE Begin(x), x, cand, avs, c)
          [] want = "KeepInstalled" /\ ins # {}         -> ForEach(unlock(ins), avs, Unlocking(c))
          [] want = "NoInst" /\ ins = {}                -> unlock(avs)
          [] OTHER                                      -> Reject(x)

SetPickStatus(x, v, want, c) == Outcome(PickSteps(x, v, want, c))

-----------------------------------------------------------------------------
(* The solver clears what it and APPL_LOW decided before it solves, and then   *)
(* copies its solution: the versions that are installed and removed by it.    *)
(* What it does for a requirement of the user counts as APPL_LOW's.           *)
Cleared(s) == IF s.by \in {SOLVER, APPL_LOW} THEN Try(s, ResetTransact(s, APPL_LOW)) ELSE s

Copied(s, level) ==
    LET t == Try(s, ResetTransact(s, SOLVER))
        u == Try(t, SetTransact(t, TRUE, SOLVER))
    IN  IF Transacts(u) THEN RaisedTo(u, level) ELSE u

Solved(x, solution, level) ==
    [x EXCEPT !.status = [v \in VersionsOf(x) |->
        IF v \in solution THEN Copied(Cleared(@[v]), level) ELSE Cleared(@[v])]]

(* Of the versions that do not install beside others one is on the system; a   *)
(* solver that reports problems may have ignored any request or lock.         *)
Solutions ==
    { S \in SUBSET UNION {VersionsOf(x) : x \in pool} :
        \A x \in pool : \A v \in (S \cap AvailableOf(x)) \ x.catalog.multi :
            /\ (S \cap AvailableOf(x)) \ x.catalog.multi = {v}
            /\ InstalledOf(x) \ x.catalog.multi \subseteq S }

Undone(x) ==
    [x EXCEPT !.status = [v \in VersionsOf(x) |->
        IF Transacts(@[v]) THEN Try(@[v], ResetTransact(@[v], APPL_LOW)) ELSE @[v]]]

(* The locks of the file belong to the user.                                  *)
HardLocked(x, S) == [x EXCEPT !.status = [v \in VersionsOf(x) |-> SetLock(@[v], v \in S, USER)]]

(* The solution of a problem that a user chooses, for one version.            *)
Executed(s, action, installed) ==
    LET kept == Try(s, ResetTransact(s, USER))
    IN  CASE action = "keep" -> Try(kept, SetTransact(kept, FALSE, APPL_HIGH))
          [] action = "install" /\ installed /\ Transacts(s) -> SetTransact(s, FALSE, USER)
          [] action = "install" /\ ~ installed               -> SetTransact(s, TRUE, USER)
          [] action = "remove"  /\ installed                 -> SetTransact(s, TRUE, USER)
          [] action = "remove"  /\ ~ installed               -> Lock(s, USER)
          [] action = "unlock"                               -> SetLock(s, FALSE, USER)
          [] action = "lock"                                 -> Try(kept, SetLock(kept, TRUE, APPL_HIGH))
          [] OTHER                                           -> s

-----------------------------------------------------------------------------
Want == {"Protected", "Taboo", "Del", "Update", "Install", "AutoDel", "AutoUpdate", "AutoInstall",
         "KeepInstalled", "NoInst"}

Replaced(x, y) == pool' = (pool \ {x}) \cup {y}

RequestStatus(x, want, c)     == Replaced(x, SetStatus(x, want, c).now)
ChooseCandidate(x, v, c)      == Replaced(x, SetCandidate(x, v, c).now)
RequestPick(x, v, want, c)    == Replaced(x, SetPickStatus(x, v, want, c).now)
ExecuteSolution(x, v, action) ==
    Replaced(x, [x EXCEPT !.status[v] = Executed(@, action, v \in InstalledOf(x))])

ResolvePool(S, level) == pool' = {Solved(x, S, level) : x \in pool}
UndoSolution          == pool' = {Undone(x) : x \in pool}
SetHardLocks(S)       == pool' = {HardLocked(x, S) : x \in pool}

SelectableNext ==
    \/ \E x \in pool, want \in Want, c \in Causer : RequestStatus(x, want, c)
    \/ \E x \in pool, c \in Causer : \E v \in VersionsOf(x) \cup {NoneChosen} : ChooseCandidate(x, v, c)
    \/ \E x \in pool, want \in Want, c \in Causer : \E v \in VersionsOf(x) : RequestPick(x, v, want, c)
    \/ \E x \in pool, action \in {"keep", "install", "remove", "unlock", "lock"} :
            \E v \in VersionsOf(x) : ExecuteSolution(x, v, action)
    \/ \E S \in Solutions, level \in {SOLVER, APPL_LOW} : ResolvePool(S, level)
    \/ UndoSolution
    \/ \E S \in SUBSET UNION {VersionsOf(x) : x \in pool} : SetHardLocks(S)

SelectableSpec == SelectableInit /\ [][SelectableNext]_poolVars

-----------------------------------------------------------------------------
(* The type of a name: every version has a status, the chosen one is available. *)
SelectableType ==
    [ catalog   : UNION Pools,
      status    : UNION {[S -> StatusType] : S \in SUBSET PoolItem},
      candidate : PoolItem \cup {NoneChosen} ]

SelectableTypeOK ==
    \A x \in pool :
        /\ x \in SelectableType
        /\ DOMAIN x.status = VersionsOf(x)
        /\ x.candidate \in AvailableOf(x) \cup {NoneChosen}

(* Nobody changes what a stronger causer locked or let transact: neither by a  *)
(* request for the name, for a version or for another candidate, nor the     *)
(* solver or its undo; and a request that is refused in the middle changes no *)
(* version at all.                                                           *)
Unharmed(x, r, c) ==
    \/ r.now.status = x.status
    \/ r.ok /\ \A v \in VersionsOf(x) : Outranked(x.status[v], c) => r.now.status[v] = x.status[v]

DecisionsStand ==
    \A x \in pool :
        /\ \A c \in Causer, want \in Want : Unharmed(x, SetStatus(x, want, c), c)
        /\ \A c \in Causer, v \in VersionsOf(x) :
                /\ Unharmed(x, SetCandidate(x, v, c), c)
                /\ \A want \in Want : Unharmed(x, SetPickStatus(x, v, want, c), c)
        /\ \A S \in Solutions : Unharmed(x, Begin(Solved(x, S, SOLVER)), APPL_LOW)
        /\ Unharmed(x, Begin(Undone(x)), APPL_LOW)

(* A request that is granted is what the name, or the version, shows: by the   *)
(* user exactly, by another causer maybe as an automatic one.  The version    *)
(* picked, or the candidate, transacts; if it does not install beside others  *)
(* no other one does, and else none of those that do not.  (Solutions chosen for *)
(* problems can let two versions transact that do not install beside each     *)
(* other; then a pick changes the first of them only, and may install another *)
(* version than the one asked for.)                                           *)
AutoOf(want) == CASE want = "Del"     -> "AutoDel"
                  [] want = "Update"  -> "AutoUpdate"
                  [] want = "Install" -> "AutoInstall"
                  [] OTHER            -> want

Shown(status, want, c) == status = want \/ (c # USER /\ status = AutoOf(want))

Going(x) == {v \in AvailableOf(x) : Transacts(x.status[v])}

OneGoing(x) == \A w, u \in Going(x) \ x.catalog.multi : w = u

GrantTakesEffect ==
    \A x \in pool, c \in Causer, want \in Want :
        /\ LET r == SetStatus(x, want, c)
           IN  r.ok => /\ Shown(StatusOf(r.now), want, c) \/ (want = "Taboo" /\ InstalledOf(x) # {})
                       /\ want \in {"Install", "Update"} => Going(r.now) = {CandidateObj(x)}
        /\ \A v \in VersionsOf(x) :
            LET r     == SetPickStatus(x, v, want, c)
                going == Going(r.now)
            IN  r.ok /\ (want \in {"Install", "Update"} => OneGoing(x)) =>
                        /\ \/ Shown(PickStatusOf(r.now, v), want, c)
                           \/ want = "Taboo" /\ Identical(x, v, InstalledOf(x)) # {}
                        /\ want \in {"Install", "Update"} =>
                               /\ Identical(x, v, going) # {}
                               /\ going \subseteq x.catalog.multi \/ \A w, u \in going : w = u
=============================================================================
