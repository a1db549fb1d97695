------------------------------ MODULE RepoCache ------------------------------
(* The caches of one rpm-md repository on disk, and the programs that use      *)
(* them (zypp/ng/repomanager.cc, zypp/ng/repo/refresh.cc and                 *)
(* zypp/ng/repo/workflows): the raw cache, a directory with the master index *)
(* (repomd.xml) and the data files it names, and the solv cache, the solv     *)
(* file repo2solv makes from them with a cookie that says which metadata it   *)
(* was made from.  A refresh downloads into a temporary directory next to     *)
(* the raw cache and exchanges the two by three renames.                     *)
(*                                                                            *)
(* None of this code takes a lock: a program in read-only mode                *)
(* (ZYppReadOnlyHack.h) refreshes and builds caches without the global lock,  *)
(* so several programs are modelled, each of which may be killed before any   *)
(* step.  The server changes at any time, and mirrors may be behind.          *)
EXTENDS Integers, FiniteSets

CONSTANTS Program,    \* the programs that use the library
          Builder,    \* those that build and load solv files, the others refresh
          MaxVersion  \* bound: the versions 1..MaxVersion of the metadata

ASSUME RepoAssumption == MaxVersion \in Nat \ {0} /\ Builder \subseteq Program

VARIABLES repo,  \* the server and the caches of the repository
          prog   \* what each program does

repoVars == <<repo, prog>>

Version == 1 .. MaxVersion
NoVersion == 0

(* A metadata directory: the version of its index and the one of its data      *)
(* files; Absent if there is no such directory.                              *)
Absent  == [index |-> -1, data |-> -1]
Empty   == [index |-> NoVersion, data |-> NoVersion]
RawDir  == {Absent} \cup [index : {NoVersion} \cup Version, data : {NoVersion} \cup Version]
Whole(d) == d.index \in Version /\ d.data = d.index

Partial == -1  \* a solv file repo2solv has not finished
Mixed   == -2  \* a solv file made from an index and data of different versions

Step == { "off", "idle", "check", "ask", "index", "data", "swap1", "swap2",
          "swap3", "status", "compare", "clean", "convert", "write", "cookie", "add" }

(* had: there was a raw cache, and no exception of RawKept has removed it.     *)
(* raced: a program has changed what another one was building the solv file   *)
(* from or into; until somebody builds it alone.                             *)
RepoType == [server : Version, raw : RawDir,
             solv : {NoVersion, Partial, Mixed} \cup Version, cookie : {NoVersion} \cup Version,
             had : BOOLEAN, raced : BOOLEAN]

(* tmp is the temporary directory of the refresh, side the third name          *)
(* exchange() uses; seen the version the program goes by: the status read     *)
(* from the raw cache, then the index it downloads; got the index repo2solv   *)
(* has read.  build says that a refresh is made by buildCache(), load that a  *)
(* build is made by loadFromCache(); robbed that another program has removed *)
(* a directory of this one.                                                  *)
ProgramType == [pc : Step, tmp : RawDir, side : RawDir,
                seen : {NoVersion} \cup Version, got : {NoVersion} \cup Version,
                left : SUBSET {"solv", "cookie"}, then : {"idle", "convert", "status"},
                build : BOOLEAN, load : BOOLEAN, robbed : BOOLEAN]

RepoTypeOK == repo \in RepoType /\ prog \in [Program -> ProgramType]

Off  == [pc |-> "off", tmp |-> Absent, side |-> Absent, seen |-> NoVersion, got |-> NoVersion,
         left |-> {}, then |-> "idle", build |-> FALSE, load |-> FALSE, robbed |-> FALSE]
Idle == [Off EXCEPT !.pc = "idle"]

RepoInit ==
    /\ \E v \in {NoVersion, 1} :
          repo = [server |-> 1, raw |-> IF v = NoVersion THEN Absent ELSE [index |-> v, data |-> v],
                  solv |-> v, cookie |-> v, had |-> v # NoVersion, raced |-> FALSE]
    /\ prog = [p \in Program |-> Off]

-----------------------------------------------------------------------------
(* RepoManager::metadataStatus(): the checksum of the index, empty without one. *)
MetadataStatus == IF repo.raw.index \in Version THEN repo.raw.index ELSE NoVersion

BuildsCache(p) == \/ prog[p].load
                  \/ prog[p].pc \in {"compare", "clean", "convert", "write", "cookie", "add"}
Disturbs(p)    == \E q \in Program \ {p} : BuildsCache(q)

Goto(p, pc) == prog' = [prog EXCEPT ![p].pc = pc]

(* init_knownRepositories() of a new program: directories in the raw cache      *)
(* directory that are not named like a repository are removed, temporary     *)
(* directories of the others among them, unless the program is read-only.    *)
(* What a killed program leaves there nobody reads again: it is forgotten    *)
(* when the program is killed.                                               *)
StartProgram(p) ==
    /\ prog[p].pc = "off"
    /\ \/ Goto(p, "idle")                              \* read-only
       \/ prog' = [q \in Program |->
             IF q = p THEN Idle
             ELSE IF prog[q].tmp = Absent /\ prog[q].side = Absent THEN prog[q]
             ELSE [prog[q] EXCEPT !.tmp = Absent, !.side = Absent, !.robbed = TRUE]]
    /\ UNCHANGED repo

KillProgram(p) ==
    /\ prog[p].pc # "off"
    /\ prog' = [prog EXCEPT ![p] = Off]
    /\ repo' = [repo EXCEPT !.had = @ /\ prog[p].pc # "swap3"]

-----------------------------------------------------------------------------
(* RepoManager::refreshMetadata(). *)
RefreshMetadata(p) ==
    /\ prog[p].pc = "idle"
    /\ prog' = [prog EXCEPT ![p] = [Idle EXCEPT !.pc = "check", !.tmp = Empty]]
    /\ UNCHANGED repo

(* The end of a refresh: the temporary directory is removed.  A refresh made   *)
(* by buildCache() goes on there if it was successful.                        *)
AfterRefresh(p, ok) ==
    [prog EXCEPT ![p] =
       IF @.build /\ ok THEN [Idle EXCEPT !.pc = "status", !.build = TRUE, !.load = prog[p].load]
       ELSE Idle]

(* checkIfToRefreshMetadata() up to the request to the server: a refresh is    *)
(* needed without metadata and when it is forced, it is not with a volatile   *)
(* medium or before repo.refresh.delay has passed if the solv file is built    *)
(* from this metadata.                                                       *)
CheckIfToRefreshMetadata(p) ==
    /\ prog[p].pc = "check"
    /\ \/ Goto(p, "index")
       \/ /\ MetadataStatus # NoVersion
          /\ \/ prog' = [prog EXCEPT ![p].pc = "ask", ![p].seen = MetadataStatus]
             \/ prog' = AfterRefresh(p, TRUE)
    /\ UNCHANGED repo

(* repoStatus(): a server that does not answer has the empty status.  The     *)
(* status compared with was read before the request.                         *)
CompareWithServer(p) ==
    /\ prog[p].pc = "ask"
    /\ \/ repo.server = prog[p].seen /\ prog' = AfterRefresh(p, TRUE)
       \/ prog' = [prog EXCEPT ![p].pc = "index", ![p].seen = NoVersion]
    /\ UNCHANGED repo

(* Nothing from this origin: its index is removed with the download context,  *)
(* and the next origin is tried, or there is none.                            *)
OriginFails(p) ==
    /\ prog[p].pc \in {"index", "data"}
    /\ \/ prog' = [prog EXCEPT ![p].pc = "check", ![p].seen = NoVersion,
                               ![p].tmp = IF @ = Absent THEN @ ELSE [@ EXCEPT !.index = NoVersion]]
       \/ prog' = AfterRefresh(p, FALSE)
    /\ UNCHANGED repo

(* downloadMasterIndex() into the temporary directory, which is made again if  *)
(* it is gone.  The raw cache directory is made first.                       *)
DownloadMasterIndex(p) ==
    /\ prog[p].pc = "index"
    /\ prog' = [prog EXCEPT ![p].pc = "data", ![p].seen = repo.server,
                            ![p].tmp = [index |-> repo.server,
                                        data |-> IF @ = Absent THEN NoVersion ELSE @.data]]
    /\ repo' = [repo EXCEPT !.raw = IF @ = Absent THEN Empty ELSE @]

(* The data files the index names, with the checksums it gives: a file that is *)
(* there from an earlier origin is used, one of another version is refused.   *)
DownloadData(p) ==
    /\ prog[p].pc = "data"
    /\ repo.server = prog[p].seen \/ prog[p].tmp.data = prog[p].seen
    /\ prog' = [prog EXCEPT ![p].pc = "swap1", ![p].seen = NoVersion,
                            ![p].tmp = [index |-> IF @ = Absent THEN NoVersion ELSE @.index,
                                        data |-> prog[p].seen]]
    /\ UNCHANGED repo

-----------------------------------------------------------------------------
(* saveToRawCache(): filesystem::exchange(temporary directory, raw cache),      *)
(* whose result is ignored.  A rename onto a directory with files fails, and  *)
(* each may fail by itself.                                                  *)
(* p puts the directory d there: what was there may only be lost if another   *)
(* program has removed files of p, or if d is the old directory put back.     *)
RawBecomes(p, d) ==
    repo' = [repo EXCEPT !.raw = d, !.raced = @ \/ Disturbs(p),
                         !.had = Whole(d) \/ (@ /\ ~prog[p].robbed /\ d # prog[p].tmp)]

CanRename(from, to) == from # Absent /\ to \in {Absent, Empty}

ExchangeFails(p) ==
    /\ prog[p].pc = "swap1"
    /\ prog' = AfterRefresh(p, TRUE)
    /\ UNCHANGED repo

ExchangeOne(p) ==
    LET tmp == prog[p].tmp IN
    /\ prog[p].pc = "swap1"
    /\ \/ /\ tmp # Absent /\ repo.raw # Absent
          /\ prog' = [prog EXCEPT ![p].pc = "swap2", ![p].side = tmp, ![p].tmp = Absent]
          /\ UNCHANGED repo
       \/ /\ tmp = Absent \/ repo.raw = Absent   \* one rename, in either direction
          /\ RawBecomes(p, tmp)
          /\ prog' = AfterRefresh(p, TRUE)

ExchangeTwo(p) ==
    /\ prog[p].pc = "swap2"
    /\ \/ /\ repo.raw # Absent
          /\ prog' = [prog EXCEPT ![p].pc = "swap3", ![p].tmp = repo.raw]
          /\ repo' = [repo EXCEPT !.raw = Absent, !.raced = @ \/ Disturbs(p)]
       \/ prog' = AfterRefresh(p, TRUE) /\ UNCHANGED repo

(* Mutant: the second rename is not undone when the third fails.               *)
ExchangeNotUndone(p) ==
    LET P == prog[p] IN
    /\ P.pc = "swap3"
    /\ \/ CanRename(P.side, repo.raw) /\ RawBecomes(p, P.side)
       \/ RawBecomes(p, repo.raw)
    /\ prog' = AfterRefresh(p, TRUE)

ExchangeThree(p) ==
    LET P == prog[p] IN
    /\ P.pc = "swap3"
    /\ \/ /\ CanRename(P.side, repo.raw)
          /\ RawBecomes(p, P.side)
       \/ IF CanRename(P.tmp, repo.raw)
          THEN RawBecomes(p, P.tmp)              \* undone
          ELSE RawBecomes(p, repo.raw)
    /\ prog' = AfterRefresh(p, TRUE)

-----------------------------------------------------------------------------
(* RepoManager::buildCache(). *)
BuildCache(p) ==
    /\ prog[p].pc = "idle"
    /\ prog' = [prog EXCEPT ![p] = [Idle EXCEPT !.pc = "status"]]
    /\ UNCHANGED repo

(* The end of a build.  loadFromCache() goes on if it was successful.          *)
AfterBuild(p, ok) ==
    [prog EXCEPT ![p] = IF @.load /\ ok THEN [Idle EXCEPT !.pc = "add", !.seen = prog[p].seen]
                        ELSE Idle]

(* The status of the raw cache; without one it is refreshed, once.             *)
ReadRawStatus(p) ==
    /\ prog[p].pc = "status"
    /\ prog' = [prog EXCEPT ![p] =
          IF MetadataStatus = NoVersion /\ ~@.build
          THEN [@ EXCEPT !.pc = "check", !.tmp = Empty, !.build = TRUE]
          ELSE [@ EXCEPT !.pc = "compare", !.seen = MetadataStatus]]
    /\ UNCHANGED repo

(* isCached() gives an expected<bool>, which is true whenever it is no error:  *)
(* the cookie alone decides.                                                 *)
CacheUpToDate(p) ==
    /\ prog[p].pc = "compare" /\ repo.cookie = prog[p].seen
    /\ prog' = AfterBuild(p, TRUE)
    /\ UNCHANGED repo

(* Mutant: the cookie is left.                                                 *)
StartCleaningSolv(p, then) ==
    prog' = [prog EXCEPT ![p].pc = "clean", ![p].left = {"solv"}, ![p].then = then]

StartCleaning(p, then) ==
    prog' = [prog EXCEPT ![p].pc = "clean", ![p].left = {"solv", "cookie"}, ![p].then = then]

(* The cookie differs, or the build is forced, which loadFromCache() does not. *)
CacheOutdated(p) ==
    /\ prog[p].pc = "compare" /\ (repo.cookie # prog[p].seen \/ ~prog[p].load)
    /\ StartCleaning(p, "convert")
    /\ UNCHANGED repo

(* cleanCache(): the files of the solv cache are removed in any order.         *)
CleanCache(p) ==
    /\ prog[p].pc = "idle"
    /\ StartCleaning(p, "idle")
    /\ UNCHANGED repo

RemoveFile(p) ==
    \E f \in prog[p].left :
       LET left == prog[p].left \ {f} IN
       /\ prog[p].pc = "clean"
       /\ prog' = [prog EXCEPT ![p].left = left,
                               ![p].pc = IF left = {} THEN prog[p].then ELSE @,
                               ![p].then = IF left = {} THEN "idle" ELSE @]
       /\ repo' = [repo EXCEPT ![f] = NoVersion, !.raced = @ \/ Disturbs(p)]

(* repo2solv: it reads the index, then the data, and writes the solv file.      *)
StartRepo2Solv(p) ==
    /\ prog[p].pc = "convert"
    /\ prog' = [prog EXCEPT ![p].pc = "write", ![p].got = MetadataStatus]
    /\ repo' = [repo EXCEPT !.solv = Partial,
                            !.raced = \/ Disturbs(p)
                                      \/ @ /\ (repo.cookie # NoVersion \/ MetadataStatus # prog[p].seen)]

FinishRepo2Solv(p) ==
    /\ prog[p].pc = "write"
    /\ prog[p].got # NoVersion /\ repo.raw.data \in Version
    /\ repo' = [repo EXCEPT !.solv = IF repo.raw.data = prog[p].got THEN prog[p].got ELSE Mixed,
                            !.raced = @ \/ Disturbs(p)]
    /\ prog' = [prog EXCEPT ![p].pc = "cookie", ![p].got = NoVersion]

(* It fails, or has no metadata: the guard removes the solv file.              *)
Repo2SolvFails(p) ==
    /\ prog[p].pc = "write"
    /\ repo' = [repo EXCEPT !.solv = NoVersion, !.raced = @ \/ Disturbs(p)]
    /\ prog' = AfterBuild(p, FALSE)

(* setCacheStatus() with the status read at the beginning.                     *)
SetCacheStatus(p) ==
    /\ prog[p].pc = "cookie"
    /\ repo' = [repo EXCEPT !.cookie = prog[p].seen, !.raced = @ \/ Disturbs(p)]
    /\ prog' = AfterBuild(p, TRUE)

(* loadFromCache(): a solv file that is missing, not complete, or written by   *)
(* another version of the tool is removed with its cookie, built, and loaded. *)
LoadFromCache(p) ==
    /\ prog[p].pc = "idle"
    /\ \/ repo.solv \in Version \cup {Mixed} /\ UNCHANGED prog
       \/ prog' = [prog EXCEPT ![p] = [Idle EXCEPT !.pc = "clean", !.left = {"solv", "cookie"},
                                                   !.then = "status", !.load = TRUE]]
    /\ UNCHANGED repo

AddRepoSolv(p) ==
    /\ prog[p].pc = "add"
    /\ prog' = [prog EXCEPT ![p] = Idle]
    /\ UNCHANGED repo

(* The server gets other metadata, or another mirror answers.                  *)
ServerChanges ==
    /\ \E v \in Version \ {repo.server} : repo' = [repo EXCEPT !.server = v]
    /\ UNCHANGED prog

RepoNext ==
    \/ ServerChanges
    \/ \E p \in Program :
          \/ StartProgram(p) \/ KillProgram(p)
          \/ RefreshMetadata(p) \/ CheckIfToRefreshMetadata(p) \/ CompareWithServer(p)
          \/ OriginFails(p) \/ DownloadMasterIndex(p) \/ DownloadData(p)
          \/ ExchangeFails(p) \/ ExchangeOne(p) \/ ExchangeTwo(p) \/ ExchangeThree(p)
    \/ \E p \in Builder :
          \/ BuildCache(p) \/ ReadRawStatus(p) \/ CacheUpToDate(p) \/ CacheOutdated(p)
          \/ CleanCache(p) \/ RemoveFile(p)
          \/ StartRepo2Solv(p) \/ FinishRepo2Solv(p) \/ Repo2SolvFails(p) \/ SetCacheStatus(p)
          \/ LoadFromCache(p) \/ AddRepoSolv(p)

RepoSpec == RepoInit /\ [][RepoNext]_repoVars

-----------------------------------------------------------------------------
(* A cookie next to a solv file says what the solv file was made from: no kill *)
(* between the steps that remove the old files, run repo2solv and write the   *)
(* cookie, and no failure of it, leaves a cookie that makes buildCache() keep  *)
(* a solv file that is not complete or has other metadata in it.  And when     *)
(* loadFromCache() has rebuilt the cache there is a solv file to load, even    *)
(* after a kill has left a cookie without solv file, which buildCache() takes  *)
(* for an up to date cache; except in a raw cache without metadata            *)
(* (BuildNeedsMetadata).  Neither is so once two programs have raced: nothing  *)
(* in this code keeps them apart.                                             *)
CacheTruth ==
    ~repo.raced =>
        /\ repo.cookie # NoVersion /\ repo.solv # NoVersion => repo.solv = repo.cookie
        /\ \A p \in Program : prog[p].pc = "add" /\ prog[p].seen # NoVersion => repo.solv \in Version

(* Once there is metadata the raw cache has metadata, index and data of one    *)
(* version, whatever fails in a refresh ("In case of failure the metadata     *)
(* remains as it was before", repomanager.h).  The exceptions are a program    *)
(* between the second and the third rename of exchange(), one killed there,   *)
(* and one whose temporary directory another program has cleaned up.         *)
RawKept ==
    repo.had /\ (\A p \in Program : prog[p].pc # "swap3") => Whole(repo.raw)

(* What the documentation of buildCache() says: it is an error "if the metadata *)
(* is not enough to build a cache (empty, ...)" (zypp/RepoManager.h).  It is   *)
(* not so: a refresh whose exchange() failed counts as done, the empty status  *)
(* of the raw cache equals that of the missing cookie, which is taken for a   *)
(* cache that is up to date, and the load goes on to a solv file nobody made. *)
BuildNeedsMetadata ==
    \A p \in Program : prog[p].pc = "add" /\ ~repo.raced => prog[p].seen # NoVersion
=============================================================================
