-------------------------- MODULE Repository_proofs --------------------------
(***************************************************************************)
(* Proofs about where the files of a repository come from.                 *)
(*                                                                         *)
(* Its caches, for every number of programs and of versions of the         *)
(* metadata: the state is well typed, the raw cache keeps whole metadata   *)
(* through every failure of a refresh and every kill (RawKept), and a      *)
(* cookie beside a solv file tells what it was made from (CacheTruth).     *)
(*                                                                         *)
(* Its discs, for every number of media and drives: a disc stays mounted   *)
(* for those who share it (SharedStaysMounted), none is left mounted where *)
(* the user is asked for another (FreedForUser), and a file of the wrong   *)
(* disc is one of the known cases (WrongDiscIsKnown).                      *)
(***************************************************************************)
EXTENDS RepoCache, MediaSet, ListLemmas

(* Types of the parts, kept as lemmas: the steps below never unfold the record *)
(* type, a step sets fields of one record.                                   *)
LEMMA SetField ==
    ASSUME NEW P \in ProgramType
    PROVE  /\ \A x \in Step : [P EXCEPT !.pc = x] \in ProgramType
           /\ \A x \in RawDir : /\ [P EXCEPT !.tmp = x] \in ProgramType
                               /\ [P EXCEPT !.side = x] \in ProgramType
           /\ \A x \in {NoVersion} \cup Version : /\ [P EXCEPT !.seen = x] \in ProgramType
                                                /\ [P EXCEPT !.got = x] \in ProgramType
           /\ \A x \in SUBSET {"solv", "cookie"} : [P EXCEPT !.left = x] \in ProgramType
           /\ \A x \in {"idle", "convert", "status"} : [P EXCEPT !.then = x] \in ProgramType
           /\ \A x \in BOOLEAN : /\ [P EXCEPT !.build = x] \in ProgramType
                                /\ [P EXCEPT !.load = x] \in ProgramType
                                /\ [P EXCEPT !.robbed = x] \in ProgramType
  BY DEF ProgramType

LEMMA Fields ==
    ASSUME NEW P \in ProgramType
    PROVE  /\ P.pc \in Step
           /\ P.tmp \in RawDir /\ P.side \in RawDir
           /\ P.seen \in {NoVersion} \cup Version /\ P.got \in {NoVersion} \cup Version
           /\ P.left \in SUBSET {"solv", "cookie"} /\ P.then \in {"idle", "convert", "status"}
           /\ P.build \in BOOLEAN /\ P.load \in BOOLEAN /\ P.robbed \in BOOLEAN
  BY DEF ProgramType

LEMMA DirType ==
    /\ Empty \in RawDir /\ Absent \in RawDir
    /\ \A i, d \in {NoVersion} \cup Version : [index |-> i, data |-> d] \in RawDir
    /\ \A d \in RawDir \ {Absent} :
          /\ d.data \in {NoVersion} \cup Version
          /\ d.index \in {NoVersion} \cup Version
          /\ [d EXCEPT !.index = NoVersion] \in RawDir
  BY DEF RawDir, Empty, Absent, NoVersion

LEMMA IdleType == Idle \in ProgramType /\ Off \in ProgramType
  BY DEF ProgramType, Step, RawDir, Idle, Off, Absent, Empty, NoVersion

LEMMA StatusType == MetadataStatus \in {NoVersion} \cup Version
  BY DEF MetadataStatus

LEMMA AfterRefreshType ==
    ASSUME RepoTypeOK, NEW p \in Program, NEW ok \in BOOLEAN
    PROVE  AfterRefresh(p, ok) \in [Program -> ProgramType]
<1>1. [Idle EXCEPT !.pc = "status", !.build = TRUE, !.load = prog[p].load] \in ProgramType
  BY IdleType, SetField, Fields DEF RepoTypeOK, Step
<1> QED
  BY <1>1, IdleType DEF AfterRefresh, RepoTypeOK

LEMMA AfterBuildType ==
    ASSUME RepoTypeOK, NEW p \in Program, NEW ok \in BOOLEAN
    PROVE  AfterBuild(p, ok) \in [Program -> ProgramType]
<1>1. [Idle EXCEPT !.pc = "add", !.seen = prog[p].seen] \in ProgramType
  BY IdleType, SetField, Fields DEF RepoTypeOK, Step
<1> QED
  BY <1>1, IdleType DEF AfterBuild, RepoTypeOK

LEMMA InitType == RepoInit => RepoTypeOK
  BY IdleType, DirType, RepoAssumption DEF RepoInit, RepoTypeOK, RepoType, Version

LEMMA StepType ==
    ASSUME RepoTypeOK, [RepoNext]_repoVars
    PROVE  RepoTypeOK'
<1> USE SetField, Fields, DirType, IdleType DEF RepoTypeOK
<1> DEFINE FilesType == repo' \in RepoType
           ProgsType == prog' \in [Program -> ProgramType]
<1>1. CASE ServerChanges
  BY <1>1 DEF ServerChanges, RepoType
<1>2. ASSUME NEW p \in Program, StartProgram(p) PROVE RepoTypeOK'
  <2>1. \A q \in Program :
           [prog[q] EXCEPT !.tmp = Absent, !.side = Absent, !.robbed = TRUE] \in ProgramType
    OBVIOUS
  <2>2. CASE Goto(p, "idle")  BY <1>2, <2>2 DEF StartProgram, Goto, Step
  <2>3. CASE ~Goto(p, "idle")
    <3>1. prog' = [q \in Program |->
             IF q = p THEN Idle
             ELSE IF prog[q].tmp = Absent /\ prog[q].side = Absent THEN prog[q]
             ELSE [prog[q] EXCEPT !.tmp = Absent, !.side = Absent, !.robbed = TRUE]]
      BY <1>2, <2>3 DEF StartProgram
    <3>2. ProgsType  BY <2>1, <3>1, IdleType
    <3> QED  BY <1>2, <3>2 DEF StartProgram
  <2> QED  BY <2>2, <2>3
<1>3. ASSUME NEW p \in Program, KillProgram(p) PROVE RepoTypeOK'
  BY <1>3 DEF KillProgram, RepoType
<1>4. ASSUME NEW p \in Program, RefreshMetadata(p) PROVE RepoTypeOK'
  BY <1>4 DEF RefreshMetadata, Step
<1>5. ASSUME NEW p \in Program, CheckIfToRefreshMetadata(p) PROVE RepoTypeOK'
  <2>1. CASE Goto(p, "index")  BY <1>5, <2>1 DEF CheckIfToRefreshMetadata, Goto, Step
  <2>2. CASE prog' = AfterRefresh(p, TRUE)
    BY <1>5, <2>2, AfterRefreshType DEF CheckIfToRefreshMetadata
  <2>3. CASE prog' = [prog EXCEPT ![p].pc = "ask", ![p].seen = MetadataStatus]
    BY <1>5, <2>3, StatusType DEF CheckIfToRefreshMetadata, Step
  <2> QED  BY <1>5, <2>1, <2>2, <2>3 DEF CheckIfToRefreshMetadata
<1>6. ASSUME NEW p \in Program, CompareWithServer(p) PROVE RepoTypeOK'
  <2>1. CASE prog' = AfterRefresh(p, TRUE)
    BY <1>6, <2>1, AfterRefreshType DEF CompareWithServer
  <2>2. CASE prog' = [prog EXCEPT ![p].pc = "index", ![p].seen = NoVersion]
    BY <1>6, <2>2 DEF CompareWithServer, Step
  <2> QED  BY <1>6, <2>1, <2>2 DEF CompareWithServer
<1>7. ASSUME NEW p \in Program, OriginFails(p) PROVE RepoTypeOK'
  <2>1. CASE prog' = AfterRefresh(p, FALSE)
    BY <1>7, <2>1, AfterRefreshType DEF OriginFails
  <2>2. CASE prog' # AfterRefresh(p, FALSE)
    <3> DEFINE t == IF prog[p].tmp = Absent THEN prog[p].tmp
                    ELSE [prog[p].tmp EXCEPT !.index = NoVersion]
    <3>1. t \in RawDir  OBVIOUS
    <3>2. prog' = [prog EXCEPT ![p].pc = "check", ![p].seen = NoVersion, ![p].tmp = t]
      BY <1>7, <2>2 DEF OriginFails
    <3>3. ProgsType  BY <3>1, <3>2 DEF Step
    <3> QED  BY <1>7, <3>3 DEF OriginFails
  <2> QED  BY <2>1, <2>2
<1>8. ASSUME NEW p \in Program, DownloadMasterIndex(p) PROVE RepoTypeOK'
  <2>1. ProgsType  BY <1>8 DEF DownloadMasterIndex, RepoType, Step
  <2>2. FilesType  BY <1>8 DEF DownloadMasterIndex, RepoType
  <2> QED  BY <2>1, <2>2
<1>9. ASSUME NEW p \in Program, DownloadData(p) PROVE RepoTypeOK'
  BY <1>9 DEF DownloadData, Step
<1>10. ASSUME NEW p \in Program, ExchangeFails(p) PROVE RepoTypeOK'
  BY <1>10, AfterRefreshType DEF ExchangeFails
<1>11. ASSUME NEW p \in Program, ExchangeOne(p) PROVE RepoTypeOK'
  <2>1. CASE prog' = AfterRefresh(p, TRUE) /\ RawBecomes(p, prog[p].tmp)
    <3>1. FilesType  BY <2>1 DEF RawBecomes, RepoType, Whole, Disturbs, BuildsCache
    <3> QED  BY <2>1, <3>1, AfterRefreshType
  <2>2. CASE /\ prog' = [prog EXCEPT ![p].pc = "swap2", ![p].side = prog[p].tmp, ![p].tmp = Absent]
             /\ UNCHANGED repo
    BY <2>2 DEF Step
  <2> QED  BY <1>11, <2>1, <2>2 DEF ExchangeOne
<1>12. ASSUME NEW p \in Program, ExchangeTwo(p) PROVE RepoTypeOK'
  <2>1. CASE prog' = AfterRefresh(p, TRUE) /\ UNCHANGED repo
    BY <2>1, AfterRefreshType
  <2>2. CASE ~(prog' = AfterRefresh(p, TRUE) /\ UNCHANGED repo)
    <3>1. prog' = [prog EXCEPT ![p].pc = "swap3", ![p].tmp = repo.raw]
      BY <1>12, <2>2 DEF ExchangeTwo
    <3>4. repo.raw \in RawDir  BY DEF RepoType
    <3>5. ProgsType  BY <3>1, <3>4 DEF Step
    <3>2. repo' = [repo EXCEPT !.raw = Absent, !.raced = @ \/ Disturbs(p)]
      BY <1>12, <2>2 DEF ExchangeTwo
    <3>3. FilesType  BY <3>2 DEF RepoType, Disturbs, BuildsCache
    <3> QED  BY <3>5, <3>3
  <2> QED  BY <2>1, <2>2
<1>13. ASSUME NEW p \in Program, ExchangeThree(p) PROVE RepoTypeOK'
  <2>1. PICK d \in RawDir : RawBecomes(p, d)
    BY <1>13 DEF ExchangeThree, RepoType
  <2>2. FilesType  BY <2>1 DEF RawBecomes, RepoType, Whole, Disturbs, BuildsCache
  <2> QED  BY <1>13, <2>2, AfterRefreshType DEF ExchangeThree
<1>14. ASSUME NEW p \in Program, BuildCache(p) \/ AddRepoSolv(p) PROVE RepoTypeOK'
  <2>1. [Idle EXCEPT !.pc = "status"] \in ProgramType  BY DEF Step
  <2> QED  BY <1>14, <2>1 DEF BuildCache, AddRepoSolv
<1>15. ASSUME NEW p \in Program, LoadFromCache(p) PROVE RepoTypeOK'
  <2> DEFINE P == [Idle EXCEPT !.pc = "clean", !.left = {"solv", "cookie"},
                               !.then = "status", !.load = TRUE]
  <2>1. P \in ProgramType  BY DEF Step
  <2>2. UNCHANGED prog \/ prog' = [prog EXCEPT ![p] = P]  BY <1>15 DEF LoadFromCache
  <2> HIDE DEF P
  <2>3. ProgsType  BY <2>1, <2>2
  <2> QED  BY <1>15, <2>3 DEF LoadFromCache
<1>16. ASSUME NEW p \in Program, ReadRawStatus(p) PROVE RepoTypeOK'
  <2>1. [prog[p] EXCEPT !.pc = "check", !.tmp = Empty, !.build = TRUE] \in ProgramType
    BY DEF Step
  <2>2. [prog[p] EXCEPT !.pc = "compare", !.seen = MetadataStatus] \in ProgramType
    BY StatusType DEF Step
  <2> QED  BY <1>16, <2>1, <2>2 DEF ReadRawStatus
<1>17. ASSUME NEW p \in Program, NEW ok \in BOOLEAN, prog' = AfterBuild(p, ok),
              UNCHANGED repo \/ Repo2SolvFails(p) \/ SetCacheStatus(p)
       PROVE  RepoTypeOK'
  <2>1. ProgsType
    BY <1>17, AfterBuildType
  <2>2. CASE Repo2SolvFails(p)
    <3>1. FilesType  BY <2>2 DEF Repo2SolvFails, RepoType, Disturbs, BuildsCache
    <3> QED  BY <2>1, <3>1
  <2>3. CASE SetCacheStatus(p)
    <3>1. FilesType  BY <2>3 DEF SetCacheStatus, RepoType, Disturbs, BuildsCache
    <3> QED  BY <2>1, <3>1
  <2> QED  BY <1>17, <2>1, <2>2, <2>3
<1>18. ASSUME NEW p \in Program, NEW then \in {"idle", "convert"}, StartCleaning(p, then),
              UNCHANGED repo
       PROVE  RepoTypeOK'
  BY <1>18 DEF StartCleaning, Step
<1>19. ASSUME NEW p \in Program, RemoveFile(p) PROVE RepoTypeOK'
  <2>1. PICK f \in prog[p].left :
           /\ LET left == prog[p].left \ {f} IN
              prog' = [prog EXCEPT ![p].left = left,
                                   ![p].pc = IF left = {} THEN prog[p].then ELSE @,
                                   ![p].then = IF left = {} THEN "idle" ELSE @]
           /\ repo' = [repo EXCEPT ![f] = NoVersion, !.raced = @ \/ Disturbs(p)]
    BY <1>19 DEF RemoveFile
  <2>2. f = "solv" \/ f = "cookie"  OBVIOUS
  <2>3. ProgsType
    <3> DEFINE left == prog[p].left \ {f}
               P == [prog[p] EXCEPT !.left = left, !.pc = IF left = {} THEN prog[p].then ELSE @,
                                    !.then = IF left = {} THEN "idle" ELSE @]
    <3>1. left \in SUBSET {"solv", "cookie"} /\ prog[p].then \in Step
      BY DEF Step
    <3>2. prog' = [prog EXCEPT ![p] = P]
      BY <2>1
    <3> HIDE DEF left
    <3>3. P \in ProgramType
      BY <3>1
    <3> HIDE DEF P
    <3> QED  BY <3>2, <3>3
  <2>4. FilesType  BY <2>1, <2>2 DEF RepoType, Disturbs, BuildsCache
  <2> QED  BY <2>3, <2>4
<1>20. ASSUME NEW p \in Program, StartRepo2Solv(p) PROVE RepoTypeOK'
  <2>1. ProgsType  BY <1>20, StatusType DEF StartRepo2Solv, Step
  <2>2. FilesType  BY <1>20 DEF StartRepo2Solv, RepoType, Disturbs, BuildsCache
  <2> QED  BY <2>1, <2>2
<1>21. ASSUME NEW p \in Program, FinishRepo2Solv(p) PROVE RepoTypeOK'
  <2>1. ProgsType  BY <1>21 DEF FinishRepo2Solv, Step
  <2>2. FilesType  BY <1>21 DEF FinishRepo2Solv, RepoType, Disturbs, BuildsCache
  <2> QED  BY <2>1, <2>2
<1>22. CASE UNCHANGED repoVars
  BY <1>22 DEF repoVars
<1> QED
  BY RepoAssumption, <1>1, <1>2, <1>3, <1>4, <1>5, <1>6, <1>7, <1>8, <1>9, <1>10, <1>11, <1>12, <1>13,
     <1>14, <1>15, <1>16, <1>17, <1>18, <1>19, <1>20, <1>21, <1>22 DEF RepoNext, CacheUpToDate, Repo2SolvFails,
     SetCacheStatus, CacheOutdated, CleanCache

\* Every state the caches and their programs reach is well typed.
THEOREM TypeCorrect == RepoSpec => []RepoTypeOK
<1>1. RepoInit => RepoTypeOK
  BY InitType
<1>2. RepoTypeOK /\ [RepoNext]_repoVars => RepoTypeOK'
  BY StepType
<1> QED
  BY <1>1, <1>2, PTL DEF RepoSpec

-----------------------------------------------------------------------------
(* The inductive invariant.  Each part says what the steps a program has     *)
(* behind it have left on the disk, for the steps it still has to make.      *)

(* An index never comes without the data files it names: the index and the    *)
(* data of a directory are of one version, or it has no index.               *)
Paired(d) == d.index \in Version => Whole(d)

(* What a refresh holds on its way to the exchange.  A refresh nobody has      *)
(* robbed has whole metadata to put there, and in "swap3" the old directory.  *)
RefreshOK(p) ==
    LET P == prog[p] IN
    /\ P.pc = "data" /\ P.tmp.index \in Version => P.tmp.index = P.seen
    /\ P.pc = "swap1" => Paired(P.tmp)
    /\ P.pc \in {"swap2", "swap3"} => Paired(P.side)
    /\ P.pc = "swap3" => Paired(P.tmp)
    /\ ~P.robbed =>
         /\ P.pc = "data"  => P.tmp.index \in Version
         /\ P.pc = "swap1" => Whole(P.tmp)
         /\ P.pc \in {"swap2", "swap3"} => Whole(P.side)
         /\ P.pc = "swap3" => P.tmp # Absent

(* Metadata that was there is there, or a program between the second and the   *)
(* third rename has it.                                                      *)
RawOK ==
    /\ Paired(repo.raw)
    /\ repo.had =>
         \/ Whole(repo.raw)
         \/ /\ repo.raw \in {Absent, Empty}
            /\ \E p \in Program : prog[p].pc = "swap3"

(* What a builder that raced with nobody knows: the version it goes by is that *)
(* of the raw cache, the files it has removed are not there, and the solv      *)
(* file is the one it has made.                                              *)
BuildOK(p) ==
    LET P == prog[p]
        Gone == repo.solv = NoVersion /\ repo.cookie = NoVersion IN
    /\ P.pc = "clean" =>
         /\ "solv" \notin P.left => repo.solv = NoVersion
         /\ "cookie" \notin P.left => repo.cookie = NoVersion
    /\ P.load /\ P.pc \in {"status", "check", "ask", "index", "data", "swap1", "swap2", "swap3",
                           "compare", "convert"} => Gone
    /\ P.pc = "compare" \/ (P.pc = "clean" /\ P.then = "convert") => P.seen = MetadataStatus
    /\ P.pc = "convert" => Gone /\ P.seen = MetadataStatus
    /\ P.pc = "write" =>
         /\ repo.solv = Partial /\ repo.cookie = NoVersion
         /\ P.got = MetadataStatus /\ P.seen = MetadataStatus
    /\ P.pc = "cookie" => repo.cookie = NoVersion /\ repo.solv = P.seen /\ P.seen \in Version
    /\ P.pc = "add" /\ P.seen # NoVersion => repo.solv \in Version

CookieTruth == repo.cookie # NoVersion /\ repo.solv # NoVersion => repo.solv = repo.cookie

RawInv   == RepoTypeOK /\ RawOK /\ \A p \in Program : RefreshOK(p)
CacheInv == ~repo.raced => CookieTruth /\ \A p \in Program : BuildOK(p)
-----------------------------------------------------------------------------
(* What the steps do to the programs, used by both invariants.               *)

Others(p) == \A q \in Program \ {p} : prog'[q] = prog[q]

LEMMA AfterRefreshEffect ==
    ASSUME RepoTypeOK, NEW p \in Program, NEW ok \in BOOLEAN, prog' = AfterRefresh(p, ok)
    PROVE  /\ Others(p)
           /\ \/ prog'[p] = Idle
              \/ /\ prog'[p].pc = "status"
                 /\ prog'[p].load = prog[p].load
  BY DEF AfterRefresh, RepoTypeOK, Others, Idle, Off

LEMMA AfterBuildEffect ==
    ASSUME RepoTypeOK, NEW p \in Program, NEW ok \in BOOLEAN, prog' = AfterBuild(p, ok)
    PROVE  /\ Others(p)
           /\ \/ prog'[p] = Idle
              \/ /\ ok /\ prog'[p].pc = "add"
                 /\ prog'[p].seen = prog[p].seen /\ ~prog'[p].load
  BY DEF AfterBuild, RepoTypeOK, Others, Idle, Off

LEMMA IdleFields == Idle.pc = "idle" /\ ~Idle.load /\ Off.pc = "off" /\ ~Off.load
  BY DEF Idle, Off

RefreshPlaces == {"data", "swap1", "swap2", "swap3"}

BuildStep(p) ==
    \/ BuildCache(p) \/ ReadRawStatus(p) \/ CacheUpToDate(p) \/ CacheOutdated(p)
    \/ CleanCache(p) \/ RemoveFile(p)
    \/ StartRepo2Solv(p) \/ FinishRepo2Solv(p) \/ Repo2SolvFails(p) \/ SetCacheStatus(p)
    \/ LoadFromCache(p) \/ AddRepoSolv(p)

\* Building the solv cache leaves the raw cache and the exchanges alone.
LEMMA BuildStepEffect ==
    ASSUME RepoTypeOK, NEW p \in Program, BuildStep(p)
    PROVE  /\ Others(p) /\ prog[p].pc \notin RefreshPlaces /\ prog'[p].pc \notin RefreshPlaces
           /\ repo'.raw = repo.raw /\ repo'.had = repo.had
<1> USE IdleFields DEF RepoTypeOK, Others, RefreshPlaces
<1>1. CASE BuildCache(p) \/ AddRepoSolv(p)
  BY <1>1 DEF BuildCache, AddRepoSolv, Idle, Off
<1>2. CASE ReadRawStatus(p)
  BY <1>2 DEF ReadRawStatus, ProgramType
<1>3. CASE CacheUpToDate(p)
  BY <1>3, AfterBuildEffect DEF CacheUpToDate
<1>4. CASE CacheOutdated(p) \/ CleanCache(p)
  BY <1>4 DEF CacheOutdated, CleanCache, StartCleaning, ProgramType
<1>5. CASE RemoveFile(p)
  <2>1. PICK f \in prog[p].left :
             /\ prog[p].pc = "clean"
             /\ LET left == prog[p].left \ {f} IN
                prog' = [prog EXCEPT ![p].left = left,
                                     ![p].pc = IF left = {} THEN prog[p].then ELSE @,
                                     ![p].then = IF left = {} THEN "idle" ELSE @]
             /\ repo' = [repo EXCEPT ![f] = NoVersion, !.raced = @ \/ Disturbs(p)]
    BY <1>5 DEF RemoveFile
  <2>2. prog[p].then \in {"idle", "convert", "status"}  BY Fields
  <2>3. prog'[p].pc \in {"clean", "idle", "convert", "status"} /\ Others(p)
    BY <2>1, <2>2 DEF ProgramType
  <2>4. f = "solv" \/ f = "cookie"  BY Fields
  <2>5. repo'.raw = repo.raw /\ repo'.had = repo.had  BY <2>1, <2>4 DEF RepoType
  <2> QED  BY <2>1, <2>3, <2>5
<1>6. CASE StartRepo2Solv(p) \/ FinishRepo2Solv(p)
  <2>1. CASE StartRepo2Solv(p)  BY <2>1 DEF StartRepo2Solv, ProgramType, RepoType
  <2>2. CASE FinishRepo2Solv(p)  BY <2>2 DEF FinishRepo2Solv, ProgramType, RepoType
  <2> QED  BY <1>6, <2>1, <2>2
<1>7. CASE Repo2SolvFails(p)
  BY <1>7, AfterBuildEffect DEF Repo2SolvFails, RepoType
<1>8. CASE SetCacheStatus(p)
  BY <1>8, AfterBuildEffect DEF SetCacheStatus, RepoType
<1>9. CASE LoadFromCache(p)
  BY <1>9 DEF LoadFromCache, Idle, Off
<1> QED
  BY <1>1, <1>2, <1>3, <1>4, <1>5, <1>6, <1>7, <1>8, <1>9 DEF BuildStep
-----------------------------------------------------------------------------
(* RawInv is inductive.                                                      *)

LEMMA InitRawInv == RepoInit => RawInv
<1>1. RepoInit => RepoTypeOK
  BY InitType
<1>2. RepoInit => \A p \in Program : RefreshOK(p)
  BY IdleFields DEF RepoInit, RefreshOK
<1>3. RepoInit => RawOK
  <2> SUFFICES ASSUME RepoInit PROVE RawOK
    OBVIOUS
  <2>1. repo.raw = Absent \/ repo.raw = [index |-> 1, data |-> 1]
    BY DEF RepoInit, NoVersion
  <2>2. repo.raw = Absent => ~repo.had
    <3>1. PICK v \in {NoVersion, 1} :
             repo = [server |-> 1,
                     raw |-> IF v = NoVersion THEN Absent ELSE [index |-> v, data |-> v],
                     solv |-> v, cookie |-> v, had |-> v # NoVersion, raced |-> FALSE]
      BY DEF RepoInit
    <3>2. CASE v = NoVersion  BY <3>1, <3>2
    <3>3. CASE v # NoVersion
      <4>1. repo.raw.index = 1  BY <3>1, <3>3
      <4> QED  BY <4>1 DEF Absent
    <3> QED  BY <3>2, <3>3
  <2> QED
    BY <2>1, <2>2, RepoAssumption DEF RawOK, Paired, Whole, Absent, Version
<1> QED
  BY <1>1, <1>2, <1>3 DEF RawInv

\* A step outside the exchange keeps what a refresh holds.
LEMMA OutsideRefresh ==
    ASSUME NEW p \in Program, prog'[p].pc \notin RefreshPlaces
    PROVE  RefreshOK(p)'
  BY DEF RefreshOK, RefreshPlaces

LEMMA StepRefreshOK ==
    ASSUME RawInv, [RepoNext]_repoVars, NEW q \in Program
    PROVE  RefreshOK(q)'
<1> USE DEF RawInv, RepoTypeOK
<1>0. RefreshOK(q)  OBVIOUS
<1> SUFFICES ASSUME RepoNext PROVE RefreshOK(q)'
  BY <1>0 DEF repoVars, RefreshOK
<1> SUFFICES ASSUME prog'[q] # prog[q], prog'[q].pc \in RefreshPlaces PROVE RefreshOK(q)'
  BY <1>0, OutsideRefresh DEF RefreshOK
<1>1. ASSUME NEW p \in Program, StartProgram(p) PROVE RefreshOK(q)'
  <2>1. p # q  BY <1>1, IdleFields DEF StartProgram, Goto, RefreshPlaces, ProgramType
  <2>2. prog'[q] = [prog[q] EXCEPT !.tmp = Absent, !.side = Absent, !.robbed = TRUE]
    BY <1>1, <2>1 DEF StartProgram, Goto
  <2>3. /\ prog'[q].tmp = Absent /\ prog'[q].side = Absent /\ prog'[q].robbed
    BY <2>2 DEF ProgramType
  <2> QED  BY <2>3 DEF RefreshOK, Paired, Absent, Version
<1>2. ASSUME NEW p \in Program, KillProgram(p) \/ RefreshMetadata(p) PROVE RefreshOK(q)'
  BY <1>2, IdleFields DEF KillProgram, RefreshMetadata, Idle, Off, RefreshPlaces
<1>3. ASSUME NEW p \in Program,
             \/ CheckIfToRefreshMetadata(p) \/ CompareWithServer(p) \/ OriginFails(p)
             \/ ExchangeFails(p) \/ ExchangeThree(p)
      PROVE  RefreshOK(q)'
  <2>1. CASE \E ok \in BOOLEAN : prog' = AfterRefresh(p, ok)
    BY <2>1, AfterRefreshEffect, IdleFields DEF Others, RefreshPlaces
  <2>2. CASE ~\E ok \in BOOLEAN : prog' = AfterRefresh(p, ok)
    <3>1. /\ ~(prog' = AfterRefresh(p, TRUE))
          /\ ~(prog' = AfterRefresh(p, FALSE))
      BY <2>2
    <3>2. \/ prog' = [prog EXCEPT ![p].pc = "index"]
          \/ prog' = [prog EXCEPT ![p].pc = "ask", ![p].seen = MetadataStatus]
          \/ prog' = [prog EXCEPT ![p].pc = "index", ![p].seen = NoVersion]
          \/ \E t : prog' = [prog EXCEPT ![p].pc = "check", ![p].seen = NoVersion, ![p].tmp = t]
      BY <1>3, <3>1 DEF CheckIfToRefreshMetadata, Goto, CompareWithServer, OriginFails,
                        ExchangeFails, ExchangeThree
    <3> QED
      BY <3>2 DEF RefreshPlaces, ProgramType
  <2> QED  BY <2>1, <2>2
<1>4. ASSUME NEW p \in Program, DownloadMasterIndex(p) PROVE RefreshOK(q)'
  <2>1. p = q  BY <1>4 DEF DownloadMasterIndex
  <2>2. prog'[q].pc = "data" /\ prog'[q].seen = repo.server /\ prog'[q].tmp.index = repo.server
    BY <1>4, <2>1 DEF DownloadMasterIndex, ProgramType
  <2> QED  BY <2>2 DEF RefreshOK, RepoType
<1>5. ASSUME NEW p \in Program, DownloadData(p) PROVE RefreshOK(q)'
  <2>1. p = q  BY <1>5 DEF DownloadData
  <2>2. /\ prog[q].pc = "data" /\ prog'[q].pc = "swap1" /\ prog'[q].robbed = prog[q].robbed
        /\ prog'[q].tmp.index = (IF prog[q].tmp = Absent THEN NoVersion ELSE prog[q].tmp.index)
        /\ prog'[q].tmp.data = prog[q].seen
    BY <1>5, <2>1 DEF DownloadData, ProgramType
  <2> QED  BY <1>0, <2>2 DEF RefreshOK, Paired, Whole, Absent, NoVersion, Version
<1>6. ASSUME NEW p \in Program, ExchangeOne(p) PROVE RefreshOK(q)'
  <2>1. prog' # AfterRefresh(p, TRUE)
    BY AfterRefreshEffect, IdleFields DEF Others, RefreshPlaces
  <2>2. p = q  BY <1>6, <2>1 DEF ExchangeOne
  <2>3. /\ prog[q].pc = "swap1" /\ prog'[q].pc = "swap2" /\ prog'[q].robbed = prog[q].robbed
        /\ prog'[q].side = prog[q].tmp
    <3>1. prog' = [prog EXCEPT ![q].pc = "swap2", ![q].side = prog[q].tmp, ![q].tmp = Absent]
      BY <1>6, <2>1, <2>2 DEF ExchangeOne
    <3>2. prog[q].pc = "swap1"
      BY <1>6, <2>2 DEF ExchangeOne
    <3> QED  BY <3>1, <3>2 DEF ProgramType
  <2> QED  BY <1>0, <2>3 DEF RefreshOK
<1>7. ASSUME NEW p \in Program, ExchangeTwo(p) PROVE RefreshOK(q)'
  <2>1. prog' # AfterRefresh(p, TRUE)
    BY AfterRefreshEffect, IdleFields DEF Others, RefreshPlaces
  <2>2. p = q  BY <1>7, <2>1 DEF ExchangeTwo
  <2>3. /\ prog[q].pc = "swap2" /\ prog'[q].pc = "swap3" /\ prog'[q].robbed = prog[q].robbed
        /\ prog'[q].side = prog[q].side /\ prog'[q].tmp = repo.raw /\ repo.raw # Absent
    <3>1. prog' = [prog EXCEPT ![q].pc = "swap3", ![q].tmp = repo.raw]
      BY <1>7, <2>1, <2>2 DEF ExchangeTwo
    <3>2. prog[q].pc = "swap2" /\ repo.raw # Absent
      BY <1>7, <2>1, <2>2 DEF ExchangeTwo
    <3> QED  BY <3>1, <3>2 DEF ProgramType
  <2> QED  BY <1>0, <2>3 DEF RefreshOK, RawOK
<1>8. ASSUME NEW p \in Program, BuildStep(p) PROVE RefreshOK(q)'
  BY <1>8, BuildStepEffect DEF Others
<1>9. CASE ServerChanges
  BY <1>9 DEF ServerChanges
<1> QED
  BY RepoAssumption, <1>1, <1>2, <1>3, <1>4, <1>5, <1>6, <1>7, <1>8, <1>9 DEF RepoNext, BuildStep
LEMMA StepRawOK ==
    ASSUME RawInv, [RepoNext]_repoVars
    PROVE  RawOK'
<1> USE DEF RawInv, RepoTypeOK
<1>0. repo.raw.index \in Version => Whole(repo.raw)
  BY DEF RawOK, Paired
<1>1. ASSUME repo'.raw = repo.raw, repo'.had => repo.had,
             repo.had => \A q \in Program : prog[q].pc = "swap3" => prog'[q].pc = "swap3"
      PROVE  RawOK'
  <2>1. Paired(repo.raw)'  BY <1>0, <1>1 DEF Paired, Whole
  <2>2. Whole(repo.raw) => Whole(repo.raw)'  BY <1>1 DEF Whole
  <2> QED  BY <1>1, <2>1, <2>2 DEF RawOK
<1>2. ASSUME NEW p \in Program, NEW d \in RawDir, RawBecomes(p, d), Paired(d),
             repo.had /\ ~prog[p].robbed /\ d # prog[p].tmp => Whole(d)
      PROVE  RawOK'
  <2>1. repo'.raw = d /\ (repo'.had => Whole(d))
    BY <1>2 DEF RawBecomes, RepoType
  <2> QED  BY <1>2, <2>1 DEF RawOK, Paired, Whole
<1>3. ASSUME NEW p \in Program, StartProgram(p) PROVE RawOK'
  <2>1. \A q \in Program : prog[q].pc = "swap3" => prog'[q].pc = "swap3"
    <3>1. CASE Goto(p, "idle")  BY <1>3, <3>1 DEF StartProgram, Goto, ProgramType
    <3>2. CASE ~Goto(p, "idle")
      <4> SUFFICES ASSUME NEW q \in Program, prog[q].pc = "swap3" PROVE prog'[q].pc = "swap3"
        OBVIOUS
      <4>1. p # q  BY <1>3 DEF StartProgram
      <4>2. \/ prog'[q] = prog[q]
            \/ prog'[q] = [prog[q] EXCEPT !.tmp = Absent, !.side = Absent, !.robbed = TRUE]
        BY <1>3, <3>2, <4>1 DEF StartProgram
      <4> QED  BY <4>2 DEF ProgramType
    <3> QED  BY <3>1, <3>2
  <2> QED  BY <1>1, <1>3, <2>1 DEF StartProgram
<1>4. ASSUME NEW p \in Program, KillProgram(p) PROVE RawOK'
  <2>1. /\ repo'.raw = repo.raw /\ repo'.had = (repo.had /\ prog[p].pc # "swap3")
        /\ \A q \in Program \ {p} : prog'[q] = prog[q]
    BY <1>4 DEF KillProgram, RepoType
  <2>2. CASE repo'.had  BY <1>1, <2>1, <2>2
  <2>3. CASE ~repo'.had  BY <1>0, <2>1, <2>3 DEF RawOK, Paired, Whole
  <2> QED  BY <2>2, <2>3
<1>5. ASSUME NEW p \in Program, UNCHANGED repo, Others(p), prog[p].pc # "swap3" PROVE RawOK'
  BY <1>1, <1>5 DEF Others
<1>6. ASSUME NEW p \in Program,
             \/ RefreshMetadata(p) \/ CheckIfToRefreshMetadata(p) \/ CompareWithServer(p)
             \/ OriginFails(p) \/ DownloadData(p) \/ ExchangeFails(p)
      PROVE  RawOK'
  <2>1. UNCHANGED repo /\ prog[p].pc # "swap3"
    BY <1>6 DEF RefreshMetadata, CheckIfToRefreshMetadata, CompareWithServer, OriginFails,
                DownloadData, ExchangeFails
  <2>2. Others(p)
    <3>1. CASE \E ok \in BOOLEAN : prog' = AfterRefresh(p, ok)  BY <3>1, AfterRefreshEffect
    <3>2. CASE ~\E ok \in BOOLEAN : prog' = AfterRefresh(p, ok)
      <4>1. ~(prog' = AfterRefresh(p, TRUE)) /\ ~(prog' = AfterRefresh(p, FALSE))
        BY <3>2
      <4>2. \E P : prog' = [prog EXCEPT ![p] = P]
        BY <1>6, <4>1 DEF RefreshMetadata, CheckIfToRefreshMetadata, Goto, CompareWithServer,
                          OriginFails, DownloadData, ExchangeFails
      <4> QED  BY <4>2 DEF Others
    <3> QED  BY <3>1, <3>2
  <2> QED  BY <1>5, <2>1, <2>2
<1>7. ASSUME NEW p \in Program, DownloadMasterIndex(p) PROVE RawOK'
  <2>1. \A q \in Program : prog[q].pc = "swap3" => prog'[q].pc = "swap3"
    BY <1>7 DEF DownloadMasterIndex, ProgramType
  <2>2. CASE repo.raw # Absent
    BY <1>1, <1>7, <2>1, <2>2 DEF DownloadMasterIndex, RepoType
  <2>3. CASE repo.raw = Absent
    <3>1. repo'.raw = Empty /\ repo'.had = repo.had
      BY <1>7, <2>3 DEF DownloadMasterIndex, RepoType
    <3>2. repo.had => \E q \in Program : prog[q].pc = "swap3"
      BY <2>3 DEF RawOK, Whole, Absent, Version
    <3> QED  BY <2>1, <3>1, <3>2 DEF RawOK, Paired, Whole, Empty, NoVersion, Version
  <2> QED  BY <2>2, <2>3
<1>8. ASSUME NEW p \in Program, ExchangeOne(p) PROVE RawOK'
  <2>1. CASE RawBecomes(p, prog[p].tmp)
    BY <1>2, <1>8, <2>1, Fields DEF ExchangeOne, RefreshOK
  <2>2. CASE ~RawBecomes(p, prog[p].tmp)
    BY <1>5, <1>8, <2>2 DEF ExchangeOne, Others
  <2> QED  BY <2>1, <2>2
<1>9. ASSUME NEW p \in Program, ExchangeTwo(p) PROVE RawOK'
  <2>1. CASE UNCHANGED repo /\ prog' = AfterRefresh(p, TRUE)
    BY <1>5, <1>9, <2>1, AfterRefreshEffect DEF ExchangeTwo
  <2>2. CASE ~(UNCHANGED repo /\ prog' = AfterRefresh(p, TRUE))
    <3>1. prog' = [prog EXCEPT ![p].pc = "swap3", ![p].tmp = repo.raw]
      BY <1>9, <2>2 DEF ExchangeTwo
    <3>2. prog'[p].pc = "swap3"  BY <3>1 DEF ProgramType
    <3>3. repo'.raw = Absent  BY <1>9, <2>2 DEF ExchangeTwo, RepoType
    <3> QED  BY <3>2, <3>3 DEF RawOK, Paired, Absent, Version
  <2> QED  BY <2>1, <2>2
<1>10. ASSUME NEW p \in Program, ExchangeThree(p) PROVE RawOK'
  <2>1. CASE RawBecomes(p, prog[p].side)
    BY <1>2, <1>10, <2>1, Fields DEF ExchangeThree, RefreshOK
  <2>2. CASE RawBecomes(p, prog[p].tmp)
    BY <1>2, <1>10, <2>2, Fields DEF ExchangeThree, RefreshOK
  <2>3. CASE RawBecomes(p, repo.raw) /\ ~CanRename(prog[p].tmp, repo.raw)
    <3>1. ~prog[p].robbed => prog[p].tmp # Absent
      <4>1. prog[p].pc = "swap3" /\ RefreshOK(p)  BY <1>10 DEF ExchangeThree
      <4> QED  BY <4>1 DEF RefreshOK
    <3>2. ~prog[p].robbed => repo.raw \notin {Absent, Empty}
      BY <2>3, <3>1 DEF CanRename
    <3>3. repo.raw \in RawDir /\ Paired(repo.raw)
      BY DEF RepoType, RawOK
    <3> QED  BY <1>2, <2>3, <3>2, <3>3 DEF RawOK
  <2> QED  BY <1>10, <2>1, <2>2, <2>3 DEF ExchangeThree
<1>11. ASSUME NEW p \in Program, BuildStep(p) PROVE RawOK'
  BY <1>1, <1>11, BuildStepEffect DEF Others, RefreshPlaces
<1>12. CASE ServerChanges
  BY <1>1, <1>12 DEF ServerChanges, RepoType
<1>13. CASE UNCHANGED repoVars
  BY <1>1, <1>13 DEF repoVars
<1> QED
  BY RepoAssumption, <1>3, <1>4, <1>6, <1>7, <1>8, <1>9, <1>10, <1>11, <1>12, <1>13
     DEF RepoNext, BuildStep

\* Whatever fails or is killed in a refresh, the raw cache keeps metadata whose
\* index and data files belong together, with the exceptions RawKept names.
THEOREM RawCacheKept == RepoSpec => []RawKept
<1>1. RepoInit => RawInv
  BY InitRawInv
<1>2. RawInv /\ [RepoNext]_repoVars => RawInv'
  BY StepType, StepRefreshOK, StepRawOK DEF RawInv
<1>3. RawInv => RawKept
  BY DEF RawInv, RawOK, RawKept
<1> QED
  BY <1>1, <1>2, <1>3, PTL DEF RepoSpec
-----------------------------------------------------------------------------
(* CacheInv is inductive with RawInv.  A step of one program either leaves the *)
(* solv cache and the status of the raw cache alone, or it counts as a race    *)
(* unless nobody else builds.                                                *)

LEMMA NotBuilding ==
    ASSUME NEW q \in Program, ~BuildsCache(q)
    PROVE  BuildOK(q)
  BY DEF BuildsCache, BuildOK

\* A step of p that changes nothing a builder goes by.
LEMMA QuietStep ==
    ASSUME CacheInv, NEW p \in Program, Others(p),
           repo'.solv = repo.solv, repo'.cookie = repo.cookie, repo'.raced = repo.raced,
           MetadataStatus' = MetadataStatus,
           ~repo.raced /\ CookieTruth /\ BuildOK(p) => BuildOK(p)'
    PROVE  CacheInv'
<1> SUFFICES ASSUME ~repo.raced PROVE CookieTruth' /\ \A q \in Program : BuildOK(q)'
  BY DEF CacheInv
<1>1. CookieTruth /\ \A q \in Program : BuildOK(q)
  BY DEF CacheInv
<1>2. CookieTruth'
  BY <1>1 DEF CookieTruth
<1>3. ASSUME NEW q \in Program \ {p} PROVE BuildOK(q)'
  <2>1. prog'[q] = prog[q]  BY DEF Others
  <2> QED  BY <1>1, <2>1 DEF BuildOK
<1> QED
  BY <1>1, <1>2, <1>3

\* A step of p that is a race if another program builds.
LEMMA DisturbingStep ==
    ASSUME NEW p \in Program, Others(p), ~repo'.raced => ~Disturbs(p),
           ~repo'.raced => CookieTruth' /\ BuildOK(p)'
    PROVE  CacheInv'
<1> SUFFICES ASSUME ~repo'.raced, NEW q \in Program \ {p} PROVE BuildOK(q)'
  BY DEF CacheInv
<1>1. ~BuildsCache(q) /\ prog'[q] = prog[q]
  BY DEF Disturbs, Others
<1>2. ~BuildsCache(q)'
  BY <1>1 DEF BuildsCache
<1> QED
  BY <1>2 DEF BuildsCache, BuildOK

\* Where a program that rebuilds for a load refreshes the raw cache on its way.
Refreshing == {"check", "ask", "index", "data", "swap1", "swap2", "swap3"}

LEMMA IdleBuilds == ASSUME NEW p \in Program, prog'[p] \in {Idle, Off} PROVE BuildOK(p)'
  BY IdleFields DEF BuildOK

LEMMA RefreshingBuilds ==
    ASSUME NEW p \in Program, prog[p].pc \in Refreshing, BuildOK(p),
           prog'[p].pc \in Refreshing \cup {"status"}, prog'[p].load = prog[p].load,
           repo'.solv = repo.solv, repo'.cookie = repo.cookie
    PROVE  BuildOK(p)'
  BY DEF BuildOK, Refreshing
\* What a step of a refresh does to its program.
LEMMA RefreshStepEffect ==
    ASSUME RepoTypeOK, NEW p \in Program,
           \/ CheckIfToRefreshMetadata(p) \/ CompareWithServer(p) \/ OriginFails(p)
           \/ DownloadMasterIndex(p) \/ DownloadData(p)
           \/ ExchangeFails(p) \/ ExchangeOne(p) \/ ExchangeTwo(p) \/ ExchangeThree(p)
    PROVE  /\ Others(p) /\ prog[p].pc \in Refreshing
           /\ \/ prog'[p] = Idle
              \/ /\ prog'[p].pc \in Refreshing \cup {"status"}
                 /\ prog'[p].load = prog[p].load
<1> USE DEF RepoTypeOK
<1>1. prog[p].pc \in Refreshing
  BY DEF CheckIfToRefreshMetadata, CompareWithServer, OriginFails, DownloadMasterIndex,
         DownloadData, ExchangeFails, ExchangeOne, ExchangeTwo, ExchangeThree, Refreshing
<1>2. CASE \E ok \in BOOLEAN : prog' = AfterRefresh(p, ok)
  BY <1>1, <1>2, AfterRefreshEffect
<1>3. CASE ~\E ok \in BOOLEAN : prog' = AfterRefresh(p, ok)
  <2>1. ~(prog' = AfterRefresh(p, TRUE)) /\ ~(prog' = AfterRefresh(p, FALSE))
    BY <1>3
  <2>2. \/ prog' = [prog EXCEPT ![p].pc = "index"]
        \/ prog' = [prog EXCEPT ![p].pc = "ask", ![p].seen = MetadataStatus]
        \/ prog' = [prog EXCEPT ![p].pc = "index", ![p].seen = NoVersion]
        \/ \E t : \/ prog' = [prog EXCEPT ![p].pc = "check", ![p].seen = NoVersion, ![p].tmp = t]
                 \/ prog' = [prog EXCEPT ![p].pc = "data", ![p].seen = repo.server, ![p].tmp = t]
                 \/ prog' = [prog EXCEPT ![p].pc = "swap1", ![p].seen = NoVersion, ![p].tmp = t]
                 \/ prog' = [prog EXCEPT ![p].pc = "swap2", ![p].side = t, ![p].tmp = Absent]
                 \/ prog' = [prog EXCEPT ![p].pc = "swap3", ![p].tmp = t]
    BY <2>1 DEF CheckIfToRefreshMetadata, Goto, CompareWithServer, OriginFails,
                DownloadMasterIndex, DownloadData, ExchangeFails, ExchangeOne, ExchangeTwo,
                ExchangeThree
  <2>3. Others(p)
    BY <2>2 DEF Others
  <2>4. prog'[p].pc \in Refreshing /\ prog'[p].load = prog[p].load
    <3>1. CASE prog' = [prog EXCEPT ![p].pc = "index"]
      BY <3>1 DEF Refreshing, ProgramType
    <3>2. CASE prog' = [prog EXCEPT ![p].pc = "ask", ![p].seen = MetadataStatus]
      BY <3>2 DEF Refreshing, ProgramType
    <3>3. CASE prog' = [prog EXCEPT ![p].pc = "index", ![p].seen = NoVersion]
      BY <3>3 DEF Refreshing, ProgramType
    <3>4. ASSUME NEW t, prog' = [prog EXCEPT ![p].pc = "check", ![p].seen = NoVersion, ![p].tmp = t]
          PROVE  prog'[p].pc \in Refreshing /\ prog'[p].load = prog[p].load
      BY <3>4 DEF Refreshing, ProgramType
    <3>5. ASSUME NEW t, prog' = [prog EXCEPT ![p].pc = "data", ![p].seen = repo.server, ![p].tmp = t]
          PROVE  prog'[p].pc \in Refreshing /\ prog'[p].load = prog[p].load
      BY <3>5 DEF Refreshing, ProgramType
    <3>6. ASSUME NEW t, prog' = [prog EXCEPT ![p].pc = "swap1", ![p].seen = NoVersion, ![p].tmp = t]
          PROVE  prog'[p].pc \in Refreshing /\ prog'[p].load = prog[p].load
      BY <3>6 DEF Refreshing, ProgramType
    <3>7. ASSUME NEW t, prog' = [prog EXCEPT ![p].pc = "swap2", ![p].side = t, ![p].tmp = Absent]
          PROVE  prog'[p].pc \in Refreshing /\ prog'[p].load = prog[p].load
      BY <3>7 DEF Refreshing, ProgramType
    <3>8. ASSUME NEW t, prog' = [prog EXCEPT ![p].pc = "swap3", ![p].tmp = t]
          PROVE  prog'[p].pc \in Refreshing /\ prog'[p].load = prog[p].load
      BY <3>8 DEF Refreshing, ProgramType
    <3> QED  BY <2>2, <3>1, <3>2, <3>3, <3>4, <3>5, <3>6, <3>7, <3>8
  <2> QED  BY <1>1, <2>3, <2>4
<1> QED
  BY <1>2, <1>3

LEMMA StepRefreshCacheInv ==
    ASSUME RawInv, CacheInv, NEW p \in Program,
           \/ CheckIfToRefreshMetadata(p) \/ CompareWithServer(p) \/ OriginFails(p)
           \/ DownloadMasterIndex(p) \/ DownloadData(p)
           \/ ExchangeFails(p) \/ ExchangeOne(p) \/ ExchangeTwo(p) \/ ExchangeThree(p)
    PROVE  CacheInv'
<1> USE DEF RawInv, RepoTypeOK
<1>1. repo'.solv = repo.solv /\ repo'.cookie = repo.cookie
  BY DEF CheckIfToRefreshMetadata, CompareWithServer, OriginFails, DownloadMasterIndex,
         DownloadData, ExchangeFails, ExchangeOne, ExchangeTwo, ExchangeThree, RawBecomes, RepoType
<1>2. BuildOK(p) => BuildOK(p)'
  BY <1>1, RefreshStepEffect, IdleBuilds, RefreshingBuilds
<1>3. CASE DownloadMasterIndex(p)
  <2>1. repo'.raced = repo.raced /\ repo'.raw = (IF repo.raw = Absent THEN Empty ELSE repo.raw)
    BY <1>3 DEF DownloadMasterIndex, RepoType
  <2>2. MetadataStatus' = MetadataStatus
    BY <2>1 DEF MetadataStatus, Absent, Empty, NoVersion, Version
  <2> QED  BY <1>1, <1>2, <2>1, <2>2, RefreshStepEffect, QuietStep
<1>4. CASE UNCHANGED repo
  BY <1>2, <1>4, RefreshStepEffect, QuietStep DEF MetadataStatus
<1>5. CASE ~UNCHANGED repo /\ ~DownloadMasterIndex(p)
  <2>1. repo'.raced = (repo.raced \/ Disturbs(p))
    BY <1>5 DEF CheckIfToRefreshMetadata, CompareWithServer, OriginFails, DownloadData,
                ExchangeFails, ExchangeOne, ExchangeTwo, ExchangeThree, RawBecomes, RepoType
  <2>2. ~repo'.raced => CookieTruth' /\ BuildOK(p)'
    BY <1>1, <1>2, <2>1 DEF CacheInv, CookieTruth
  <2> QED  BY <2>1, <2>2, RefreshStepEffect, DisturbingStep
<1> QED
  BY <1>3, <1>4, <1>5

LEMMA StepBuildCacheInv ==
    ASSUME RawInv, CacheInv, NEW p \in Program, BuildStep(p)
    PROVE  CacheInv'
<1> USE DEF RawInv, RepoTypeOK
<1>0. Others(p) /\ MetadataStatus' = MetadataStatus
  BY BuildStepEffect DEF MetadataStatus
<1>1. CASE BuildCache(p) \/ AddRepoSolv(p) \/ LoadFromCache(p)
  <2>1. CASE prog'[p] = prog[p]
    BY <1>0, <1>1, <2>1, QuietStep DEF BuildCache, AddRepoSolv, LoadFromCache, BuildOK
  <2>2. CASE prog'[p] # prog[p]
    <3>1. /\ UNCHANGED repo
          /\ \/ prog'[p] = [Idle EXCEPT !.pc = "status"]
             \/ prog'[p] = Idle
             \/ prog'[p] = [Idle EXCEPT !.pc = "clean", !.left = {"solv", "cookie"},
                                         !.then = "status", !.load = TRUE]
      BY <1>1, <2>2 DEF BuildCache, AddRepoSolv, LoadFromCache
    <3>2. \/ prog'[p].pc = "status" /\ ~prog'[p].load
          \/ prog'[p] = Idle
          \/ prog'[p].pc = "clean" /\ prog'[p].left = {"solv", "cookie"} /\ prog'[p].then = "status"
      <4>1. CASE prog'[p] = [Idle EXCEPT !.pc = "status"]  BY <4>1 DEF Idle, Off
      <4>2. CASE prog'[p] = [Idle EXCEPT !.pc = "clean", !.left = {"solv", "cookie"},
                                         !.then = "status", !.load = TRUE]
        BY <4>2 DEF Idle, Off
      <4> QED  BY <3>1, <4>1, <4>2
    <3>3. BuildOK(p)'
      BY <3>2, IdleBuilds DEF BuildOK
    <3> QED  BY <1>0, <3>1, <3>3, QuietStep
  <2> QED  BY <2>1, <2>2
<1>2. CASE ReadRawStatus(p)
  <2>1. /\ prog[p].pc = "status" /\ prog'[p].load = prog[p].load /\ UNCHANGED repo
        /\ \/ prog'[p].pc = "check"
           \/ prog'[p].pc = "compare" /\ prog'[p].seen = MetadataStatus
    BY <1>2 DEF ReadRawStatus, ProgramType
  <2>2. BuildOK(p) => BuildOK(p)'
    BY <2>1 DEF BuildOK, MetadataStatus
  <2> QED  BY <1>0, <2>1, <2>2, QuietStep
<1>3. CASE CacheUpToDate(p)
  <2>1. UNCHANGED repo /\ prog[p].pc = "compare" /\ repo.cookie = prog[p].seen
    BY <1>3 DEF CacheUpToDate
  <2>2. \/ prog'[p] = Idle
        \/ prog[p].load /\ prog'[p].pc = "add" /\ prog'[p].seen = prog[p].seen /\ ~prog'[p].load
    BY <1>3 DEF CacheUpToDate, AfterBuild, Idle, Off
  <2>3. BuildOK(p) => BuildOK(p)'
    BY <2>1, <2>2, IdleBuilds DEF BuildOK
  <2> QED  BY <1>0, <2>1, <2>3, QuietStep
<1>4. CASE CacheOutdated(p) \/ CleanCache(p)
  <2>1. /\ prog'[p].pc = "clean" /\ prog'[p].left = {"solv", "cookie"}
        /\ prog'[p].seen = prog[p].seen /\ UNCHANGED repo
        /\ \/ prog'[p].then = "idle"
           \/ prog[p].pc = "compare"
    BY <1>4 DEF CacheOutdated, CleanCache, StartCleaning, ProgramType
  <2>2. BuildOK(p) => BuildOK(p)'
    BY <2>1 DEF BuildOK, MetadataStatus
  <2> QED  BY <1>0, <2>1, <2>2, QuietStep
<1>5. CASE RemoveFile(p)
  <2>1. PICK f \in prog[p].left :
             /\ prog[p].pc = "clean"
             /\ LET left == prog[p].left \ {f} IN
                prog' = [prog EXCEPT ![p].left = left,
                                     ![p].pc = IF left = {} THEN prog[p].then ELSE @,
                                     ![p].then = IF left = {} THEN "idle" ELSE @]
             /\ repo' = [repo EXCEPT ![f] = NoVersion, !.raced = @ \/ Disturbs(p)]
    BY <1>5 DEF RemoveFile
  <2>2. prog[p].left \subseteq {"solv", "cookie"}
    BY Fields
  <2>3. /\ repo'.raced = (repo.raced \/ Disturbs(p))
        /\ repo'.solv = IF f = "solv" THEN NoVersion ELSE repo.solv
        /\ repo'.cookie = IF f = "cookie" THEN NoVersion ELSE repo.cookie
    BY <2>1, <2>2 DEF RepoType
  <2>4. /\ prog'[p].left = prog[p].left \ {f}
        /\ prog'[p].seen = prog[p].seen /\ prog'[p].load = prog[p].load
        /\ IF prog[p].left \ {f} = {}
           THEN prog'[p].pc = prog[p].then
           ELSE prog'[p].pc = "clean" /\ prog'[p].then = prog[p].then
    <3> DEFINE left == prog[p].left \ {f}
    <3>1. prog' = [prog EXCEPT ![p].left = left, ![p].pc = IF left = {} THEN prog[p].then ELSE @,
                               ![p].then = IF left = {} THEN "idle" ELSE @]
      BY <2>1
    <3> HIDE DEF left
    <3>2. /\ prog'[p].left = left
          /\ prog'[p].seen = prog[p].seen /\ prog'[p].load = prog[p].load
          /\ prog'[p].pc = IF left = {} THEN prog[p].then ELSE prog[p].pc
          /\ prog'[p].then = IF left = {} THEN "idle" ELSE prog[p].then
      BY <3>1 DEF ProgramType
    <3> QED  BY <2>1, <3>2 DEF left
  <2>5. CookieTruth => CookieTruth'
    BY <2>3 DEF CookieTruth
  <2>6. prog[p].then \in {"idle", "convert", "status"}
    BY Fields
  <2>7. BuildOK(p) => BuildOK(p)'
    <3>1. CASE prog[p].left \ {f} # {}
      BY <1>0, <2>1, <2>2, <2>3, <2>4, <3>1 DEF BuildOK
    <3>2. CASE prog[p].left \ {f} = {}
      <4>1. BuildOK(p) => repo'.solv = NoVersion /\ repo'.cookie = NoVersion
        BY <2>1, <2>2, <2>3, <3>2 DEF BuildOK
      <4> QED  BY <1>0, <2>1, <2>4, <2>6, <3>2, <4>1 DEF BuildOK
    <3> QED  BY <3>1, <3>2
  <2> QED  BY <1>0, <2>3, <2>5, <2>7, DisturbingStep DEF CacheInv
<1>6. CASE StartRepo2Solv(p)
  <2>1. /\ prog[p].pc = "convert" /\ prog'[p].pc = "write"
        /\ prog'[p].got = MetadataStatus /\ prog'[p].seen = prog[p].seen
        /\ repo'.solv = Partial /\ repo'.cookie = repo.cookie
        /\ ~repo'.raced =>
             /\ ~Disturbs(p)
             /\ ~repo.raced \/ (repo.cookie = NoVersion /\ MetadataStatus = prog[p].seen)
    BY <1>6 DEF StartRepo2Solv, ProgramType, RepoType
  <2>2. ~repo'.raced => repo.cookie = NoVersion /\ MetadataStatus = prog[p].seen
    <3>1. CASE repo.raced  BY <2>1, <3>1
    <3>2. CASE ~repo.raced  BY <2>1, <3>2 DEF CacheInv, BuildOK
    <3> QED  BY <3>1, <3>2
  <2>3. ~repo'.raced => CookieTruth' /\ BuildOK(p)'
    BY <1>0, <2>1, <2>2 DEF CookieTruth, BuildOK
  <2>4. ~repo'.raced => ~Disturbs(p)
    BY <2>1
  <2> QED  BY <1>0, <2>3, <2>4, DisturbingStep
<1>7. CASE FinishRepo2Solv(p)
  <2>1. /\ prog[p].pc = "write" /\ prog'[p].pc = "cookie" /\ prog'[p].seen = prog[p].seen
        /\ prog[p].got # NoVersion
    BY <1>7 DEF FinishRepo2Solv, ProgramType
  <2>2. /\ repo'.cookie = repo.cookie /\ repo'.raced = (repo.raced \/ Disturbs(p))
        /\ repo'.solv = IF repo.raw.data = prog[p].got THEN prog[p].got ELSE Mixed
    BY <1>7 DEF FinishRepo2Solv, RepoType
  <2>3. MetadataStatus # NoVersion => repo.raw.data = MetadataStatus /\ MetadataStatus \in Version
    BY DEF MetadataStatus, RawOK, Paired, Whole
  <2>4. ~repo'.raced => CookieTruth' /\ BuildOK(p)'
    BY <2>1, <2>2, <2>3 DEF CacheInv, CookieTruth, BuildOK
  <2> QED  BY <1>0, <2>2, <2>4, DisturbingStep
<1>8. CASE Repo2SolvFails(p)
  <2>1. repo'.solv = NoVersion /\ repo'.raced = (repo.raced \/ Disturbs(p))
    BY <1>8 DEF Repo2SolvFails, RepoType
  <2>2. prog'[p] = Idle
    BY <1>8 DEF Repo2SolvFails, AfterBuild
  <2> QED  BY <1>0, <2>1, <2>2, IdleBuilds, DisturbingStep DEF CookieTruth
<1>9. CASE SetCacheStatus(p)
  <2>1. /\ prog[p].pc = "cookie" /\ repo'.cookie = prog[p].seen /\ repo'.solv = repo.solv
        /\ repo'.raced = (repo.raced \/ Disturbs(p))
    BY <1>9 DEF SetCacheStatus, RepoType
  <2>2. \/ prog'[p] = Idle
        \/ prog'[p].pc = "add" /\ prog'[p].seen = prog[p].seen /\ ~prog'[p].load
    BY <1>9, AfterBuildEffect DEF SetCacheStatus
  <2>3. ~repo.raced => CookieTruth' /\ BuildOK(p)'
    BY <2>1, <2>2, IdleBuilds DEF CacheInv, CookieTruth, BuildOK
  <2> QED  BY <1>0, <2>1, <2>3, DisturbingStep
<1> QED
  BY <1>1, <1>2, <1>3, <1>4, <1>5, <1>6, <1>7, <1>8, <1>9 DEF BuildStep

LEMMA StepCacheInv ==
    ASSUME RawInv, CacheInv, [RepoNext]_repoVars
    PROVE  CacheInv'
<1> USE DEF RawInv, RepoTypeOK
<1>1. ASSUME NEW p \in Program, StartProgram(p) PROVE CacheInv'
  <2>1. ASSUME NEW q \in Program PROVE BuildOK(q) => BuildOK(q)'
    <3>1. CASE Goto(p, "idle")
      <4>1. CASE p = q
        BY <1>1, <3>1, <4>1 DEF StartProgram, Goto, BuildOK, ProgramType
      <4>2. CASE p # q
        BY <1>1, <3>1, <4>2 DEF StartProgram, Goto, BuildOK, MetadataStatus
      <4> QED  BY <4>1, <4>2
    <3>2. CASE prog'[q] = Idle  BY <3>2, IdleBuilds
    <3>3. CASE ~Goto(p, "idle") /\ prog'[q] # Idle
      <4>1. \/ prog'[q] = prog[q]
            \/ prog'[q] = [prog[q] EXCEPT !.tmp = Absent, !.side = Absent, !.robbed = TRUE]
        BY <1>1, <3>3 DEF StartProgram
      <4>2. /\ prog'[q].pc = prog[q].pc /\ prog'[q].seen = prog[q].seen
            /\ prog'[q].got = prog[q].got /\ prog'[q].left = prog[q].left
            /\ prog'[q].then = prog[q].then /\ prog'[q].load = prog[q].load
        BY <4>1 DEF ProgramType
      <4> QED  BY <1>1, <4>2 DEF StartProgram, BuildOK, MetadataStatus
    <3> QED  BY <3>1, <3>2, <3>3
  <2> QED  BY <1>1, <2>1 DEF StartProgram, CacheInv, CookieTruth
<1>2. ASSUME NEW p \in Program, KillProgram(p) PROVE CacheInv'
  <2>1. /\ Others(p) /\ prog'[p] = Off
        /\ repo'.solv = repo.solv /\ repo'.cookie = repo.cookie /\ repo'.raced = repo.raced
        /\ repo'.raw = repo.raw
    BY <1>2 DEF KillProgram, RepoType, Others
  <2> QED  BY <2>1, IdleBuilds, QuietStep DEF MetadataStatus
<1>3. ASSUME NEW p \in Program, RefreshMetadata(p) PROVE CacheInv'
  <2>1. Others(p) /\ UNCHANGED repo /\ prog'[p] = [Idle EXCEPT !.pc = "check", !.tmp = Empty]
    BY <1>3 DEF RefreshMetadata, Others
  <2>2. BuildOK(p)'
    BY <2>1 DEF BuildOK, Idle, Off
  <2> QED  BY <2>1, <2>2, QuietStep DEF MetadataStatus
<1>4. CASE ServerChanges
  <2>1. /\ UNCHANGED prog /\ repo'.solv = repo.solv /\ repo'.cookie = repo.cookie
        /\ repo'.raced = repo.raced /\ repo'.raw = repo.raw
    BY <1>4 DEF ServerChanges, RepoType
  <2> QED  BY <2>1 DEF CacheInv, CookieTruth, BuildOK, MetadataStatus
<1>5. CASE UNCHANGED repoVars
  BY <1>5 DEF repoVars, CacheInv, CookieTruth, BuildOK, MetadataStatus
<1> QED
  BY RepoAssumption, <1>1, <1>2, <1>3, <1>4, <1>5, StepRefreshCacheInv, StepBuildCacheInv
     DEF RepoNext, BuildStep

\* While the programs do not race, no kill and no failure between the steps of a
\* build leaves a cookie beside a solv file it was not written for, and a load
\* that has rebuilt the cache finds a solv file.
THEOREM CookieTellsTruth == RepoSpec => []CacheTruth
<1>1. RepoInit => RawInv /\ CacheInv
  <2>1. RepoInit => CookieTruth /\ \A p \in Program : BuildOK(p)
    BY IdleFields DEF RepoInit, CookieTruth, BuildOK
  <2> QED  BY <2>1, InitRawInv DEF CacheInv
<1>2. RawInv /\ CacheInv /\ [RepoNext]_repoVars => (RawInv /\ CacheInv)'
  BY StepType, StepRefreshOK, StepRawOK, StepCacheInv DEF RawInv
<1>3. RawInv /\ CacheInv => CacheTruth
  BY DEF CacheInv, CookieTruth, BuildOK, CacheTruth
<1> QED
  BY <1>1, <1>2, <1>3, PTL DEF RepoSpec

-----------------------------------------------------------------------------
(* Discs: the inductive invariant.                                           *)

Holders(S, d) == {n \in Number : S.hd[n].src = d}

\* Who is attached to a source was right about it when it looked, and is still if it
\* was not pulled; handlers of one source agree on who owns it.
HandlerOK(S, n) ==
    LET h == S.hd[n]
    IN  /\ n \notin ToSet(S.opened) => h = Closed
        /\ h.src = 0 => h.place = "no" /\ h.seen = "never" /\ ~h.own /\ n \notin S.pulled
        /\ h.src # 0 => h.place # "no"
        /\ h.own => h.place = "ours"
        /\ h.src # 0 /\ n \notin S.pulled => IsMounted(S, n)
        /\ h.seen = "now" => IsMounted(S, n)
        /\ \A k \in Sharing(S, n) : S.hd[k].own = h.own

\* What was mounted and is not known to be left behind has an owner.
OwnedOK(S, Y) ==
    \A d \in Drive \ Y : S.drive[d].mounted = "ours" /\ d \notin S.left =>
        \E n \in Holders(S, d) : S.hd[n].own

\* A handler that is not in doubt asks its verifier, and the disc it has found to be
\* the desired one is the one it is attached to.
TrustOK(S, n) ==
    /\ n \in ToSet(S.opened) => S.hd[n].verifier \/ n \in S.doubt
    /\ S.hd[n].desired /\ n \notin S.doubt =>
          IsMounted(S, n) /\ S.drive[S.hd[n].src].disc = n

\* All that, but the handlers in X may trust what they have seen before, and the
\* mounts of the drives in Y may have no owner.
DrivesBut(S, X, Y) ==
    /\ S \in MediaType /\ IsInjective(S.opened)
    /\ \A n \in Number : HandlerOK(S, n) /\ (n \in X \/ TrustOK(S, n))
    /\ OwnedOK(S, Y)

DrivesOK(S) == DrivesBut(S, {}, {})

\* Nothing of ours is mounted but what is left behind.
Freed(S) == \A d \in Drive : S.drive[d].mounted = "ours" => d \in S.left

\* What the call under way relies on.
CallOK ==
    /\ op.pc \notin {"idle", "gone"} => op.nr \in Number
    /\ op.pc \in {"attach", "next", "check", "do", "failed", "ask"} => op.nr \in ToSet(ms.opened)
    /\ op.pc \in {"attach", "next"} => ms.hd[op.nr].src = 0
    /\ op.pc \in {"check", "do"} => IsMounted(ms, op.nr)

MediaInv ==
    /\ DrivesOK(ms) /\ op \in CallType /\ CallOK
    /\ FreedForUser /\ WrongDiscIsKnown

-----------------------------------------------------------------------------
(* What the operators change.                                                *)

\* Nothing but drives, handlers and the observers changes.
SameSet(S, T) ==
    /\ T.opened = S.opened /\ T.saved = S.saved /\ T.machine = S.machine
    /\ T.busy = S.busy /\ T.got = S.got

SameHandler(S, T, k) ==
    T.hd[k] = S.hd[k] /\ (k \in T.pulled <=> k \in S.pulled) /\ (k \in T.doubt <=> k \in S.doubt)

LEMMA MediaFields ==
    ASSUME NEW S, S \in MediaType
    PROVE  /\ S.drive \in [Drive -> DriveType] /\ S.hd \in [Number -> HandlerType]
           /\ S.opened \in Seq(Number) /\ S.saved \in SUBSET Number /\ S.machine \in Machines
           /\ S.busy \in SUBSET Drive /\ S.pulled \in SUBSET Number /\ S.left \in SUBSET Drive
           /\ S.doubt \in SUBSET Number
           /\ S.got \in [nr : Number \cup {0}, disc : Number \cup {0}, doubt : BOOLEAN]
           /\ \A d \in Drive : S.drive[d].disc \in Number \cup {0} /\ S.drive[d].mounted \in Place
           /\ \A n \in Number :
                /\ S.hd[n].src \in Drive \cup {0} /\ S.hd[n].own \in BOOLEAN
                /\ S.hd[n].place \in Place /\ S.hd[n].seen \in {"never", "now", "old"}
                /\ S.hd[n].desired \in BOOLEAN /\ S.hd[n].verifier \in BOOLEAN
  BY DEF MediaType, DriveType, HandlerType

LEMMA SameRecord ==
    ASSUME NEW g \in HandlerType, NEW h \in HandlerType,
           g.src = h.src, g.own = h.own, g.place = h.place, g.seen = h.seen,
           g.desired = h.desired, g.verifier = h.verifier
    PROVE  g = h
  BY DEF HandlerType

LEMMA ClosedFields ==
    /\ Closed \in HandlerType
    /\ Closed.src = 0 /\ Closed.own = FALSE /\ Closed.place = "no" /\ Closed.seen = "never"
    /\ Closed.desired = FALSE /\ Closed.verifier = FALSE
  BY DEF HandlerType, Closed, Place

\* A handler of another kind.
LEMMA HandlerChanged ==
    ASSUME NEW S, S \in MediaType, NEW n \in Number, NEW h \in HandlerType
    PROVE  /\ [S EXCEPT !.hd[n] = h] \in MediaType
           /\ [S EXCEPT !.hd[n] = h].hd[n] = h
           /\ \A k \in Number \ {n} : [S EXCEPT !.hd[n] = h].hd[k] = S.hd[k]
<1> DEFINE f == [S.hd EXCEPT ![n] = h]
           T == [S EXCEPT !.hd = f]
<1>1. f \in [Number -> HandlerType] /\ f[n] = h /\ \A k \in Number \ {n} : f[k] = S.hd[k]
  BY MediaFields
<1>2. [S EXCEPT !.hd[n] = h] = T
  OBVIOUS
<1> HIDE DEF f
<1>3. T \in MediaType /\ T.hd = f
  BY <1>1 DEF MediaType
<1> QED
  BY <1>1, <1>2, <1>3

LEMMA DroppedIs ==
    ASSUME NEW S, S \in MediaType, NEW n \in Number, NEW T, T = Dropped(S, n)
    PROVE  /\ T \in MediaType /\ SameSet(S, T) /\ T.drive = S.drive /\ T.left = S.left
           /\ T.pulled = S.pulled \ {n}
           /\ n \in T.doubt => n \in S.doubt
           /\ n \in S.doubt /\ n \notin T.doubt => S.hd[n].verifier /\ ~S.hd[n].desired
           /\ \A k \in Number \ {n} : SameHandler(S, T, k)
           /\ T.hd[n].src = 0 /\ ~T.hd[n].own /\ T.hd[n].place = "no" /\ T.hd[n].seen = "never"
           /\ (T.hd[n].desired <=> S.hd[n].desired) /\ (T.hd[n].verifier <=> S.hd[n].verifier)
           /\ S.hd[n] = Closed => T.hd[n] = Closed
<1> DEFINE h == [S.hd[n] EXCEPT !.src = 0, !.own = FALSE, !.place = "no", !.seen = "never"]
           f == [S.hd EXCEPT ![n] = h]
           p == S.pulled \ {n}
           q == IF S.hd[n].verifier /\ ~S.hd[n].desired THEN S.doubt \ {n} ELSE S.doubt
<1>1. T = [S EXCEPT !.hd = f, !.pulled = p, !.doubt = q]
  BY DEF Dropped
<1>2. /\ h \in HandlerType
      /\ h.src = 0 /\ ~h.own /\ h.place = "no" /\ h.seen = "never"
      /\ h.desired = S.hd[n].desired /\ h.verifier = S.hd[n].verifier
      /\ S.hd[n] = Closed => h = Closed
  <2>1. S.hd[n] \in HandlerType
    BY MediaFields
  <2>2. /\ h \in HandlerType
        /\ h.src = 0 /\ h.own = FALSE /\ h.place = "no" /\ h.seen = "never"
        /\ h.desired = S.hd[n].desired /\ h.verifier = S.hd[n].verifier
    BY <2>1 DEF HandlerType, Place
  <2> HIDE DEF h
  <2>3. S.hd[n] = Closed => h = Closed
    BY <2>2, ClosedFields, SameRecord
  <2> QED
    BY <2>2, <2>3
<1> HIDE DEF h
<1>3. f \in [Number -> HandlerType] /\ f[n] = h /\ \A k \in Number \ {n} : f[k] = S.hd[k]
  BY <1>2, MediaFields
<1>4. p \in SUBSET Number /\ q \in SUBSET Number
  BY MediaFields
<1>5. \A k \in Number \ {n} : (k \in p <=> k \in S.pulled) /\ (k \in q <=> k \in S.doubt)
  OBVIOUS
<1> HIDE DEF f
<1>6. T \in MediaType /\ T.hd = f /\ T.pulled = p /\ T.doubt = q /\ SameSet(S, T)
      /\ T.drive = S.drive /\ T.left = S.left
  <2> HIDE DEF p, q
  <2> QED
    BY <1>1, <1>3, <1>4 DEF MediaType, SameSet
<1> QED
  BY <1>2, <1>3, <1>5, <1>6 DEF SameHandler

\* The mount table of a drive, which changes the view of the handlers.
LEMMA MountedIs ==
    ASSUME NEW S, S \in MediaType, NEW d \in Drive, NEW place \in Place,
           NEW T, T = Mounted(S, d, place)
    PROVE  /\ T \in MediaType /\ SameSet(S, T) /\ T.left = S.left
           /\ T.pulled = S.pulled /\ T.doubt = S.doubt
           /\ T.drive[d].mounted = place /\ T.drive[d].disc = S.drive[d].disc
           /\ \A e \in Drive \ {d} : T.drive[e] = S.drive[e]
           /\ \A k \in Number :
                /\ T.hd[k].src = S.hd[k].src /\ T.hd[k].own = S.hd[k].own
                /\ T.hd[k].place = S.hd[k].place /\ T.hd[k].desired = S.hd[k].desired
                /\ T.hd[k].verifier = S.hd[k].verifier
                /\ T.hd[k].seen = IF S.hd[k].seen = "now" THEN "old" ELSE S.hd[k].seen
                /\ S.hd[k].seen # "now" => T.hd[k] = S.hd[k]
<1> DEFINE g == [S.drive EXCEPT ![d].mounted = place]
           h(k) == IF S.hd[k].seen = "now" THEN [S.hd[k] EXCEPT !.seen = "old"] ELSE S.hd[k]
           f == [k \in Number |-> h(k)]
           U == [S EXCEPT !.drive[d].mounted = place]
<1>1. U = [S EXCEPT !.drive = g]
  OBVIOUS
<1>2. g \in [Drive -> DriveType] /\ g[d].mounted = place /\ g[d].disc = S.drive[d].disc
      /\ \A e \in Drive \ {d} : g[e] = S.drive[e]
  BY MediaFields DEF DriveType
<1> HIDE DEF g
<1>3. U.hd = S.hd /\ U \in MediaType /\ U.drive = g
  BY <1>1, <1>2 DEF MediaType
<1>4. T = [U EXCEPT !.hd = f]
  BY <1>3 DEF Mounted, TableChanged
<1>5. \A k \in Number :
        /\ h(k) \in HandlerType
        /\ h(k).src = S.hd[k].src /\ h(k).own = S.hd[k].own
        /\ h(k).place = S.hd[k].place /\ h(k).desired = S.hd[k].desired
        /\ h(k).verifier = S.hd[k].verifier
        /\ h(k).seen = IF S.hd[k].seen = "now" THEN "old" ELSE S.hd[k].seen
        /\ S.hd[k].seen # "now" => h(k) = S.hd[k]
  BY MediaFields DEF HandlerType
<1>6. f \in [Number -> HandlerType] /\ \A k \in Number : f[k] = h(k)
  <2> HIDE DEF h
  <2> QED
    BY <1>5
<1> HIDE DEF f, U, h
<1>7. T \in MediaType /\ T.hd = f /\ T.drive = g /\ SameSet(U, T) /\ T.left = U.left
      /\ T.pulled = U.pulled /\ T.doubt = U.doubt
  BY <1>3, <1>4, <1>6 DEF MediaType, SameSet
<1>8. SameSet(S, U) /\ U.left = S.left /\ U.pulled = S.pulled /\ U.doubt = S.doubt
  BY <1>1 DEF MediaType, SameSet
<1> QED
  BY <1>2, <1>5, <1>6, <1>7, <1>8 DEF SameSet
-----------------------------------------------------------------------------
(* Changes that keep the invariant.                                          *)

\* A change of one handler.
LEMMA OneHandler ==
    ASSUME NEW S, NEW X, NEW Y, DrivesBut(S, X, Y), NEW T, T \in MediaType, T.opened = S.opened,
           T.drive = S.drive, S.left \subseteq T.left, NEW n \in Number,
           \A k \in Number \ {n} : SameHandler(S, T, k),
           HandlerOK(T, n), n \in X \/ TrustOK(T, n),
           S.hd[n].own => \/ S.drive[S.hd[n].src].mounted # "ours"
                          \/ S.hd[n].src \in T.left \cup Y
                          \/ \E k \in Holders(T, S.hd[n].src) : T.hd[k].own
    PROVE  DrivesBut(T, X, Y)
<1>1. ASSUME NEW k \in Number \ {n}
      PROVE  HandlerOK(T, k) /\ (k \in X \/ TrustOK(T, k))
  <2>1. HandlerOK(S, k) /\ (k \in X \/ TrustOK(S, k)) /\ SameHandler(S, T, k)
    BY DEF DrivesBut
  <2>2. IsMounted(T, k) <=> IsMounted(S, k)
    BY <2>1 DEF IsMounted, SameHandler
  <2>3. ASSUME NEW j \in Sharing(T, k)
        PROVE  T.hd[j].own = T.hd[k].own
    <3>1. CASE j = n
      <4>1. k \in Sharing(T, n)
        BY <2>3, <3>1 DEF Sharing
      <4> QED
        BY <3>1, <4>1 DEF HandlerOK
    <3>2. CASE j # n
      <4>1. j \in Number \ {n} /\ SameHandler(S, T, j)
        BY <2>3, <3>2 DEF Sharing
      <4>2. j \in Sharing(S, k)
        BY <2>1, <2>3, <4>1 DEF Sharing, SameHandler
      <4> QED
        BY <2>1, <4>1, <4>2 DEF HandlerOK, SameHandler
    <3> QED
      BY <3>1, <3>2
  <2>4. HandlerOK(T, k)
    BY <2>1, <2>2, <2>3 DEF HandlerOK, SameHandler
  <2>5. k \in X \/ TrustOK(T, k)
    BY <2>1, <2>2 DEF TrustOK, SameHandler
  <2> QED
    BY <2>4, <2>5
<1>2. OwnedOK(T, Y)
  <2> SUFFICES ASSUME NEW d \in Drive \ Y, T.drive[d].mounted = "ours", d \notin T.left
               PROVE  \E k \in Holders(T, d) : T.hd[k].own
    BY DEF OwnedOK
  <2>1. PICK k \in Holders(S, d) : S.hd[k].own
    BY DEF DrivesBut, OwnedOK
  <2>2. CASE k = n
    <3>1. S.hd[n].src = d
      BY <2>1, <2>2 DEF Holders
    <3> QED
      BY <2>1, <2>2, <3>1
  <2>3. CASE k # n
    <3>1. k \in Number \ {n} /\ S.hd[k].src = d
      BY <2>1, <2>3 DEF Holders
    <3>2. T.hd[k] = S.hd[k]
      BY <3>1 DEF SameHandler
    <3> QED
      BY <2>1, <3>1, <3>2 DEF Holders
  <2> QED
    BY <2>2, <2>3
<1> QED
  BY <1>1, <1>2 DEF DrivesBut

\* A handler lets go of its source: somebody else owns it, or it is left.
LEMMA DroppedOK ==
    ASSUME NEW S, NEW X, NEW Y, DrivesBut(S, X, Y), NEW n \in Number, NEW T, T = Dropped(S, n),
           n \in X \/ (S.hd[n].desired => n \in S.doubt),
           S.hd[n].own => \/ S.drive[S.hd[n].src].mounted # "ours"
                          \/ S.hd[n].src \in S.left \cup Y
                          \/ Sharing(S, n) # {}
    PROVE  DrivesBut(T, X, Y)
<1>1. S \in MediaType /\ HandlerOK(S, n) /\ (n \in X \/ TrustOK(S, n))
  BY DEF DrivesBut
<1>2. /\ T \in MediaType /\ SameSet(S, T) /\ T.drive = S.drive /\ T.left = S.left
      /\ T.pulled = S.pulled \ {n}
      /\ n \in T.doubt => n \in S.doubt
      /\ n \in S.doubt /\ n \notin T.doubt => S.hd[n].verifier /\ ~S.hd[n].desired
      /\ \A k \in Number \ {n} : SameHandler(S, T, k)
      /\ T.hd[n].src = 0 /\ ~T.hd[n].own /\ T.hd[n].place = "no" /\ T.hd[n].seen = "never"
      /\ (T.hd[n].desired <=> S.hd[n].desired) /\ (T.hd[n].verifier <=> S.hd[n].verifier)
      /\ S.hd[n] = Closed => T.hd[n] = Closed
  <2>1. S \in MediaType
    BY <1>1
  <2> QED
    BY <2>1, DroppedIs
<1>3. HandlerOK(T, n)
  <2>1. n \notin ToSet(T.opened) => T.hd[n] = Closed
    BY <1>1, <1>2 DEF HandlerOK, SameSet
  <2>2. Sharing(T, n) = {}
    BY <1>2 DEF Sharing
  <2> QED
    BY <1>2, <2>1, <2>2 DEF HandlerOK
<1>4. n \in X \/ TrustOK(T, n)
  <2> SUFFICES ASSUME n \notin X
               PROVE  TrustOK(T, n)
    OBVIOUS
  <2>1. n \in ToSet(T.opened) => T.hd[n].verifier \/ n \in T.doubt
    BY <1>1, <1>2 DEF TrustOK, SameSet
  <2>2. T.hd[n].desired => n \in T.doubt
    BY <1>2
  <2> QED
    BY <2>1, <2>2 DEF TrustOK
<1>5. S.hd[n].own => \/ S.drive[S.hd[n].src].mounted # "ours"
                     \/ S.hd[n].src \in T.left \cup Y
                     \/ \E k \in Holders(T, S.hd[n].src) : T.hd[k].own
  <2> SUFFICES ASSUME S.hd[n].own, Sharing(S, n) # {}
               PROVE  \E k \in Holders(T, S.hd[n].src) : T.hd[k].own
    BY <1>2
  <2>1. PICK k \in Sharing(S, n) : TRUE
    OBVIOUS
  <2>2. k \in Number \ {n} /\ S.hd[k].src = S.hd[n].src /\ S.hd[k].own
    BY <1>1, <2>1 DEF Sharing, HandlerOK
  <2>3. T.hd[k] = S.hd[k]
    BY <1>2, <2>2 DEF SameHandler
  <2> QED
    BY <2>2, <2>3 DEF Holders
<1> QED
  BY <1>2, <1>3, <1>4, <1>5, OneHandler DEF SameSet

\* A mount is noted as left behind.
LEMMA LeftOK ==
    ASSUME NEW S, NEW X, NEW Y, DrivesBut(S, X, Y), NEW B \in SUBSET Drive, NEW T, T = [S EXCEPT !.left = @ \cup B]
    PROVE  /\ DrivesBut(T, X, Y) /\ SameSet(S, T) /\ T.drive = S.drive /\ T.hd = S.hd
           /\ T.left = S.left \cup B /\ T.pulled = S.pulled /\ T.doubt = S.doubt
<1>1. S \in MediaType
  BY DEF DrivesBut
<1>2. /\ T \in MediaType /\ SameSet(S, T) /\ T.drive = S.drive /\ T.hd = S.hd
      /\ T.left = S.left \cup B /\ T.pulled = S.pulled /\ T.doubt = S.doubt
  BY <1>1 DEF MediaType, SameSet
<1>3. \A n \in Number : HandlerOK(T, n) /\ (n \in X \/ TrustOK(T, n))
  BY <1>2 DEF DrivesBut, HandlerOK, TrustOK, IsMounted, Sharing, SameSet
<1>4. OwnedOK(T, Y)
  BY <1>2 DEF DrivesBut, OwnedOK, Holders
<1> QED
  BY <1>2, <1>3, <1>4 DEF DrivesBut, SameSet

\* The mount of a drive goes, or comes, whose handlers are known to have lost it.
LEMMA MountOK ==
    ASSUME NEW S, NEW X, NEW Y, DrivesBut(S, X, Y), NEW d \in Drive, Y \subseteq {d},
           NEW place \in Place, NEW T, T = Mounted(S, d, place),
           \A k \in Holders(S, d) :
                k \in S.pulled /\ (k \in X \/ (S.hd[k].desired => k \in S.doubt))
    PROVE  DrivesBut(T, X, {d}) /\ (place # "ours" => DrivesBut(T, X, {}))
<1>1. S \in MediaType
  BY DEF DrivesBut
<1>3. /\ T \in MediaType /\ SameSet(S, T) /\ T.left = S.left
      /\ T.pulled = S.pulled /\ T.doubt = S.doubt
      /\ T.drive[d].mounted = place /\ T.drive[d].disc = S.drive[d].disc
      /\ \A e \in Drive \ {d} : T.drive[e] = S.drive[e]
      /\ \A k \in Number :
           /\ T.hd[k].src = S.hd[k].src /\ T.hd[k].own = S.hd[k].own
           /\ T.hd[k].place = S.hd[k].place /\ T.hd[k].desired = S.hd[k].desired
           /\ T.hd[k].verifier = S.hd[k].verifier
           /\ T.hd[k].seen = IF S.hd[k].seen = "now" THEN "old" ELSE S.hd[k].seen
           /\ S.hd[k].seen # "now" => T.hd[k] = S.hd[k]
  BY <1>1, MountedIs
<1>4. ASSUME NEW n \in Number
      PROVE  HandlerOK(T, n) /\ (n \in X \/ TrustOK(T, n))
  <2>1. HandlerOK(S, n) /\ (n \in X \/ TrustOK(S, n)) /\ S.hd[n].src \in Drive \cup {0}
    BY <1>1, MediaFields DEF DrivesBut
  <2>2. Sharing(T, n) = Sharing(S, n) /\ Sharing(S, n) \subseteq Number
    BY <1>3 DEF Sharing
  <2>3. CASE S.hd[n].src = d
    <3>1. n \in S.pulled /\ (n \in X \/ (S.hd[n].desired => n \in S.doubt))
      BY <2>3 DEF Holders
    <3>2. HandlerOK(T, n)
      BY <1>3, <2>1, <2>2, <3>1 DEF HandlerOK, SameSet, Closed
    <3>3. n \in X \/ TrustOK(T, n)
      BY <1>3, <2>1, <3>1 DEF TrustOK, SameSet
    <3> QED
      BY <3>2, <3>3
  <2>4. CASE S.hd[n].src # d
    <3>1. IsMounted(T, n) <=> IsMounted(S, n)
      BY <1>3, <2>1, <2>4 DEF IsMounted
    <3>2. HandlerOK(T, n)
      BY <1>3, <2>1, <2>2, <3>1 DEF HandlerOK, SameSet, Closed
    <3>3. n \in X \/ TrustOK(T, n)
      BY <1>3, <2>1, <2>4, <3>1 DEF TrustOK, SameSet, IsMounted
    <3> QED
      BY <3>2, <3>3
  <2> QED
    BY <2>3, <2>4
<1>5. OwnedOK(T, {d})
  <2> SUFFICES ASSUME NEW e \in Drive \ {d}, T.drive[e].mounted = "ours", e \notin T.left
               PROVE  \E k \in Holders(T, e) : T.hd[k].own
    BY DEF OwnedOK
  <2>1. PICK k \in Holders(S, e) : S.hd[k].own
    BY <1>3 DEF DrivesBut, OwnedOK
  <2> QED
    BY <1>3, <2>1 DEF Holders
<1>6. place # "ours" => OwnedOK(T, {})
  BY <1>3, <1>5 DEF OwnedOK
<1> QED
  BY <1>3, <1>4, <1>5, <1>6 DEF DrivesBut, SameSet

\* A look at the mount table: who finds its source gone lets go of it.
CheckedAs(S, T, n) ==
    /\ T \in MediaType /\ SameSet(S, T) /\ T.drive = S.drive /\ T.left = S.left
    /\ \A k \in Number \ {n} : SameHandler(S, T, k)
    /\ n \in T.pulled => n \in S.pulled
    /\ n \in T.doubt => n \in S.doubt
    /\ n \in S.doubt /\ n \notin T.doubt => ~S.hd[n].desired
    /\ (T.hd[n].desired <=> S.hd[n].desired) /\ (T.hd[n].verifier <=> S.hd[n].verifier)
    /\ T.hd[n].src # 0 =>
          /\ IsMounted(T, n) /\ T.hd[n].src = S.hd[n].src
          /\ T.hd[n].place = S.hd[n].place /\ T.hd[n].own = S.hd[n].own
    /\ T.hd[n].src = 0 => ~IsMounted(S, n) /\ ~T.hd[n].own

LEMMA CheckedOK ==
    ASSUME NEW S, DrivesOK(S), NEW n \in Number, NEW T, T = CheckAttached(S, n)
    PROVE  DrivesOK(T) /\ CheckedAs(S, T, n)
<1>1. S \in MediaType /\ HandlerOK(S, n) /\ TrustOK(S, n) /\ S.hd[n] \in HandlerType
  BY MediaFields DEF DrivesOK, DrivesBut
<1>2. CASE S.hd[n].src = 0 \/ S.hd[n].seen = "now"
  <2>1. T = S
    BY <1>2 DEF CheckAttached
  <2>2. S.hd[n].src # 0 => IsMounted(S, n)
    BY <1>1, <1>2 DEF HandlerOK
  <2>3. S.hd[n].src = 0 => ~IsMounted(S, n) /\ ~S.hd[n].own
    BY <1>1 DEF HandlerOK, IsMounted
  <2>4. \A k \in Number : SameHandler(S, S, k)
    BY DEF SameHandler
  <2> QED
    BY <1>1, <2>1, <2>2, <2>3, <2>4 DEF CheckedAs, SameSet
<1>3. CASE S.hd[n].src # 0 /\ S.hd[n].seen # "now" /\ IsMounted(S, n)
  <2> DEFINE h == [S.hd[n] EXCEPT !.seen = "now"]
  <2>1. T = [S EXCEPT !.hd[n] = h]
    BY <1>3 DEF CheckAttached
  <2>2. /\ h \in HandlerType /\ h.src = S.hd[n].src /\ h.own = S.hd[n].own
        /\ h.place = S.hd[n].place /\ h.desired = S.hd[n].desired
        /\ h.verifier = S.hd[n].verifier /\ h.seen = "now"
    BY <1>1 DEF HandlerType
  <2> HIDE DEF h
  <2>3. T \in MediaType /\ T.hd[n] = h /\ \A k \in Number \ {n} : T.hd[k] = S.hd[k]
    BY <1>1, <2>1, <2>2, HandlerChanged
  <2>4. SameSet(S, T) /\ T.drive = S.drive /\ T.left = S.left
        /\ T.pulled = S.pulled /\ T.doubt = S.doubt
    BY <1>1, <2>1 DEF MediaType, SameSet
  <2>5. \A k \in Number \ {n} : SameHandler(S, T, k)
    BY <2>3, <2>4 DEF SameHandler
  <2>6. IsMounted(T, n)
    BY <1>3, <2>2, <2>3, <2>4 DEF IsMounted
  <2>7. Sharing(T, n) \subseteq Sharing(S, n) /\ Sharing(T, n) \subseteq Number \ {n}
    BY <2>2, <2>3 DEF Sharing
  <2>8. HandlerOK(T, n)
    <3>1. n \in ToSet(T.opened)
      BY <1>1, <1>3, <2>4, ClosedFields DEF HandlerOK, SameSet
    <3>2. \A k \in Sharing(T, n) : T.hd[k].own = T.hd[n].own
      BY <1>1, <2>2, <2>3, <2>7 DEF HandlerOK
    <3> QED
      BY <1>1, <1>3, <2>2, <2>3, <2>6, <3>1, <3>2 DEF HandlerOK
  <2>9. TrustOK(T, n)
    BY <1>1, <2>2, <2>3, <2>4, <2>6 DEF TrustOK, SameSet
  <2>10. S.hd[n].own => n \in Holders(T, S.hd[n].src) /\ T.hd[n].own
    BY <2>2, <2>3 DEF Holders
  <2>11. DrivesOK(T)
    BY <2>3, <2>4, <2>5, <2>8, <2>9, <2>10, OneHandler DEF SameSet, DrivesOK
  <2> QED
    BY <1>3, <2>2, <2>3, <2>4, <2>5, <2>6, <2>11 DEF CheckedAs
<1>4. CASE S.hd[n].src # 0 /\ S.hd[n].seen # "now" /\ ~IsMounted(S, n)
  <2>1. T = Dropped(S, n)
    BY <1>4 DEF CheckAttached
  <2>2. S.hd[n].desired => n \in S.doubt
    BY <1>1, <1>4 DEF TrustOK
  <2>3. S.hd[n].own => S.drive[S.hd[n].src].mounted # "ours"
    BY <1>1, <1>4 DEF HandlerOK, IsMounted
  <2>4. DrivesOK(T)
    BY <2>1, <2>2, <2>3, DroppedOK DEF DrivesOK
  <2>5. S \in MediaType
    BY <1>1
  <2>6. /\ T \in MediaType /\ SameSet(S, T) /\ T.drive = S.drive /\ T.left = S.left
        /\ T.pulled = S.pulled \ {n}
        /\ n \in T.doubt => n \in S.doubt
        /\ n \in S.doubt /\ n \notin T.doubt => ~S.hd[n].desired
        /\ \A k \in Number \ {n} : SameHandler(S, T, k)
        /\ T.hd[n].src = 0 /\ ~T.hd[n].own
        /\ (T.hd[n].desired <=> S.hd[n].desired) /\ (T.hd[n].verifier <=> S.hd[n].verifier)
    BY <2>1, <2>5, DroppedIs
  <2> QED
    BY <1>4, <2>4, <2>6 DEF CheckedAs
<1> QED
  BY <1>2, <1>3, <1>4

LEMMA CheckAllOK ==
    ASSUME NEW S, DrivesOK(S), NEW T, T = CheckAll(S)
    PROVE  /\ DrivesOK(T) /\ SameSet(S, T) /\ T.drive = S.drive /\ T.left = S.left
           /\ \A n \in Number : /\ T.hd[n].src # 0 => IsMounted(T, n) /\ T.hd[n].src = S.hd[n].src
                                /\ T.hd[n].desired <=> S.hd[n].desired
<1> DEFINE C(n) == CheckAttached(S, n)
           f == [n \in Number |-> C(n).hd[n]]
           p == {n \in S.pulled : n \in C(n).pulled}
           q == {n \in S.doubt : n \in C(n).doubt}
<1>1. T = [S EXCEPT !.hd = f, !.pulled = p, !.doubt = q]
  BY DEF CheckAll
<1>2. S \in MediaType
  BY DEF DrivesOK, DrivesBut
<1>3. \A n \in Number : DrivesOK(C(n)) /\ CheckedAs(S, C(n), n)
  BY CheckedOK
<1> HIDE DEF C
<1>4. \A n \in Number : C(n).hd[n] \in HandlerType
  BY <1>3, MediaFields DEF CheckedAs
<1>5. f \in [Number -> HandlerType] /\ \A n \in Number : f[n] = C(n).hd[n]
  BY <1>4
<1>6. p \in SUBSET Number /\ q \in SUBSET Number
  BY <1>2, MediaFields
<1>7. \A n \in Number : (n \in p <=> n \in C(n).pulled) /\ (n \in q <=> n \in C(n).doubt)
  BY <1>3 DEF CheckedAs
<1> HIDE DEF f, p, q
<1>8. /\ T \in MediaType /\ SameSet(S, T) /\ T.drive = S.drive /\ T.left = S.left
      /\ T.hd = f /\ T.pulled = p /\ T.doubt = q
  BY <1>1, <1>2, <1>5, <1>6 DEF MediaType, SameSet
<1>9. ASSUME NEW n \in Number
      PROVE  /\ SameHandler(C(n), T, n)
             /\ (T.hd[n].desired <=> S.hd[n].desired)
             /\ T.hd[n].src # 0 => /\ IsMounted(T, n) /\ T.hd[n].src = S.hd[n].src
                                   /\ T.hd[n].place = S.hd[n].place /\ T.hd[n].own = S.hd[n].own
             /\ T.hd[n].src = 0 => ~IsMounted(S, n)
  <2>1. T.hd[n] = C(n).hd[n]
    BY <1>5, <1>8
  <2>2. SameHandler(C(n), T, n)
    BY <1>7, <1>8, <2>1 DEF SameHandler
  <2>3. CheckedAs(S, C(n), n)
    BY <1>3
  <2>4. IsMounted(C(n), n) => IsMounted(T, n)
    BY <1>8, <2>1, <2>3 DEF IsMounted, CheckedAs
  <2> QED
    BY <2>1, <2>2, <2>3, <2>4 DEF CheckedAs
<1>10. ASSUME NEW n \in Number
       PROVE  HandlerOK(T, n) /\ TrustOK(T, n)
  <2>1. DrivesOK(C(n)) /\ CheckedAs(S, C(n), n)
    BY <1>3
  <2>2. HandlerOK(C(n), n) /\ TrustOK(C(n), n)
    BY <2>1 DEF DrivesOK, DrivesBut
  <2>3. SameHandler(C(n), T, n)
    BY <1>9
  <2>4. IsMounted(T, n) <=> IsMounted(C(n), n)
    BY <1>8, <2>1, <2>3 DEF IsMounted, CheckedAs, SameHandler
  <2>5. ToSet(T.opened) = ToSet(C(n).opened)
    BY <1>8, <2>1 DEF CheckedAs, SameSet
  <2>6. ASSUME NEW k \in Sharing(T, n)
        PROVE  T.hd[k].own = T.hd[n].own
    <3>1. /\ k \in Number \ {n} /\ T.hd[n].src # 0
          /\ T.hd[k].src = T.hd[n].src /\ T.hd[k].place = T.hd[n].place
      BY <2>6 DEF Sharing
    <3>2. /\ T.hd[n].src = S.hd[n].src /\ T.hd[n].place = S.hd[n].place
          /\ T.hd[n].own = S.hd[n].own
      BY <1>9, <3>1
    <3>3. /\ T.hd[k].src = S.hd[k].src /\ T.hd[k].place = S.hd[k].place
          /\ T.hd[k].own = S.hd[k].own
      BY <1>9, <3>1
    <3>4. k \in Sharing(S, n)
      BY <3>1, <3>2, <3>3 DEF Sharing
    <3>5. HandlerOK(S, n)
      BY DEF DrivesOK, DrivesBut
    <3> QED
      BY <3>2, <3>3, <3>4, <3>5 DEF HandlerOK
  <2>7. HandlerOK(T, n)
    BY <2>2, <2>3, <2>4, <2>5, <2>6 DEF HandlerOK, SameHandler
  <2>8. TrustOK(T, n)
    <3>1. T.drive = C(n).drive
      BY <1>8, <2>1 DEF CheckedAs
    <3> QED
      BY <2>2, <2>3, <2>4, <2>5, <3>1 DEF TrustOK, SameHandler
  <2> QED
    BY <2>7, <2>8
<1>11. OwnedOK(T, {})
  <2> SUFFICES ASSUME NEW d \in Drive, T.drive[d].mounted = "ours", d \notin T.left
               PROVE  \E k \in Holders(T, d) : T.hd[k].own
    BY DEF OwnedOK
  <2>1. PICK k \in Holders(S, d) : S.hd[k].own
    BY <1>8 DEF DrivesOK, DrivesBut, OwnedOK
  <2>2. k \in Number /\ S.hd[k].src = d /\ d # 0
    BY <2>1 DEF Holders, Drive
  <2>3. IsMounted(S, k)
    <3>1. HandlerOK(S, k)
      BY <2>2 DEF DrivesOK, DrivesBut
    <3> QED
      BY <1>8, <2>1, <2>2, <3>1 DEF HandlerOK, IsMounted
  <2>4. T.hd[k].src # 0
    BY <1>9, <2>2, <2>3
  <2>5. T.hd[k].src = d /\ T.hd[k].own
    BY <1>9, <2>1, <2>2, <2>4
  <2> QED
    BY <2>2, <2>5 DEF Holders
<1> QED
  BY <1>8, <1>9, <1>10, <1>11 DEF DrivesOK, DrivesBut, SameSet

\* umount: nobody who is attached to the drive still trusts it.
LEMMA UnmountedOK ==
    ASSUME NEW S, NEW X, NEW Y, DrivesBut(S, X, Y), NEW d \in Drive, Y \subseteq {d},
           NEW T, T = Unmounted(S, d),
           \A k \in Holders(S, d) :
                k \in S.pulled /\ (k \in X \/ (S.hd[k].desired => k \in S.doubt))
    PROVE  /\ DrivesBut(T, X, {}) /\ SameSet(S, T) /\ T.left = S.left \ {d}
           /\ T.drive[d].mounted = "no" /\ T.drive[d].disc = S.drive[d].disc
           /\ \A e \in Drive \ {d} : T.drive[e] = S.drive[e]
           /\ T.pulled = S.pulled /\ T.doubt = S.doubt
           /\ \A k \in Number :
                /\ T.hd[k].src = S.hd[k].src /\ T.hd[k].own = S.hd[k].own
                /\ T.hd[k].place = S.hd[k].place /\ T.hd[k].desired = S.hd[k].desired
                /\ T.hd[k].verifier = S.hd[k].verifier
                /\ S.hd[k].seen # "now" => T.hd[k] = S.hd[k]
<1> DEFINE M == Mounted(S, d, "no")
<1>1. S \in MediaType /\ "no" \in Place
  BY DEF DrivesBut, Place
<1>2. /\ M \in MediaType /\ SameSet(S, M) /\ M.left = S.left
      /\ M.pulled = S.pulled /\ M.doubt = S.doubt
      /\ M.drive[d].mounted = "no" /\ M.drive[d].disc = S.drive[d].disc
      /\ \A e \in Drive \ {d} : M.drive[e] = S.drive[e]
      /\ \A k \in Number :
           /\ M.hd[k].src = S.hd[k].src /\ M.hd[k].own = S.hd[k].own
           /\ M.hd[k].place = S.hd[k].place /\ M.hd[k].desired = S.hd[k].desired
           /\ M.hd[k].verifier = S.hd[k].verifier
           /\ S.hd[k].seen # "now" => M.hd[k] = S.hd[k]
  <2>1. S \in MediaType
    BY <1>1
  <2> QED
    BY <1>1, <2>1, MountedIs
<1>3. DrivesBut(M, X, {})
  BY <1>1, MountOK
<1>4. T = [M EXCEPT !.left = @ \ {d}]
  BY DEF Unmounted
<1> HIDE DEF M
<1>5. /\ T \in MediaType /\ SameSet(M, T) /\ T.drive = M.drive /\ T.hd = M.hd
      /\ T.left = M.left \ {d} /\ T.pulled = M.pulled /\ T.doubt = M.doubt
  BY <1>2, <1>4 DEF MediaType, SameSet
<1>6. \A n \in Number : HandlerOK(T, n) /\ (n \in X \/ TrustOK(T, n))
  BY <1>3, <1>5 DEF DrivesBut, HandlerOK, TrustOK, IsMounted, Sharing, SameSet
<1>7. OwnedOK(T, {})
  <2> SUFFICES ASSUME NEW e \in Drive, T.drive[e].mounted = "ours", e \notin T.left
               PROVE  \E k \in Holders(T, e) : T.hd[k].own
    BY DEF OwnedOK
  <2>1. e # d /\ M.drive[e].mounted = "ours" /\ e \notin M.left
    BY <1>2, <1>5
  <2> QED
    BY <1>3, <1>5, <2>1 DEF DrivesBut, OwnedOK, Holders
<1>8. DrivesBut(T, X, {})
  BY <1>3, <1>5, <1>6, <1>7 DEF DrivesBut, SameSet
<1> QED
  BY <1>2, <1>5, <1>8 DEF SameSet

\* What release() does: the handler is detached, or its mount is left behind.
OthersAs(S, T, n) ==
    \A k \in Number \ {n} :
        /\ T.hd[k].src = S.hd[k].src
        /\ (T.hd[k].desired <=> S.hd[k].desired)
        /\ IsMounted(S, k) => IsMounted(T, k)

LeavesMounts(S, T) == \A d \in S.left : d \in T.left \/ T.drive[d].mounted = "no"

ReleasedAs(S, T, n) ==
    /\ SameSet(S, T) /\ OthersAs(S, T, n) /\ LeavesMounts(S, T)
    /\ T.hd[n].src # 0 => T.hd[n].src \in T.left /\ IsMounted(T, n)

LEMMA DroppedAs ==
    ASSUME NEW S, S \in MediaType, NEW n \in Number, NEW T, T = Dropped(S, n)
    PROVE  ReleasedAs(S, T, n) /\ T.hd[n].src = 0 /\ (T.hd[n].desired <=> S.hd[n].desired)
<1>1. /\ T \in MediaType /\ SameSet(S, T) /\ T.drive = S.drive /\ T.left = S.left
      /\ \A k \in Number \ {n} : SameHandler(S, T, k)
      /\ T.hd[n].src = 0 /\ (T.hd[n].desired <=> S.hd[n].desired)
  BY DroppedIs
<1>2. OthersAs(S, T, n)
  BY <1>1 DEF OthersAs, SameHandler, IsMounted
<1> QED
  BY <1>1, <1>2 DEF ReleasedAs, LeavesMounts

LEMMA CheckedReleased ==
    ASSUME NEW S, NEW C, NEW T, NEW n, CheckedAs(S, C, n), ReleasedAs(C, T, n)
    PROVE  ReleasedAs(S, T, n)
<1>1. SameSet(S, T) /\ LeavesMounts(S, T)
  BY DEF CheckedAs, ReleasedAs, SameSet, LeavesMounts
<1>2. OthersAs(S, T, n)
  BY DEF CheckedAs, ReleasedAs, OthersAs, SameHandler, IsMounted
<1> QED
  BY <1>1, <1>2 DEF ReleasedAs

LEMMA ReleaseOK ==
    ASSUME NEW S, DrivesOK(S), NEW n \in Number, NEW X \in SUBSET {n},
           n \in X \/ (S.hd[n].desired => n \in S.doubt), NEW T, T = Release(S, n)
    PROVE  /\ DrivesBut(T, X, {}) /\ ReleasedAs(S, T, n)
           /\ (T.hd[n].desired <=> S.hd[n].desired)
           /\ ~ReleaseFails(S, n) => T.hd[n].src = 0
<1> DEFINE C == CheckAttached(S, n)
           d == C.hd[n].src
<1>1. DrivesOK(C) /\ CheckedAs(S, C, n)
  BY CheckedOK
<1>2. /\ T = IF ~C.hd[n].own \/ Sharing(C, n) # {} THEN Dropped(C, n)
             ELSE IF ReleaseFails(S, n) THEN [C EXCEPT !.left = @ \cup {C.hd[n].src}]
             ELSE Unmounted(Dropped(C, n), C.hd[n].src)
  BY DEF Release
<1> HIDE DEF C
<1>3. C \in MediaType /\ DrivesBut(C, X, {}) /\ HandlerOK(C, n)
  BY <1>1 DEF DrivesOK, DrivesBut
<1>4. n \in X \/ (C.hd[n].desired => n \in C.doubt)
  BY <1>1 DEF CheckedAs
<1>5. CASE ~C.hd[n].own \/ Sharing(C, n) # {}
  <2>1. T = Dropped(C, n)
    BY <1>2, <1>5
  <2>2. DrivesBut(T, X, {})
    BY <1>3, <1>4, <1>5, <2>1, DroppedOK
  <2>3. C \in MediaType
    BY <1>3
  <2>4. ReleasedAs(C, T, n) /\ T.hd[n].src = 0 /\ (T.hd[n].desired <=> C.hd[n].desired)
    BY <2>1, <2>3, DroppedAs
  <2>5. T.hd[n].desired <=> S.hd[n].desired
    BY <1>1, <2>4 DEF CheckedAs
  <2> QED
    BY <1>1, <2>2, <2>4, <2>5, CheckedReleased
<1>6. CASE C.hd[n].own /\ Sharing(C, n) = {} /\ ReleaseFails(S, n)
  <2>1. d \in Drive /\ IsMounted(C, n)
    BY <1>1, <1>3, <1>6, MediaFields DEF CheckedAs, HandlerOK
  <2>2. T = [C EXCEPT !.left = @ \cup {d}] /\ {d} \in SUBSET Drive
    BY <1>2, <1>6, <2>1
  <2> DEFINE B == {d}
  <2>3. /\ DrivesBut(T, X, {}) /\ SameSet(C, T) /\ T.drive = C.drive /\ T.hd = C.hd
        /\ T.left = C.left \cup B
    <3>1. B \in SUBSET Drive /\ T = [C EXCEPT !.left = @ \cup B]
      BY <2>2
    <3> HIDE DEF B
    <3> QED
      BY <1>3, <3>1, LeftOK
  <2>4. ReleasedAs(C, T, n)
    BY <2>1, <2>3 DEF ReleasedAs, OthersAs, LeavesMounts, IsMounted
  <2>5. T.hd[n].desired <=> S.hd[n].desired
    BY <1>1, <2>3 DEF CheckedAs
  <2> QED
    BY <1>1, <1>6, <2>3, <2>4, <2>5, CheckedReleased
<1>7. CASE C.hd[n].own /\ Sharing(C, n) = {} /\ ~ReleaseFails(S, n)
  <2> DEFINE D == Dropped(C, n)
  <2>1. d \in Drive /\ IsMounted(C, n) /\ C.hd[n].src = d
    BY <1>1, <1>3, <1>7, MediaFields DEF CheckedAs, HandlerOK
  <2>2. T = Unmounted(D, d)
    BY <1>2, <1>7
  <2>3. DrivesBut(D, X, {d})
    <3>1. DrivesBut(C, X, {d})
      BY <1>3 DEF DrivesBut, OwnedOK
    <3>2. C.hd[n].src \in C.left \cup {d}
      BY <2>1
    <3> HIDE DEF d
    <3> QED
      BY <1>4, <3>1, <3>2, DroppedOK
  <2>4. C \in MediaType
    BY <1>3
  <2>5. /\ D \in MediaType /\ SameSet(C, D) /\ D.drive = C.drive /\ D.left = C.left
        /\ \A k \in Number \ {n} : SameHandler(C, D, k)
        /\ D.hd[n].src = 0 /\ (D.hd[n].desired <=> C.hd[n].desired)
    BY <2>4, DroppedIs
  <2> HIDE DEF D, d
  <2>6. \A k \in Number \ {n} : C.hd[k].src = d => ~IsMounted(C, k)
    BY <1>7, <2>1 DEF Sharing, IsMounted, Drive
  <2>7. ASSUME NEW k \in Holders(D, d)
        PROVE  k \in D.pulled /\ (k \in X \/ (D.hd[k].desired => k \in D.doubt))
    <3>1. k \in Number \ {n}
      BY <2>1, <2>5, <2>7 DEF Holders, Drive
    <3>2. SameHandler(C, D, k) /\ C.hd[k].src = d /\ d # 0
      BY <2>1, <2>5, <2>7, <3>1 DEF Holders, SameHandler, Drive
    <3>3. HandlerOK(C, k) /\ TrustOK(C, k) /\ ~IsMounted(C, k)
      BY <1>1, <2>6, <3>1, <3>2 DEF DrivesOK, DrivesBut
    <3> QED
      BY <3>2, <3>3 DEF HandlerOK, TrustOK, SameHandler
  <2>8. /\ DrivesBut(T, X, {}) /\ SameSet(D, T) /\ T.left = D.left \ {d}
        /\ T.drive[d].mounted = "no"
        /\ \A e \in Drive \ {d} : T.drive[e] = D.drive[e]
        /\ \A k \in Number :
             /\ T.hd[k].src = D.hd[k].src /\ T.hd[k].own = D.hd[k].own
             /\ T.hd[k].place = D.hd[k].place /\ T.hd[k].desired = D.hd[k].desired
    BY <2>1, <2>2, <2>3, <2>7, UnmountedOK
  <2>9. OthersAs(C, T, n)
    <3> SUFFICES ASSUME NEW k \in Number \ {n}
                 PROVE  /\ T.hd[k].src = C.hd[k].src
                        /\ (T.hd[k].desired <=> C.hd[k].desired)
                        /\ IsMounted(C, k) => IsMounted(T, k)
      BY DEF OthersAs
    <3>1. SameHandler(C, D, k) /\ C.hd[k].src \in Drive \cup {0}
      BY <2>4, <2>5, MediaFields
    <3>2. T.hd[k].src = C.hd[k].src /\ (T.hd[k].desired <=> C.hd[k].desired)
      BY <2>8, <3>1 DEF SameHandler
    <3>3. IsMounted(C, k) => IsMounted(T, k)
      <4>1. T.hd[k].place = C.hd[k].place
        BY <2>8, <3>1 DEF SameHandler
      <4> SUFFICES ASSUME IsMounted(C, k)
                   PROVE  IsMounted(T, k)
        OBVIOUS
      <4>2. C.hd[k].src \in Drive \ {d} /\ C.hd[k].src # 0
        BY <2>6, <3>1 DEF IsMounted
      <4>3. T.drive[C.hd[k].src] = C.drive[C.hd[k].src]
        BY <2>5, <2>8, <4>2
      <4> QED
        BY <3>2, <4>1, <4>2, <4>3 DEF IsMounted
    <3> QED
      BY <3>2, <3>3
  <2>10. SameSet(C, T) /\ LeavesMounts(C, T) /\ T.hd[n].src = 0
         /\ (T.hd[n].desired <=> C.hd[n].desired)
    BY <2>5, <2>8 DEF SameSet, LeavesMounts
  <2>11. ReleasedAs(C, T, n)
    BY <2>9, <2>10 DEF ReleasedAs
  <2>12. T.hd[n].desired <=> S.hd[n].desired
    BY <1>1, <2>10 DEF CheckedAs
  <2> QED
    BY <1>1, <2>8, <2>10, <2>11, <2>12, CheckedReleased
<1> QED
  BY <1>5, <1>6, <1>7

LEMMA AttachedWhen ==
    ASSUME NEW S, S \in MediaType, NEW n \in Number
    PROVE  IsAttached(S, n) <=>
              S.hd[n].src # 0 /\ (S.hd[n].seen = "now" \/ IsMounted(S, n))
<1> DEFINE T == CheckAttached(S, n)
<1>1. CASE S.hd[n].src = 0 \/ S.hd[n].seen = "now"
  BY <1>1 DEF IsAttached, CheckAttached
<1>2. CASE S.hd[n].src # 0 /\ S.hd[n].seen # "now" /\ IsMounted(S, n)
  <2> DEFINE h == [S.hd[n] EXCEPT !.seen = "now"]
  <2>1. T = [S EXCEPT !.hd[n] = h]
    BY <1>2 DEF CheckAttached
  <2>2. h \in HandlerType /\ h.src = S.hd[n].src
    BY MediaFields DEF HandlerType
  <2> HIDE DEF h
  <2>3. T.hd[n] = h
    BY <2>1, <2>2, HandlerChanged
  <2> QED
    BY <1>2, <2>2, <2>3 DEF IsAttached
<1>3. CASE S.hd[n].src # 0 /\ S.hd[n].seen # "now" /\ ~IsMounted(S, n)
  <2>1. T = Dropped(S, n)
    BY <1>3 DEF CheckAttached
  <2>2. T.hd[n].src = 0
    BY <2>1, DroppedIs
  <2> QED
    BY <1>3, <2>2 DEF IsAttached
<1> QED
  BY <1>1, <1>2, <1>3

LEMMA UndesiredOK ==
    ASSUME NEW S, DrivesOK(S), NEW n \in Number, NEW T, T = Undesired(S, n)
    PROVE  /\ DrivesOK(T) /\ SameSet(S, T) /\ OthersAs(S, T, n) /\ T.left = S.left
           /\ ~T.hd[n].desired /\ (ReleaseFails(T, n) <=> ReleaseFails(S, n))
<1> DEFINE h == [S.hd[n] EXCEPT !.desired = FALSE]
<1>1. S \in MediaType /\ HandlerOK(S, n) /\ TrustOK(S, n) /\ S.hd[n] \in HandlerType
  BY MediaFields DEF DrivesOK, DrivesBut
<1>2. T = [S EXCEPT !.hd[n] = h]
  BY DEF Undesired
<1>3. /\ h \in HandlerType /\ h.src = S.hd[n].src /\ h.own = S.hd[n].own
      /\ h.place = S.hd[n].place /\ h.seen = S.hd[n].seen
      /\ h.verifier = S.hd[n].verifier /\ h.desired = FALSE
  BY <1>1 DEF HandlerType
<1> HIDE DEF h
<1>4. T \in MediaType /\ T.hd[n] = h /\ \A k \in Number \ {n} : T.hd[k] = S.hd[k]
  BY <1>1, <1>2, <1>3, HandlerChanged
<1>5. SameSet(S, T) /\ T.drive = S.drive /\ T.left = S.left
      /\ T.pulled = S.pulled /\ T.doubt = S.doubt
  BY <1>1, <1>2 DEF MediaType, SameSet
<1>6. \A k \in Number \ {n} : SameHandler(S, T, k)
  BY <1>4, <1>5 DEF SameHandler
<1>7. IsMounted(T, n) <=> IsMounted(S, n)
  BY <1>3, <1>4, <1>5 DEF IsMounted
<1>8. Sharing(T, n) = Sharing(S, n) /\ Sharing(S, n) \subseteq Number \ {n}
  BY <1>3, <1>4 DEF Sharing
<1>9. HandlerOK(T, n)
  <2>1. n \notin ToSet(S.opened) => h = Closed
    BY <1>1, <1>3, ClosedFields, SameRecord DEF HandlerOK
  <2>2. \A k \in Sharing(T, n) : T.hd[k].own = T.hd[n].own
    BY <1>1, <1>3, <1>4, <1>8 DEF HandlerOK
  <2> QED
    BY <1>1, <1>3, <1>4, <1>5, <1>7, <2>1, <2>2 DEF HandlerOK, SameSet
<1>10. TrustOK(T, n)
  BY <1>1, <1>3, <1>4, <1>5 DEF TrustOK, SameSet
<1>11. S.hd[n].own => n \in Holders(T, S.hd[n].src) /\ T.hd[n].own
  BY <1>3, <1>4 DEF Holders
<1>12. DrivesOK(T)
  BY <1>4, <1>5, <1>6, <1>9, <1>10, <1>11, OneHandler DEF SameSet, DrivesOK
<1>13. IsAttached(T, n) <=> IsAttached(S, n)
  BY <1>1, <1>3, <1>4, <1>7, AttachedWhen
<1>14. ReleaseFails(T, n) <=> ReleaseFails(S, n)
  BY <1>3, <1>4, <1>5, <1>8, <1>13 DEF ReleaseFails, SameSet
<1>15. OthersAs(S, T, n)
  BY <1>4, <1>5 DEF OthersAs, IsMounted
<1> QED
  BY <1>3, <1>4, <1>5, <1>12, <1>14, <1>15

LEMMA ReleaseNumberOK ==
    ASSUME NEW S, DrivesOK(S), NEW n \in Number, NEW T, T = ReleaseNumber(S, n)
    PROVE  /\ DrivesOK(T) /\ ReleasedAs(S, T, n) /\ ~T.hd[n].desired
           /\ ~ReleaseFails(S, n) => T.hd[n].src = 0
<1> DEFINE U == Undesired(S, n)
<1>1. /\ DrivesOK(U) /\ SameSet(S, U) /\ OthersAs(S, U, n) /\ U.left = S.left
      /\ ~U.hd[n].desired /\ (ReleaseFails(U, n) <=> ReleaseFails(S, n))
  BY UndesiredOK
<1>2. T = Release(U, n)
  BY DEF ReleaseNumber
<1> HIDE DEF U
<1>3. /\ DrivesBut(T, {}, {}) /\ ReleasedAs(U, T, n)
      /\ (T.hd[n].desired <=> U.hd[n].desired)
      /\ ~ReleaseFails(U, n) => T.hd[n].src = 0
  BY <1>1, <1>2, ReleaseOK
<1>4. ReleasedAs(S, T, n)
  BY <1>1, <1>3 DEF ReleasedAs, SameSet, OthersAs, LeavesMounts
<1> QED
  BY <1>1, <1>3, <1>4 DEF DrivesOK

LEMMA ReleaseIfAttachedOK ==
    ASSUME NEW S, DrivesOK(S), NEW n \in Number, NEW T, T = ReleaseIfAttached(S, n)
    PROVE  DrivesOK(T) /\ ReleasedAs(S, T, n) /\ (T.hd[n].src # 0 => ~T.hd[n].desired)
<1>1. CASE IsAttached(S, n)
  <2>1. T = ReleaseNumber(S, n)
    BY <1>1 DEF ReleaseIfAttached, ReleaseNumber
  <2> QED
    BY <2>1, ReleaseNumberOK
<1>2. CASE ~IsAttached(S, n)
  <2>1. T = CheckAttached(S, n)
    BY <1>2 DEF ReleaseIfAttached
  <2>2. DrivesOK(T) /\ CheckedAs(S, T, n)
    BY <2>1, CheckedOK
  <2>3. T.hd[n].src = 0
    BY <1>2, <2>1 DEF IsAttached
  <2>4. ReleasedAs(S, T, n)
    BY <2>2, <2>3 DEF CheckedAs, ReleasedAs, OthersAs, LeavesMounts, SameHandler, IsMounted
  <2> QED
    BY <2>2, <2>3, <2>4
<1> QED
  BY <1>1, <1>2

\* A handler that was released: what it still has is left behind.
Through(S, n) ==
    S.hd[n].src # 0 => S.hd[n].src \in S.left /\ IsMounted(S, n) /\ ~S.hd[n].desired

LEMMA StaysThrough ==
    ASSUME NEW S, NEW T, NEW n \in Number, NEW k \in Number \ {n}, DrivesOK(T),
           ReleasedAs(S, T, n), Through(S, k)
    PROVE  Through(T, k)
<1> SUFFICES ASSUME T.hd[k].src # 0
             PROVE  T.hd[k].src \in T.left /\ IsMounted(T, k) /\ ~T.hd[k].desired
  BY DEF Through
<1>1. /\ T.hd[k].src = S.hd[k].src /\ (T.hd[k].desired <=> S.hd[k].desired)
      /\ IsMounted(S, k) => IsMounted(T, k)
  BY DEF ReleasedAs, OthersAs
<1>2. IsMounted(T, k) /\ S.hd[k].src \in S.left /\ ~T.hd[k].desired
  BY <1>1 DEF Through
<1>3. T.hd[k].place # "no"
  BY DEF DrivesOK, DrivesBut, HandlerOK
<1> QED
  BY <1>1, <1>2, <1>3 DEF ReleasedAs, LeavesMounts, IsMounted

\* releaseAll() goes through all handlers, and nothing of ours stays mounted.
LEMMA AllThrough ==
    ASSUME NEW S, DrivesOK(S), \A n \in ToSet(S.opened) : Through(S, n)
    PROVE  Freed(S)
<1> SUFFICES ASSUME NEW d \in Drive, S.drive[d].mounted = "ours", d \notin S.left
             PROVE  FALSE
  BY DEF Freed
<1>1. PICK n \in Holders(S, d) : S.hd[n].own
  BY DEF DrivesOK, DrivesBut, OwnedOK
<1>2. n \in Number /\ S.hd[n].src = d /\ d # 0
  BY <1>1 DEF Holders, Drive
<1>3. n \in ToSet(S.opened)
  BY <1>2, ClosedFields DEF DrivesOK, DrivesBut, HandlerOK
<1> QED
  BY <1>2, <1>3 DEF Through

LEMMA ReleaseAllOK ==
    ASSUME NEW S, DrivesOK(S), NEW T, T = ReleaseAll(S)
    PROVE  /\ DrivesOK(T) /\ SameSet(S, T) /\ Freed(T)
           /\ \A n \in ToSet(S.opened) : Through(T, n)
<1> DEFINE n == Len(S.opened)
           Good == {R \in MediaType : DrivesOK(R) /\ SameSet(S, R)}
           after[k \in 0..n] ==
               IF k = 0 THEN S ELSE ReleaseIfAttached(after[k - 1], S.opened[k])
           G == [p \in Good \X (1..n) |-> ReleaseIfAttached(p[1], S.opened[p[2]])]
<1>1. /\ S \in MediaType /\ S.opened \in Seq(Number) /\ IsInjective(S.opened)
      /\ n \in Nat /\ DOMAIN S.opened = 1..n /\ \A k \in 1..n : S.opened[k] \in Number
  <2>1. S \in MediaType /\ IsInjective(S.opened)
    BY DEF DrivesOK, DrivesBut
  <2>2. S.opened \in Seq(Number)
    BY <2>1, MediaFields
  <2> QED
    BY <2>1, <2>2
<1>2. S \in Good
  BY <1>1 DEF SameSet
<1>3. ASSUME NEW R \in Good, NEW k \in 1..n
      PROVE  /\ ReleaseIfAttached(R, S.opened[k]) \in Good
             /\ ReleasedAs(R, ReleaseIfAttached(R, S.opened[k]), S.opened[k])
             /\ Through(ReleaseIfAttached(R, S.opened[k]), S.opened[k])
  <2> DEFINE m == S.opened[k]
             Q == ReleaseIfAttached(R, m)
  <2>1. m \in Number /\ DrivesOK(R) /\ SameSet(S, R)
    BY <1>1
  <2> HIDE DEF m, Good
  <2>2. DrivesOK(Q) /\ ReleasedAs(R, Q, m) /\ (Q.hd[m].src # 0 => ~Q.hd[m].desired)
    BY <2>1, ReleaseIfAttachedOK
  <2> HIDE DEF Q
  <2>3. Q \in MediaType /\ SameSet(S, Q) /\ Through(Q, m)
    BY <2>1, <2>2 DEF DrivesOK, DrivesBut, ReleasedAs, SameSet, Through
  <2> QED
    BY <2>2, <2>3 DEF m, Q, Good
<1>4. G \in [Good \X (1..n) -> Good]
  <2>1. \A p \in Good \X (1..n) : ReleaseIfAttached(p[1], S.opened[p[2]]) \in Good
    <3> HIDE DEF Good, n
    <3> QED
      BY <1>3
  <2> HIDE DEF Good, n
  <2> QED
    BY <2>1
<1> HIDE DEF Good
<1>5. PICK g : StepsOf(g, n, Good, S, G)
  <2> HIDE DEF G, n
  <2> QED
    BY <1>1, <1>2, <1>4, StepsExist
<1>6. g \in [0..n -> Good] /\ g[0] = S
      /\ \A k \in 1..n : g[k] = ReleaseIfAttached(g[k - 1], S.opened[k])
  <2>1. g \in [0..n -> Good] /\ g[0] = S /\ \A k \in 1..n : g[k] = G[<<g[k - 1], k>>]
    BY <1>5 DEF StepsOf
  <2>2. ASSUME NEW k \in 1..n
        PROVE  g[k] = ReleaseIfAttached(g[k - 1], S.opened[k])
    <3>1. k - 1 \in 0..n
      BY <1>1
    <3>2. <<g[k - 1], k>> \in Good \X (1..n)
      BY <2>1, <3>1
    <3> QED
      BY <2>1, <3>2
  <2> QED
    BY <2>1, <2>2
<1>7. g = [k \in 0..n |-> IF k = 0 THEN S ELSE ReleaseIfAttached(g[k - 1], S.opened[k])]
  <2> DEFINE e(k) == IF k = 0 THEN S ELSE ReleaseIfAttached(g[k - 1], S.opened[k])
  <2>1. \A k \in 0..n : g[k] = e(k)
    <3> TAKE k \in 0..n
    <3>1. CASE k = 0
      BY <1>6, <3>1
    <3>2. CASE k # 0
      <4>1. k \in 1..n
        BY <1>1, <3>2
      <4> QED
        BY <1>6, <3>2, <4>1
    <3> QED
      BY <3>1, <3>2
  <2> HIDE DEF e, n
  <2>2. g = [k \in 0..n |-> e(k)]
    BY <1>6, <2>1
  <2> QED
    BY <2>2 DEF e
<1>8. after = [k \in 0..n |-> IF k = 0 THEN S ELSE ReleaseIfAttached(after[k - 1], S.opened[k])]
  BY <1>7
<1>9. T = after[n]
  BY DEF ReleaseAll
<1> HIDE DEF after, G
<1> DEFINE e(k) == IF k = 0 THEN S ELSE ReleaseIfAttached(after[k - 1], S.opened[k])
           Right(k) == after[k] \in Good /\ \A i \in 1..k : Through(after[k], S.opened[i])
           f == [k \in 0..n |-> IF Right(k) THEN 1 ELSE 0]
<1>10. \A k \in 0..n : after[k] = e(k)
  <2>1. after = [k \in 0..n |-> e(k)]
    BY <1>8
  <2> HIDE DEF e, n
  <2> QED
    BY <2>1
<1>11. after[0] = S /\ \A k \in 1..n : after[k] = ReleaseIfAttached(after[k - 1], S.opened[k])
  <2>1. 0 \in 0..n /\ \A k \in 1..n : k \in 0..n /\ k # 0
    BY <1>1
  <2> QED
    BY <1>10, <2>1
<1> HIDE DEF e
<1>12. Right(0)
  BY <1>2, <1>11
<1>13. ASSUME NEW k \in 1..n, Right(k - 1)
       PROVE  Right(k)
  <2> DEFINE R == after[k - 1]
             Q == after[k]
             m == S.opened[k]
  <2>1. R \in Good /\ (\A i \in 1..k - 1 : Through(R, S.opened[i])) /\ m \in Number
    BY <1>1, <1>13
  <2>2. Q = ReleaseIfAttached(R, m)
    BY <1>11
  <2> HIDE DEF R, Q
  <2>3. Q \in Good /\ ReleasedAs(R, Q, m) /\ Through(Q, m)
    BY <1>3, <2>1, <2>2
  <2>4. DrivesOK(Q)
    BY <2>3 DEF Good
  <2>5. ASSUME NEW i \in 1..k - 1
        PROVE  Through(Q, S.opened[i])
    <3>1. i \in 1..n /\ i # k
      BY <1>1
    <3>2. S.opened[i] \in Number \ {m}
      BY <1>1, <3>1 DEF IsInjective
    <3>3. Through(R, S.opened[i])
      BY <2>1
    <3> HIDE DEF m
    <3> QED
      BY <2>1, <2>3, <2>4, <3>2, <3>3, StaysThrough
  <2>6. \A i \in 1..k : Through(Q, S.opened[i])
    <3> TAKE i \in 1..k
    <3>1. i = k \/ i \in 1..k - 1
      OBVIOUS
    <3> QED
      BY <2>3, <2>5, <3>1
  <2> QED
    BY <2>3, <2>6 DEF Q
<1>14. \A k \in 0..n : f[k] \in {1}
  <2>1. \A k \in 1..n : f[k - 1] \in {1} => f[k] \in {1}
    <3> HIDE DEF Right
    <3> TAKE k \in 1..n
    <3>1. k - 1 \in 0..n /\ k \in 0..n
      BY <1>1
    <3> QED
      BY <3>1, <1>13
  <2>2. f[0] \in {1}
    BY <1>1, <1>12
  <2> HIDE DEF f
  <2> QED
    BY <1>1, <2>1, <2>2, StepsStay
<1>15. Right(n)
  <2>1. n \in 0..n
    BY <1>1
  <2> HIDE DEF n, Right
  <2>2. f[n] = IF Right(n) THEN 1 ELSE 0
    BY <2>1
  <2>3. f[n] \in {1}
    BY <1>14, <2>1
  <2> QED
    BY <2>2, <2>3
<1>16. DrivesOK(T) /\ SameSet(S, T)
  BY <1>9, <1>15 DEF Good
<1>17. \A m \in ToSet(S.opened) : Through(T, m)
  BY <1>1, <1>9, <1>15 DEF ToSet
<1>18. Freed(T)
  BY <1>16, <1>17, AllThrough DEF SameSet
<1> QED
  BY <1>16, <1>17, <1>18

\* The loop over the numbers reaches all of them.
LEMMA LastNumber ==
    /\ Max(Number \cup {0}) \in Nat
    /\ \A n \in Number : n \in 1..Max(Number \cup {0})
<1> DEFINE N == Number \cup {0}
<1>1. IsFiniteSet(N) /\ N \subseteq Nat
  BY MediaAssumption, FS_AddElement
<1>2. PICK b \in Nat : N \subseteq 0..b
  BY <1>1, BoundExists
<1>3. N # {}
  OBVIOUS
<1> HIDE DEF N
<1>4. Max(N) \in N /\ \A k \in N : k <= Max(N)
  BY <1>2, <1>3, LargestExists
<1>5. Max(N) \in Nat
  BY <1>1, <1>4
<1>6. \A n \in Number : n \in N /\ n \in Nat \ {0}
  BY MediaAssumption DEF N
<1> QED
  BY <1>4, <1>5, <1>6 DEF N

\* A failure leaves the handler as it is, and the disc mounted.
LEMMA FailedOK ==
    ASSUME NEW S, DrivesOK(S), NEW n \in Number, ReleaseFails(S, n), NEW T, T = Release(S, n)
    PROVE  DrivesOK(T) /\ SameSet(S, T)
<1> DEFINE C == CheckAttached(S, n)
           B == {C.hd[n].src}
<1>1. DrivesOK(C) /\ CheckedAs(S, C, n) /\ C.hd[n].src # 0
  BY CheckedOK DEF ReleaseFails, IsAttached
<1>2. /\ T = IF ~C.hd[n].own \/ Sharing(C, n) # {} THEN Dropped(C, n)
             ELSE IF ReleaseFails(S, n) THEN [C EXCEPT !.left = @ \cup B]
             ELSE Unmounted(Dropped(C, n), C.hd[n].src)
  BY DEF Release
<1> HIDE DEF C
<1>3. C.hd[n].own
  BY <1>1 DEF CheckedAs, ReleaseFails
<1>4. Sharing(C, n) \subseteq Sharing(S, n)
  BY <1>1 DEF CheckedAs, Sharing, SameHandler
<1>5. T = [C EXCEPT !.left = @ \cup B]
  BY <1>2, <1>3, <1>4 DEF ReleaseFails
<1>6. B \in SUBSET Drive
  <2>1. C \in MediaType
    BY <1>1 DEF CheckedAs
  <2> QED
    BY <1>1, <2>1, MediaFields
<1> HIDE DEF B
<1>7. DrivesBut(C, {}, {})
  BY <1>1 DEF DrivesOK
<1>8. DrivesBut(T, {}, {}) /\ SameSet(C, T)
  BY <1>5, <1>6, <1>7, LeftOK
<1> QED
  BY <1>1, <1>8 DEF DrivesOK, CheckedAs, SameSet

\* Handlers are closed, and nothing else of the set changes.
Closes(S, T) ==
    /\ ToSet(T.opened) \subseteq ToSet(S.opened) /\ T.saved = S.saved
    /\ T.machine = S.machine /\ T.busy = S.busy /\ T.got = S.got

LEMMA CloseOK ==
    ASSUME NEW S, DrivesOK(S), NEW n \in Number, NEW T, T = Close(S, n)
    PROVE  /\ DrivesOK(T) /\ Closes(S, T) /\ OthersAs(S, T, n) /\ LeavesMounts(S, T)
           /\ T.hd[n].src # 0 => T.hd[n].src \in T.left /\ IsMounted(T, n)
           /\ ReleaseFails(S, n) => T.opened = S.opened
           /\ ~ReleaseFails(S, n) => n \notin ToSet(T.opened) /\ T.hd[n] = Closed
<1> DEFINE R == Release(S, n)
           X == {n}
<1>1. DrivesBut(R, X, {}) /\ ReleasedAs(S, R, n) /\ (~ReleaseFails(S, n) => R.hd[n].src = 0)
  <2>1. X \in SUBSET {n} /\ n \in X
    OBVIOUS
  <2> HIDE DEF X
  <2> QED
    BY <2>1, ReleaseOK
<1>2. CASE ReleaseFails(S, n)
  <2>1. T = R
    BY <1>2 DEF Close
  <2>2. DrivesOK(T) /\ SameSet(S, T)
    BY <1>2, <2>1, FailedOK
  <2> HIDE DEF R
  <2> QED
    BY <1>1, <1>2, <2>1, <2>2 DEF Closes, SameSet, ReleasedAs
<1>3. CASE ~ReleaseFails(S, n)
  <2> DEFINE U == [R EXCEPT !.hd[n] = Closed]
             s == RemoveFirst(R.opened, n)
  <2>1. T = [U EXCEPT !.opened = s]
    BY <1>3 DEF Close
  <2> HIDE DEF R
  <2>2. R \in MediaType /\ HandlerOK(R, n) /\ R.hd[n].src = 0
    BY <1>1, <1>3 DEF DrivesBut
  <2>3. R.opened \in Seq(Number) /\ IsInjective(R.opened)
    BY <1>1, <2>2, MediaFields DEF DrivesBut
  <2>4. U \in MediaType /\ U.hd[n] = Closed /\ \A k \in Number \ {n} : U.hd[k] = R.hd[k]
    BY <2>2, ClosedFields, HandlerChanged
  <2>5. /\ SameSet(R, U) /\ U.drive = R.drive /\ U.left = R.left /\ U.pulled = R.pulled
        /\ U.doubt = R.doubt
    BY <2>2 DEF MediaType, SameSet
  <2>6. s \in Seq(Number) /\ IsInjective(s) /\ ToSet(s) = ToSet(R.opened) \ {n}
    BY <2>3, FirstRemoved
  <2> HIDE DEF U, s
  <2>7. DrivesBut(U, X, {})
    <3>1. \A k \in Number \ {n} : SameHandler(R, U, k)
      BY <2>4, <2>5 DEF SameHandler
    <3>2. HandlerOK(U, n)
      <4>1. Sharing(U, n) = {}
        BY <2>4, ClosedFields DEF Sharing
      <4> QED
        BY <2>2, <2>4, <2>5, <4>1, ClosedFields DEF HandlerOK
    <3>3. ~R.hd[n].own /\ n \in X
      BY <2>2 DEF HandlerOK
    <3> HIDE DEF X
    <3> QED
      BY <1>1, <2>4, <2>5, <3>1, <3>2, <3>3, OneHandler DEF SameSet
  <2>8. /\ T \in MediaType /\ T.opened = s /\ T.drive = U.drive /\ T.hd = U.hd
        /\ T.left = U.left /\ T.pulled = U.pulled /\ T.doubt = U.doubt
        /\ T.saved = U.saved /\ T.machine = U.machine /\ T.busy = U.busy /\ T.got = U.got
    BY <2>1, <2>4, <2>6 DEF MediaType
  <2>9. ToSet(T.opened) = ToSet(U.opened) \ {n}
    BY <2>5, <2>6, <2>8 DEF SameSet
  <2>10. ASSUME NEW k \in Number
         PROVE  HandlerOK(T, k) /\ TrustOK(T, k)
    <3>1. HandlerOK(U, k) /\ (k # n => TrustOK(U, k))
      BY <2>7 DEF DrivesBut
    <3>2. (IsMounted(T, k) <=> IsMounted(U, k)) /\ Sharing(T, k) = Sharing(U, k)
      BY <2>8 DEF IsMounted, Sharing
    <3>3. HandlerOK(T, k)
      BY <2>4, <2>8, <2>9, <3>1, <3>2 DEF HandlerOK
    <3>4. CASE k = n
      BY <2>4, <2>8, <2>9, <3>3, <3>4, ClosedFields DEF TrustOK
    <3>5. CASE k # n
      BY <2>8, <2>9, <3>1, <3>2, <3>3, <3>5 DEF TrustOK
    <3> QED
      BY <3>3, <3>4, <3>5
  <2>11. OwnedOK(T, {})
    BY <2>7, <2>8 DEF DrivesBut, OwnedOK, Holders
  <2>12. DrivesOK(T)
    BY <2>6, <2>8, <2>10, <2>11 DEF DrivesOK, DrivesBut
  <2>13. Closes(S, T)
    BY <1>1, <2>5, <2>8, <2>9 DEF Closes, SameSet, ReleasedAs
  <2>14. OthersAs(S, T, n) /\ LeavesMounts(S, T)
    <3>1. \A k \in Number \ {n} : T.hd[k] = R.hd[k] /\ (IsMounted(T, k) <=> IsMounted(R, k))
      BY <2>4, <2>5, <2>8 DEF IsMounted
    <3>2. T.left = R.left /\ T.drive = R.drive
      BY <2>5, <2>8
    <3> QED
      BY <1>1, <3>1, <3>2 DEF ReleasedAs, OthersAs, LeavesMounts
  <2> QED
    BY <1>3, <2>4, <2>8, <2>9, <2>12, <2>13, <2>14, ClosedFields
<1> QED
  BY <1>2, <1>3

\* How far a loop has come that ends with the first failure.
ProgressType == [S : MediaType, failed : BOOLEAN]

Passed(acc, n) ==
    acc.S.hd[n].src # 0 =>
        acc.S.hd[n].src \in acc.S.left /\ (acc.failed \/ IsMounted(acc.S, n))

LEMMA UntilFailureOK ==
    ASSUME NEW acc \in ProgressType, DrivesOK(acc.S), NEW n \in Number, NEW what,
           NEW new, new = UntilFailure(acc, n, what)
    PROVE  /\ new \in ProgressType /\ DrivesOK(new.S) /\ Closes(acc.S, new.S)
           /\ Passed(new, n)
           /\ \A k \in Number \ {n} : Passed(acc, k) => Passed(new, k)
<1> DEFINE A == acc.S
<1>1. A \in MediaType /\ acc.failed \in BOOLEAN
  BY DEF ProgressType
<1>2. CASE acc.failed
  <2> DEFINE B == {A.hd[n].src} \ {0}
             T == [A EXCEPT !.left = @ \cup B]
  <2>1. new = [acc EXCEPT !.S.left = @ \cup B]
    BY <1>2 DEF UntilFailure
  <2>2. new = [acc EXCEPT !.S = T]
    BY <2>1
  <2>3. B \in SUBSET Drive /\ DrivesBut(A, {}, {})
    BY <1>1, MediaFields DEF DrivesOK
  <2> HIDE DEF B
  <2>4. /\ DrivesBut(T, {}, {}) /\ SameSet(A, T) /\ T.drive = A.drive /\ T.hd = A.hd
        /\ T.left = A.left \cup B
    BY <2>3, LeftOK
  <2> HIDE DEF T, A
  <2>5. T \in MediaType
    BY <2>4 DEF DrivesBut
  <2>6. new \in ProgressType /\ new.S = T /\ new.failed
    BY <1>2, <2>2, <2>5 DEF ProgressType
  <2>7. Passed(new, n)
    BY <2>4, <2>6 DEF Passed, B
  <2>8. \A k \in Number \ {n} : Passed(acc, k) => Passed(new, k)
    BY <2>4, <2>6 DEF Passed, A
  <2>9. DrivesOK(new.S) /\ Closes(acc.S, new.S)
    BY <2>4, <2>6 DEF DrivesOK, Closes, SameSet, A
  <2> QED
    BY <2>6, <2>7, <2>8, <2>9
<1>3. CASE ~acc.failed
  <2> DEFINE T == IF what = "close" THEN Close(A, n) ELSE ReleaseNumber(A, n)
  <2>1. new = [S |-> T, failed |-> ReleaseFails(A, n)]
    BY <1>3 DEF UntilFailure
  <2>2. /\ DrivesOK(T) /\ Closes(A, T) /\ OthersAs(A, T, n) /\ LeavesMounts(A, T)
        /\ T.hd[n].src # 0 => T.hd[n].src \in T.left /\ IsMounted(T, n)
    <3>1. CASE what = "close"
      BY <3>1, CloseOK
    <3>2. CASE what # "close"
      <4>1. DrivesOK(T) /\ ReleasedAs(A, T, n)
        BY <3>2, ReleaseNumberOK
      <4> HIDE DEF T
      <4> QED
        BY <4>1 DEF ReleasedAs, Closes, SameSet
    <3> QED
      BY <3>1, <3>2
  <2> HIDE DEF T
  <2>3. new.S = T /\ T \in MediaType /\ new \in ProgressType
    BY <2>1, <2>2 DEF ProgressType, DrivesOK, DrivesBut, ReleaseFails, IsAttached
  <2>4. Passed(new, n)
    BY <2>2, <2>3 DEF Passed
  <2>5. ASSUME NEW k \in Number \ {n}, Passed(acc, k), T.hd[k].src # 0
        PROVE  T.hd[k].src \in T.left /\ IsMounted(T, k)
    <3>1. T.hd[k].src = A.hd[k].src /\ (IsMounted(A, k) => IsMounted(T, k))
      BY <2>2 DEF OthersAs
    <3>2. A.hd[k].src \in A.left /\ IsMounted(A, k)
      BY <1>3, <2>5, <3>1 DEF Passed
    <3>3. T.hd[k].place # "no"
      BY <2>2, <2>5 DEF DrivesOK, DrivesBut, HandlerOK
    <3> QED
      BY <2>2, <3>1, <3>2, <3>3 DEF LeavesMounts, IsMounted
  <2>6. \A k \in Number \ {n} : Passed(acc, k) => Passed(new, k)
    BY <2>3, <2>5 DEF Passed
  <2> QED
    BY <2>2, <2>3, <2>4, <2>6
<1> QED
  BY <1>1, <1>2, <1>3

\* After a loop over the set nothing of ours is mounted but what is left behind.
LEMMA UpToFailureOK ==
    ASSUME NEW S, DrivesOK(S), NEW what, NEW T, T = UpToFailure(S, what)
    PROVE  DrivesOK(T) /\ Closes(S, T) /\ Freed(T)
<1> DEFINE last == Max(Number \cup {0})
           open == ToSet(S.opened)
           base == [S |-> S, failed |-> FALSE]
           Good == {acc \in ProgressType : DrivesOK(acc.S) /\ Closes(S, acc.S)}
           Next(acc, k) == IF k \in open THEN UntilFailure(acc, k, what) ELSE acc
           after[k \in 0 .. last] ==
               IF k = 0 THEN base
               ELSE IF k \in open THEN UntilFailure(after[k - 1], k, what)
               ELSE after[k - 1]
           G == [p \in Good \X (1..last) |-> Next(p[1], p[2])]
<1>1. /\ S \in MediaType /\ open \subseteq Number
      /\ last \in Nat /\ \A n \in Number : n \in 1..last
  <2>1. S \in MediaType
    BY DEF DrivesOK, DrivesBut
  <2>2. S.opened \in Seq(Number)
    BY <2>1, MediaFields
  <2> QED
    BY <2>1, <2>2, Members, LastNumber
<1>2. T = after[last].S
  BY DEF UpToFailure
<1> HIDE DEF last, open
<1>3. base \in Good
  BY <1>1 DEF Closes, ProgressType
<1>4. ASSUME NEW acc \in Good, NEW k \in 1..last
      PROVE  /\ Next(acc, k) \in Good
             /\ k \in Number => Passed(Next(acc, k), k)
             /\ \A i \in Number \ {k} : Passed(acc, i) => Passed(Next(acc, k), i)
  <2>1. acc \in ProgressType /\ DrivesOK(acc.S) /\ Closes(S, acc.S)
    OBVIOUS
  <2>2. CASE k \in open
    <3> DEFINE new == UntilFailure(acc, k, what)
    <3>1. Next(acc, k) = new /\ k \in Number
      BY <1>1, <2>2
    <3>2. /\ new \in ProgressType /\ DrivesOK(new.S) /\ Closes(acc.S, new.S)
          /\ Passed(new, k)
          /\ \A i \in Number \ {k} : Passed(acc, i) => Passed(new, i)
      BY <2>1, <3>1, UntilFailureOK
    <3> HIDE DEF new, Next
    <3>3. Closes(S, new.S)
      BY <2>1, <3>2 DEF Closes
    <3> QED
      BY <3>1, <3>2, <3>3
  <2>3. CASE k \notin open
    <3>1. Next(acc, k) = acc
      BY <2>3
    <3>2. ASSUME k \in Number
          PROVE  Passed(acc, k)
      <4>1. k \notin ToSet(acc.S.opened)
        BY <2>1, <2>3 DEF Closes, open
      <4>2. acc.S.hd[k] = Closed
        BY <2>1, <3>2, <4>1 DEF DrivesOK, DrivesBut, HandlerOK
      <4> QED
        BY <4>2, ClosedFields DEF Passed
    <3> HIDE DEF Good, Next
    <3> QED
      BY <3>1, <3>2
  <2> QED
    BY <2>2, <2>3
<1> HIDE DEF Good, base
<1>5. G \in [Good \X (1..last) -> Good]
  <2>1. \A p \in Good \X (1..last) : Next(p[1], p[2]) \in Good
    <3> HIDE DEF Next
    <3> QED
      BY <1>4
  <2> HIDE DEF Next
  <2> QED
    BY <2>1
<1>6. PICK g : StepsOf(g, last, Good, base, G)
  <2> HIDE DEF G
  <2> QED
    BY <1>1, <1>3, <1>5, StepsExist
<1>7. g \in [0..last -> Good] /\ g[0] = base
      /\ \A k \in 1..last : g[k] = Next(g[k - 1], k)
  <2> HIDE DEF Next
  <2>1. g \in [0..last -> Good] /\ g[0] = base /\ \A k \in 1..last : g[k] = G[<<g[k - 1], k>>]
    BY <1>6 DEF StepsOf
  <2>2. ASSUME NEW k \in 1..last
        PROVE  g[k] = Next(g[k - 1], k)
    <3>1. k - 1 \in 0..last
      BY <1>1
    <3>2. <<g[k - 1], k>> \in Good \X (1..last)
      BY <2>1, <3>1
    <3> QED
      BY <2>1, <3>2
  <2> QED
    BY <2>1, <2>2
<1> DEFINE e(k) == IF k = 0 THEN base ELSE IF k \in open THEN UntilFailure(g[k - 1], k, what)
                   ELSE g[k - 1]
<1>8. g = [k \in 0..last |-> e(k)]
  <2>1. \A k \in 0..last : g[k] = e(k)
    <3> TAKE k \in 0..last
    <3>1. CASE k = 0
      BY <1>7, <3>1
    <3>2. CASE k # 0
      <4>1. k \in 1..last
        BY <1>1, <3>2
      <4> QED
        BY <1>7, <3>2, <4>1
    <3> QED
      BY <3>1, <3>2
  <2> HIDE DEF e
  <2> QED
    BY <1>7, <2>1
<1>9. after = [k \in 0..last |-> IF k = 0 THEN base
                                 ELSE IF k \in open THEN UntilFailure(after[k - 1], k, what)
                                 ELSE after[k - 1]]
  BY <1>8
<1> HIDE DEF after, G, e
<1> DEFINE a(k) == IF k = 0 THEN base ELSE Next(after[k - 1], k)
<1>10. after[0] = base /\ \A k \in 1..last : after[k] = Next(after[k - 1], k)
  <2>1. after = [k \in 0..last |-> a(k)]
    BY <1>9
  <2>2. \A k \in 0..last : after[k] = a(k)
    <3> HIDE DEF a
    <3> QED
      BY <2>1
  <2>3. 0 \in 0..last /\ \A k \in 1..last : k \in 0..last /\ k # 0
    BY <1>1
  <2> HIDE DEF Next
  <2> QED
    BY <2>2, <2>3
<1> HIDE DEF a, Next
<1> DEFINE Right(k) == after[k] \in Good /\ \A i \in Number : i <= k => Passed(after[k], i)
           f == [k \in 0..last |-> IF Right(k) THEN 1 ELSE 0]
<1>11. Right(0)
  <2>1. \A i \in Number : ~(i <= 0)
    BY MediaAssumption
  <2> QED
    BY <1>3, <1>10, <2>1
<1>12. ASSUME NEW k \in 1..last, Right(k - 1)
       PROVE  Right(k)
  <2> DEFINE acc == after[k - 1]
  <2>1. acc \in Good /\ after[k] = Next(acc, k)
    BY <1>10, <1>12
  <2>2. \A i \in Number : i <= k - 1 => Passed(acc, i)
    BY <1>12
  <2> HIDE DEF acc
  <2>3. ASSUME NEW i \in Number, i <= k
        PROVE  Passed(Next(acc, k), i)
    <3>1. CASE i = k
      BY <1>4, <2>1, <3>1
    <3>2. CASE i # k
      <4>1. i <= k - 1
        BY <1>1, <2>3, <3>2, MediaAssumption
      <4> QED
        BY <1>4, <2>1, <2>2, <3>2, <4>1
    <3> QED
      BY <3>1, <3>2
  <2> QED
    BY <1>4, <2>1, <2>3
<1>13. \A k \in 0..last : f[k] \in {1}
  <2>1. \A k \in 1..last : f[k - 1] \in {1} => f[k] \in {1}
    <3> HIDE DEF Right
    <3> TAKE k \in 1..last
    <3>1. k - 1 \in 0..last /\ k \in 0..last
      BY <1>1
    <3> QED
      BY <3>1, <1>12
  <2>2. f[0] \in {1}
    BY <1>1, <1>11
  <2> HIDE DEF f
  <2> QED
    BY <1>1, <2>1, <2>2, StepsStay
<1>14. Right(last)
  <2>1. last \in 0..last
    BY <1>1
  <2> HIDE DEF Right
  <2>2. f[last] = IF Right(last) THEN 1 ELSE 0
    BY <2>1
  <2>3. f[last] \in {1}
    BY <1>13, <2>1
  <2> QED
    BY <2>2, <2>3
<1>15. DrivesOK(T) /\ Closes(S, T)
  BY <1>2, <1>14 DEF Good
<1>16. \A i \in Number : T.hd[i].src # 0 => T.hd[i].src \in T.left
  BY <1>1, <1>2, <1>14 DEF Passed
<1>17. Freed(T)
  BY <1>15, <1>16 DEF Freed, DrivesOK, DrivesBut, OwnedOK, Holders, Drive
<1> QED
  BY <1>15, <1>17

\* Whether somebody uses a disc, what is saved and what was got is nothing to the
\* drives.
LEMMA SameDrives ==
    ASSUME NEW S, DrivesOK(S), NEW T, T \in MediaType, T.opened = S.opened, T.drive = S.drive,
           T.hd = S.hd, T.left = S.left, T.pulled = S.pulled, T.doubt = S.doubt
    PROVE  DrivesOK(T) /\ \A n \in Number : IsMounted(T, n) <=> IsMounted(S, n)
  BY DEF DrivesOK, DrivesBut, HandlerOK, TrustOK, IsMounted, Sharing, OwnedOK, Holders

LEMMA ForceEjectOK ==
    ASSUME NEW S, DrivesOK(S), NEW d \in Drive, NEW T, T = ForceEject(S, d)
    PROVE  DrivesOK(T) /\ SameSet(S, T)
<1>1. CASE T = S
  BY <1>1 DEF SameSet
<1>2. CASE T # S
  <2>1. T = Unmounted(S, d) /\ Holders(S, d) = {}
    BY <1>2 DEF ForceEject, Holders
  <2>2. DrivesBut(S, {}, {})
    BY DEF DrivesOK
  <2>3. DrivesBut(T, {}, {}) /\ SameSet(S, T)
    BY <2>1, <2>2, UnmountedOK
  <2> QED
    BY <2>3 DEF DrivesOK
<1> QED
  BY <1>1, <1>2

LEMMA EjectOK ==
    ASSUME NEW S, DrivesOK(S), NEW n \in Number, NEW d \in Drive, NEW T, T = Eject(S, n, d)
    PROVE  DrivesOK(T) /\ SameSet(S, T)
<1> DEFINE A == ReleaseAll(S)
           R == Undesired(A, n)
<1>1. /\ DrivesOK(R) /\ SameSet(S, R) /\ ~R.hd[n].desired
      /\ n \in ToSet(S.opened) => R.hd[n].src = 0 \/ R.hd[n].src \in R.left
  <2>1. /\ DrivesOK(A) /\ SameSet(S, A)
        /\ \A k \in ToSet(S.opened) : Through(A, k)
    BY ReleaseAllOK
  <2> HIDE DEF A
  <2>2. DrivesOK(R) /\ SameSet(A, R) /\ R.left = A.left /\ ~R.hd[n].desired
    BY <2>1, UndesiredOK
  <2>3. R.hd[n].src = A.hd[n].src
    <3>1. A \in MediaType /\ A.hd[n] \in HandlerType
      BY <2>1, MediaFields DEF DrivesOK, DrivesBut
    <3>2. A.hd \in [Number -> HandlerType]
      BY <3>1 DEF MediaType
    <3> QED
      BY <3>1, <3>2 DEF Undesired, MediaType, HandlerType
  <2> QED
    BY <2>1, <2>2, <2>3 DEF Through, SameSet
<1>2. T = IF R.hd[n].src = 0 THEN ForceEject(CheckAll(R), d)
          ELSE IF d # R.hd[n].src /\ R.drive[d].mounted = "no" THEN Dropped(R, n)
          ELSE R
  BY DEF Eject
<1> HIDE DEF A, R
<1>3. CASE R.hd[n].src = 0
  <2> DEFINE C == CheckAll(R)
  <2>1. DrivesOK(C) /\ SameSet(R, C)
    BY <1>1, CheckAllOK
  <2>2. T = ForceEject(C, d)
    BY <1>2, <1>3
  <2> HIDE DEF C
  <2>3. DrivesOK(T) /\ SameSet(C, T)
    BY <2>1, <2>2, ForceEjectOK
  <2> QED
    BY <1>1, <2>1, <2>3 DEF SameSet
<1>4. CASE R.hd[n].src # 0 /\ T = Dropped(R, n)
  <2>1. n \in ToSet(S.opened)
    BY <1>1, <1>4, ClosedFields DEF DrivesOK, DrivesBut, HandlerOK, SameSet
  <2>2. R.hd[n].src \in R.left /\ ~R.hd[n].desired
    BY <1>1, <1>4, <2>1
  <2>3. DrivesBut(R, {}, {}) /\ R \in MediaType
    BY <1>1 DEF DrivesOK, DrivesBut
  <2>4. DrivesBut(T, {}, {})
    BY <1>4, <2>2, <2>3, DroppedOK
  <2>5. R \in MediaType
    BY <2>3
  <2>6. SameSet(R, T)
    BY <1>4, <2>5, DroppedIs
  <2> QED
    BY <1>1, <2>4, <2>6 DEF DrivesOK, SameSet
<1>5. CASE T = R
  BY <1>1, <1>5
<1> QED
  BY <1>2, <1>3, <1>4, <1>5

\* A skipped drive: the mount that nobody holds any more is known to be left.
LEMMA ReleaseReferencedOK ==
    ASSUME NEW S, DrivesOK(S), NEW n \in Number, ~S.hd[n].desired,
           NEW T, T = ReleaseReferenced(S, n)
    PROVE  DrivesOK(T) /\ SameSet(S, T) /\ T.hd[n].src = 0
<1> DEFINE C == CheckAttached(S, n)
           B == {C.hd[n].src}
           L == [C EXCEPT !.left = @ \cup B]
<1>1. DrivesOK(C) /\ CheckedAs(S, C, n)
  BY CheckedOK
<1>2. /\ C.hd[n].own /\ Sharing(C, n) = {} => T = Dropped(L, n)
      /\ ~(C.hd[n].own /\ Sharing(C, n) = {}) => T = Dropped(C, n)
  BY DEF ReleaseReferenced
<1> HIDE DEF C
<1>3. C \in MediaType /\ SameSet(S, C) /\ ~C.hd[n].desired /\ DrivesBut(C, {}, {})
  BY <1>1 DEF CheckedAs, DrivesOK
<1>4. CASE C.hd[n].own /\ Sharing(C, n) = {}
  <2>1. B \in SUBSET Drive
    BY <1>1, <1>3, <1>4, MediaFields DEF CheckedAs
  <2>2. /\ DrivesBut(L, {}, {}) /\ SameSet(C, L) /\ L.hd = C.hd /\ L.left = C.left \cup B
    <3> HIDE DEF B
    <3> QED
      BY <1>3, <2>1, LeftOK
  <2>3. T = Dropped(L, n)
    BY <1>2, <1>4
  <2>4. L.hd[n].src \in L.left /\ ~L.hd[n].desired
    BY <1>3, <2>2
  <2> HIDE DEF L
  <2>5. DrivesBut(T, {}, {})
    BY <2>2, <2>3, <2>4, DroppedOK
  <2>6. L \in MediaType
    BY <2>2 DEF DrivesBut
  <2>7. SameSet(L, T) /\ T.hd[n].src = 0
    BY <2>3, <2>6, DroppedIs
  <2> QED
    BY <1>3, <2>2, <2>5, <2>7 DEF DrivesOK, SameSet
<1>5. CASE ~(C.hd[n].own /\ Sharing(C, n) = {})
  <2>1. T = Dropped(C, n)
    BY <1>2, <1>5
  <2>2. DrivesBut(T, {}, {})
    BY <1>3, <1>5, <2>1, DroppedOK
  <2>3. C \in MediaType
    BY <1>3
  <2>4. SameSet(C, T) /\ T.hd[n].src = 0
    BY <2>1, <2>3, DroppedIs
  <2> QED
    BY <1>3, <2>2, <2>4 DEF DrivesOK, SameSet
<1> QED
  BY <1>4, <1>5

LEMMA CheckDesiredOK ==
    ASSUME NEW S, DrivesOK(S), NEW n \in ToSet(S.opened), n \in Number, IsMounted(S, n),
           NEW T, T = CheckDesired(S, n)
    PROVE  DrivesOK(T) /\ SameSet(S, T) /\ IsMounted(T, n) /\ T.doubt = S.doubt
<1> DEFINE h == [S.hd[n] EXCEPT !.desired = @ \/ ~S.hd[n].verifier \/ Read(S, n) = n]
<1>1. S \in MediaType /\ HandlerOK(S, n) /\ TrustOK(S, n) /\ S.hd[n] \in HandlerType
  BY MediaFields DEF DrivesOK, DrivesBut
<1>2. T = [S EXCEPT !.hd[n] = h]
  BY DEF CheckDesired
<1>3. /\ h \in HandlerType /\ h.src = S.hd[n].src /\ h.own = S.hd[n].own
      /\ h.place = S.hd[n].place /\ h.seen = S.hd[n].seen
      /\ h.verifier = S.hd[n].verifier
      /\ h.desired <=> S.hd[n].desired \/ ~S.hd[n].verifier \/ Read(S, n) = n
  BY <1>1 DEF HandlerType
<1> HIDE DEF h
<1>4. T \in MediaType /\ T.hd[n] = h /\ \A k \in Number \ {n} : T.hd[k] = S.hd[k]
  BY <1>1, <1>2, <1>3, HandlerChanged
<1>5. /\ SameSet(S, T) /\ T.drive = S.drive /\ T.left = S.left
      /\ T.pulled = S.pulled /\ T.doubt = S.doubt
  BY <1>1, <1>2 DEF MediaType, SameSet
<1>6. \A k \in Number \ {n} : SameHandler(S, T, k)
  BY <1>4, <1>5 DEF SameHandler
<1>7. IsMounted(T, n)
  BY <1>3, <1>4, <1>5 DEF IsMounted
<1>8. Sharing(T, n) = Sharing(S, n) /\ Sharing(S, n) \subseteq Number \ {n}
  BY <1>3, <1>4 DEF Sharing
<1>9. HandlerOK(T, n)
  <2>1. \A k \in Sharing(T, n) : T.hd[k].own = T.hd[n].own
    BY <1>1, <1>3, <1>4, <1>8 DEF HandlerOK
  <2> QED
    BY <1>1, <1>3, <1>4, <1>5, <1>7, <2>1 DEF HandlerOK, SameSet
<1>10. TrustOK(T, n)
  BY <1>1, <1>3, <1>4, <1>5, <1>7 DEF TrustOK, SameSet, Read
<1>11. S.hd[n].own => n \in Holders(T, S.hd[n].src) /\ T.hd[n].own
  BY <1>3, <1>4 DEF Holders
<1>12. DrivesOK(T)
  BY <1>4, <1>5, <1>6, <1>9, <1>10, <1>11, OneHandler DEF SameSet, DrivesOK
<1> QED
  BY <1>5, <1>7, <1>12

\* A new handler asks the verifier that was saved, or is in doubt.
LEMMA GetMediaAccessIdOK ==
    ASSUME NEW S, DrivesOK(S), NEW n \in Number, NEW T, T = GetMediaAccessId(S, n)
    PROVE  DrivesOK(T) /\ n \in ToSet(T.opened) /\ T.got = S.got
<1>1. CASE n \in ToSet(S.opened)
  BY <1>1 DEF GetMediaAccessId
<1>2. CASE n \notin ToSet(S.opened)
  <2> DEFINE s == Append(S.opened, n)
             saved == S.saved \ {n}
             more == S.doubt \cup {n}
             V == [S EXCEPT !.opened = s, !.saved = saved, !.doubt = more]
             h == [S.hd[n] EXCEPT !.verifier = n \in S.saved]
             f == [S.hd EXCEPT ![n] = h]
             q == IF n \in S.saved THEN S.doubt \ {n} ELSE S.doubt \cup {n}
  <2>1. S \in MediaType /\ IsInjective(S.opened) /\ HandlerOK(S, n)
    BY DEF DrivesOK, DrivesBut
  <2>2. S.opened \in Seq(Number) /\ S.hd[n] = Closed /\ n \notin S.pulled
    BY <1>2, <2>1, MediaFields, ClosedFields DEF HandlerOK
  <2>3. s \in Seq(Number) /\ IsInjective(s) /\ ToSet(s) = ToSet(S.opened) \cup {n}
    BY <1>2, <2>1, <2>2, Appended
  <2>4. saved \in SUBSET Number /\ more \in SUBSET Number /\ q \in SUBSET Number
    BY <2>1, MediaFields
  <2>5. /\ h \in HandlerType /\ h.src = 0 /\ ~h.own /\ h.place = "no" /\ h.seen = "never"
        /\ ~h.desired /\ (h.verifier <=> n \in S.saved)
    <3>1. S.hd[n] \in HandlerType /\ (n \in S.saved) \in BOOLEAN
      BY <2>2, ClosedFields
    <3>2. /\ h \in HandlerType /\ h.src = S.hd[n].src /\ h.own = S.hd[n].own
          /\ h.place = S.hd[n].place /\ h.seen = S.hd[n].seen /\ h.desired = S.hd[n].desired
          /\ h.verifier = (n \in S.saved)
      BY <3>1 DEF HandlerType
    <3> HIDE DEF h
    <3> QED
      BY <2>2, <3>2, ClosedFields
  <2>6. T = [S EXCEPT !.opened = s, !.hd = f, !.doubt = q, !.saved = saved]
    BY <1>2 DEF GetMediaAccessId
  <2> HIDE DEF h
  <2>7. f \in [Number -> HandlerType] /\ f[n] = h /\ \A k \in Number \ {n} : f[k] = S.hd[k]
    BY <2>1, <2>5, MediaFields
  <2>8. (n \in more) /\ (n \in q <=> n \notin S.saved)
        /\ \A k \in Number \ {n} : (k \in q <=> k \in S.doubt) /\ (k \in more <=> k \in S.doubt)
    OBVIOUS
  <2> HIDE DEF s, saved, more, f, q
  <2>9. /\ V \in MediaType /\ V.opened = s /\ V.drive = S.drive /\ V.hd = S.hd /\ V.left = S.left
        /\ V.pulled = S.pulled /\ V.doubt = more /\ V.got = S.got
    BY <2>1, <2>3, <2>4 DEF MediaType
  <2>10. /\ T \in MediaType /\ T.opened = s /\ T.drive = S.drive /\ T.hd = f /\ T.left = S.left
         /\ T.pulled = S.pulled /\ T.doubt = q /\ T.got = S.got
    BY <2>1, <2>3, <2>4, <2>6, <2>7 DEF MediaType
  <2> HIDE DEF V
  <2>11. ASSUME NEW k \in Number
         PROVE  HandlerOK(V, k) /\ TrustOK(V, k)
    <3>1. HandlerOK(S, k) /\ TrustOK(S, k)
      BY DEF DrivesOK, DrivesBut
    <3>2. (IsMounted(V, k) <=> IsMounted(S, k)) /\ Sharing(V, k) = Sharing(S, k)
      BY <2>9 DEF IsMounted, Sharing
    <3>3. HandlerOK(V, k)
      BY <2>3, <2>9, <3>1, <3>2 DEF HandlerOK
    <3>4. TrustOK(V, k)
      BY <2>3, <2>8, <2>9, <3>1, <3>2 DEF TrustOK
    <3> QED
      BY <3>3, <3>4
  <2>12. OwnedOK(V, {})
    BY <2>9 DEF DrivesOK, DrivesBut, OwnedOK, Holders
  <2>13. DrivesBut(V, {}, {})
    BY <2>3, <2>9, <2>11, <2>12 DEF DrivesBut
  <2>14. \A k \in Number \ {n} : SameHandler(V, T, k)
    BY <2>7, <2>8, <2>9, <2>10 DEF SameHandler
  <2>15. HandlerOK(T, n)
    <3>1. Sharing(T, n) = {}
      BY <2>5, <2>7, <2>10 DEF Sharing
    <3> QED
      BY <2>2, <2>3, <2>5, <2>7, <2>10, <3>1 DEF HandlerOK
  <2>16. TrustOK(T, n)
    BY <2>5, <2>7, <2>8, <2>10 DEF TrustOK
  <2>17. ~V.hd[n].own
    BY <2>2, <2>9, ClosedFields
  <2>18. DrivesBut(T, {}, {})
    BY <2>9, <2>10, <2>13, <2>14, <2>15, <2>16, <2>17, OneHandler
  <2> QED
    BY <2>3, <2>10, <2>18 DEF DrivesOK
<1> QED
  BY <1>1, <1>2

\* A handler is attached to a drive, the disc of which it shares or mounts.
LEMMA AttachDriveOK ==
    ASSUME NEW S, DrivesOK(S), NEW n \in ToSet(S.opened), n \in Number, NEW d \in Drive,
           S.hd[n].src = 0, \A k \in Number : S.hd[k].src # 0 => IsMounted(S, k),
           NEW T, T = AttachDrive(S, n, d)
    PROVE  DrivesOK(T) /\ SameSet(S, T) /\ IsMounted(T, n)
<1> DEFINE with == {k \in Number : S.hd[k].src = d}
<1>1. S \in MediaType /\ HandlerOK(S, n) /\ TrustOK(S, n) /\ S.hd[n] \in HandlerType /\ d # 0
  BY MediaFields DEF DrivesOK, DrivesBut, Drive
<1>2. S.hd[n].desired => n \in S.doubt
  BY <1>1 DEF TrustOK, IsMounted
<1>3. ~S.hd[n].own /\ S.hd[n].seen = "never" /\ n \notin S.pulled
  BY <1>1 DEF HandlerOK
<1>4. CASE with # {} \/ S.drive[d].mounted # "no"
  <2> DEFINE h == [S.hd[n] EXCEPT !.src = d, !.place = S.drive[d].mounted,
                                  !.own = \E k \in with : S.hd[k].own]
  <2>1. T = [S EXCEPT !.hd[n] = h]
    BY <1>4 DEF AttachDrive
  <2>2. S.drive[d].mounted \in Place
    BY <1>1, MediaFields
  <2>3. /\ h \in HandlerType /\ h.src = d /\ (h.own <=> \E k \in with : S.hd[k].own)
        /\ h.place = S.drive[d].mounted /\ h.seen = S.hd[n].seen
        /\ (h.desired <=> S.hd[n].desired) /\ (h.verifier <=> S.hd[n].verifier)
    BY <1>1, <2>2 DEF HandlerType
  <2> HIDE DEF h
  <2>4. T \in MediaType /\ T.hd[n] = h /\ \A k \in Number \ {n} : T.hd[k] = S.hd[k]
    BY <1>1, <2>1, <2>3, HandlerChanged
  <2>5. /\ SameSet(S, T) /\ T.drive = S.drive /\ T.left = S.left
        /\ T.pulled = S.pulled /\ T.doubt = S.doubt
    BY <1>1, <2>1 DEF MediaType, SameSet
  <2>6. \A k \in Number \ {n} : SameHandler(S, T, k)
    BY <2>4, <2>5 DEF SameHandler
  <2>7. IsMounted(T, n)
    BY <1>1, <2>3, <2>4, <2>5 DEF IsMounted
  <2>8. ASSUME NEW k \in with
        PROVE  /\ k \in Number /\ HandlerOK(S, k)
               /\ S.hd[k].place = S.drive[d].mounted /\ S.hd[k].place # "no"
    BY <1>1 DEF IsMounted, DrivesOK, DrivesBut, HandlerOK
  <2>9. \A j, k \in with : S.hd[j].own = S.hd[k].own
    <3> TAKE j, k \in with
    <3>1. CASE j # k
      <4>1. j \in Sharing(S, k)
        BY <1>1, <2>8, <3>1 DEF Sharing
      <4> QED
        BY <2>8, <4>1 DEF HandlerOK
    <3> QED
      BY <3>1
  <2>10. S.drive[d].mounted # "no" /\ (h.own => h.place = "ours")
    BY <1>4, <2>3, <2>8 DEF HandlerOK
  <2>11. \A k \in Sharing(T, n) : T.hd[k].own = h.own
    <3> TAKE k \in Sharing(T, n)
    <3>1. k \in Number \ {n} /\ T.hd[k] = S.hd[k] /\ k \in with
      BY <2>3, <2>4 DEF Sharing
    <3>2. S.hd[k].own \in BOOLEAN
      BY <1>1, <3>1, MediaFields
    <3>3. S.hd[k].own <=> h.own
      BY <2>3, <2>9, <3>1
    <3>4. h.own \in BOOLEAN
      BY <2>3 DEF HandlerType
    <3> QED
      BY <3>1, <3>2, <3>3, <3>4
  <2>12. HandlerOK(T, n)
    BY <1>1, <1>3, <2>3, <2>4, <2>5, <2>7, <2>10, <2>11 DEF HandlerOK, SameSet
  <2>13. TrustOK(T, n)
    BY <1>1, <1>2, <2>3, <2>4, <2>5 DEF TrustOK, SameSet
  <2>14. DrivesOK(T)
    BY <1>3, <2>4, <2>5, <2>6, <2>12, <2>13, OneHandler DEF SameSet, DrivesOK
  <2> QED
    BY <2>5, <2>7, <2>14
<1>5. CASE with = {} /\ S.drive[d].mounted = "no"
  <2> DEFINE M == Mounted(S, d, "ours")
             h == [M.hd[n] EXCEPT !.src = d, !.place = "ours", !.own = TRUE, !.seen = "now"]
             Y == {d}
  <2>1. T = [M EXCEPT !.hd[n] = h]
    BY <1>5 DEF AttachDrive
  <2>2. "ours" \in Place /\ DrivesBut(S, {}, {}) /\ Holders(S, d) = {}
    BY <1>5 DEF Place, DrivesOK, Holders
  <2>3. DrivesBut(M, {}, Y)
    BY <2>2, MountOK
  <2>4. S \in MediaType
    BY <1>1
  <2>5. /\ M \in MediaType /\ SameSet(S, M) /\ M.pulled = S.pulled /\ M.doubt = S.doubt
        /\ M.drive[d].mounted = "ours"
        /\ \A k \in Number : /\ M.hd[k].src = S.hd[k].src /\ M.hd[k].own = S.hd[k].own
                             /\ M.hd[k].desired = S.hd[k].desired
                             /\ M.hd[k].verifier = S.hd[k].verifier
    BY <2>2, <2>4, MountedIs
  <2> HIDE DEF M
  <2>6. /\ h \in HandlerType /\ h.src = d /\ h.own /\ h.place = "ours" /\ h.seen = "now"
        /\ h.desired = M.hd[n].desired /\ h.verifier = M.hd[n].verifier
    <3>1. M.hd[n] \in HandlerType
      BY <2>5, MediaFields
    <3> QED
      BY <3>1 DEF HandlerType, Place
  <2> HIDE DEF h
  <2>7. T \in MediaType /\ T.hd[n] = h /\ \A k \in Number \ {n} : T.hd[k] = M.hd[k]
    BY <2>1, <2>5, <2>6, HandlerChanged
  <2>8. /\ SameSet(M, T) /\ T.drive = M.drive /\ T.left = M.left
        /\ T.pulled = M.pulled /\ T.doubt = M.doubt
    BY <2>1, <2>5 DEF MediaType, SameSet
  <2>9. \A k \in Number \ {n} : SameHandler(M, T, k)
    BY <2>7, <2>8 DEF SameHandler
  <2>10. IsMounted(T, n)
    BY <1>1, <2>5, <2>6, <2>7, <2>8 DEF IsMounted
  <2>11. HandlerOK(T, n)
    <3>1. Sharing(T, n) = {}
      BY <1>5, <2>5, <2>6, <2>7 DEF Sharing
    <3>2. n \in ToSet(T.opened) /\ n \notin T.pulled
      BY <1>3, <2>5, <2>8 DEF SameSet
    <3> QED
      BY <1>1, <2>6, <2>7, <2>10, <3>1, <3>2 DEF HandlerOK
  <2>12. TrustOK(T, n)
    BY <1>1, <1>2, <2>5, <2>6, <2>7, <2>8 DEF TrustOK, SameSet
  <2>13. DrivesBut(T, {}, Y)
    <3>1. ~M.hd[n].own
      BY <1>3, <2>5
    <3> HIDE DEF Y
    <3> QED
      BY <2>3, <2>7, <2>8, <2>9, <2>11, <2>12, <3>1, OneHandler DEF SameSet
  <2>14. OwnedOK(T, {})
    <3>1. n \in Holders(T, d) /\ T.hd[n].own
      BY <2>6, <2>7 DEF Holders
    <3> QED
      BY <2>13, <3>1 DEF DrivesBut, OwnedOK
  <2> QED
    BY <2>5, <2>8, <2>10, <2>13, <2>14 DEF DrivesOK, DrivesBut, SameSet
<1> QED
  BY <1>4, <1>5

-----------------------------------------------------------------------------
(* Steps of the call.                                                        *)

LEMMA CallFields ==
    ASSUME op \in CallType
    PROVE  /\ op.pc \in {"idle", "open", "attach", "check", "next", "do", "failed", "ask", "gone"}
           /\ op.nr \in Number \cup {0} /\ op.what \in {"file", "exists"}
           /\ op.asks \in {"always", "wrong", "never"} /\ op.first \in BOOLEAN
           /\ op.tried \in 0 .. Drives /\ op.why \in {"wrong", "other"}
  BY DEF CallType

LEMMA CallAtIs ==
    ASSUME op \in CallType, NEW pc \in {"open", "attach", "check", "next", "do", "ask", "gone"},
           CallAt(pc)
    PROVE  op' \in CallType /\ op'.pc = pc /\ op'.nr = op.nr
<1>1. 0 \in 0 .. Drives
  BY MediaAssumption
<1> QED
  BY <1>1 DEF CallAt, CallType

LEMMA FailsIs ==
    ASSUME op \in CallType, NEW why \in {"wrong", "other"}, Fails(why)
    PROVE  op' \in CallType /\ op'.pc = "failed" /\ op'.nr = op.nr
<1>1. 0 \in 0 .. Drives
  BY MediaAssumption
<1> QED
  BY <1>1 DEF Fails, CallType

LEMMA NoCallIs == NoCall \in CallType /\ NoCall.pc = "idle"
<1>1. 0 \in 0 .. Drives
  BY MediaAssumption
<1> QED
  BY <1>1 DEF NoCall, CallType

\* What got is known of does not change with the drives.
LEMMA GotStays ==
    ASSUME WrongDiscIsKnown, ms'.got = ms.got
    PROVE  WrongDiscIsKnown'
  BY DEF WrongDiscIsKnown

\* While nobody is asked the invariant says nothing of what is mounted.
LEMMA NobodyAsked ==
    ASSUME op'.pc \notin {"ask", "gone"}
    PROVE  FreedForUser'
  BY DEF FreedForUser

LEMMA ProvideOK ==
    ASSUME MediaInv, NEW n \in Number, NEW what \in {"file", "exists"},
           NEW asks \in {"always", "wrong", "never"}, Provide(n, what, asks)
    PROVE  MediaInv'
<1>1. DrivesOK(ms) /\ ms \in MediaType
  BY DEF MediaInv, DrivesOK, DrivesBut
<1>2. Nothing \in [nr : Number \cup {0}, disc : Number \cup {0}, doubt : BOOLEAN]
      /\ Nothing.nr = 0 /\ Nothing.disc = 0
  BY DEF Nothing
<1>3. ms' = [ms EXCEPT !.got = Nothing]
  BY DEF Provide
<1> HIDE DEF Nothing
<1>4. /\ ms' \in MediaType /\ ms'.opened = ms.opened /\ ms'.drive = ms.drive /\ ms'.hd = ms.hd
      /\ ms'.left = ms.left /\ ms'.pulled = ms.pulled /\ ms'.doubt = ms.doubt
      /\ ms'.got = Nothing
  BY <1>1, <1>2, <1>3 DEF MediaType
<1>5. DrivesOK(ms')
  BY <1>1, <1>4, SameDrives
<1>6. op' \in CallType /\ op'.pc = "open" /\ op'.nr = n
  BY NoCallIs DEF Provide, CallType
<1>7. CallOK'
  BY <1>6 DEF CallOK
<1>8. FreedForUser'
  BY <1>6, NobodyAsked
<1>9. WrongDiscIsKnown'
  BY <1>2, <1>4 DEF WrongDiscIsKnown
<1> QED
  BY <1>5, <1>6, <1>7, <1>8, <1>9 DEF MediaInv

LEMMA OpenOK ==
    ASSUME MediaInv, Open
    PROVE  MediaInv'
<1> DEFINE n == op.nr
           S == GetMediaAccessId(ms, n)
<1>1. /\ DrivesOK(ms) /\ op \in CallType /\ n \in Number /\ WrongDiscIsKnown
  BY DEF MediaInv, CallOK, Open
<1>2. DrivesOK(S) /\ n \in ToSet(S.opened) /\ S.got = ms.got
  BY <1>1, GetMediaAccessIdOK
<1>3. ms' = CheckAttached(S, n)
      /\ CallAt(IF IsAttached(S, n) THEN "do" ELSE "attach")
  BY DEF Open
<1> HIDE DEF S, n
<1>4. DrivesOK(ms') /\ CheckedAs(S, ms', n)
  BY <1>1, <1>2, <1>3, CheckedOK
<1>5. IsAttached(S, n) <=> ms'.hd[n].src # 0
  BY <1>3 DEF IsAttached
<1>6. /\ op' \in CallType /\ op'.nr = n
      /\ ms'.hd[n].src # 0 => op'.pc = "do"
      /\ ms'.hd[n].src = 0 => op'.pc = "attach"
  BY <1>1, <1>3, <1>5, CallAtIs DEF n
<1>7. CallOK'
  BY <1>1, <1>2, <1>4, <1>6 DEF CallOK, CheckedAs, SameSet
<1>8. FreedForUser'
  BY <1>6, NobodyAsked
<1>9. WrongDiscIsKnown'
  BY <1>1, <1>2, <1>4, GotStays DEF CheckedAs, SameSet
<1> QED
  BY <1>4, <1>6, <1>7, <1>8, <1>9 DEF MediaInv

LEMMA AttachToOK ==
    ASSUME MediaInv, AttachTo
    PROVE  MediaInv'
<1> DEFINE n == op.nr
           S == CheckAll(ms)
           ok == {d \in Attachable(S) : op.pc = "next" => d > op.tried}
           d == Min(ok)
<1>1. /\ DrivesOK(ms) /\ op \in CallType /\ n \in Number /\ n \in ToSet(ms.opened)
      /\ ms.hd[n].src = 0 /\ WrongDiscIsKnown
  BY DEF MediaInv, CallOK, AttachTo
<1>2. /\ DrivesOK(S) /\ SameSet(ms, S)
      /\ \A k \in Number : S.hd[k].src # 0 => IsMounted(S, k) /\ S.hd[k].src = ms.hd[k].src
  BY <1>1, CheckAllOK
<1>3. \/ ok = {} /\ ms' = S /\ Fails("other")
      \/ /\ ok # {} /\ ms' = AttachDrive(S, n, d)
         /\ op' = [op EXCEPT !.pc = "check", !.first = op.pc = "attach", !.tried = d]
  BY DEF AttachTo
<1> HIDE DEF S
<1>4. n \in ToSet(S.opened) /\ S.hd[n].src = 0
  BY <1>1, <1>2 DEF SameSet
<1>5. CASE ok = {} /\ ms' = S /\ Fails("other")
  <2>1. op' \in CallType /\ op'.pc = "failed" /\ op'.nr = n
    BY <1>1, <1>5, FailsIs
  <2>2. CallOK'
    BY <1>1, <1>4, <1>5, <2>1 DEF CallOK
  <2>3. FreedForUser'
    BY <2>1, NobodyAsked
  <2>4. WrongDiscIsKnown'
    BY <1>1, <1>2, <1>5, GotStays DEF SameSet
  <2> QED
    BY <1>2, <1>5, <2>1, <2>2, <2>3, <2>4 DEF MediaInv
<1>6. CASE /\ ok # {} /\ ms' = AttachDrive(S, n, d)
           /\ op' = [op EXCEPT !.pc = "check", !.first = op.pc = "attach", !.tried = d]
  <2>1. d \in ok /\ ok \subseteq Drive
    <3>1. ok \subseteq Drive /\ ok \subseteq Nat
      BY DEF Attachable, Drive
    <3> HIDE DEF ok
    <3> QED
      BY <1>6, <3>1, SmallestExists
  <2> HIDE DEF d, ok
  <2>2. d \in Drive /\ d \in 0 .. Drives
    BY <2>1, MediaAssumption DEF Drive
  <2>3. DrivesOK(ms') /\ SameSet(S, ms') /\ IsMounted(ms', n)
    BY <1>1, <1>2, <1>4, <1>6, <2>2, AttachDriveOK
  <2>4. op' \in CallType /\ op'.pc = "check" /\ op'.nr = n
    BY <1>1, <1>6, <2>2 DEF CallType
  <2>5. CallOK'
    BY <1>1, <1>4, <2>3, <2>4 DEF CallOK, SameSet
  <2>6. FreedForUser'
    BY <2>4, NobodyAsked
  <2>7. WrongDiscIsKnown'
    BY <1>1, <1>2, <2>3, GotStays DEF SameSet
  <2> QED
    BY <2>3, <2>4, <2>5, <2>6, <2>7 DEF MediaInv
<1> QED
  BY <1>3, <1>5, <1>6

\* The medium of the call, looked at again.
LEMMA StillMounted ==
    ASSUME NEW S, DrivesOK(S), NEW n \in Number, n \in ToSet(S.opened), IsMounted(S, n),
           NEW T, T = CheckAttached(S, n)
    PROVE  /\ DrivesOK(T) /\ SameSet(S, T) /\ n \in ToSet(T.opened) /\ IsMounted(T, n)
<1>1. DrivesOK(T) /\ CheckedAs(S, T, n)
  BY CheckedOK
<1> QED
  BY <1>1 DEF CheckedAs, SameSet

LEMMA CheckAttachedDiscOK ==
    ASSUME MediaInv, CheckAttachedDisc
    PROVE  MediaInv'
<1> DEFINE n == op.nr
           C == CheckAttached(ms, n)
           S == CheckDesired(C, n)
<1>1. /\ DrivesOK(ms) /\ op \in CallType /\ n \in Number /\ n \in ToSet(ms.opened)
      /\ IsMounted(ms, n) /\ WrongDiscIsKnown
  BY DEF MediaInv, CallOK, CheckAttachedDisc
<1>2. \/ S.hd[n].desired /\ ms' = S /\ CallAt("do")
      \/ ms' = S /\ Fails("wrong")
      \/ /\ ~S.hd[n].desired
         /\ ms' = ReleaseReferenced(S, n) /\ op' = [op EXCEPT !.pc = "next"]
      \/ /\ ~S.hd[n].desired /\ ms' = Release(S, n)
         /\ IF ReleaseFails(S, n) THEN Fails("other") ELSE op' = [op EXCEPT !.pc = "next"]
  BY DEF CheckAttachedDisc
<1>3. DrivesOK(C) /\ SameSet(ms, C) /\ n \in ToSet(C.opened) /\ IsMounted(C, n)
  BY <1>1, StillMounted
<1> HIDE DEF C
<1>4. DrivesOK(S) /\ SameSet(C, S) /\ IsMounted(S, n)
  BY <1>1, <1>3, CheckDesiredOK
<1> HIDE DEF S
<1>5. SameSet(ms, S)
  BY <1>3, <1>4 DEF SameSet
<1>6. DrivesOK(ms') /\ SameSet(S, ms')
      /\ \/ IsMounted(ms', n) /\ op' \in CallType /\ op'.pc = "do" /\ op'.nr = n
         \/ op' \in CallType /\ op'.pc = "failed" /\ op'.nr = n
         \/ ms'.hd[n].src = 0 /\ op' \in CallType /\ op'.pc = "next" /\ op'.nr = n
  <2>1. CASE ms' = S /\ CallAt("do")
    BY <1>1, <1>4, <2>1, CallAtIs DEF SameSet
  <2>2. CASE ms' = S /\ Fails("wrong")
    BY <1>1, <1>4, <2>2, FailsIs DEF SameSet
  <2>3. CASE /\ ~S.hd[n].desired
             /\ ms' = ReleaseReferenced(S, n) /\ op' = [op EXCEPT !.pc = "next"]
    <3>1. DrivesOK(ms') /\ SameSet(S, ms') /\ ms'.hd[n].src = 0
      BY <1>1, <1>4, <2>3, ReleaseReferencedOK
    <3>2. op' \in CallType /\ op'.pc = "next" /\ op'.nr = n
      BY <1>1, <2>3 DEF CallType
    <3> QED
      BY <3>1, <3>2
  <2>4. CASE /\ ~S.hd[n].desired /\ ms' = Release(S, n)
             /\ IF ReleaseFails(S, n) THEN Fails("other") ELSE op' = [op EXCEPT !.pc = "next"]
    <3>1. /\ DrivesBut(ms', {}, {}) /\ ReleasedAs(S, ms', n)
          /\ ~ReleaseFails(S, n) => ms'.hd[n].src = 0
      BY <1>1, <1>4, <2>4, ReleaseOK
    <3>2. CASE ReleaseFails(S, n)
      <4>1. op' \in CallType /\ op'.pc = "failed" /\ op'.nr = n
        BY <1>1, <2>4, <3>2, FailsIs
      <4> QED
        BY <3>1, <4>1 DEF DrivesOK, ReleasedAs
    <3>3. CASE ~ReleaseFails(S, n)
      <4>1. op' \in CallType /\ op'.pc = "next" /\ op'.nr = n
        BY <1>1, <2>4, <3>3 DEF CallType
      <4> QED
        BY <3>1, <3>3, <4>1 DEF DrivesOK, ReleasedAs
    <3> QED
      BY <3>2, <3>3
  <2> QED
    BY <1>2, <2>1, <2>2, <2>3, <2>4
<1>7. op' \in CallType /\ op'.pc \in {"do", "failed", "next"} /\ op'.nr = n
  BY <1>6
<1>8. CallOK'
  BY <1>1, <1>5, <1>6 DEF CallOK, SameSet
<1>9. FreedForUser'
  BY <1>7, NobodyAsked
<1>10. WrongDiscIsKnown'
  BY <1>1, <1>5, <1>6, GotStays DEF SameSet
<1> QED
  BY <1>6, <1>7, <1>8, <1>9, <1>10 DEF MediaInv

LEMMA DoOK ==
    ASSUME MediaInv, Do
    PROVE  MediaInv'
<1> DEFINE n == op.nr
           C == CheckAttached(ms, n)
           S == IF op.what = "file" THEN CheckDesired(C, n) ELSE C
           got == [nr |-> n, disc |-> Read(S, n), doubt |-> n \in S.doubt]
<1>1. /\ DrivesOK(ms) /\ op \in CallType /\ n \in Number /\ n \in ToSet(ms.opened)
      /\ IsMounted(ms, n) /\ WrongDiscIsKnown
  BY DEF MediaInv, CallOK, Do
<1>2. \/ ms' = S /\ op' = NoCall
      \/ S.hd[n].desired /\ ms' = [S EXCEPT !.got = got] /\ op' = NoCall
      \/ ms' = S /\ Fails("other")
      \/ ms' = S /\ Fails("wrong")
  BY DEF Do
<1>3. DrivesOK(C) /\ SameSet(ms, C) /\ n \in ToSet(C.opened) /\ IsMounted(C, n)
  BY <1>1, StillMounted
<1> HIDE DEF C
<1>4. DrivesOK(S) /\ SameSet(C, S) /\ IsMounted(S, n)
  <2>1. CASE op.what = "file"
    BY <1>1, <1>3, <2>1, CheckDesiredOK
  <2>2. CASE op.what # "file"
    BY <1>3, <2>2 DEF SameSet
  <2> QED
    BY <2>1, <2>2
<1> HIDE DEF S
<1>5. SameSet(ms, S)
  BY <1>3, <1>4 DEF SameSet
<1>6. CASE ms' = S /\ op' = NoCall
  <2>1. CallOK' /\ FreedForUser'
    BY <1>6, NoCallIs DEF CallOK, FreedForUser
  <2>2. WrongDiscIsKnown'
    BY <1>1, <1>5, <1>6, GotStays DEF SameSet
  <2> QED
    BY <1>4, <1>6, <2>1, <2>2, NoCallIs DEF MediaInv
<1>7. CASE S.hd[n].desired /\ ms' = [S EXCEPT !.got = got] /\ op' = NoCall
  <2>1. S \in MediaType /\ TrustOK(S, n) /\ S.hd[n].src \in Drive
    BY <1>1, <1>4, MediaFields DEF DrivesOK, DrivesBut, IsMounted
  <2>2. Read(S, n) \in Number \cup {0}
    BY <2>1, MediaFields DEF Read
  <2>3. got \in [nr : Number \cup {0}, disc : Number \cup {0}, doubt : BOOLEAN]
        /\ got.disc = Read(S, n) /\ got.nr = n /\ (got.doubt <=> n \in S.doubt)
    <3> DEFINE disc == Read(S, n)
               doubt == n \in S.doubt
    <3>1. disc \in Number \cup {0} /\ doubt \in BOOLEAN /\ n \in Number \cup {0}
      BY <1>1, <2>2
    <3>2. got = [nr |-> n, disc |-> disc, doubt |-> doubt]
      OBVIOUS
    <3> HIDE DEF disc, doubt, n, got
    <3>3. got \in [nr : Number \cup {0}, disc : Number \cup {0}, doubt : BOOLEAN]
          /\ got.disc = disc /\ got.nr = n /\ got.doubt = doubt
      BY <3>1, <3>2
    <3> QED
      BY <3>3 DEF disc, doubt
  <2>4. got.disc # got.nr => got.doubt
    BY <1>7, <2>1, <2>3 DEF TrustOK, Read
  <2> HIDE DEF got
  <2>5. /\ ms' \in MediaType /\ ms'.opened = S.opened /\ ms'.drive = S.drive /\ ms'.hd = S.hd
        /\ ms'.left = S.left /\ ms'.pulled = S.pulled /\ ms'.doubt = S.doubt /\ ms'.got = got
    BY <1>7, <2>1, <2>3 DEF MediaType
  <2>6. DrivesOK(ms')
    BY <1>4, <2>5, SameDrives
  <2>7. CallOK' /\ FreedForUser'
    BY <1>7, NoCallIs DEF CallOK, FreedForUser
  <2>8. WrongDiscIsKnown'
    BY <2>4, <2>5 DEF WrongDiscIsKnown
  <2> QED
    BY <1>7, <2>6, <2>7, <2>8, NoCallIs DEF MediaInv
<1>8. CASE ms' = S /\ (Fails("other") \/ Fails("wrong"))
  <2>1. op' \in CallType /\ op'.pc = "failed" /\ op'.nr = n
    BY <1>1, <1>8, FailsIs
  <2>2. CallOK'
    BY <1>1, <1>5, <1>8, <2>1 DEF CallOK, SameSet
  <2>3. FreedForUser'
    BY <2>1, NobodyAsked
  <2>4. WrongDiscIsKnown'
    BY <1>1, <1>5, <1>8, GotStays DEF SameSet
  <2> QED
    BY <1>4, <1>8, <2>1, <2>2, <2>3, <2>4 DEF MediaInv
<1> QED
  BY <1>2, <1>6, <1>7, <1>8

\* The call ends, and the drives stay as they are.
LEMMA CallEndsOK ==
    ASSUME MediaInv, op' = NoCall, UNCHANGED ms
    PROVE  MediaInv'
<1>1. DrivesOK(ms') /\ op' \in CallType
  BY NoCallIs DEF MediaInv
<1>2. CallOK' /\ FreedForUser'
  BY NoCallIs DEF CallOK, FreedForUser
<1>3. WrongDiscIsKnown'
  BY GotStays DEF MediaInv
<1> QED
  BY <1>1, <1>2, <1>3 DEF MediaInv

LEMMA RequestMediaOK ==
    ASSUME MediaInv, RequestMedia
    PROVE  MediaInv'
<1>1. /\ DrivesOK(ms) /\ op \in CallType /\ op.nr \in Number /\ op.nr \in ToSet(ms.opened)
      /\ WrongDiscIsKnown /\ ms' = ReleaseAll(ms)
  BY DEF MediaInv, CallOK, RequestMedia
<1>2. DrivesOK(ms') /\ SameSet(ms, ms') /\ Freed(ms')
  BY <1>1, ReleaseAllOK
<1>3. op' \in CallType /\ op'.pc = "ask" /\ op'.nr = op.nr
  BY <1>1, CallAtIs DEF RequestMedia
<1>4. CallOK'
  BY <1>1, <1>2, <1>3 DEF CallOK, SameSet
<1>5. FreedForUser'
  BY <1>2 DEF FreedForUser, Freed
<1>6. WrongDiscIsKnown'
  BY <1>1, <1>2, GotStays DEF SameSet
<1> QED
  BY <1>2, <1>3, <1>4, <1>5, <1>6 DEF MediaInv

LEMMA AnswerEjectOK ==
    ASSUME MediaInv, NEW d \in Drive, AnswerEject(d)
    PROVE  MediaInv'
<1> DEFINE E == Eject(ms, op.nr, d)
<1>1. /\ DrivesOK(ms) /\ op \in CallType /\ op.pc = "ask"
      /\ op.nr \in Number /\ op.nr \in ToSet(ms.opened)
      /\ WrongDiscIsKnown /\ ms' = ReleaseAll(E) /\ op' = op
  BY DEF MediaInv, CallOK, AnswerEject
<1>2. DrivesOK(E) /\ SameSet(ms, E)
  BY <1>1, EjectOK
<1> HIDE DEF E
<1>3. DrivesOK(ms') /\ SameSet(E, ms') /\ Freed(ms')
  BY <1>1, <1>2, ReleaseAllOK
<1>4. CallOK'
  BY <1>1, <1>2, <1>3 DEF CallOK, SameSet
<1>5. FreedForUser'
  BY <1>3 DEF FreedForUser, Freed
<1>6. WrongDiscIsKnown'
  BY <1>1, <1>2, <1>3, GotStays DEF SameSet
<1> QED
  BY <1>1, <1>3, <1>4, <1>5, <1>6 DEF MediaInv

LEMMA AnswerRetryOK ==
    ASSUME MediaInv, AnswerRetry
    PROVE  MediaInv'
<1>1. /\ DrivesOK(ms) /\ op \in CallType /\ op.nr \in Number /\ WrongDiscIsKnown
      /\ ms' = Close(ms, op.nr)
      /\ op' = NoCall \/ op' = [op EXCEPT !.pc = "open"]
  BY DEF MediaInv, CallOK, AnswerRetry
<1>2. DrivesOK(ms') /\ Closes(ms, ms')
  BY <1>1, CloseOK
<1>3. op' \in CallType /\ (op'.pc = "idle" \/ (op'.pc = "open" /\ op'.nr = op.nr))
  BY <1>1, NoCallIs DEF CallType
<1>4. CallOK'
  BY <1>1, <1>3 DEF CallOK
<1>5. FreedForUser'
  BY <1>3, NobodyAsked
<1>6. WrongDiscIsKnown'
  BY <1>1, <1>2, GotStays DEF Closes
<1> QED
  BY <1>2, <1>3, <1>4, <1>5, <1>6 DEF MediaInv

-----------------------------------------------------------------------------
(* Other calls, and other programs.                                          *)

\* The set changes while no call relies on it.
LEMMA BetweenCalls ==
    ASSUME op \in CallType, op.pc = "idle", op' = op, DrivesOK(ms'), WrongDiscIsKnown,
           ms'.got = ms.got
    PROVE  MediaInv'
<1>1. CallOK' /\ FreedForUser'
  BY DEF CallOK, FreedForUser
<1>2. WrongDiscIsKnown'
  BY GotStays
<1> QED
  BY <1>1, <1>2 DEF MediaInv

LEMMA SetVerifierOK ==
    ASSUME MediaInv, NEW n \in Number, SetVerifier(n)
    PROVE  MediaInv'
<1>1. /\ DrivesOK(ms) /\ op \in CallType /\ op.pc = "idle" /\ op' = op /\ WrongDiscIsKnown
      /\ ms \in MediaType /\ HandlerOK(ms, n) /\ ms.hd[n] \in HandlerType
  BY MediaFields DEF MediaInv, SetVerifier, DrivesOK, DrivesBut
<1>2. CASE n \in ToSet(ms.opened)
  <2> DEFINE h == [ms.hd[n] EXCEPT !.verifier = TRUE, !.desired = FALSE]
             f == [ms.hd EXCEPT ![n] = h]
             saved == ms.saved \ {n}
             doubt == ms.doubt \ {n}
  <2>1. ms' = [ms EXCEPT !.hd = f, !.saved = saved, !.doubt = doubt]
    BY <1>2 DEF SetVerifier
  <2>2. /\ h \in HandlerType /\ h.src = ms.hd[n].src /\ h.own = ms.hd[n].own
        /\ h.place = ms.hd[n].place /\ h.seen = ms.hd[n].seen
        /\ h.verifier = TRUE /\ h.desired = FALSE
    BY <1>1 DEF HandlerType
  <2> HIDE DEF h
  <2>3. f \in [Number -> HandlerType] /\ f[n] = h /\ \A k \in Number \ {n} : f[k] = ms.hd[k]
    BY <1>1, <2>2, MediaFields
  <2>4. /\ saved \in SUBSET Number /\ doubt \in SUBSET Number
        /\ \A k \in Number \ {n} : k \in doubt <=> k \in ms.doubt
    BY <1>1, MediaFields
  <2> HIDE DEF f, saved, doubt
  <2>5. /\ ms' \in MediaType /\ ms'.opened = ms.opened /\ ms'.drive = ms.drive /\ ms'.hd = f
        /\ ms'.left = ms.left /\ ms'.pulled = ms.pulled /\ ms'.doubt = doubt
        /\ ms'.got = ms.got
    BY <1>1, <2>1, <2>3, <2>4 DEF MediaType
  <2>6. \A k \in Number \ {n} : SameHandler(ms, ms', k)
    BY <2>3, <2>4, <2>5 DEF SameHandler
  <2>7. IsMounted(ms', n) <=> IsMounted(ms, n)
    BY <2>2, <2>3, <2>5 DEF IsMounted
  <2>8. Sharing(ms', n) = Sharing(ms, n) /\ Sharing(ms, n) \subseteq Number \ {n}
    BY <2>2, <2>3, <2>5 DEF Sharing
  <2>9. HandlerOK(ms', n)
    <3>1. \A k \in Sharing(ms', n) : ms'.hd[k].own = ms'.hd[n].own
      BY <1>1, <2>2, <2>3, <2>5, <2>8 DEF HandlerOK
    <3> QED
      BY <1>1, <1>2, <2>2, <2>3, <2>5, <2>7, <3>1 DEF HandlerOK
  <2>10. TrustOK(ms', n)
    BY <2>2, <2>3, <2>5 DEF TrustOK
  <2>11. ms.hd[n].own => n \in Holders(ms', ms.hd[n].src) /\ ms'.hd[n].own
    BY <2>2, <2>3, <2>5 DEF Holders
  <2>12. DrivesOK(ms')
    BY <1>1, <2>5, <2>6, <2>9, <2>10, <2>11, OneHandler DEF DrivesOK
  <2> QED
    BY <1>1, <2>5, <2>12, BetweenCalls
<1>3. CASE n \notin ToSet(ms.opened)
  <2> DEFINE saved == ms.saved \cup {n}
  <2>1. ms' = [ms EXCEPT !.saved = saved] /\ saved \in SUBSET Number
    BY <1>1, <1>3, MediaFields DEF SetVerifier
  <2> HIDE DEF saved
  <2>2. /\ ms' \in MediaType /\ ms'.opened = ms.opened /\ ms'.drive = ms.drive /\ ms'.hd = ms.hd
        /\ ms'.left = ms.left /\ ms'.pulled = ms.pulled /\ ms'.doubt = ms.doubt
        /\ ms'.got = ms.got
    BY <1>1, <2>1 DEF MediaType
  <2>3. DrivesOK(ms')
    BY <1>1, <2>2, SameDrives
  <2> QED
    BY <1>1, <2>2, <2>3, BetweenCalls
<1> QED
  BY <1>2, <1>3

LEMMA ReleaseSetOK ==
    ASSUME MediaInv, ReleaseSet
    PROVE  MediaInv'
<1>1. /\ DrivesOK(ms) /\ op \in CallType /\ op.pc = "idle" /\ op' = op /\ WrongDiscIsKnown
      /\ ms' = UpToFailure(ms, "release")
  BY DEF MediaInv, ReleaseSet
<1>2. DrivesOK(ms') /\ Closes(ms, ms')
  BY <1>1, UpToFailureOK
<1> QED
  BY <1>1, <1>2, BetweenCalls DEF Closes

LEMMA DestroySetOK ==
    ASSUME MediaInv, DestroySet
    PROVE  MediaInv'
<1>1. /\ DrivesOK(ms) /\ op \in CallType /\ WrongDiscIsKnown
      /\ ms' = UpToFailure(ms, "close")
  BY DEF MediaInv, DestroySet
<1>2. DrivesOK(ms') /\ Closes(ms, ms') /\ Freed(ms')
  BY <1>1, UpToFailureOK
<1>3. op' \in CallType /\ op'.pc = "gone"
  BY <1>1, CallAtIs DEF DestroySet
<1>4. CallOK'
  BY <1>3 DEF CallOK
<1>5. FreedForUser'
  BY <1>2 DEF FreedForUser, Freed
<1>6. WrongDiscIsKnown'
  BY <1>1, <1>2, GotStays DEF Closes
<1> QED
  BY <1>2, <1>3, <1>4, <1>5, <1>6 DEF MediaInv

\* While the call waits the mounts of others change, and nothing of ours comes.
LEMMA WhileWaiting ==
    ASSUME MediaInv, Waits, op' = op, DrivesOK(ms'), ms'.opened = ms.opened, ms'.got = ms.got,
           \A d \in Drive : ms'.drive[d].mounted = "ours" =>
                ms.drive[d].mounted = "ours" /\ (d \in ms.left => d \in ms'.left)
    PROVE  MediaInv'
<1>1. CallOK'
  BY DEF MediaInv, CallOK, Waits
<1>2. FreedForUser'
  BY DEF MediaInv, FreedForUser
<1>3. WrongDiscIsKnown'
  BY GotStays DEF MediaInv
<1> QED
  BY <1>1, <1>2, <1>3 DEF MediaInv

LEMMA UsesOK ==
    ASSUME MediaInv, NEW d \in Drive, Uses(d)
    PROVE  MediaInv'
<1> DEFINE busy == IF d \in ms.busy THEN ms.busy \ {d} ELSE ms.busy \cup {d}
<1>1. DrivesOK(ms) /\ ms \in MediaType /\ Waits /\ op' = op
  BY DEF MediaInv, Uses, DrivesOK, DrivesBut
<1>2. ms' = [ms EXCEPT !.busy = busy]
  BY DEF Uses
<1>3. busy \in SUBSET Drive
  BY <1>1, MediaFields
<1> HIDE DEF busy
<1>4. /\ ms' \in MediaType /\ ms'.opened = ms.opened /\ ms'.drive = ms.drive /\ ms'.hd = ms.hd
      /\ ms'.left = ms.left /\ ms'.pulled = ms.pulled /\ ms'.doubt = ms.doubt
      /\ ms'.got = ms.got
  BY <1>1, <1>2, <1>3 DEF MediaType
<1>5. DrivesOK(ms')
  BY <1>1, <1>4, SameDrives
<1> QED
  BY <1>1, <1>4, <1>5, WhileWaiting

\* A disc is only changed in a drive from which nothing is mounted.
LEMMA ChangeDiscOK ==
    ASSUME MediaInv, NEW d \in Drive, NEW n \in Number \cup {0}, ChangeDisc(d, n)
    PROVE  MediaInv'
<1> DEFINE g == [ms.drive EXCEPT ![d].disc = n]
<1>1. /\ DrivesOK(ms) /\ ms \in MediaType /\ Waits /\ op' = op /\ ms.drive[d].mounted = "no"
      /\ ms' = [ms EXCEPT !.drive = g]
  BY DEF MediaInv, ChangeDisc, DrivesOK, DrivesBut
<1>2. g \in [Drive -> DriveType] /\ g[d].mounted = "no" /\ \A e \in Drive \ {d} : g[e] = ms.drive[e]
  BY <1>1, MediaFields DEF DriveType
<1> HIDE DEF g
<1>3. /\ ms' \in MediaType /\ ms'.opened = ms.opened /\ ms'.drive = g /\ ms'.hd = ms.hd
      /\ ms'.left = ms.left /\ ms'.pulled = ms.pulled /\ ms'.doubt = ms.doubt
      /\ ms'.got = ms.got
  BY <1>1, <1>2 DEF MediaType
<1>4. \A e \in Drive : ms'.drive[e].mounted = ms.drive[e].mounted
  BY <1>1, <1>2, <1>3
<1>5. ASSUME NEW k \in Number
      PROVE  HandlerOK(ms', k) /\ TrustOK(ms', k)
  <2>1. HandlerOK(ms, k) /\ TrustOK(ms, k) /\ ms.hd[k].src \in Drive \cup {0}
    BY <1>1, MediaFields DEF DrivesOK, DrivesBut
  <2>2. (IsMounted(ms', k) <=> IsMounted(ms, k)) /\ Sharing(ms', k) = Sharing(ms, k)
    BY <1>3, <1>4, <2>1 DEF IsMounted, Sharing
  <2>3. HandlerOK(ms', k)
    BY <1>3, <2>1, <2>2 DEF HandlerOK
  <2>4. IsMounted(ms, k) => ms.hd[k].src \in Drive \ {d}
    BY <1>1, <2>1 DEF IsMounted, HandlerOK
  <2>5. TrustOK(ms', k)
    BY <1>2, <1>3, <2>1, <2>2, <2>4 DEF TrustOK
  <2> QED
    BY <2>3, <2>5
<1>6. OwnedOK(ms', {})
  BY <1>1, <1>3, <1>4 DEF DrivesOK, DrivesBut, OwnedOK, Holders
<1>7. DrivesOK(ms')
  BY <1>1, <1>3, <1>5, <1>6 DEF DrivesOK, DrivesBut
<1> QED
  BY <1>1, <1>3, <1>4, <1>7, WhileWaiting

LEMMA SystemMountsOK ==
    ASSUME MediaInv, NEW d \in Drive, SystemMounts(d)
    PROVE  MediaInv'
<1>1. /\ DrivesOK(ms) /\ ms \in MediaType /\ Waits /\ op' = op /\ ms.drive[d].mounted = "no"
      /\ ms' = Mounted(ms, d, "system") /\ "system" \in Place /\ DrivesBut(ms, {}, {}) /\ d # 0
  BY DEF MediaInv, SystemMounts, DrivesOK, DrivesBut, Place, Drive
<1>2. ms \in MediaType
  BY <1>1
<1>3. /\ SameSet(ms, ms') /\ ms'.left = ms.left /\ ms'.drive[d].mounted = "system"
      /\ \A e \in Drive \ {d} : ms'.drive[e] = ms.drive[e]
  BY <1>1, <1>2, MountedIs
<1>4. \A k \in Holders(ms, d) : k \in ms.pulled /\ (ms.hd[k].desired => k \in ms.doubt)
  <2> TAKE k \in Holders(ms, d)
  <2>1. k \in Number /\ ms.hd[k].src = d /\ HandlerOK(ms, k) /\ TrustOK(ms, k)
    BY <1>1 DEF Holders, DrivesOK, DrivesBut
  <2>2. ~IsMounted(ms, k)
    BY <1>1, <2>1 DEF IsMounted, HandlerOK
  <2> QED
    BY <1>1, <2>1, <2>2 DEF HandlerOK, TrustOK
<1>5. DrivesBut(ms', {}, {})
  <2> DEFINE place == "system"
             X == {}
  <2>1. /\ place \in Place /\ place # "ours" /\ ms' = Mounted(ms, d, place)
        /\ DrivesBut(ms, X, X) /\ X \subseteq {d}
    BY <1>1
  <2> HIDE DEF place, X
  <2>2. \A k \in Holders(ms, d) :
           k \in ms.pulled /\ (k \in X \/ (ms.hd[k].desired => k \in ms.doubt))
    BY <1>4
  <2>3. DrivesBut(ms', X, {d}) /\ (place # "ours" => DrivesBut(ms', X, {}))
    BY <2>1, <2>2, MountOK
  <2> QED
    BY <2>1, <2>3 DEF X
<1> QED
  BY <1>1, <1>3, <1>5, WhileWaiting DEF DrivesOK, SameSet

\* Whose disc is unmounted by others is known to have lost it.
LEMMA SystemUnmountsOK ==
    ASSUME MediaInv, NEW d \in Drive, SystemUnmounts(d)
    PROVE  MediaInv'
<1> DEFINE pulled == ms.pulled \cup {n \in Number : ms.hd[n].src = d}
           doubt == ms.doubt \cup {n \in Number : ms.hd[n].src = d /\ ms.hd[n].desired}
           U == [ms EXCEPT !.pulled = pulled, !.doubt = doubt]
<1>1. DrivesOK(ms) /\ ms \in MediaType /\ Waits /\ op' = op /\ d # 0
  BY DEF MediaInv, SystemUnmounts, DrivesOK, DrivesBut, Drive
<1>2. ms' = Unmounted(U, d)
  BY DEF SystemUnmounts
<1>3. pulled \in SUBSET Number /\ doubt \in SUBSET Number
  BY <1>1, MediaFields
<1>4. /\ \A k \in Number : k \in pulled <=> k \in ms.pulled \/ ms.hd[k].src = d
      /\ \A k \in Number : k \in doubt <=> k \in ms.doubt \/ (ms.hd[k].src = d /\ ms.hd[k].desired)
  OBVIOUS
<1> HIDE DEF pulled, doubt
<1>5. /\ U \in MediaType /\ SameSet(ms, U) /\ U.drive = ms.drive /\ U.hd = ms.hd /\ U.left = ms.left
      /\ U.pulled = pulled /\ U.doubt = doubt
  BY <1>1, <1>3 DEF MediaType, SameSet
<1> HIDE DEF U
<1>6. ASSUME NEW k \in Number
      PROVE  HandlerOK(U, k) /\ TrustOK(U, k)
  <2>1. HandlerOK(ms, k) /\ TrustOK(ms, k)
    BY <1>1 DEF DrivesOK, DrivesBut
  <2>2. (IsMounted(U, k) <=> IsMounted(ms, k)) /\ Sharing(U, k) = Sharing(ms, k)
    BY <1>5 DEF IsMounted, Sharing
  <2>3. HandlerOK(U, k)
    BY <1>1, <1>4, <1>5, <2>1, <2>2 DEF HandlerOK, SameSet
  <2>4. TrustOK(U, k)
    BY <1>4, <1>5, <2>1, <2>2 DEF TrustOK, SameSet
  <2> QED
    BY <2>3, <2>4
<1>7. OwnedOK(U, {})
  BY <1>1, <1>5 DEF DrivesOK, DrivesBut, OwnedOK, Holders
<1>8. DrivesBut(U, {}, {})
  BY <1>1, <1>5, <1>6, <1>7 DEF DrivesOK, DrivesBut, SameSet
<1>9. \A k \in Holders(U, d) : k \in U.pulled /\ (U.hd[k].desired => k \in U.doubt)
  BY <1>4, <1>5 DEF Holders
<1>10. /\ DrivesBut(ms', {}, {}) /\ SameSet(U, ms') /\ ms'.left = U.left \ {d}
       /\ ms'.drive[d].mounted = "no"
       /\ \A e \in Drive \ {d} : ms'.drive[e] = U.drive[e]
  BY <1>2, <1>8, <1>9, UnmountedOK
<1> QED
  BY <1>1, <1>5, <1>10, WhileWaiting DEF DrivesOK, SameSet

-----------------------------------------------------------------------------
(* The theorems.                                                             *)

LEMMA MediaInvInit ==
    ASSUME MediaInit
    PROVE  MediaInv
<1>1. PICK f \in Discs, m \in Machines :
        ms = [ drive  |-> [d \in Drive |-> [disc |-> f[d], mounted |-> "no"]],
               hd     |-> [n \in Number |-> Closed], opened |-> <<>>,
               saved  |-> Number, machine |-> m, busy |-> {}, pulled |-> {}, left |-> {}, doubt |-> {},
               got    |-> Nothing ]
  BY DEF MediaInit
<1> DEFINE drive == [d \in Drive |-> [disc |-> f[d], mounted |-> "no"]]
           hd    == [n \in Number |-> Closed]
<1>2. drive \in [Drive -> DriveType] /\ \A d \in Drive : drive[d].mounted = "no"
  BY DEF Discs, DriveType, Place
<1>3. hd \in [Number -> HandlerType] /\ \A n \in Number : hd[n] = Closed
  BY ClosedFields
<1>4. Nothing \in [nr : Number \cup {0}, disc : Number \cup {0}, doubt : BOOLEAN]
      /\ Nothing.disc = Nothing.nr
  BY DEF Nothing
<1>5. <<>> \in Seq(Number) /\ IsInjective(<<>>) /\ ToSet(<<>>) = {}
  BY DEF IsInjective, ToSet
<1> HIDE DEF drive, hd, Nothing
<1>6. ms = [ drive |-> drive, hd |-> hd, opened |-> <<>>, saved |-> Number, machine |-> m,
             busy |-> {}, pulled |-> {}, left |-> {}, doubt |-> {}, got |-> Nothing ]
  BY <1>1 DEF drive, hd
<1>7. /\ ms \in MediaType /\ ms.drive = drive /\ ms.hd = hd /\ ms.opened = <<>>
      /\ ms.pulled = {} /\ ms.got = Nothing
  BY <1>2, <1>3, <1>4, <1>5, <1>6 DEF MediaType
<1>8. ASSUME NEW n \in Number
      PROVE  HandlerOK(ms, n) /\ TrustOK(ms, n)
  <2>1. ms.hd[n] = Closed /\ Sharing(ms, n) = {}
    BY <1>3, <1>7, ClosedFields DEF Sharing
  <2> QED
    BY <1>5, <1>7, <2>1, ClosedFields DEF HandlerOK, TrustOK
<1>9. DrivesOK(ms)
  BY <1>2, <1>5, <1>7, <1>8 DEF DrivesOK, DrivesBut, OwnedOK
<1>10. op = NoCall
  BY DEF MediaInit
<1>11. CallOK /\ FreedForUser
  BY <1>10, NoCallIs DEF CallOK, FreedForUser
<1>12. WrongDiscIsKnown
  BY <1>4, <1>7 DEF WrongDiscIsKnown
<1> QED
  BY <1>9, <1>10, <1>11, <1>12, NoCallIs DEF MediaInv

LEMMA MediaInvStep == MediaInv /\ [MediaNext]_mediaVars => MediaInv'
<1> SUFFICES ASSUME MediaInv, [MediaNext]_mediaVars
             PROVE  MediaInv'
  OBVIOUS
<1>1. ASSUME NEW n \in Number, NEW what \in {"file", "exists"},
             NEW asks \in {"always", "wrong", "never"}, Provide(n, what, asks)
      PROVE  MediaInv'
  BY <1>1, ProvideOK
<1>2. CASE Open
  BY <1>2, OpenOK
<1>3. CASE AttachTo
  BY <1>3, AttachToOK
<1>4. CASE CheckAttachedDisc
  BY <1>4, CheckAttachedDiscOK
<1>5. CASE Do
  BY <1>5, DoOK
<1>6. CASE GiveError \/ AnswerAbort
  BY <1>6, CallEndsOK DEF GiveError, AnswerAbort
<1>7. CASE RequestMedia
  BY <1>7, RequestMediaOK
<1>8. CASE AnswerRetry
  BY <1>8, AnswerRetryOK
<1>9. CASE ReleaseSet
  BY <1>9, ReleaseSetOK
<1>10. CASE DestroySet
  BY <1>10, DestroySetOK
<1>11. ASSUME NEW n \in Number, SetVerifier(n)
       PROVE  MediaInv'
  BY <1>11, SetVerifierOK
<1>12. ASSUME NEW d \in Drive, AnswerEject(d)
       PROVE  MediaInv'
  BY <1>12, AnswerEjectOK
<1>13. ASSUME NEW d \in Drive, SystemMounts(d)
       PROVE  MediaInv'
  BY <1>13, SystemMountsOK
<1>14. ASSUME NEW d \in Drive, SystemUnmounts(d)
       PROVE  MediaInv'
  BY <1>14, SystemUnmountsOK
<1>15. ASSUME NEW d \in Drive, Uses(d)
       PROVE  MediaInv'
  BY <1>15, UsesOK
<1>16. ASSUME NEW d \in Drive, NEW n \in Number \cup {0}, ChangeDisc(d, n)
       PROVE  MediaInv'
  BY <1>16, ChangeDiscOK
<1>17. CASE UNCHANGED mediaVars
  BY <1>17 DEF mediaVars, MediaInv, CallOK, FreedForUser, WrongDiscIsKnown
<1> QED
  BY <1>1, <1>2, <1>3, <1>4, <1>5, <1>6, <1>7, <1>8, <1>9, <1>10, <1>11, <1>12, <1>13, <1>14,
     <1>15, <1>16, <1>17 DEF MediaNext

LEMMA MediaInvHolds == MediaSpec => []MediaInv
  BY MediaInvInit, MediaInvStep, PTL DEF MediaSpec

\* Drives, handlers and calls keep their types, and no medium is opened twice.
THEOREM MediaTypeCorrect == MediaSpec => []MediaTypeOK
<1>1. MediaInv => MediaTypeOK
  BY DEF MediaInv, MediaTypeOK, DrivesOK, DrivesBut
<1> QED
  BY <1>1, MediaInvHolds, PTL

\* For any number of media and drives, whatever is released, skipped, ejected and
\* closed: a disc a handler is attached to is only unmounted by others.
THEOREM NobodyUnmountsShared == MediaSpec => []SharedStaysMounted
<1>1. MediaInv => SharedStaysMounted
  BY DEF MediaInv, SharedStaysMounted, DrivesOK, DrivesBut, HandlerOK
<1> QED
  BY <1>1, MediaInvHolds, PTL

\* Who is asked for another disc, or destroys the set, finds no drive blocked by libzypp
\* but those it is known to leave mounted.
THEOREM DrivesAreFreed == MediaSpec => []FreedForUser
<1>1. MediaInv => FreedForUser
  BY DEF MediaInv
<1> QED
  BY <1>1, MediaInvHolds, PTL

\* There is no other way to a file of the wrong disc than those that put the handler
\* in doubt.
THEOREM WrongDiscsAreKnown == MediaSpec => []WrongDiscIsKnown
<1>1. MediaInv => WrongDiscIsKnown
  BY DEF MediaInv
<1> QED
  BY <1>1, MediaInvHolds, PTL
=============================================================================
