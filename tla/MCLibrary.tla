------------------------------ MODULE MCLibrary ------------------------------
(* Model checking instances of the parts of the library that have no state in  *)
(* common: the scheduler of files, attaching media, a commit that runs rpm for  *)
(* each package, downloading the packages before, the caches of a repository,  *)
(* discs that are changed, what is to become of packages; and for progress     *)
(* also the parts of MCPipes, a queue and its worker and a commit by zypp-rpm. *)
(* "part" says which of them moves, the others stay in one initial state.      *)
EXTENDS MCProvideSched, MCProvideAttach, CommitSingle, CommitClassic, RepoCache, MediaSet,
        PackagePreload, Selectable

CONSTANTS p1, p2, v1, v2, v3,
          Parts    \* the parts this run looks at

VARIABLES part, queue, nextId, worker, caps, faults, toWorker, fromWorker, alive

channelVars == <<queue, nextId, worker, caps, faults, toWorker, fromWorker, alive>>
libraryVars == <<part, schedVars, attachVars, commitVars, classicVars, repoVars, mediaVars,
                 preVars, poolVars, channelVars>>

(* Two files and a medium for one worker, of a kind the repository has; owners *)
(* cancel or the worker asks, and it dies.                                   *)
Channel == INSTANCE ProvideChannel WITH
    Files <- {f1, f2}, Attaches <- {a1}, Detaches <- {}, None <- NoMaster, MaxId <- 2,
    Capabilities <- [type : {"Downloading", "Mounting"}, pipeline : {TRUE}],
    FaultSets <- {{"cancel", "die"}, {"ask", "die"}}

(* Transactions for zypp-rpm, for progress.                                    *)
LiveTransactions == { <<"install", "remove">>, <<"source">> }

(* Plans for the one by one commit: rpm is replaced by a version that can not  *)
(* or can run the posttrans scripts, before and after packages that have one; *)
(* a source package comes after packages, before one, or after the downgrade. *)
MCPlans ==
    { <<"package", "newrpm", "package">>, <<"package", "oldrpm", "package", "erase">>,
      <<"package", "erase", "oldrpm">>, <<"obsoleted", "skipped", "orphan", "package">>,
      <<"package", "source", "buddy", "package">>, <<"newrpm", "package", "source">>,
      <<"package", "oldrpm", "source">> }

MCProgram == {p1, p2}
MCBuilder == {p1}

(* Discs: with three drives one can be skipped; with two, other programs use   *)
(* the discs, or mount and unmount them, or the verifier is set late.         *)
MCMachines ==
    { [drives |-> 3, others |-> {}], [drives |-> 2, others |-> {"use"}],
      [drives |-> 2, others |-> {"mount"}], [drives |-> 2, others |-> {"verifier"}] }

(* Packages of two repositories, one with two mirrors, for two connections.     *)
MCWanted    == <<1, 1, 2>>
FewWanted   == <<1, 2>>
MCMirrorsOf == << {1, 2}, {3} >>

(* Versions of one name: one installed that is also available, with an update; *)
(* two installed beside each other; none installed, two of three, or none, may *)
(* be installed beside others.                                                *)
Contents(a, b, c) == (v1 :> a) @@ (v2 :> b) @@ (v3 :> c)
MCNames ==
    { [installed |-> <<v1>>, available |-> <<v2, v3>>, content |-> Contents(1, 2, 1),
       multi |-> {}, default |-> v2],
      [installed |-> <<v1, v2>>, available |-> <<v3>>, content |-> Contents(1, 2, 2),
       multi |-> {v1, v2, v3}, default |-> v3],
      [installed |-> <<>>, available |-> <<v1, v2, v3>>, content |-> Contents(1, 2, 3),
       multi |-> {v2, v3}, default |-> v1],
      [installed |-> <<>>, available |-> <<v1, v2, v3>>, content |-> Contents(1, 2, 3),
       multi |-> {}, default |-> v1] }
MCPools == {{}} \cup {{name} : name \in MCNames}

LibraryInit ==
    /\ part \in Parts
    /\ SchedInit
    /\ AttachInit  /\ (part # "attach"  => at = EmptyProvider(CHOOSE s \in Setup : TRUE))
    /\ CommitInit  /\ (part # "commit"  => lz.kind = CHOOSE t \in Transactions : TRUE)
    /\ ClassicInit /\ (part # "classic" => cc.plan = (CHOOSE t \in Plans : TRUE) /\ rpm.dumps)
    /\ RepoInit    /\ (part # "repo"    => repo.had)
    /\ MediaInit   /\ (part # "media"   => /\ ms.machine = (CHOOSE m \in Machines : TRUE)
                                          /\ \A d \in Drive : ms.drive[d].disc = 0)
    /\ PreloadInit /\ (part # "preload" => pre.cached = {})
    /\ SelectableInit /\ (part = "select" <=> pool # {})
    /\ Channel!Init
    /\ part # "channel" => caps.type = "Mounting" /\ "ask" \in faults

\* What does not move is said first: TLC then evaluates it once for each state.
LibraryNext ==
    \/ /\ part = "sched"
       /\ UNCHANGED <<part, attachVars, commitVars, classicVars, repoVars, mediaVars, preVars, poolVars, channelVars>>
       /\ SchedNext
    \/ /\ part = "attach"
       /\ UNCHANGED <<part, schedVars, commitVars, classicVars, repoVars, mediaVars, preVars, poolVars, channelVars>>
       /\ AttachNext
    \/ /\ part = "commit"
       /\ UNCHANGED <<part, schedVars, attachVars, classicVars, repoVars, mediaVars, preVars, poolVars, channelVars>>
       /\ CommitNext
    \/ /\ part = "classic"
       /\ UNCHANGED <<part, schedVars, attachVars, commitVars, repoVars, mediaVars, preVars, poolVars, channelVars>>
       /\ ClassicNext
    \/ /\ part = "repo"
       /\ UNCHANGED <<part, schedVars, attachVars, commitVars, classicVars, mediaVars, preVars, poolVars, channelVars>>
       /\ RepoNext
    \/ /\ part = "media"
       /\ UNCHANGED <<part, schedVars, attachVars, commitVars, classicVars, repoVars, preVars, poolVars, channelVars>>
       /\ MediaNext
    \/ /\ part = "channel"
       /\ UNCHANGED <<part, schedVars, attachVars, commitVars, classicVars, repoVars, mediaVars, preVars, poolVars>>
       /\ Channel!Next
    \/ /\ part = "preload"
       /\ UNCHANGED <<part, schedVars, attachVars, commitVars, classicVars, repoVars, mediaVars, poolVars, channelVars>>
       /\ PreloadNext
    \/ /\ part = "select"
       /\ UNCHANGED <<part, schedVars, attachVars, commitVars, classicVars, repoVars, mediaVars, preVars, channelVars>>
       /\ SelectableNext

LibrarySpec == LibraryInit /\ [][LibraryNext]_libraryVars

(* What tells two states of one part from each other: the variables of the      *)
(* others keep the values LibraryInit gives them for this part.  The run for    *)
(* safety remembers states by this view.                                     *)
Moving ==
    <<part, CASE part = "sched"   -> schedVars
              [] part = "attach"  -> attachVars
              [] part = "commit"  -> commitVars
              [] part = "classic" -> classicVars
              [] part = "repo"    -> repoVars
              [] part = "media"   -> mediaVars
              [] part = "channel" -> channelVars
              [] part = "preload" -> preVars
              [] part = "select"  -> poolVars>>

(* With the fairness of the parts that have progress properties.  A commit     *)
(* that or a preload that does not move could always start, so their fairness *)
(* is for the part only; in the others nothing is enabled until they move.   *)
LibraryFairSpec ==
    /\ LibrarySpec /\ SchedFairness /\ AttachFairness /\ Channel!Fairness
    /\ WF_commitVars(part = "commit" /\ LibraryStep)
    /\ WF_commitVars(part = "commit" /\ RpmStep)
    /\ WF_preVars(part = "preload" /\ PreloadNext)

(* The type of the part that moves.                                           *)
LibraryTypeOK ==
    \/ part = "sched"   /\ SchedTypeOK
    \/ part = "attach"  /\ AttachTypeOK
    \/ part = "classic" /\ ClassicTypeOK
    \/ part = "repo"    /\ RepoTypeOK
    \/ part = "media"   /\ MediaTypeOK
    \/ part = "preload" /\ PreloadTypeOK
    \/ part = "select"  /\ SelectableTypeOK

(* EveryRequestIsAnswered of ProvideChannel, for the part that is a channel.   *)
EveryRequestIsAnswered == Channel!EveryRequestIsAnswered
=============================================================================
