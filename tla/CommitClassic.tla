---------------------------- MODULE CommitClassic ----------------------------
(***************************************************************************)
(* A commit that calls rpm once per package: TargetImpl::commit(policy,     *)
(* cache, result), RpmDb::installPackage and removePackage, and the          *)
(* RpmPostTransCollector, which delays the %posttrans scripts to the end.    *)
(*                                                                         *)
(* Every package installed has a %posttrans script.  An rpm that supports    *)
(* --runposttrans dumps a line for it, kept in a file; of an older one       *)
(* libzypp extracts the script itself.  The transaction may replace rpm.     *)
(* rpm is external.  A user who answers RETRY to a failed rpm changes no      *)
(* state; a dry run is left out, and so are the file of a product without a  *)
(* package, which is removed, and the notice before the first call of rpm.   *)
(***************************************************************************)
EXTENDS Integers, Sequences, SequencesExt

CONSTANT Plans      \* the transactions to commit: sequences of PlanKind

\* "newrpm" and "oldrpm" install an rpm that has, has not, --runposttrans.  What
\* is no package is a "source" package to be installed, a "buddy", whose package
\* is a step of its own, or an "orphan", such as a product without a package.
PlanKind == {"package", "newrpm", "oldrpm", "erase", "obsoleted", "skipped",
             "source", "buddy", "orphan"}

ASSUME PlanAssumption == Plans \subseteq Seq(PlanKind)

\* Of rpm only one version can be installed: a transaction replaces it once.
ASSUME OneRpm ==
    \A plan \in Plans : \A s, t \in DOMAIN plan :
        {plan[s], plan[t]} \subseteq {"newrpm", "oldrpm"} => s = t

VARIABLES
    cc,     \* the committing thread
    col,    \* the RpmPostTransCollector
    rpm     \* the rpm installed, and what it did

classicVars == <<cc, col, rpm>>

PlanSteps == DOMAIN cc.plan

ClassicTypeOK ==
    /\ cc.plan \in Plans
    /\ cc.phase \in {"steps", "posttrans", "update", "returned", "aborted", "thrown"}
    /\ cc.next \in 1..Len(cc.plan) + 1
    /\ cc.abort \in BOOLEAN /\ cc.ignored \subseteq PlanSteps
    /\ cc.stage \in [PlanSteps -> {"todo", "done", "error"}]
    /\ cc.history \subseteq PlanSteps /\ cc.success \subseteq PlanSteps
    /\ col.scripts \in Seq(PlanSteps) /\ col.dump \in Seq(PlanSteps)
    /\ col.dumpfile \in BOOLEAN /\ col.runposttrans \in BOOLEAN
    /\ col.reported \subseteq PlanSteps
    /\ rpm.dumps \in BOOLEAN
    /\ rpm.did \in [PlanSteps -> {"untouched", "done", "failed"}]
    /\ rpm.ran \in Seq(PlanSteps)
    /\ rpm.last \in 0..Len(cc.plan)

ClassicInit ==
    \E plan \in Plans, dumps \in BOOLEAN :
        /\ cc = [ plan    |-> plan,
                  phase   |-> "steps",
                  next    |-> 1,
                  abort   |-> FALSE,
                  ignored |-> {},          \* observer: failures the user ignored
                  stage   |-> [s \in DOMAIN plan |-> "todo"],
                  history |-> {},          \* HistoryLog().install, remove
                  success |-> {} ]         \* successfullyInstalledPackages
        /\ col = [ scripts      |-> <<>>,
                   dump         |-> <<>>,      \* the install lines of the dumpfile
                   dumpfile     |-> FALSE,     \* _dumpfile exists
                   runposttrans |-> TRUE,      \* _dumpfile->_runposttrans
                   reported     |-> {} ]       \* observer: scripts the user is told
                                               \* will not run
        /\ rpm = [ dumps |-> dumps,        \* the rpm installed has --runposttrans
                   did   |-> [s \in DOMAIN plan |-> "untouched"],
                   ran   |-> <<>>,         \* %posttrans scripts in the order they ran
                   last  |-> 0 ]           \* observer: the last step rpm succeeded in,
                                           \* of those the collector is told of

Stepping == cc.phase = "steps" /\ ~cc.abort /\ cc.next <= Len(cc.plan)
PlanIs(kinds) == cc.plan[cc.next] \in kinds
Installs == {"package", "newrpm", "oldrpm"}

-----------------------------------------------------------------------------
(* The collector.                                                          *)

\* collectDumpPosttransLines.  An rpm that dumps prints at least one line.
CollectDump(s, installs) ==
    IF rpm.dumps
    THEN [col EXCEPT !.dump = IF installs THEN Append(@, s) ELSE @, !.dumpfile = TRUE]
    ELSE [col EXCEPT !.runposttrans = @ /\ ~col.dumpfile]

\* collectPosttransInfo for a package: no lines, so take the script.
CollectForPackage(s) ==
    IF rpm.dumps THEN CollectDump(s, TRUE)
    ELSE [CollectDump(s, TRUE) EXCEPT !.scripts = Append(@, s)]

\* It is the rpm that was installed before the step that dumps.
RpmDone(s) ==
    [rpm EXCEPT !.did[s] = "done", !.last = s,
                !.dumps = CASE PlanIs({"newrpm"}) -> TRUE
                            [] PlanIs({"oldrpm"}) -> FALSE
                            [] OTHER              -> @]

-----------------------------------------------------------------------------
(* The steps.                                                              *)

Move(stage) == [cc EXCEPT !.stage[cc.next] = stage, !.next = @ + 1]
AbortAt(stage) == [cc EXCEPT !.stage[cc.next] = stage, !.abort = TRUE]

\* Obsoleted by another package: rpm does it.
StepObsoleted ==
    /\ Stepping /\ PlanIs({"obsoleted"})
    /\ cc' = Move("done")
    /\ UNCHANGED <<col, rpm>>

\* packageCache_r.get() throws.
StepNotProvided ==
    /\ Stepping /\ PlanIs(Installs \cup {"skipped"})
    /\ \/ cc' = Move("error")          \* SkipRequestException, Exception
       \/ cc' = AbortAt("error")       \* AbortRequestException
    /\ UNCHANGED <<col, rpm>>

\* Mutant: a package whose installation ends with an abort is not logged.
StepInstallAbortUnlogged ==
    /\ Stepping /\ PlanIs(Installs)
    /\ rpm' = RpmDone(cc.next)
    /\ col' = CollectForPackage(cc.next)
    /\ \/ cc' = [Move("done") EXCEPT !.history = @ \cup {cc.next},
                                     !.success = @ \cup {cc.next}]
       \/ cc' = AbortAt("error")

\* rpm succeeds.  The last progress report may have returned false: the package
\* is installed and its script collected, but the commit is aborted.
StepInstall ==
    /\ Stepping /\ PlanIs(Installs)
    /\ rpm' = RpmDone(cc.next)
    /\ col' = CollectForPackage(cc.next)
    /\ \/ cc' = [Move("done") EXCEPT !.history = @ \cup {cc.next},
                                     !.success = @ \cup {cc.next}]
       \/ cc' = [AbortAt("error") EXCEPT !.history = @ \cup {cc.next}]

StepErase ==
    /\ Stepping /\ PlanIs({"erase"})
    /\ rpm' = RpmDone(cc.next)
    /\ col' = CollectDump(cc.next, FALSE)
    /\ \/ cc' = [Move("done") EXCEPT !.history = @ \cup {cc.next}]
       \/ cc' = [AbortAt("error") EXCEPT !.history = @ \cup {cc.next}]

RpmFails(s) == [rpm EXCEPT !.did[s] = "failed"]

\* rpm fails and the user answers ABORT.
StepFails ==
    /\ Stepping /\ PlanIs(Installs \cup {"erase"})
    /\ rpm' = RpmFails(cc.next)
    /\ cc' = AbortAt("error")
    /\ UNCHANGED col

\* rpm fails and the user answers IGNORE: installPackage and removePackage return
\* as if it had not failed.  A progress report may have returned false before.
StepIgnored ==
    /\ Stepping /\ PlanIs(Installs \cup {"erase"})
    /\ rpm' = RpmFails(cc.next)
    /\ \/ cc' = [Move("done") EXCEPT
                    !.ignored = @ \cup {cc.next},
                    !.history = @ \cup {cc.next},
                    !.success = IF PlanIs(Installs) THEN @ \cup {cc.next} ELSE @]
       \/ cc' = [AbortAt("error") EXCEPT !.ignored = @ \cup {cc.next},
                                         !.history = @ \cup {cc.next}]
    /\ UNCHANGED col

\* No package: the step of a buddy has the stage of the step of its package.
StepOther ==
    /\ Stepping
    /\ \/ PlanIs({"orphan"}) /\ cc' = Move("done")
       \/ PlanIs({"buddy"})  /\ cc' = [cc EXCEPT !.next = @ + 1]
    /\ UNCHANGED <<col, rpm>>

\* installSrcPackage: rpm is called without the collector, nobody asks whether a
\* progress report returned false, and no package is added to the history.  rpm
\* succeeds, or fails and the user answers IGNORE.
StepSource ==
    /\ Stepping /\ PlanIs({"source"})
    /\ \/ rpm' = [rpm EXCEPT !.did[cc.next] = "done"] /\ cc' = Move("done")
       \/ /\ rpm' = RpmFails(cc.next)
          /\ cc' = [Move("done") EXCEPT !.ignored = @ \cup {cc.next}]
    /\ UNCHANGED col

\* The source package can not be provided, or rpm fails and the user answers
\* ABORT: the exception leaves commit(), and the collector goes with what it holds.
StepSourceThrows ==
    /\ Stepping /\ PlanIs({"source"})
    /\ rpm' \in {rpm, RpmFails(cc.next)}
    /\ cc' = [cc EXCEPT !.phase = "thrown"]
    /\ col' = [col EXCEPT !.scripts = <<>>, !.dump = <<>>, !.dumpfile = FALSE]

-----------------------------------------------------------------------------
(* After the steps: executeScripts, discardScripts, update scripts.        *)

StepsDone == cc.phase = "steps" /\ (cc.abort \/ cc.next > Len(cc.plan))

\* The scripts collected are named in a warning; of the lines in the dumpfile it
\* says that there are some.
DiscardScripts ==
    /\ StepsDone /\ cc.abort
    /\ col' = [col EXCEPT !.scripts = <<>>, !.dump = <<>>, !.dumpfile = FALSE,
                          !.reported = ToSet(col.scripts) \cup ToSet(col.dump)]
    /\ cc' = [cc EXCEPT !.phase = "update"]
    /\ UNCHANGED rpm

\* Mutant: the extracted scripts are put behind the collected ones.
ExecuteScriptsAppended ==
    /\ StepsDone /\ ~cc.abort
    /\ cc' = [cc EXCEPT !.phase = "posttrans"]
    /\ col' = IF col.dumpfile /\ ~col.runposttrans
              THEN [col EXCEPT !.scripts = @ \o col.dump, !.dump = <<>>, !.dumpfile = FALSE]
              ELSE col
    /\ UNCHANGED rpm

\* executeScripts, its first part: the last calls of rpm printed no lines, so the
\* scripts are extracted from the dumpfile and put before the collected ones.
ExecuteScripts ==
    /\ StepsDone /\ ~cc.abort
    /\ cc' = [cc EXCEPT !.phase = "posttrans"]
    /\ col' = IF col.dumpfile /\ ~col.runposttrans
              THEN [col EXCEPT !.scripts = col.dump \o @, !.dump = <<>>, !.dumpfile = FALSE]
              ELSE col
    /\ UNCHANGED rpm

\* A script that fails is only a warning.
RunScript ==
    /\ cc.phase = "posttrans" /\ col.scripts # <<>>
    /\ rpm' = [rpm EXCEPT !.ran = Append(@, Head(col.scripts))]
    /\ col' = [col EXCEPT !.scripts = Tail(@)]
    /\ UNCHANGED cc

\* rpm --runposttrans; an rpm that does not know it fails, which is reported.
RunDumped ==
    /\ cc.phase = "posttrans" /\ col.scripts = <<>> /\ col.dumpfile
    /\ rpm' = IF rpm.dumps THEN [rpm EXCEPT !.ran = @ \o col.dump] ELSE rpm
    /\ col' = [col EXCEPT !.dump = <<>>, !.dumpfile = FALSE]
    /\ UNCHANGED cc

ScriptsDone ==
    /\ cc.phase = "posttrans" /\ col.scripts = <<>> /\ ~col.dumpfile
    /\ cc' = [cc EXCEPT !.phase = "update"]
    /\ UNCHANGED <<col, rpm>>

\* RunUpdateScripts may abort if there is a package to run a script for.
ClassicEnds ==
    /\ cc.phase = "update"
    /\ \E abort \in {cc.abort, cc.success # {}} :
        cc' = [cc EXCEPT !.phase = IF cc.abort \/ abort THEN "aborted" ELSE "returned"]
    /\ UNCHANGED <<col, rpm>>

ClassicNext ==
    \/ StepObsoleted \/ StepNotProvided \/ StepInstall \/ StepErase
    \/ StepFails \/ StepIgnored \/ StepOther \/ StepSource \/ StepSourceThrows
    \/ DiscardScripts \/ ExecuteScripts \/ RunScript \/ RunDumped \/ ScriptsDone
    \/ ClassicEnds

ClassicSpec == ClassicInit /\ [][ClassicNext]_classicVars

-----------------------------------------------------------------------------
(* Properties.                                                             *)

\* The scripts are owed for the packages rpm installed.
Owed == {s \in PlanSteps : cc.plan[s] \in Installs /\ rpm.did[s] = "done"}

InOrder(steps) == \A i, j \in DOMAIN steps : i < j => steps[i] < steps[j]

\* The last successful call of rpm the collector saw replaced it by one without
\* --runposttrans: the lines of that call say that it can be used.
DowngradedLast == rpm.last # 0 /\ cc.plan[rpm.last] = "oldrpm"

\* The steps are over, and no exception of a source package has left commit().
Ended == cc.phase \in {"update", "returned", "aborted"}

\* No %posttrans script runs that is not owed for a package rpm installed, none
\* twice and none out of the order of the installation.  When the steps are over
\* every script owed has run, whichever rpm collected it; when they were aborted
\* none has, and the user is told of all of them.  There are two exceptions.  If
\* the last call of rpm that succeeded, source packages aside, was a downgrade,
\* the lines of the dumpfile are lost.  And if a source package can not be
\* installed, the exception leaves commit() past both executeScripts and
\* discardScripts: no script runs and nobody is told, although the comment at
\* TargetImpl.cc:2007 says that an abort at least logs the scripts it omits.
PosttransInOrder ==
    /\ ToSet(rpm.ran) \subseteq Owed /\ InOrder(rpm.ran)
    /\ Ended /\ ~cc.abort /\ ~DowngradedLast => Owed \subseteq ToSet(rpm.ran)
    /\ Ended /\ cc.abort => rpm.ran = <<>> /\ col.reported = Owed
    /\ cc.phase = "thrown" => rpm.ran = <<>> /\ col.reported = {}

\* The history names the packages rpm installed or removed, also those whose step
\* is in error because of an abort, and the failures the user ignored, and no
\* others.  Source packages are never in it: HistoryLog::install writes nothing of
\* what is no Package, and commit() does not call it for them.
HistoryTellsTruth ==
    cc.history = {s \in PlanSteps : /\ cc.plan[s] # "source"
                                    /\ rpm.did[s] = "done" \/ s \in cc.ignored}

=============================================================================
