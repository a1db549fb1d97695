---------------------------- MODULE CommitSingle ----------------------------
(***************************************************************************)
(* A commit in one rpm transaction: TargetImpl::commitInSingleTransaction   *)
(* and the helper process zypp-rpm, which calls librpm.                     *)
(*                                                                         *)
(* Two pipes lead from zypp-rpm to libzypp.  One has the STOMP messages      *)
(* (what librpm's callback says), the other the output of the scripts; an    *)
(* end tag in the output says where the output of one block ends.  A block   *)
(* is what librpm does between a START and a STOP callback: prepare the      *)
(* transaction, run a script, install or remove a package, clean up a        *)
(* replaced package.  Messages of progress and log lines change no state and *)
(* are left out, so is a dry run; of the output only the tags are kept.      *)
(***************************************************************************)
EXTENDS Integers, FiniteSets, Sequences, SequencesExt

CONSTANTS
    Transactions,   \* the transactions to commit: sequences of StepKind
    PipeSize        \* messages the pipe holds before zypp-rpm has to wait

StepKind == {"install", "remove", "ignored", "source", "product"}

ASSUME CommitAssumption ==
    /\ Transactions \subseteq Seq(StepKind)
    /\ PipeSize \in Nat \ {0}

VARIABLES
    lz,        \* the thread of libzypp that commits
    zr,        \* zypp-rpm and librpm
    pipes      \* messages and end tags on their way

commitVars == <<lz, zr, pipes>>

Steps == DOMAIN lz.kind

BlockType == {"trans", "script", "install", "uninstall", "cleanup"}

\* Block number n; the step is 0 where the messages say -1 or nothing.
Block   == [type : BlockType, step : Nat, n : Nat]
NoBlock == [type |-> "none", step |-> 0, n |-> 0]

Message == [say   : {"Begin", "Finished", "Error", "TransactionError"},
            block : Block \cup {NoBlock},
            fatal : BOOLEAN]
TransactionError == [say |-> "TransactionError", block |-> NoBlock, fatal |-> FALSE]

\* What rpm really did to the package of a step.
Deed == {"untouched", "done", "failed"}

Refusals == {"FailedToOpenDb", "FailedToReadPackage", "RpmOrderFailed"}
ExitCode == Refusals \cup
    {"NoError", "RpmFinishedWithError", "RpmFinishedWithTransactionError", "Signal"}

CommitTypeOK ==
    /\ lz.kind \in Transactions
    /\ lz.phase \in {"fill", "loop", "drain", "check", "scripts",
                     "returned", "aborted", "failed"}
    /\ lz.next \in 1..Len(lz.kind) + 1
    /\ lz.todo \in Seq(Steps)
    /\ lz.abort \in BOOLEAN /\ lz.gotEnd \in BOOLEAN /\ lz.early \in BOOLEAN
    /\ lz.stage \in [Steps -> {"todo", "done", "error"}]
    /\ lz.report \in Block \cup {NoBlock}
    /\ lz.seen \in Nat
    /\ lz.inbox \in Seq(Message)
    /\ lz.logged \in [Steps -> {"no", "ok", "failed"}]
    /\ zr.state \in {"none", "reads", "runs", "gone"}
    /\ zr.left \in Seq(Steps) /\ zr.source \in Seq(Steps)
    /\ zr.plan \in Seq(Block)
    /\ zr.block \in Block \cup {NoBlock}
    /\ zr.at \in {"idle", "begun", "tagged", "error"}
    /\ zr.cleans \in BOOLEAN /\ zr.err \in BOOLEAN
    /\ zr.did \in [Steps -> Deed]
    /\ zr.code \in ExitCode \cup {"none"}
    /\ pipes.msgs \in Seq(Message) /\ Len(pipes.msgs) <= PipeSize
    /\ pipes.tags \in Seq(Nat)
    /\ pipes.held \in BOOLEAN

CommitInit ==
    \E kind \in Transactions :
        /\ lz = [ kind   |-> kind,
                  phase  |-> "fill",
                  next   |-> 1,                                 \* stepId
                  todo   |-> <<>>,                              \* commit.transactionSteps
                  abort  |-> FALSE,
                  stage  |-> [s \in DOMAIN kind |-> "todo"],    \* stepStage()
                  report |-> NoBlock,     \* the running report and currentStepId
                  gotEnd |-> FALSE,                             \* gotEndOfScript
                  seen   |-> 0,           \* observer: block of the last end tag read
                  early  |-> FALSE,       \* observer: a tag was read before its report
                  inbox  |-> <<>>,                              \* frames of msgStream
                  logged |-> [s \in DOMAIN kind |-> "no"] ]     \* the history file
        /\ zr = [ state  |-> "none",
                  left   |-> <<>>,                              \* elements of the rpmts
                  source |-> <<>>,                              \* sourcePackageInstallHelper
                  plan   |-> <<>>,        \* the blocks of the current element
                  block  |-> NoBlock,
                  at     |-> "idle",
                  err    |-> FALSE,                             \* rpmtsRun will fail
                  cleans |-> FALSE,       \* replaced packages are still to clean up
                  did    |-> [s \in DOMAIN kind |-> "untouched"],
                  code   |-> "none" ]
        /\ pipes = [ msgs |-> <<>>, tags |-> <<>>, held |-> FALSE ]

-----------------------------------------------------------------------------
(* Filling the transaction.                                                *)

Filling == lz.phase = "fill" /\ ~lz.abort /\ lz.next <= Len(lz.kind)

FillKind == lz.kind[lz.next]

\* Packages obsoleted by another one: rpm does it.
FillIgnored ==
    /\ Filling /\ FillKind = "ignored"
    /\ lz' = [lz EXCEPT !.stage[lz.next] = "done", !.next = @ + 1]
    /\ UNCHANGED <<zr, pipes>>

\* The package is on disk (packageCache, provideSrcPackage), or it is removed.
FillAdd ==
    /\ Filling /\ FillKind \in {"install", "remove", "source"}
    /\ lz' = [lz EXCEPT !.todo = Append(@, lz.next), !.next = @ + 1]
    /\ UNCHANGED <<zr, pipes>>

FillSkip ==
    /\ Filling /\ FillKind \in {"install", "source"}
    /\ lz' = [lz EXCEPT !.stage[lz.next] = "error", !.next = @ + 1]
    /\ UNCHANGED <<zr, pipes>>

\* AbortRequestException: what has been gathered so far is still run.
FillAbort ==
    /\ Filling /\ FillKind = "install"
    /\ lz' = [lz EXCEPT !.stage[lz.next] = "error", !.abort = TRUE]
    /\ UNCHANGED <<zr, pipes>>

FillOther ==
    /\ Filling /\ FillKind = "product"
    /\ lz' = [lz EXCEPT !.next = @ + 1]
    /\ UNCHANGED <<zr, pipes>>

Filled == lz.phase = "fill" /\ (lz.abort \/ lz.next > Len(lz.kind))

StartRpm ==
    /\ Filled /\ lz.todo # <<>>
    /\ \/ /\ lz' = [lz EXCEPT !.phase = "loop"]
          /\ zr' = [zr EXCEPT !.state = "reads"]
       \/ /\ lz' = [lz EXCEPT !.phase = "failed"]       \* prog->start() fails
          /\ UNCHANGED zr
    /\ UNCHANGED pipes

NothingToDo ==
    /\ Filled /\ lz.todo = <<>>
    /\ lz' = [lz EXCEPT !.phase = "scripts"]
    /\ UNCHANGED <<zr, pipes>>

-----------------------------------------------------------------------------
(* The script pipe and the reports of libzypp.                             *)

\* Nobody has the write end: zypp-rpm is gone and no process a script started
\* inherited it.
ScriptPipeClosed == zr.state = "gone" /\ ~pipes.held

\* processDataFromScriptFd up to the next end tag.
ReadTag(l, p) ==
    [lib |-> [l EXCEPT !.gotEnd = TRUE, !.seen = Head(p.tags),
                       !.early = @ \/ l.report = NoBlock],
     pip |-> [p EXCEPT !.tags = Tail(@)]]

\* waitForScriptEnd: returns with the tag, or when the pipe is closed.
CanEndReport == lz.gotEnd \/ pipes.tags # <<>> \/ ScriptPipeClosed

WaitForScriptEnd(l, p) ==
    IF l.gotEnd \/ p.tags = <<>> THEN [lib |-> l, pip |-> p] ELSE ReadTag(l, p)

\* finalizeCurrentReport: only a STEP_ERROR is logged as a failure.
FinalizeCurrentReport(l) ==
    LET s      == l.report.step
        isStep == l.report.type \in {"install", "uninstall"}
    IN  [l EXCEPT !.logged = IF isStep
                             THEN [@ EXCEPT ![s] = IF l.stage[s] = "error"
                                                   THEN "failed" ELSE "ok"]
                             ELSE @,
                  !.report = NoBlock]

\* The running report, if any, after its output was read and it was closed.
EndReport(l, p) ==
    LET w == IF l.report = NoBlock THEN [lib |-> l, pip |-> p] ELSE WaitForScriptEnd(l, p)
    IN  [w EXCEPT !.lib = FinalizeCurrentReport(@)]

\* Mutant: the end tag of the last report ends the new one too.
StartReportKeepsEnd(l, b) == [l EXCEPT !.report = b]

\* aboutToStartNewReport and the new report.
StartReport(l, b) == [l EXCEPT !.gotEnd = FALSE, !.report = b]

-----------------------------------------------------------------------------
(* processMessages: one message at a time; the handlers wait for the end    *)
(* tag of the running report without reading further messages.              *)

Looping == lz.phase \in {"loop", "drain"}

Pop == [lz EXCEPT !.inbox = Tail(@)]

Handles(say, types) ==
    /\ Looping /\ lz.inbox # <<>>
    /\ Head(lz.inbox).say = say /\ Head(lz.inbox).block.type \in types

CurrentBlock == Head(lz.inbox).block

\* PackageBegin, ScriptBegin, CleanupBegin, TransBegin.
OnBegin ==
    /\ Handles("Begin", BlockType)
    /\ lz.report # NoBlock => CanEndReport
    /\ LET e == EndReport(Pop, pipes)
       IN  lz' = StartReport(e.lib, CurrentBlock) /\ pipes' = e.pip
    /\ UNCHANGED zr

\* An error may still follow, so the report goes on.
OnPackageFinished ==
    /\ Handles("Finished", {"install", "uninstall"})
    /\ lz' = [Pop EXCEPT !.stage[CurrentBlock.step] = "done"]
    /\ UNCHANGED <<zr, pipes>>

\* Mutant: the error does not change the step.
PackageErrorForgotten ==
    /\ Handles("Error", {"install", "uninstall"})
    /\ lz.report # NoBlock => CanEndReport
    /\ LET e == EndReport(Pop, pipes)
       IN  lz' = e.lib /\ pipes' = e.pip
    /\ UNCHANGED zr

OnPackageError ==
    /\ Handles("Error", {"install", "uninstall"})
    /\ lz.report # NoBlock => CanEndReport
    /\ LET e == EndReport([Pop EXCEPT !.stage[CurrentBlock.step] = "error"], pipes)
       IN  lz' = e.lib /\ pipes' = e.pip
    /\ UNCHANGED zr

\* TransFinished, CleanupFinished.
OnFinished ==
    /\ Handles("Finished", {"trans", "cleanup"})
    /\ lz.report # NoBlock => CanEndReport
    /\ LET e == EndReport(Pop, pipes)
       IN  lz' = e.lib /\ pipes' = e.pip
    /\ UNCHANGED zr

OnScriptFinished ==
    /\ Handles("Finished", {"script"})
    /\ lz' = Pop
    /\ UNCHANGED <<zr, pipes>>

OnScriptError ==
    /\ Handles("Error", {"script"})
    /\ lz.report.type = "script" => CanEndReport
    /\ LET s == CurrentBlock.step
           l == IF s # 0 /\ Head(lz.inbox).fatal THEN [Pop EXCEPT !.stage[s] = "error"] ELSE Pop
           w == WaitForScriptEnd(l, pipes)
       IN  IF lz.report.type = "script"
           THEN /\ lz' = [w.lib EXCEPT !.report = NoBlock]
                /\ pipes' = w.pip
           ELSE lz' = l /\ UNCHANGED pipes
    /\ UNCHANGED zr

OnTransactionError ==
    /\ Handles("TransactionError", {"none"})
    /\ lz' = Pop
    /\ UNCHANGED <<zr, pipes>>

-----------------------------------------------------------------------------
(* The event loop, and what follows it.                                    *)

ReadMessages ==
    /\ Looping /\ lz.inbox = <<>> /\ pipes.msgs # <<>>
    /\ lz' = [lz EXCEPT !.inbox = pipes.msgs]
    /\ pipes' = [pipes EXCEPT !.msgs = <<>>]
    /\ UNCHANGED zr

ReadScriptOutput ==
    /\ lz.phase = "loop" /\ lz.inbox = <<>>
    /\ pipes.tags # <<>> /\ ~lz.gotEnd
    /\ LET r == ReadTag(lz, pipes) IN lz' = r.lib /\ pipes' = r.pip
    /\ UNCHANGED zr

\* Mutant: what is still in the pipe is dropped.
SigFinishedNoDrain ==
    /\ lz.phase = "loop" /\ lz.inbox = <<>> /\ zr.state = "gone"
    /\ lz' = [lz EXCEPT !.phase = "check"]
    /\ UNCHANGED <<zr, pipes>>

\* sigFinished quits the loop, whatever is still in the pipes.
SigFinished ==
    /\ lz.phase = "loop" /\ lz.inbox = <<>> /\ zr.state = "gone"
    /\ lz' = [lz EXCEPT !.phase = "drain"]
    /\ UNCHANGED <<zr, pipes>>

\* All messages are read: the last report has no successor to close it.
LastReport ==
    /\ lz.phase = "drain" /\ lz.inbox = <<>> /\ pipes.msgs = <<>>
    /\ lz.report # NoBlock => CanEndReport
    /\ LET e == EndReport(lz, pipes)
       IN  lz' = [e.lib EXCEPT !.phase = "check"] /\ pipes' = e.pip
    /\ UNCHANGED zr

\* Mutant: a failed element makes the commit fail.
ThrowsOnError(code) ==
    code \in Refusals \cup {"RpmFinishedWithTransactionError", "RpmFinishedWithError"}

\* The exit codes that throw; any code the switch does not name is no error.
Throws(code) == code \in Refusals \cup {"RpmFinishedWithTransactionError"}

\* Products without a package are handled here.
CheckExitCode ==
    /\ lz.phase = "check"
    /\ lz' = IF Throws(zr.code) THEN [lz EXCEPT !.phase = "failed"]
             ELSE [lz EXCEPT !.phase = "scripts",
                             !.stage = [s \in Steps |->
                                 IF ~lz.abort /\ lz.kind[s] = "product" /\ @[s] = "todo"
                                 THEN "done" ELSE @[s]]]
    /\ UNCHANGED <<zr, pipes>>

\* Update scripts may abort too; they run only for installed packages.
RunUpdateScripts ==
    /\ lz.phase = "scripts"
    /\ \E abort \in {lz.abort} \cup
            (IF \E s \in Steps : lz.kind[s] # "remove" /\ lz.logged[s] = "ok"
             THEN {TRUE} ELSE {}) :
        lz' = [lz EXCEPT !.phase = IF abort THEN "aborted" ELSE "returned"]
    /\ UNCHANGED <<zr, pipes>>

-----------------------------------------------------------------------------
(* zypp-rpm.                                                               *)

\* Sending waits while the pipe is full.
CanPush == Len(pipes.msgs) < PipeSize
Push(m) == [pipes EXCEPT !.msgs = Append(@, m)]
Says(say, fatal) == [say |-> say, block |-> zr.block, fatal |-> fatal]

Gone(code) == [zr EXCEPT !.state = "gone", !.code = code, !.block = NoBlock, !.at = "idle"]

\* A package can not be read, the database not be opened...
Refuse ==
    /\ zr.state = "reads"
    /\ \E code \in Refusals : zr' = Gone(code)
    /\ UNCHANGED <<lz, pipes>>

NextN == zr.block.n + 1
PlanOf(types, s, n) == [i \in DOMAIN types |-> [type |-> types[i], step |-> s, n |-> n]]

\* rpmtsOrder: rpm takes the elements in an order of its own.
RpmOrder(elements) == SetToSeqs(elements)

\* stepIndices: the source packages in the order they were added.
SourceOrder(steps) ==
    {order \in SetToSeqs(steps) : \A i, j \in DOMAIN order : i < j => order[i] < order[j]}

\* rpmtsAdd...Element: a package that is not installed is not removed, source
\* packages are kept for later.  rpmtsRun begins with the transaction itself.
Prepare ==
    /\ zr.state = "reads"
    /\ \E missing \in SUBSET {s \in ToSet(lz.todo) : lz.kind[s] = "remove"} :
       LET source == {s \in ToSet(lz.todo) : lz.kind[s] = "source"}
       IN  \E left \in RpmOrder(ToSet(lz.todo) \ (source \cup missing)), later \in SourceOrder(source) :
               zr' = [zr EXCEPT !.state = "runs", !.left = left, !.source = later,
                                !.plan = PlanOf(<<"trans">>, 0, 0)]
    /\ UNCHANGED <<lz, pipes>>

\* rpmtsCheck or rpmtsRun finds problems and touches nothing.
Problems ==
    /\ zr.state \in {"reads", "runs"} /\ zr.at = "idle" /\ zr.plan = <<>>
    /\ \A s \in Steps : zr.did[s] = "untouched"
    /\ CanPush
    /\ pipes' = Push(TransactionError)
    /\ zr' = Gone("RpmFinishedWithTransactionError")
    /\ UNCHANGED lz

\* Scripts come before and after the package itself.
TakeElement ==
    /\ zr.state = "runs" /\ zr.at = "idle" /\ zr.plan = <<>> /\ zr.left # <<>>
    /\ LET s    == Head(zr.left)
           self == IF lz.kind[s] = "remove" THEN "uninstall" ELSE "install"
       IN  \E types \in {<<self>>, <<"script", self>>, <<self, "script">>, <<"script", self, "script">>} :
               zr' = [zr EXCEPT !.plan = PlanOf(types, s, 0),
                                !.left = Tail(@),
                                !.cleans = @ \/ self = "install"]
    /\ UNCHANGED <<lz, pipes>>

\* The packages that were replaced go last; their scripts have no step.
TakeCleanup ==
    /\ zr.state = "runs" /\ zr.at = "idle" /\ zr.plan = <<>> /\ zr.left = <<>> /\ zr.cleans
    /\ \E types \in {<<>>, <<"cleanup">>, <<"script", "cleanup">>} :
        zr' = [zr EXCEPT !.plan = PlanOf(types, 0, 0), !.cleans = FALSE]
    /\ UNCHANGED <<lz, pipes>>

\* rpmInstallSourcePackage after the run, which had no failure (see Failing).
TakeSource ==
    /\ zr.state = "runs" /\ zr.at = "idle" /\ zr.plan = <<>> /\ zr.left = <<>> /\ ~zr.cleans
    /\ zr.source # <<>>
    /\ zr' = [zr EXCEPT !.plan = PlanOf(<<"install">>, Head(zr.source), 0),
                        !.source = Tail(@)]
    /\ UNCHANGED <<lz, pipes>>

EndRun ==
    /\ zr.state = "runs" /\ zr.at = "idle" /\ zr.plan = <<>> /\ zr.left = <<>> /\ ~zr.cleans
    /\ zr.source = <<>>
    /\ zr' = Gone(IF zr.err THEN "RpmFinishedWithError" ELSE "NoError")
    /\ UNCHANGED <<lz, pipes>>

\* *_START.  A script may leave a process behind that has the script pipe.
BlockBegin ==
    /\ zr.at = "idle" /\ zr.plan # <<>> /\ zr.state = "runs" /\ CanPush
    /\ LET b == [Head(zr.plan) EXCEPT !.n = NextN]
       IN  /\ zr' = [zr EXCEPT !.block = b, !.plan = Tail(@), !.at = "begun"]
           /\ \E held \in {pipes.held, pipes.held \/ b.type = "script"} :
               pipes' = [pipes EXCEPT !.held = held,
                   !.msgs = Append(@, [say |-> "Begin", block |-> b, fatal |-> FALSE])]
    /\ UNCHANGED lz

\* Mutant: blocks without output of a package send no tag.
BlockTagPackages ==
    /\ zr.at = "begun"
    /\ pipes' = IF zr.block.type \in {"install", "uninstall", "script"}
                THEN [pipes EXCEPT !.tags = Append(@, zr.block.n)] ELSE pipes
    /\ zr' = [zr EXCEPT !.at = "tagged"]
    /\ UNCHANGED lz

\* sendEndOfScriptTag, before the message of the same callback.
BlockTag ==
    /\ zr.at = "begun"
    /\ pipes' = [pipes EXCEPT !.tags = Append(@, zr.block.n)]
    /\ zr' = [zr EXCEPT !.at = "tagged"]
    /\ UNCHANGED lz

Package(type) == type \in {"install", "uninstall"}

\* *_STOP of a block that went well.
BlockStop ==
    /\ zr.at = "tagged" /\ CanPush
    /\ pipes' = Push(Says("Finished", FALSE))
    /\ zr' = [zr EXCEPT !.at = "idle",
                        !.did = IF Package(zr.block.type)
                                THEN [@ EXCEPT ![zr.block.step] = "done"] ELSE @]
    /\ UNCHANGED lz

\* An element of rpmtsRun fails: its other blocks are dropped, and zypp-rpm will
\* return without a look at the source packages.
Failing(s) ==
    [zr EXCEPT !.err = TRUE, !.plan = <<>>,
               !.source = IF s # 0 /\ lz.kind[s] = "source" THEN @ ELSE <<>>,
               !.did = IF s # 0 THEN [@ EXCEPT ![s] = "failed"] ELSE @]

\* *_STOP of a block that failed: an error follows it.
BlockFails ==
    /\ zr.at = "tagged" /\ CanPush
    /\ Package(zr.block.type) \/ zr.block.type = "script"
    /\ pipes' = Push(Says("Finished", FALSE))
    /\ zr' = [IF Package(zr.block.type) THEN Failing(zr.block.step) ELSE zr
                 EXCEPT !.at = "error"]
    /\ UNCHANGED lz

\* UNPACK_ERROR, SCRIPT_ERROR.  An error of a script before the package may be
\* fatal: the element fails.  Later scripts only warn.
BlockError ==
    /\ zr.at = "error" /\ CanPush
    /\ \E fatal \in {FALSE, zr.block.type = "script" /\ zr.plan # <<>>} :
        /\ pipes' = Push(Says("Error", fatal))
        /\ zr' = [IF fatal THEN Failing(zr.block.step) ELSE zr EXCEPT !.at = "idle"]
    /\ UNCHANGED lz

\* A signal ends zypp-rpm: the exit status is 128 + the signal.
Killed ==
    /\ zr.state \in {"reads", "runs"}
    /\ zr' = Gone("Signal")
    /\ UNCHANGED <<lz, pipes>>

-----------------------------------------------------------------------------
LibraryStep ==
    \/ FillIgnored \/ FillAdd \/ FillSkip \/ FillAbort \/ FillOther
    \/ StartRpm \/ NothingToDo
    \/ OnBegin \/ OnPackageFinished \/ OnPackageError \/ OnFinished
    \/ OnScriptFinished \/ OnScriptError \/ OnTransactionError
    \/ ReadMessages \/ ReadScriptOutput \/ SigFinished \/ LastReport
    \/ CheckExitCode \/ RunUpdateScripts

RpmStep ==
    \/ Refuse \/ Prepare \/ Problems \/ TakeElement \/ TakeCleanup \/ TakeSource \/ EndRun
    \/ BlockBegin \/ BlockTag \/ BlockStop \/ BlockFails \/ BlockError

CommitNext == LibraryStep \/ RpmStep \/ Killed

CommitSpec == CommitInit /\ [][CommitNext]_commitVars

\* Both processes are scheduled; nobody has to kill zypp-rpm.
CommitFairness == WF_commitVars(LibraryStep) /\ WF_commitVars(RpmStep)

-----------------------------------------------------------------------------
(* Properties.                                                             *)

\* The history says "installed ok" or "removed ok" only of what rpm did, unless
\* a signal ended zypp-rpm: then the package in progress is logged as well.
LoggedIsDone ==
    \A s \in Steps : lz.logged[s] = "ok" => zr.did[s] = "done" \/ zr.code = "Signal"

\* The same without the exception: what the history file promises.
LoggedIsAlwaysDone ==
    \A s \in Steps : lz.logged[s] = "ok" => zr.did[s] = "done"

\* A commit that does not fail has read everything zypp-rpm said: each step is
\* done, in error or still to do exactly as rpm left the package.  One that fails
\* with an exception other than an abort has not touched the system: the caller
\* need not ask what was installed.
ResultTellsTruth ==
    /\ lz.phase \in {"returned", "aborted"} /\ zr.code # "Signal" =>
          \A s \in ToSet(lz.todo) :
              lz.stage[s] = CASE zr.did[s] = "done"      -> "done"
                              [] zr.did[s] = "failed"    -> "error"
                              [] zr.did[s] = "untouched" -> "todo"
    /\ lz.phase = "failed" => \A s \in Steps : zr.did[s] = "untouched"

\* The end tag that ends the output of a report is the tag of its own block, also
\* when the two pipes are read in any order, unless the first tag was read before
\* the first report was started.
OutputInOrder ==
    lz.report # NoBlock /\ lz.gotEnd /\ ~lz.early => lz.seen = lz.report.n

\* The same without the exception.
OutputAlwaysInOrder ==
    lz.report # NoBlock /\ lz.gotEnd => lz.seen = lz.report.n

\* A commit that has started zypp-rpm ends, although libzypp waits for the end
\* tag of a script while zypp-rpm waits for room in the pipe of messages.  The
\* exceptions: the first tag was read early, or zypp-rpm was killed and a process
\* started by a script lives on.
CommitEnds ==
    lz.phase = "loop" ~> \/ lz.phase \in {"returned", "aborted", "failed"}
                         \/ lz.early
                         \/ zr.code = "Signal" /\ pipes.held
=============================================================================
