------------------------------ MODULE Commit_proofs ------------------------------
(***************************************************************************)
(* Proofs about the two ways to commit, for every transaction.              *)
(*                                                                         *)
(* With one call of rpm per package: the state is well typed, the history    *)
(* tells the truth, and every %posttrans script that is owed runs once and   *)
(* in order, or the user is told that it does not, unless the exception of a  *)
(* source package ends the commit.                                          *)
(*                                                                         *)
(* In one rpm transaction, for every size of the pipe: the history and the   *)
(* result tell what rpm did, although the messages about it are read late,   *)
(* or zypp-rpm has already gone, and the output of the scripts ends with the *)
(* tags of its reports.                                                     *)
(***************************************************************************)
EXTENDS CommitClassic, CommitSingle, FiniteSetTheorems, TLAPS

-----------------------------------------------------------------------------
(*                         One call of rpm per package                       *)

(* ClassicTypeOK by its records, with the fields each of them has.           *)
ThreadType ==
    /\ DOMAIN cc = {"plan", "phase", "next", "abort", "ignored", "stage", "history", "success"}
    /\ cc.plan \in Plans
    /\ cc.phase \in {"steps", "posttrans", "update", "returned", "aborted", "thrown"}
    /\ cc.next \in 1..Len(cc.plan) + 1
    /\ cc.abort \in BOOLEAN /\ cc.ignored \subseteq PlanSteps
    /\ cc.stage \in [PlanSteps -> {"todo", "done", "error"}]
    /\ cc.history \subseteq PlanSteps /\ cc.success \subseteq PlanSteps

CollectorType ==
    /\ DOMAIN col = {"scripts", "dump", "dumpfile", "runposttrans", "reported"}
    /\ col.scripts \in Seq(PlanSteps) /\ col.dump \in Seq(PlanSteps)
    /\ col.dumpfile \in BOOLEAN /\ col.runposttrans \in BOOLEAN
    /\ col.reported \subseteq PlanSteps

ClassicRpmType ==
    /\ DOMAIN rpm = {"dumps", "did", "ran", "last"}
    /\ rpm.dumps \in BOOLEAN
    /\ rpm.did \in [PlanSteps -> {"untouched", "done", "failed"}]
    /\ rpm.ran \in Seq(PlanSteps)
    /\ rpm.last \in 0..Len(cc.plan)

ClassicTypeInv == ThreadType /\ CollectorType /\ ClassicRpmType

LEMMA PlanIsSequence ==
    ASSUME ThreadType
    PROVE  /\ cc.plan \in Seq(PlanKind) /\ Len(cc.plan) \in Nat
           /\ PlanSteps = 1..Len(cc.plan)
           /\ Stepping => cc.next \in PlanSteps /\ cc.next + 1 \in 1..Len(cc.plan) + 1
  BY PlanAssumption DEF ThreadType, PlanSteps, Stepping

(* What a step of the plan does to the thread, whatever rpm did: it goes on or   *)
(* stops where it is, and adds the step to the sets it names.                *)
Moved(history, ignored) ==
    /\ DOMAIN cc' = DOMAIN cc /\ cc'.plan = cc.plan /\ cc'.phase = cc.phase
    /\ \/ cc'.next = cc.next + 1 /\ cc'.abort = cc.abort
       \/ cc'.next = cc.next /\ cc'.abort = TRUE
    /\ \/ cc'.stage = cc.stage
       \/ \E stage \in {"done", "error"} : cc'.stage = [cc.stage EXCEPT ![cc.next] = stage]
    /\ cc'.history = history /\ cc'.ignored = ignored
    /\ cc'.success \in {cc.success, cc.success \cup {cc.next}}

LEMMA MoveFields ==
    ASSUME ThreadType, NEW stage \in {"done", "error"}, NEW m,
           m = Move(stage) \/ m = AbortAt(stage)
    PROVE  /\ DOMAIN m = DOMAIN cc /\ m.plan = cc.plan /\ m.phase = cc.phase
           /\ \/ m.next = cc.next + 1 /\ m.abort = cc.abort
              \/ m.next = cc.next /\ m.abort = TRUE
           /\ m.stage = [cc.stage EXCEPT ![cc.next] = stage]
           /\ m.history = cc.history /\ m.ignored = cc.ignored /\ m.success = cc.success
  BY DEF ThreadType, Move, AbortAt

LEMMA StepMoves ==
    ASSUME ThreadType
    PROVE  /\ StepObsoleted \/ StepOther \/ StepNotProvided \/ StepFails
                => Moved(cc.history, cc.ignored)
           /\ StepInstall \/ StepErase => Moved(cc.history \cup {cc.next}, cc.ignored)
           /\ StepIgnored => Moved(cc.history \cup {cc.next}, cc.ignored \cup {cc.next})
           /\ StepSource => \/ Moved(cc.history, cc.ignored)
                           \/ Moved(cc.history, cc.ignored \cup {cc.next})
<1>0. DOMAIN cc = {"plan", "phase", "next", "abort", "ignored", "stage", "history", "success"}
  BY DEF ThreadType
<1>1. ASSUME StepObsoleted \/ StepOther \/ StepNotProvided \/ StepFails
      PROVE  Moved(cc.history, cc.ignored)
  <2>1. CASE \E stage \in {"done", "error"} : cc' = Move(stage) \/ cc' = AbortAt(stage)
    BY <2>1, MoveFields DEF Moved
  <2>2. CASE cc' = [cc EXCEPT !.next = @ + 1]
    BY <1>0, <2>2 DEF Moved
  <2> QED
    BY <1>1, <2>1, <2>2 DEF StepObsoleted, StepOther, StepNotProvided, StepFails
<1>2. ASSUME StepInstall \/ StepErase PROVE Moved(cc.history \cup {cc.next}, cc.ignored)
  <2>1. PICK m : /\ m = Move("done") \/ m = AbortAt("error")
                 /\ \/ cc' = [m EXCEPT !.history = @ \cup {cc.next}, !.success = @ \cup {cc.next}]
                    \/ cc' = [m EXCEPT !.history = @ \cup {cc.next}]
    BY <1>2 DEF StepInstall, StepErase
  <2>2. CASE cc' = [m EXCEPT !.history = @ \cup {cc.next}]
    BY <1>0, <2>1, <2>2, MoveFields DEF Moved
  <2>3. CASE cc' = [m EXCEPT !.history = @ \cup {cc.next}, !.success = @ \cup {cc.next}]
    BY <1>0, <2>1, <2>3, MoveFields DEF Moved
  <2> QED  BY <2>1, <2>2, <2>3
<1>3. ASSUME StepIgnored PROVE Moved(cc.history \cup {cc.next}, cc.ignored \cup {cc.next})
  <2>1. PICK m : /\ m = Move("done") \/ m = AbortAt("error")
                 /\ \/ cc' = [m EXCEPT !.ignored = @ \cup {cc.next}, !.history = @ \cup {cc.next},
                                      !.success = IF PlanIs(Installs) THEN @ \cup {cc.next} ELSE @]
                    \/ cc' = [m EXCEPT !.ignored = @ \cup {cc.next}, !.history = @ \cup {cc.next}]
    BY <1>3 DEF StepIgnored
  <2>2. CASE cc' = [m EXCEPT !.ignored = @ \cup {cc.next}, !.history = @ \cup {cc.next}]
    BY <1>0, <2>1, <2>2, MoveFields DEF Moved
  <2>3. CASE cc' = [m EXCEPT !.ignored = @ \cup {cc.next}, !.history = @ \cup {cc.next},
                            !.success = IF PlanIs(Installs) THEN @ \cup {cc.next} ELSE @]
    BY <1>0, <2>1, <2>3, MoveFields DEF Moved
  <2> QED  BY <2>1, <2>2, <2>3
<1>4. ASSUME StepSource
      PROVE  Moved(cc.history, cc.ignored) \/ Moved(cc.history, cc.ignored \cup {cc.next})
  <2>1. PICK m : /\ m = Move("done")
                 /\ cc' = m \/ cc' = [m EXCEPT !.ignored = @ \cup {cc.next}]
    BY <1>4 DEF StepSource
  <2>2. CASE cc' = m
    BY <2>1, <2>2, MoveFields DEF Moved
  <2>3. CASE cc' = [m EXCEPT !.ignored = @ \cup {cc.next}]
    BY <1>0, <2>1, <2>3, MoveFields DEF Moved
  <2> QED  BY <2>1, <2>2, <2>3
<1> QED
  BY <1>1, <1>2, <1>3, <1>4

\* The exception of a source package.
LEMMA ThrowsFields ==
    ASSUME ClassicTypeInv, StepSourceThrows
    PROVE  /\ cc'.phase = "thrown" /\ cc'.plan = cc.plan /\ cc'.next = cc.next
           /\ cc'.abort = cc.abort /\ cc'.history = cc.history /\ cc'.ignored = cc.ignored
           /\ ThreadType' /\ CollectorType'
           /\ col'.reported = col.reported
           /\ rpm'.ran = rpm.ran
           /\ rpm'.did = rpm.did \/ rpm'.did = [rpm.did EXCEPT ![cc.next] = "failed"]
<1> USE DEF ClassicTypeInv
<1>1. /\ cc' = [cc EXCEPT !.phase = "thrown"]
      /\ col' = [col EXCEPT !.scripts = <<>>, !.dump = <<>>, !.dumpfile = FALSE]
      /\ rpm' = rpm \/ rpm' = RpmFails(cc.next)
  BY DEF StepSourceThrows
<1>2. /\ cc'.phase = "thrown" /\ cc'.plan = cc.plan /\ cc'.next = cc.next
      /\ cc'.abort = cc.abort /\ cc'.history = cc.history /\ cc'.ignored = cc.ignored
      /\ ThreadType'
  BY <1>1 DEF ThreadType, PlanSteps
<1>3. CollectorType' /\ col'.reported = col.reported
  BY <1>1, <1>2 DEF CollectorType, PlanSteps
<1>4. /\ rpm'.ran = rpm.ran
      /\ rpm'.did = rpm.did \/ rpm'.did = [rpm.did EXCEPT ![cc.next] = "failed"]
  BY <1>1 DEF ClassicRpmType, RpmFails
<1> QED
  BY <1>1, <1>2, <1>3, <1>4

LEMMA MovedType ==
    ASSUME ThreadType, Stepping, NEW history \in SUBSET PlanSteps, NEW ignored \in SUBSET PlanSteps,
           Moved(history, ignored)
    PROVE  ThreadType'
<1>1. cc.next \in PlanSteps /\ cc'.next \in 1..Len(cc.plan) + 1 /\ PlanSteps' = PlanSteps
  BY PlanIsSequence DEF Moved, PlanSteps
<1> QED
  BY <1>1 DEF ThreadType, Moved

LEMMA InitType == ClassicInit => ClassicTypeInv
<1> SUFFICES ASSUME ClassicInit PROVE ClassicTypeInv
  OBVIOUS
<1>1. PICK plan \in Plans, dumps \in BOOLEAN :
        /\ cc = [plan |-> plan, phase |-> "steps", next |-> 1, abort |-> FALSE, ignored |-> {},
                 stage |-> [s \in DOMAIN plan |-> "todo"], history |-> {}, success |-> {}]
        /\ col = [scripts |-> <<>>, dump |-> <<>>, dumpfile |-> FALSE, runposttrans |-> TRUE,
                  reported |-> {}]
        /\ rpm = [dumps |-> dumps, did |-> [s \in DOMAIN plan |-> "untouched"], ran |-> <<>>, last |-> 0]
  BY DEF ClassicInit
<1>2. ThreadType
  BY <1>1, PlanAssumption DEF ThreadType, PlanSteps
<1>3. CollectorType
  BY <1>1 DEF CollectorType
<1>4. ClassicRpmType
  BY <1>1, <1>2, PlanIsSequence DEF ClassicRpmType, PlanSteps
<1> QED
  BY <1>2, <1>3, <1>4 DEF ClassicTypeInv

LEMMA CollectType ==
    ASSUME ClassicTypeInv, NEW s \in PlanSteps, NEW installs \in BOOLEAN, cc'.plan = cc.plan,
           col' = CollectDump(s, installs) \/ col' = CollectForPackage(s)
    PROVE  CollectorType'
<1> USE DEF ClassicTypeInv, CollectorType, PlanSteps
<1>1. ASSUME NEW i \in BOOLEAN, col' = CollectDump(s, i) PROVE CollectorType'
  <2>1. DOMAIN col' = DOMAIN col /\ col'.scripts = col.scripts
        /\ col'.dump \in {col.dump, Append(col.dump, s)}
        /\ col'.dumpfile \in BOOLEAN /\ col'.runposttrans \in BOOLEAN
        /\ col'.reported = col.reported
    BY <1>1 DEF CollectDump, ClassicRpmType
  <2>2. Append(col.dump, s) \in Seq(PlanSteps)
    OBVIOUS
  <2> QED  BY <2>1, <2>2
<1>2. CASE ~rpm.dumps /\ col' = CollectForPackage(s)
  BY <1>2 DEF CollectForPackage, CollectDump
<1> QED
  BY <1>1, <1>2 DEF CollectForPackage

LEMMA RpmStepType ==
    ASSUME ClassicTypeInv, Stepping, cc'.plan = cc.plan,
           \/ rpm' = RpmDone(cc.next) \/ rpm' = RpmFails(cc.next)
           \/ rpm' = [rpm EXCEPT !.did[cc.next] = "done"]
    PROVE  ClassicRpmType'
<1> USE DEF ClassicTypeInv, ClassicRpmType
<1>1. CASE rpm' = RpmFails(cc.next)
  BY <1>1, PlanIsSequence DEF RpmFails, PlanSteps
<1>2. CASE rpm' = RpmDone(cc.next)
  <2>1. PICK d \in BOOLEAN : rpm' = [rpm EXCEPT !.did[cc.next] = "done", !.last = cc.next, !.dumps = d]
    <3>1. (CASE PlanIs({"newrpm"}) -> TRUE [] PlanIs({"oldrpm"}) -> FALSE [] OTHER -> rpm.dumps) \in BOOLEAN
      OBVIOUS
    <3> QED  BY <1>2, <3>1 DEF RpmDone
  <2> QED  BY <2>1, PlanIsSequence DEF PlanSteps
<1>3. CASE rpm' = [rpm EXCEPT !.did[cc.next] = "done"]
  BY <1>3, PlanIsSequence DEF PlanSteps
<1> QED  BY <1>1, <1>2, <1>3

LEMMA StepType ==
    ASSUME ClassicTypeInv, [ClassicNext]_classicVars
    PROVE  ClassicTypeInv'
<1> USE DEF ClassicTypeInv
<1>0. Stepping => cc.next \in PlanSteps
  BY PlanIsSequence
<1>1. ASSUME Stepping,
             \/ StepObsoleted \/ StepOther \/ StepNotProvided \/ StepInstall \/ StepErase
             \/ StepFails \/ StepIgnored \/ StepSource
      PROVE  ClassicTypeInv'
  <2>1. ThreadType' /\ cc'.plan = cc.plan
    <3>1. \E h, i \in SUBSET PlanSteps : Moved(h, i)
      BY <1>0, <1>1, StepMoves DEF ThreadType
    <3> QED  BY <1>1, <3>1, MovedType DEF Moved
  <2>2. CollectorType'
    <3>1. CASE UNCHANGED col  BY <2>1, <3>1 DEF CollectorType, PlanSteps
    <3>2. CASE ~UNCHANGED col
      BY <1>0, <1>1, <2>1, <3>2, CollectType DEF StepObsoleted, StepOther, StepNotProvided, StepInstall,
              StepErase, StepFails, StepIgnored, StepSource
    <3> QED  BY <3>1, <3>2
  <2>3. ClassicRpmType'
    <3>1. CASE UNCHANGED rpm  BY <2>1, <3>1 DEF ClassicRpmType, PlanSteps
    <3>2. CASE ~UNCHANGED rpm
      BY <1>1, <2>1, <3>2, RpmStepType DEF StepObsoleted, StepOther, StepNotProvided,
              StepInstall, StepErase, StepFails, StepIgnored, StepSource
    <3> QED  BY <3>1, <3>2
  <2> QED  BY <2>1, <2>2, <2>3
<1>2. ASSUME DiscardScripts \/ ExecuteScripts \/ RunScript \/ RunDumped \/ ScriptsDone \/ ClassicEnds
             \/ UNCHANGED classicVars
      PROVE  ClassicTypeInv'
  <2>1. ThreadType' /\ cc'.plan = cc.plan
    BY <1>2 DEF DiscardScripts, ExecuteScripts, RunScript, RunDumped, ScriptsDone, ClassicEnds,
                classicVars, ThreadType, PlanSteps
  <2>2. CollectorType'
    <3>1. CASE UNCHANGED col  BY <2>1, <3>1 DEF CollectorType, PlanSteps
    <3>2. CASE DiscardScripts
      <4>1. ToSet(col.scripts) \cup ToSet(col.dump) \subseteq PlanSteps
        BY DEF CollectorType, ToSet
      <4> DEFINE told == ToSet(col.scripts) \cup ToSet(col.dump)
      <4>2. col' = [col EXCEPT !.scripts = <<>>, !.dump = <<>>, !.dumpfile = FALSE, !.reported = told]
        BY <3>2 DEF DiscardScripts
      <4> HIDE DEF told
      <4>3. told \subseteq PlanSteps
        BY <4>1 DEF told
      <4> QED
        BY <2>1, <4>2, <4>3 DEF CollectorType, PlanSteps
    <3>3. CASE ExecuteScripts /\ ~UNCHANGED col
      <4>1. col' = [col EXCEPT !.scripts = col.dump \o @, !.dump = <<>>, !.dumpfile = FALSE]
        BY <3>3 DEF ExecuteScripts
      <4>2. col.dump \o col.scripts \in Seq(PlanSteps)
        BY DEF CollectorType
      <4> QED  BY <2>1, <4>1, <4>2 DEF CollectorType, PlanSteps
    <3>4. CASE RunScript
      BY <2>1, <3>4 DEF RunScript, CollectorType, PlanSteps
    <3>5. CASE RunDumped
      BY <2>1, <3>5 DEF RunDumped, CollectorType, PlanSteps
    <3> QED
      BY <1>2, <3>1, <3>2, <3>3, <3>4, <3>5 DEF ScriptsDone, ClassicEnds, classicVars
  <2>3. ClassicRpmType'
    <3>1. CASE UNCHANGED rpm  BY <2>1, <3>1 DEF ClassicRpmType, PlanSteps
    <3>2. CASE RunScript
      <4>1. Head(col.scripts) \in PlanSteps  BY <3>2 DEF RunScript, CollectorType
      <4>2. Append(rpm.ran, Head(col.scripts)) \in Seq(PlanSteps)  BY <4>1 DEF ClassicRpmType
      <4> QED  BY <2>1, <3>2, <4>2 DEF RunScript, ClassicRpmType, PlanSteps
    <3>3. CASE RunDumped /\ ~UNCHANGED rpm
      <4>1. rpm' = [rpm EXCEPT !.ran = @ \o col.dump]
        BY <3>3 DEF RunDumped
      <4>2. rpm.ran \o col.dump \in Seq(PlanSteps)
        BY DEF CollectorType, ClassicRpmType
      <4> QED  BY <2>1, <4>1, <4>2 DEF ClassicRpmType, PlanSteps
    <3> QED
      BY <1>2, <3>1, <3>2, <3>3
         DEF DiscardScripts, ExecuteScripts, ScriptsDone, ClassicEnds, classicVars
  <2> QED  BY <2>1, <2>2, <2>3
<1>3. ASSUME StepSourceThrows
      PROVE  ClassicTypeInv'
  <2>1. ThreadType' /\ CollectorType' /\ cc'.plan = cc.plan /\ Stepping
    BY <1>3, ThrowsFields DEF StepSourceThrows
  <2>2. rpm' = rpm \/ rpm' = RpmFails(cc.next)
    BY <1>3 DEF StepSourceThrows
  <2>3. CASE rpm' = rpm
    BY <2>1, <2>3 DEF ClassicRpmType, PlanSteps
  <2>4. CASE rpm' = RpmFails(cc.next)
    BY <2>1, <2>4, RpmStepType
  <2> QED
    BY <2>1, <2>2, <2>3, <2>4
<1> QED
  BY <1>1, <1>2, <1>3
     DEF ClassicNext, StepObsoleted, StepOther, StepNotProvided, StepInstall, StepErase,
         StepFails, StepIgnored, StepSource

\* Every state of the commit is well typed.
THEOREM ClassicTypeCorrect == ClassicSpec => []ClassicTypeOK
<1>1. ClassicTypeInv => ClassicTypeOK
  BY DEF ClassicTypeInv, ThreadType, CollectorType, ClassicRpmType, ClassicTypeOK
<1> QED
  BY <1>1, InitType, StepType, PTL DEF ClassicSpec

-----------------------------------------------------------------------------
(* The history.  HistoryTellsTruth is inductive with what makes a step new:    *)
(* rpm has not been called for it.                                           *)

ClassicUntouched == \A s \in PlanSteps :
    s > cc.next \/ (s = cc.next /\ ~cc.abort /\ cc.phase # "thrown")
        => rpm.did[s] = "untouched"

HistoryInv == ClassicTypeInv /\ HistoryTellsTruth /\ ClassicUntouched

(* The order of the scripts while the steps are made.  The scripts the         *)
(* collector has taken itself come from the calls of an rpm that dumps no      *)
(* lines, the lines in the dumpfile from those of one that does; rpm is        *)
(* replaced once, so all of one kind are older than all of the other.         *)
Before(a, b) == \A x \in ToSet(a), y \in ToSet(b) : x < y

NotReplaced == \A s \in PlanSteps : cc.plan[s] \in {"newrpm", "oldrpm"} => rpm.did[s] # "done"

CollectsOwed ==
    /\ rpm.ran = <<>>
    /\ Owed = ToSet(col.scripts) \cup ToSet(col.dump)
    /\ InOrder(col.scripts) /\ InOrder(col.dump)
    /\ col.dump # <<>> => col.dumpfile

DumpsLines == rpm.dumps => /\ col.runposttrans /\ Before(col.scripts, col.dump)
                           /\ ~DowngradedLast
TakesScripts == ~rpm.dumps => /\ Before(col.dump, col.scripts)
                              /\ col.dumpfile /\ col.runposttrans => DowngradedLast

OneKind == NotReplaced => IF rpm.dumps THEN col.scripts = <<>>
                                       ELSE ~col.dumpfile /\ col.runposttrans

Collecting == CollectsOwed /\ DumpsLines /\ TakesScripts /\ OneKind

(* While they run: what ran, then the scripts, then the lines of the dumpfile; *)
(* of these nothing is sure after a downgrade by the last call.              *)
Running ==
    /\ ToSet(rpm.ran) \cup ToSet(col.scripts) \cup ToSet(col.dump) \subseteq Owed
    /\ InOrder(rpm.ran) /\ InOrder(col.scripts) /\ InOrder(col.dump)
    /\ Before(rpm.ran, col.scripts)
    /\ rpm.dumps => Before(rpm.ran, col.dump) /\ Before(col.scripts, col.dump)
    /\ col.dump # <<>> => col.dumpfile
    /\ ~DowngradedLast => /\ col.dumpfile => rpm.dumps
                          /\ Owed \subseteq ToSet(rpm.ran) \cup ToSet(col.scripts) \cup ToSet(col.dump)

HasRun ==
    /\ ToSet(rpm.ran) \subseteq Owed /\ InOrder(rpm.ran)
    /\ ~DowngradedLast => Owed \subseteq ToSet(rpm.ran)

ClassicOrderInv ==
    /\ cc.phase = "steps" => Collecting /\ col.reported = {}
    /\ cc.phase = "posttrans" => Running /\ ~cc.abort
    /\ Ended /\ ~cc.abort => HasRun
    /\ Ended /\ cc.abort => rpm.ran = <<>> /\ col.reported = Owed
    /\ cc.phase = "thrown" => rpm.ran = <<>> /\ col.reported = {}
-----------------------------------------------------------------------------
(* What the steps do to the collector and to rpm.                            *)

\* rpm has made the step s: it is done, and its lines or its script collected.
Made(s, installs) ==
    /\ col'.scripts = IF installs /\ ~rpm.dumps THEN Append(col.scripts, s) ELSE col.scripts
    /\ col'.dump = IF installs /\ rpm.dumps THEN Append(col.dump, s) ELSE col.dump
    /\ col'.dumpfile = (col.dumpfile \/ rpm.dumps)
    /\ col'.runposttrans = (col.runposttrans /\ (rpm.dumps \/ ~col.dumpfile))
    /\ rpm'.did = [rpm.did EXCEPT ![s] = "done"] /\ rpm'.last = s /\ rpm'.ran = rpm.ran
    /\ rpm'.dumps = CASE cc.plan[s] = "newrpm" -> TRUE
                       [] cc.plan[s] = "oldrpm" -> FALSE
                       [] OTHER                 -> rpm.dumps

\* rpm has failed in it.
NotMade(s) ==
    /\ UNCHANGED col
    /\ rpm'.did = [rpm.did EXCEPT ![s] = "failed"]
    /\ rpm'.dumps = rpm.dumps /\ rpm'.last = rpm.last /\ rpm'.ran = rpm.ran

\* A source package: the collector is not told.
SourceMade(s) ==
    /\ UNCHANGED col /\ cc.plan[s] = "source"
    /\ rpm'.did = [rpm.did EXCEPT ![s] = "done"]
    /\ rpm'.dumps = rpm.dumps /\ rpm'.last = rpm.last /\ rpm'.ran = rpm.ran

LEMMA StepMakes ==
    ASSUME ClassicTypeInv
    PROVE  /\ StepInstall => Made(cc.next, TRUE)
           /\ StepErase => Made(cc.next, FALSE)
           /\ StepFails \/ StepIgnored => NotMade(cc.next)
           /\ StepSource => SourceMade(cc.next) \/ NotMade(cc.next)
           /\ StepObsoleted \/ StepOther \/ StepNotProvided => UNCHANGED <<col, rpm>>
<1> USE DEF ClassicTypeInv, CollectorType, ClassicRpmType
<1>1. ASSUME rpm' = RpmDone(cc.next)
      PROVE  /\ rpm'.did = [rpm.did EXCEPT ![cc.next] = "done"] /\ rpm'.last = cc.next
             /\ rpm'.ran = rpm.ran
             /\ rpm'.dumps = CASE cc.plan[cc.next] = "newrpm" -> TRUE
                                [] cc.plan[cc.next] = "oldrpm" -> FALSE
                                [] OTHER                       -> rpm.dumps
  BY <1>1 DEF RpmDone, PlanIs
<1>2. ASSUME NEW installs \in BOOLEAN, NEW c, c = CollectDump(cc.next, installs)
      PROVE  /\ DOMAIN c = DOMAIN col /\ c.scripts = col.scripts
             /\ c.dump = IF installs /\ rpm.dumps THEN Append(col.dump, cc.next) ELSE col.dump
             /\ c.dumpfile = (col.dumpfile \/ rpm.dumps)
             /\ c.runposttrans = (col.runposttrans /\ (rpm.dumps \/ ~col.dumpfile))
  BY <1>2 DEF CollectDump
<1>3. ASSUME StepInstall PROVE Made(cc.next, TRUE)
  <2>1. rpm' = RpmDone(cc.next) /\ col' = CollectForPackage(cc.next)
    BY <1>3 DEF StepInstall
  <2>2. CASE rpm.dumps  BY <1>1, <1>2, <2>1, <2>2 DEF CollectForPackage, Made
  <2>3. CASE ~rpm.dumps
    <3> DEFINE c == CollectDump(cc.next, TRUE)
    <3>1. col' = [c EXCEPT !.scripts = Append(@, cc.next)]
      BY <2>1, <2>3 DEF CollectForPackage
    <3>2. /\ DOMAIN c = DOMAIN col /\ c.scripts = col.scripts /\ c.dump = col.dump
          /\ c.dumpfile = (col.dumpfile \/ rpm.dumps)
          /\ c.runposttrans = (col.runposttrans /\ (rpm.dumps \/ ~col.dumpfile))
      BY <1>2, <2>3
    <3> HIDE DEF c
    <3> QED  BY <1>1, <2>1, <2>3, <3>1, <3>2 DEF Made
  <2> QED  BY <2>2, <2>3
<1>4. ASSUME StepErase PROVE Made(cc.next, FALSE)
  BY <1>1, <1>2, <1>4 DEF StepErase, Made
<1>5. ASSUME StepFails \/ StepIgnored PROVE NotMade(cc.next)
  BY <1>5 DEF StepFails, StepIgnored, RpmFails, NotMade
<1>6. ASSUME StepSource PROVE SourceMade(cc.next) \/ NotMade(cc.next)
  BY <1>6 DEF StepSource, PlanIs, RpmFails, NotMade, SourceMade
<1> QED
  BY <1>3, <1>4, <1>5, <1>6 DEF StepObsoleted, StepOther, StepNotProvided

\* A step after the plan's does not touch what the history is about.
LEMMA EndOfPlan ==
    ASSUME ClassicTypeInv,
           \/ DiscardScripts \/ ExecuteScripts \/ RunScript \/ RunDumped \/ ScriptsDone
           \/ ClassicEnds \/ UNCHANGED classicVars
    PROVE  /\ cc'.plan = cc.plan /\ cc'.next = cc.next /\ cc'.abort = cc.abort
           /\ cc'.history = cc.history /\ cc'.ignored = cc.ignored
           /\ rpm'.did = rpm.did /\ rpm'.last = rpm.last /\ rpm'.dumps = rpm.dumps
           /\ cc.phase = "thrown" <=> cc'.phase = "thrown"
<1> USE DEF ClassicTypeInv, ThreadType, ClassicRpmType
<1>1. CASE DiscardScripts \/ ExecuteScripts \/ ScriptsDone \/ ClassicEnds
  <2>1. UNCHANGED rpm /\ \E phase \in {"posttrans", "update", "returned", "aborted"} :
            cc' = [cc EXCEPT !.phase = phase]
    BY <1>1 DEF DiscardScripts, ExecuteScripts, ScriptsDone, ClassicEnds
  <2>2. cc.phase # "thrown"
    BY <1>1 DEF DiscardScripts, ExecuteScripts, ScriptsDone, ClassicEnds, StepsDone
  <2> QED  BY <2>1, <2>2
<1>2. CASE RunScript \/ RunDumped
  BY <1>2 DEF RunScript, RunDumped
<1>3. CASE UNCHANGED classicVars
  BY <1>3 DEF classicVars
<1> QED  BY <1>1, <1>2, <1>3

LEMMA StepHistory ==
    ASSUME HistoryInv, [ClassicNext]_classicVars
    PROVE  HistoryInv'
<1> USE DEF HistoryInv
<1>0. ClassicTypeInv' /\ ThreadType /\ rpm.did \in [PlanSteps -> {"untouched", "done", "failed"}]
  BY StepType DEF ClassicTypeInv, ClassicRpmType
<1>1. ASSUME \/ DiscardScripts \/ ExecuteScripts \/ RunScript \/ RunDumped \/ ScriptsDone
             \/ ClassicEnds \/ UNCHANGED classicVars
      PROVE  HistoryInv'
  BY <1>0, <1>1, EndOfPlan DEF HistoryTellsTruth, ClassicUntouched, PlanSteps
<1>2. Stepping => /\ cc.next \in PlanSteps /\ ~cc.abort /\ cc.phase = "steps"
                  /\ rpm.did[cc.next] = "untouched" /\ PlanSteps = 1..Len(cc.plan)
                  /\ Len(cc.plan) \in Nat
  BY <1>0, PlanIsSequence DEF ClassicUntouched, Stepping
<1>3. ASSUME StepSourceThrows
      PROVE  HistoryInv'
  <2>1. Stepping /\ cc.plan[cc.next] = "source"
    BY <1>3 DEF StepSourceThrows, PlanIs
  <2>2. /\ PlanSteps' = PlanSteps /\ cc'.plan = cc.plan /\ cc'.history = cc.history
        /\ cc'.ignored = cc.ignored /\ cc'.next = cc.next /\ cc'.phase = "thrown"
        /\ rpm'.did = rpm.did \/ rpm'.did = [rpm.did EXCEPT ![cc.next] = "failed"]
    BY <1>3, ThrowsFields DEF PlanSteps
  <2> QED
    BY <1>0, <1>2, <2>1, <2>2 DEF HistoryTellsTruth, ClassicUntouched
<1>4. ASSUME \/ StepObsoleted \/ StepOther \/ StepNotProvided \/ StepInstall \/ StepErase
             \/ StepFails \/ StepIgnored \/ StepSource
      PROVE  HistoryInv'
  <2> DEFINE s == cc.next
  <2>1. Stepping
    BY <1>4 DEF StepObsoleted, StepOther, StepNotProvided, StepInstall, StepErase, StepFails,
                StepIgnored, StepSource
  <2>2. /\ s \in PlanSteps /\ ~cc.abort /\ rpm.did[s] = "untouched" /\ PlanSteps = 1..Len(cc.plan)
        /\ Len(cc.plan) \in Nat
    BY <1>2, <2>1
  <2>3. ASSUME NEW history, NEW ignored, Moved(history, ignored) PROVE
        /\ PlanSteps' = PlanSteps /\ cc'.plan = cc.plan
        /\ cc'.history = history /\ cc'.ignored = ignored
        /\ \A t \in PlanSteps : t > cc'.next \/ (t = cc'.next /\ ~cc'.abort) => t > s
    BY <2>2, <2>3 DEF Moved, PlanSteps
  <2>4. CASE StepObsoleted \/ StepOther \/ StepNotProvided
    BY <1>0, <2>2, <2>3, <2>4, StepMoves, StepMakes DEF HistoryTellsTruth, ClassicUntouched
  <2>5. CASE StepInstall \/ StepErase
    <3>1. /\ rpm'.did = [rpm.did EXCEPT ![s] = "done"] /\ cc'.plan = cc.plan
          /\ PlanSteps' = PlanSteps /\ cc'.history = cc.history \cup {s} /\ cc'.ignored = cc.ignored
      BY <1>0, <2>3, <2>5, StepMoves, StepMakes DEF Made
    <3>2. cc.plan[s] # "source"
      BY <2>5 DEF StepInstall, StepErase, PlanIs, Installs
    <3>3. ClassicUntouched'
      BY <1>0, <2>2, <2>3, <2>5, <3>1, StepMoves DEF ClassicUntouched
    <3>4. HistoryTellsTruth'
      BY <1>0, <2>2, <3>1, <3>2 DEF HistoryTellsTruth
    <3> QED  BY <1>0, <3>3, <3>4
  <2>6. CASE StepFails \/ StepIgnored
    <3>1. /\ rpm'.did = [rpm.did EXCEPT ![s] = "failed"] /\ PlanSteps' = PlanSteps
          /\ cc'.plan = cc.plan
          /\ \/ cc'.history = cc.history /\ cc'.ignored = cc.ignored
             \/ cc'.history = cc.history \cup {s} /\ cc'.ignored = cc.ignored \cup {s}
      BY <1>0, <2>3, <2>6, StepMoves, StepMakes DEF NotMade
    <3>2. cc.plan[s] # "source"
      BY <2>6 DEF StepFails, StepIgnored, PlanIs, Installs
    <3>3. ClassicUntouched'
      BY <1>0, <2>2, <2>3, <2>6, <3>1, StepMoves DEF ClassicUntouched
    <3>4. HistoryTellsTruth'
      BY <1>0, <2>2, <3>1, <3>2 DEF HistoryTellsTruth
    <3> QED  BY <1>0, <3>3, <3>4
  <2>7. CASE StepSource
    <3>1. PICK stage \in {"done", "failed"} : rpm'.did = [rpm.did EXCEPT ![s] = stage]
      BY <1>0, <2>7, StepMakes DEF SourceMade, NotMade
    <3>2. /\ PlanSteps' = PlanSteps /\ cc'.plan = cc.plan /\ cc'.history = cc.history
          /\ cc'.ignored = cc.ignored \/ cc'.ignored = cc.ignored \cup {s}
      BY <1>0, <2>3, <2>7, StepMoves
    <3>3. cc.plan[s] = "source"
      BY <2>7 DEF StepSource, PlanIs
    <3>4. ClassicUntouched'
      BY <1>0, <2>2, <2>3, <2>7, <3>1, StepMoves DEF ClassicUntouched
    <3>5. HistoryTellsTruth'
      BY <1>0, <2>2, <3>1, <3>2, <3>3 DEF HistoryTellsTruth
    <3> QED  BY <1>0, <3>4, <3>5
  <2> QED  BY <1>4, <2>4, <2>5, <2>6, <2>7
<1> QED
  BY <1>1, <1>3, <1>4 DEF ClassicNext

LEMMA InitHistory == ClassicInit => HistoryInv
<1>1. ClassicInit => cc.ignored = {} /\ cc.history = {} /\ \A s \in PlanSteps : rpm.did[s] = "untouched"
  BY DEF ClassicInit, PlanSteps
<1> QED
  BY <1>1, InitType DEF HistoryInv, HistoryTellsTruth, ClassicUntouched

\* The history of a commit step by step names exactly the packages rpm installed
\* or removed, and the failures the user ignored, also when the user aborts; source
\* packages are in no history.
THEOREM HistoryIsTrue == ClassicSpec => []HistoryTellsTruth
<1>1. HistoryInv => HistoryTellsTruth
  BY DEF HistoryInv
<1> QED
  BY <1>1, InitHistory, StepHistory, PTL DEF ClassicSpec
-----------------------------------------------------------------------------
(* Sequences of steps in order.                                              *)

LEMMA AppendInOrder ==
    ASSUME NEW S \in SUBSET Int, NEW q \in Seq(S), NEW s \in S, InOrder(q),
           \A x \in ToSet(q) : x < s
    PROVE  InOrder(Append(q, s)) /\ ToSet(Append(q, s)) = ToSet(q) \cup {s}
<1>1. /\ Append(q, s) \in Seq(S) /\ DOMAIN Append(q, s) = DOMAIN q \cup {Len(q) + 1}
      /\ Append(q, s)[Len(q) + 1] = s /\ \A i \in DOMAIN q : Append(q, s)[i] = q[i]
      /\ DOMAIN q = 1..Len(q) /\ Len(q) \in Nat
  OBVIOUS
<1>2. \A i \in DOMAIN q : q[i] < s
  BY DEF ToSet
<1> QED
  BY <1>1, <1>2 DEF InOrder, ToSet

LEMMA ConcatInOrder ==
    ASSUME NEW S \in SUBSET Int, NEW a \in Seq(S), NEW b \in Seq(S), InOrder(a), InOrder(b),
           Before(a, b)
    PROVE  InOrder(a \o b) /\ ToSet(a \o b) = ToSet(a) \cup ToSet(b)
<1>1. /\ Len(a \o b) = Len(a) + Len(b) /\ DOMAIN (a \o b) = 1 .. Len(a) + Len(b)
      /\ Len(a) \in Nat /\ Len(b) \in Nat /\ DOMAIN a = 1..Len(a) /\ DOMAIN b = 1..Len(b)
      /\ \A i \in 1..Len(a) : (a \o b)[i] = a[i]
      /\ \A i \in Len(a) + 1 .. Len(a) + Len(b) : (a \o b)[i] = b[i - Len(a)]
      /\ \A i \in 1..Len(b) : (a \o b)[i + Len(a)] = b[i]
  OBVIOUS
<1>2. \A i \in DOMAIN a, j \in DOMAIN b : a[i] < b[j]
  BY DEF Before, ToSet
<1>3. InOrder(a \o b)
  <2> SUFFICES ASSUME NEW i \in 1 .. Len(a) + Len(b), NEW j \in 1 .. Len(a) + Len(b), i < j
               PROVE  (a \o b)[i] < (a \o b)[j]
    BY <1>1 DEF InOrder
  <2>1. CASE j <= Len(a)  BY <1>1, <2>1 DEF InOrder
  <2>2. CASE i <= Len(a) /\ j > Len(a)
    <3>1. j - Len(a) \in 1..Len(b) /\ i \in 1..Len(a)  BY <1>1, <2>2
    <3>2. a[i] < b[j - Len(a)]  BY <1>1, <1>2, <3>1
    <3>3. (a \o b)[i] = a[i] /\ (a \o b)[j] = b[j - Len(a)]  BY <1>1, <2>2, <3>1
    <3> QED  BY <3>2, <3>3
  <2>3. CASE i > Len(a)
    <3>1. i - Len(a) \in 1..Len(b) /\ j - Len(a) \in 1..Len(b) /\ i - Len(a) < j - Len(a)
      BY <1>1, <2>3
    <3>2. b[i - Len(a)] < b[j - Len(a)]  BY <1>1, <3>1 DEF InOrder
    <3>3. (a \o b)[i] = b[i - Len(a)] /\ (a \o b)[j] = b[j - Len(a)]  BY <1>1, <2>3
    <3> QED  BY <3>2, <3>3
  <2> QED  BY <1>1, <2>1, <2>2, <2>3
<1>4. ToSet(a \o b) = ToSet(a) \cup ToSet(b)
  <2>1. ASSUME NEW i \in 1 .. Len(a) + Len(b) PROVE (a \o b)[i] \in ToSet(a) \cup ToSet(b)
    <3>1. CASE i <= Len(a)  BY <1>1, <3>1 DEF ToSet
    <3>2. CASE i > Len(a)
      <4>1. i - Len(a) \in 1..Len(b)  BY <1>1, <3>2
      <4> QED  BY <1>1, <3>2, <4>1 DEF ToSet
    <3> QED  BY <1>1, <3>1, <3>2
  <2>2. ASSUME NEW i \in 1..Len(a) PROVE a[i] \in ToSet(a \o b)
    BY <1>1, <2>2 DEF ToSet
  <2>3. ASSUME NEW i \in 1..Len(b) PROVE b[i] \in ToSet(a \o b)
    <3>1. i + Len(a) \in DOMAIN (a \o b)  BY <1>1
    <3> QED  BY <1>1, <3>1 DEF ToSet
  <2> QED  BY <1>1, <2>1, <2>2, <2>3 DEF ToSet
<1> QED
  BY <1>3, <1>4

LEMMA TailInOrder ==
    ASSUME NEW S \in SUBSET Int, NEW q \in Seq(S), InOrder(q), q # <<>>
    PROVE  /\ InOrder(Tail(q)) /\ ToSet(q) = {Head(q)} \cup ToSet(Tail(q))
           /\ \A x \in ToSet(Tail(q)) : Head(q) < x
           /\ Head(q) \in S /\ Tail(q) \in Seq(S)
<1>1. /\ Len(q) \in Nat \ {0} /\ DOMAIN q = 1..Len(q) /\ Head(q) = q[1]
      /\ DOMAIN Tail(q) = 1 .. Len(q) - 1 /\ \A i \in 1 .. Len(q) - 1 : Tail(q)[i] = q[i + 1]
      /\ Head(q) \in S /\ Tail(q) \in Seq(S)
  OBVIOUS
<1>2. InOrder(Tail(q)) /\ \A x \in ToSet(Tail(q)) : Head(q) < x
  BY <1>1 DEF InOrder, ToSet
<1>3. ASSUME NEW i \in DOMAIN q PROVE q[i] \in {Head(q)} \cup ToSet(Tail(q))
  <2>1. CASE i = 1  BY <1>1, <2>1
  <2>2. CASE i # 1
    <3>1. i - 1 \in DOMAIN Tail(q) /\ Tail(q)[i - 1] = q[i]  BY <1>1, <2>2
    <3> QED  BY <3>1 DEF ToSet
  <2> QED  BY <2>1, <2>2
<1>4. ASSUME NEW i \in DOMAIN Tail(q) PROVE Tail(q)[i] \in ToSet(q)
  BY <1>1 DEF ToSet
<1> QED
  BY <1>1, <1>2, <1>3, <1>4 DEF ToSet

LEMMA EmptyInOrder == InOrder(<<>>) /\ ToSet(<<>>) = {}
  BY DEF InOrder, ToSet

-----------------------------------------------------------------------------
(* ClassicOrderInv is inductive with HistoryInv.                                    *)

\* rpm succeeds in a step that goes on.
LEMMA MadeCollects ==
    ASSUME HistoryInv, Collecting, Stepping, NEW installs \in BOOLEAN, Made(cc.next, installs),
           installs = PlanIs(Installs), cc'.plan = cc.plan
    PROVE  Collecting'
<1> DEFINE s == cc.next
<1> USE DEF HistoryInv, ClassicTypeInv
<1>1. /\ s \in PlanSteps /\ rpm.did[s] = "untouched" /\ PlanSteps' = PlanSteps
      /\ PlanSteps \in SUBSET Int
  BY PlanIsSequence DEF ClassicUntouched, Stepping, PlanSteps
<1>2. /\ col.scripts \in Seq(PlanSteps) /\ col.dump \in Seq(PlanSteps)
      /\ rpm.dumps \in BOOLEAN /\ col.dumpfile \in BOOLEAN /\ col.runposttrans \in BOOLEAN
      /\ rpm.did \in [PlanSteps -> {"untouched", "done", "failed"}]
  BY DEF CollectorType, ClassicRpmType
<1>3. \A x \in Owed : x < s
  <2>1. \A x \in PlanSteps : x > s \/ x = s => rpm.did[x] = "untouched"
    BY DEF ClassicUntouched, Stepping
  <2>2. ASSUME NEW x \in Owed PROVE x \in PlanSteps /\ x \in Int /\ s \in Int /\ rpm.did[x] = "done"
    BY <1>1, <2>2 DEF Owed
  <2>3. ASSUME NEW x \in Owed PROVE ~(x > s \/ x = s)
    BY <2>1, <2>2
  <2> QED  BY <2>2, <2>3
<1>4. Owed' = IF installs THEN Owed \cup {s} ELSE Owed
  BY <1>1, <1>2 DEF Owed, Made, PlanIs
<1>5. /\ InOrder(Append(col.scripts, s)) /\ ToSet(Append(col.scripts, s)) = ToSet(col.scripts) \cup {s}
      /\ InOrder(Append(col.dump, s)) /\ ToSet(Append(col.dump, s)) = ToSet(col.dump) \cup {s}
  BY <1>1, <1>2, <1>3, AppendInOrder DEF Collecting, CollectsOwed, DumpsLines, TakesScripts, OneKind
<1>6. CollectsOwed'
  BY <1>2, <1>4, <1>5 DEF Collecting, CollectsOwed, DumpsLines, TakesScripts, OneKind, Made
<1>7. NotReplaced' => NotReplaced /\ rpm'.dumps = rpm.dumps
  BY <1>1, <1>2 DEF NotReplaced, Made
<1>8. cc.plan[s] \in {"newrpm", "oldrpm"} => NotReplaced
  <2> SUFFICES ASSUME cc.plan[s] \in {"newrpm", "oldrpm"}, NEW t \in PlanSteps,
                      cc.plan[t] \in {"newrpm", "oldrpm"}
               PROVE  rpm.did[t] # "done"
    BY DEF NotReplaced
  <2>1. cc.plan \in Plans /\ {cc.plan[s], cc.plan[t]} \subseteq {"newrpm", "oldrpm"}
    BY DEF ThreadType
  <2>2. s = t
    BY OneRpm, <1>1, <2>1 DEF PlanSteps
  <2> QED  BY <1>1, <2>2 DEF s
<1>9. DowngradedLast' <=> s # 0 /\ cc.plan[s] = "oldrpm"
  BY DEF DowngradedLast, Made
<1>10. s # 0
  BY <1>1, PlanIsSequence
<1>11. DumpsLines'
  <2> SUFFICES ASSUME rpm'.dumps
               PROVE  col'.runposttrans /\ Before(col'.scripts, col'.dump) /\ ~DowngradedLast'
    BY DEF DumpsLines, Before
  <2>0. ~DowngradedLast'
    BY <1>9 DEF Made
  <2>1. CASE rpm.dumps
    BY <1>2, <1>3, <1>5, <2>0, <2>1
       DEF Collecting, CollectsOwed, DumpsLines, TakesScripts, OneKind, Made, Before
  <2>2. CASE ~rpm.dumps
    <3>1. cc.plan[s] = "newrpm"  BY <2>2 DEF Made
    <3>2. ~col.dumpfile /\ col.runposttrans /\ col.dump = <<>>
      BY <1>8, <2>2, <3>1 DEF Collecting, CollectsOwed, DumpsLines, TakesScripts, OneKind
    <3> QED  BY <2>0, <2>2, <3>2, EmptyInOrder DEF Made, Before
  <2> QED  BY <1>2, <2>1, <2>2
<1>12. TakesScripts'
  <2> SUFFICES ASSUME ~rpm'.dumps
               PROVE  (/\ Before(col.dump, col.scripts)
                       /\ col.dumpfile /\ col.runposttrans => DowngradedLast)'
    BY DEF TakesScripts
  <2>1. CASE rpm.dumps
    <3>1. cc.plan[s] = "oldrpm"  BY <2>1 DEF Made
    <3>2. col.scripts = <<>>
      BY <1>8, <2>1, <3>1
         DEF Collecting, CollectsOwed, DumpsLines, TakesScripts, OneKind
    <3> QED  BY <1>9, <1>10, <2>1, <3>1, <3>2, EmptyInOrder DEF Made, Before
  <2>2. CASE ~rpm.dumps
    BY <1>2, <1>3, <1>5, <2>2
       DEF Collecting, CollectsOwed, DumpsLines, TakesScripts, OneKind, Made, Before
  <2> QED  BY <2>1, <2>2
<1>13. OneKind'
  BY <1>2, <1>7 DEF Collecting, CollectsOwed, DumpsLines, TakesScripts, OneKind, Made
<1> QED
  BY <1>6, <1>11, <1>12, <1>13 DEF Collecting

\* Without a call of rpm that succeeds, source packages aside, nothing is owed or
\* collected.
LEMMA NotMadeCollects ==
    ASSUME HistoryInv, Collecting, Stepping, cc'.plan = cc.plan,
           NotMade(cc.next) \/ SourceMade(cc.next) \/ UNCHANGED <<col, rpm>>
    PROVE  Collecting'
<1> USE DEF HistoryInv, ClassicTypeInv
<1>1. /\ cc.next \in PlanSteps /\ rpm.did[cc.next] = "untouched" /\ PlanSteps' = PlanSteps
      /\ rpm.did \in [PlanSteps -> {"untouched", "done", "failed"}]
  BY PlanIsSequence DEF ClassicUntouched, Stepping, PlanSteps, ClassicRpmType
<1>2. /\ UNCHANGED col /\ rpm'.dumps = rpm.dumps /\ rpm'.ran = rpm.ran /\ rpm'.last = rpm.last
      /\ \A t \in PlanSteps : cc.plan[t] # "source" => (rpm'.did[t] = "done" <=> rpm.did[t] = "done")
  BY <1>1 DEF NotMade, SourceMade
<1>3. Owed' = Owed /\ (NotReplaced' => NotReplaced) /\ (DowngradedLast' <=> DowngradedLast)
  BY <1>1, <1>2 DEF Owed, Installs, NotReplaced, DowngradedLast
<1> QED
  BY <1>2, <1>3 DEF Collecting, CollectsOwed, DumpsLines, TakesScripts, OneKind, Before

LEMMA StepOrder ==
    ASSUME HistoryInv, ClassicOrderInv, [ClassicNext]_classicVars
    PROVE  ClassicOrderInv'
<1>a. StepSourceThrows => /\ cc'.phase = "thrown" /\ rpm'.ran = rpm.ran
                         /\ col'.reported = col.reported
  BY ThrowsFields DEF HistoryInv
<1> USE DEF HistoryInv, ClassicTypeInv
<1>0. /\ ThreadType /\ cc.abort \in BOOLEAN /\ PlanSteps \in SUBSET Int
      /\ col.scripts \in Seq(PlanSteps) /\ col.dump \in Seq(PlanSteps) /\ rpm.ran \in Seq(PlanSteps)
      /\ rpm.dumps \in BOOLEAN
  BY PlanIsSequence DEF ThreadType, CollectorType, ClassicRpmType
<1>1. ASSUME Stepping,
             \/ StepObsoleted \/ StepOther \/ StepNotProvided \/ StepInstall \/ StepErase
             \/ StepFails \/ StepIgnored \/ StepSource
      PROVE  ClassicOrderInv'
  <2>1. cc'.plan = cc.plan /\ cc'.phase = "steps"
    BY <1>0, <1>1, StepMoves DEF Moved, Stepping
  <2>2. Collecting /\ col.reported = {}
    BY <1>1 DEF ClassicOrderInv, Stepping
  <2>3. Collecting'
    <3>1. CASE StepInstall
      BY <1>1, <2>1, <2>2, <3>1, StepMakes, MadeCollects DEF StepInstall
    <3>2. CASE StepErase
      <4>1. FALSE = PlanIs(Installs)
        BY <3>2 DEF StepErase, PlanIs, Installs
      <4>2. Made(cc.next, FALSE)  BY <3>2, StepMakes
      <4> QED  BY <1>1, <2>1, <2>2, <4>1, <4>2, MadeCollects
    <3>3. CASE ~(StepInstall \/ StepErase)
      BY <1>1, <2>1, <2>2, <3>3, StepMakes, NotMadeCollects
    <3> QED  BY <3>1, <3>2, <3>3
  <2>4. col'.reported = {}
    <3>1. CASE UNCHANGED col  BY <2>2, <3>1
    <3>2. CASE StepInstall \/ StepErase
      <4>1. \E c, made : /\ c = CollectDump(cc.next, made)
                         /\ col' = c \/ col' = [c EXCEPT !.scripts = Append(@, cc.next)]
        BY <3>2 DEF StepInstall, StepErase, CollectForPackage
      <4>2. ASSUME NEW c, NEW made, c = CollectDump(cc.next, made)
            PROVE  DOMAIN c = DOMAIN col /\ c.reported = col.reported
        BY <4>2 DEF CollectDump, CollectorType
      <4> QED  BY <2>2, <4>1, <4>2 DEF CollectorType
    <3> QED
      BY <1>1, <3>1, <3>2 DEF StepObsoleted, StepOther, StepNotProvided, StepFails, StepIgnored,
              StepSource
  <2> QED  BY <2>1, <2>3, <2>4 DEF ClassicOrderInv, Ended
<1>2. CASE UNCHANGED classicVars
  BY <1>2
     DEF ClassicOrderInv, Collecting, CollectsOwed, DumpsLines, TakesScripts, OneKind, Running, HasRun,
         Ended, Owed, NotReplaced, DowngradedLast, Before,
              InOrder, PlanSteps, classicVars
<1>3. CASE StepSourceThrows
  <2>1. cc'.phase = "thrown" /\ rpm'.ran = rpm.ran /\ col'.reported = col.reported
    BY <1>a, <1>3
  <2>2. rpm.ran = <<>> /\ col.reported = {}
    BY <1>3 DEF StepSourceThrows, Stepping, ClassicOrderInv, Collecting, CollectsOwed
  <2> QED
    BY <2>1, <2>2 DEF ClassicOrderInv, Ended
<1>4. ASSUME DiscardScripts \/ ExecuteScripts \/ RunScript \/ RunDumped \/ ScriptsDone \/ ClassicEnds
      PROVE  ClassicOrderInv'
  <2>1. /\ Owed' = Owed /\ (DowngradedLast' <=> DowngradedLast) /\ cc'.abort = cc.abort
        /\ rpm'.dumps = rpm.dumps
    BY <1>4, EndOfPlan DEF Owed, DowngradedLast, PlanSteps
  <2>2. CASE DiscardScripts
    <3>1. /\ cc'.phase = "update" /\ cc.abort /\ UNCHANGED rpm /\ Collecting
          /\ col'.reported = ToSet(col.scripts) \cup ToSet(col.dump)
      BY <1>0, <2>2 DEF DiscardScripts, StepsDone, ThreadType, CollectorType, ClassicOrderInv
    <3>2. rpm'.ran = <<>> /\ col'.reported = Owed'
      BY <2>1, <3>1 DEF Collecting, CollectsOwed
    <3> QED
      BY <2>1, <3>1, <3>2 DEF ClassicOrderInv, Ended
  <2>3. CASE ExecuteScripts
    <3>1. cc'.phase = "posttrans" /\ UNCHANGED rpm /\ Collecting /\ ~cc.abort
      BY <1>0, <2>3 DEF ExecuteScripts, StepsDone, ThreadType, ClassicOrderInv
    <3>2. CASE col.dumpfile /\ ~col.runposttrans
      <4>1. /\ col'.scripts = col.dump \o col.scripts /\ col'.dump = <<>> /\ col'.dumpfile = FALSE
        BY <2>3, <3>2 DEF ExecuteScripts, CollectorType
      <4>2. Before(col.dump, col.scripts)
        BY <3>1, <3>2 DEF Collecting, CollectsOwed, DumpsLines, TakesScripts, OneKind
      <4>3. /\ InOrder(col.dump \o col.scripts)
            /\ ToSet(col.dump \o col.scripts) = ToSet(col.dump) \cup ToSet(col.scripts)
        BY <1>0, <3>1, <4>2, ConcatInOrder
           DEF Collecting, CollectsOwed, DumpsLines, TakesScripts, OneKind
      <4>4. Running'
        BY <2>1, <3>1, <4>1, <4>3, EmptyInOrder
           DEF Collecting, CollectsOwed, DumpsLines, TakesScripts, OneKind, Running, Before
      <4> QED  BY <2>1, <3>1, <4>4 DEF ClassicOrderInv, Ended
    <3>3. CASE ~(col.dumpfile /\ ~col.runposttrans)
      <4>1. UNCHANGED col  BY <2>3, <3>3 DEF ExecuteScripts
      <4>2. /\ rpm.dumps => Before(col.scripts, col.dump)
            /\ ~DowngradedLast => (col.dumpfile => rpm.dumps)
        BY <3>1, <3>3 DEF Collecting, CollectsOwed, DumpsLines, TakesScripts, OneKind
      <4>3. Running'
        BY <2>1, <3>1, <4>1, <4>2, EmptyInOrder
           DEF Collecting, CollectsOwed, DumpsLines, TakesScripts, OneKind, Running, Before
      <4> QED  BY <2>1, <3>1, <4>3 DEF ClassicOrderInv, Ended
    <3> QED  BY <3>2, <3>3
  <2>4. CASE RunScript
    <3>1. /\ cc.phase = "posttrans" /\ UNCHANGED cc /\ col.scripts # <<>>
          /\ rpm'.ran = Append(rpm.ran, Head(col.scripts)) /\ rpm'.dumps = rpm.dumps
          /\ col'.scripts = Tail(col.scripts) /\ col'.dump = col.dump /\ col'.dumpfile = col.dumpfile
      BY <2>4 DEF RunScript, CollectorType, ClassicRpmType
    <3>2. Running /\ ~cc.abort
      BY <3>1 DEF ClassicOrderInv
    <3>3. /\ InOrder(Tail(col.scripts)) /\ ToSet(col.scripts) = {Head(col.scripts)} \cup ToSet(Tail(col.scripts))
          /\ \A x \in ToSet(Tail(col.scripts)) : Head(col.scripts) < x
          /\ Head(col.scripts) \in PlanSteps
      BY <1>0, <3>1, <3>2, TailInOrder DEF Running
    <3>4. /\ InOrder(Append(rpm.ran, Head(col.scripts)))
          /\ ToSet(Append(rpm.ran, Head(col.scripts))) = ToSet(rpm.ran) \cup {Head(col.scripts)}
      BY <1>0, <3>2, <3>3, AppendInOrder DEF Running, Before
    <3>5. Running'
      BY <2>1, <3>1, <3>2, <3>3, <3>4 DEF Running, Before
    <3> QED  BY <3>1, <3>2, <3>5 DEF ClassicOrderInv, Ended
  <2>5. CASE RunDumped
    <3>1. /\ cc.phase = "posttrans" /\ UNCHANGED cc /\ col.scripts = <<>> /\ col.dumpfile
          /\ col'.scripts = <<>> /\ col'.dump = <<>> /\ col'.dumpfile = FALSE
      BY <2>5 DEF RunDumped, CollectorType
    <3>2. Running /\ ~cc.abort
      BY <3>1 DEF ClassicOrderInv
    <3>3. CASE rpm.dumps
      <4>1. rpm'.ran = rpm.ran \o col.dump
        BY <2>5, <3>3 DEF RunDumped, ClassicRpmType
      <4>2. InOrder(rpm.ran \o col.dump) /\ ToSet(rpm.ran \o col.dump) = ToSet(rpm.ran) \cup ToSet(col.dump)
        BY <1>0, <3>2, <3>3, ConcatInOrder DEF Running
      <4>3. Running'
        BY <2>1, <3>1, <3>2, <4>1, <4>2, EmptyInOrder DEF Running, Before
      <4> QED  BY <3>1, <3>2, <4>3 DEF ClassicOrderInv, Ended
    <3>4. CASE ~rpm.dumps
      <4>1. UNCHANGED rpm /\ DowngradedLast
        BY <2>5, <3>1, <3>2, <3>4 DEF RunDumped, Running
      <4>2. Running'
        BY <2>1, <3>1, <3>2, <4>1, EmptyInOrder DEF Running, Before
      <4> QED  BY <3>1, <3>2, <4>2 DEF ClassicOrderInv, Ended
    <3> QED  BY <3>3, <3>4
  <2>6. CASE ScriptsDone
    <3>1. /\ cc.phase = "posttrans" /\ cc'.phase = "update" /\ UNCHANGED <<col, rpm>>
          /\ col.scripts = <<>> /\ ~col.dumpfile
      BY <1>0, <2>6 DEF ScriptsDone, ThreadType
    <3>2. Running /\ col.dump = <<>> /\ ~cc.abort
      BY <3>1 DEF ClassicOrderInv, Running
    <3>3. HasRun'
      BY <2>1, <3>1, <3>2, EmptyInOrder DEF Running, HasRun
    <3> QED  BY <2>1, <3>1, <3>2, <3>3 DEF ClassicOrderInv, Ended
  <2>7. CASE ClassicEnds
    <3>1. cc.phase = "update" /\ cc'.phase \in {"returned", "aborted"} /\ UNCHANGED <<col, rpm>>
      BY <1>0, <2>7 DEF ClassicEnds, ThreadType
    <3>2. HasRun => HasRun'
      BY <2>1, <3>1 DEF HasRun
    <3> QED  BY <2>1, <3>1, <3>2 DEF ClassicOrderInv, Ended
  <2> QED  BY <1>4, <2>2, <2>3, <2>4, <2>5, <2>6, <2>7
<1> QED
  BY <1>1, <1>2, <1>3, <1>4
     DEF ClassicNext, StepObsoleted, StepOther, StepNotProvided, StepInstall, StepErase,
         StepFails, StepIgnored, StepSource

LEMMA InitOrder == ClassicInit => ClassicOrderInv
<1> SUFFICES ASSUME ClassicInit PROVE Collecting /\ cc.phase = "steps" /\ col.reported = {}
  BY DEF ClassicOrderInv, Ended
<1>1. /\ cc.phase = "steps" /\ col.scripts = <<>> /\ col.dump = <<>> /\ ~col.dumpfile
      /\ col.runposttrans /\ rpm.ran = <<>> /\ \A s \in PlanSteps : rpm.did[s] = "untouched"
      /\ rpm.last = 0 /\ col.reported = {}
  BY DEF ClassicInit, PlanSteps
<1>2. Owed = {} /\ ~DowngradedLast
  BY <1>1 DEF Owed, DowngradedLast
<1> QED
  BY <1>1, <1>2, EmptyInOrder
     DEF Collecting, CollectsOwed, DumpsLines, TakesScripts, OneKind, Before

\* A commit step by step runs the %posttrans script of each package it has
\* installed, once and in the order of the installation, whether rpm was replaced
\* on the way by one that can, or that can not, run them itself; when its steps
\* are aborted it runs none and tells the user of each.  The exceptions are a
\* downgrade of rpm by the last call the collector sees, and a source package
\* whose exception leaves commit(): then none runs, and nobody is told.
THEOREM ScriptsRunInOrder == ClassicSpec => []PosttransInOrder
<1>1. ClassicInit => HistoryInv /\ ClassicOrderInv
  BY InitHistory, InitOrder
<1>2. HistoryInv /\ ClassicOrderInv /\ [ClassicNext]_classicVars => (HistoryInv /\ ClassicOrderInv)'
  BY StepHistory, StepOrder
<1>3. HistoryInv /\ ClassicOrderInv => PosttransInOrder
  <2> SUFFICES ASSUME HistoryInv, ClassicOrderInv PROVE PosttransInOrder
    OBVIOUS
  <2>1. cc.phase \in {"steps", "posttrans", "thrown"} \/ Ended
    BY DEF HistoryInv, ClassicTypeInv, ThreadType, Ended
  <2>2. ToSet(rpm.ran) \subseteq Owed /\ InOrder(rpm.ran)
    BY <2>1, EmptyInOrder DEF ClassicOrderInv, Collecting, CollectsOwed, Running, HasRun
  <2> QED
    BY <2>2 DEF ClassicOrderInv, HasRun, PosttransInOrder
<1> QED
  BY <1>1, <1>2, <1>3, PTL DEF ClassicSpec

-----------------------------------------------------------------------------
(*                           One rpm transaction                             *)

(* CommitTypeOK by its records, with the fields each of them has.            *)
LibraryType ==
    /\ DOMAIN lz = {"kind", "phase", "next", "todo", "abort", "stage", "report", "gotEnd", "seen",
                    "early", "inbox", "logged"}
    /\ lz.kind \in Transactions
    /\ lz.phase \in {"fill", "loop", "drain", "check", "scripts", "returned", "aborted", "failed"}
    /\ lz.next \in 1..Len(lz.kind) + 1
    /\ lz.todo \in Seq(Steps)
    /\ lz.abort \in BOOLEAN /\ lz.gotEnd \in BOOLEAN /\ lz.early \in BOOLEAN
    /\ lz.stage \in [Steps -> {"todo", "done", "error"}]
    /\ lz.report \in Block \cup {NoBlock}
    /\ lz.seen \in Nat
    /\ lz.inbox \in Seq(Message)
    /\ lz.logged \in [Steps -> {"no", "ok", "failed"}]

RpmType ==
    /\ DOMAIN zr = {"state", "left", "source", "plan", "block", "at", "err", "cleans", "did", "code"}
    /\ zr.state \in {"none", "reads", "runs", "gone"} /\ (zr.at # "idle" => zr.state = "runs")
    /\ lz.phase = "fill" => zr.state = "none"
    /\ zr.left \in Seq(Steps) /\ zr.source \in Seq(Steps)
    /\ zr.plan \in Seq(Block)
    /\ zr.block \in Block \cup {NoBlock}
    /\ zr.at \in {"idle", "begun", "tagged", "error"}
    /\ zr.cleans \in BOOLEAN /\ zr.err \in BOOLEAN
    /\ zr.did \in [Steps -> Deed]
    /\ zr.code \in ExitCode \cup {"none"}

PipeType ==
    /\ DOMAIN pipes = {"msgs", "tags", "held"}
    /\ pipes.msgs \in Seq(Message) /\ Len(pipes.msgs) <= PipeSize
    /\ pipes.tags \in Seq(Nat)
    /\ pipes.held \in BOOLEAN

TypeInv == LibraryType /\ RpmType /\ PipeType

-----------------------------------------------------------------------------
(* The inductive invariant.                                                  *)

\* What zypp-rpm has said and libzypp has not handled.
Unread == lz.inbox \o pipes.msgs

Todo == ToSet(lz.todo)

Untouched == \A s \in Steps : zr.did[s] = "untouched"

\* The phases of the two processes.
PhaseInv ==
    /\ lz.phase = "fill" => \A s \in Todo : s < lz.next
    /\ zr.state = "none" => Unread = <<>> /\ lz.report = NoBlock /\ pipes.tags = <<>> /\ lz.seen = 0
    /\ lz.phase = "drain" => zr.state = "gone"
    /\ lz.phase \in {"check", "scripts", "returned", "aborted"} =>
          Unread = <<>> /\ (zr.state = "gone" \/ (lz.todo = <<>> /\ zr.state = "none"))
    /\ lz.phase = "failed" => zr.state \in {"none", "gone"} /\ Untouched
    /\ zr.state \in {"none", "reads"} \/ Throws(zr.code) => Untouched
    /\ zr.state # "gone" => zr.code = "none"
    /\ \A s \in Todo : lz.kind[s] \in {"install", "remove", "source"}

\* The elements rpm has still to take are new, each is taken once.
Waits(work) ==
    \A i \in DOMAIN work :
        /\ work[i] \in Todo /\ zr.did[work[i]] = "untouched"
        /\ \A j \in DOMAIN work : i # j => work[i] # work[j]

LeftInv   == Waits(zr.left) /\ \A i \in DOMAIN zr.left : lz.kind[zr.left[i]] # "source"
SourceInv == Waits(zr.source) /\ \A i \in DOMAIN zr.source : lz.kind[zr.source[i]] = "source"

\* The steps rpm has taken and not touched yet.
Fresh == {s \in Todo : /\ zr.did[s] = "untouched"
                       /\ \A i \in DOMAIN zr.left : zr.left[i] # s
                       /\ \A i \in DOMAIN zr.source : zr.source[i] # s}

\* An element has one package, scripts before it and at most one after it.
PlanInv ==
    /\ \A i \in DOMAIN zr.plan : Package(zr.plan[i].type) =>
          zr.plan[i].step \in Fresh /\ Len(zr.plan) <= i + 1
    /\ \A i, j \in DOMAIN zr.plan : i < j =>
          /\ ~(Package(zr.plan[i].type) /\ Package(zr.plan[j].type))
          /\ zr.plan[i].type = "script" => zr.plan[i].step \in Fresh \cup {0}

BlockInv ==
    /\ zr.state \in {"none", "reads"} => zr.plan = <<>> /\ zr.block = NoBlock
    /\ zr.at # "idle" => zr.block \in Block
    /\ zr.at = "error" => Package(zr.block.type) \/ zr.block.type = "script"
    /\ zr.at \in {"begun", "tagged"} /\ Package(zr.block.type) =>
          /\ zr.block.step \in Fresh /\ Len(zr.plan) <= 1
          /\ \A i \in DOMAIN zr.plan : ~Package(zr.plan[i].type)
    /\ zr.at # "idle" /\ zr.block.type = "script" /\ zr.plan # <<>> =>
          zr.block.step \in Fresh \cup {0}

WorkInv == LeftInv /\ SourceInv /\ PlanInv /\ BlockInv

\* The stream of messages, from the running report to what zypp-rpm is doing.
\* A transaction error is the last word.
LastInv ==
    \A i \in DOMAIN Unread :
        Unread[i].say = "TransactionError" => i = Len(Unread) /\ zr.state = "gone"

\* The blocks are numbered.
NumberInv ==
    /\ \A i \in DOMAIN Unread : Unread[i].say # "TransactionError" =>
          /\ Unread[i].block \in Block /\ Unread[i].block.n > 0
          /\ lz.report.n <= Unread[i].block.n
          /\ Unread[i].say = "Begin" => lz.report.n < Unread[i].block.n
    /\ \A i, j \in DOMAIN Unread : i < j /\ Unread[j].say # "TransactionError" =>
          /\ Unread[i].block.n <= Unread[j].block.n
          /\ Unread[j].say = "Begin" => Unread[i].block.n < Unread[j].block.n
    /\ lz.report # NoBlock => lz.report.n > 0

\* What comes before message i is say of block b; the report is what was handled last.
After(i, say, b) ==
    IF i = 1 THEN lz.report = b ELSE Unread[i - 1].say = say /\ Unread[i - 1].block = b

\* Every block has its Begin, Finished and perhaps Error; its number is the next one.
Paired(i) ==
    /\ Unread[i].say = "Finished" => After(i, "Begin", Unread[i].block)
    /\ Unread[i].say = "Error" => /\ After(i, "Finished", Unread[i].block)
                                  /\ Package(Unread[i].block.type) \/ Unread[i].block.type = "script"
    /\ Unread[i].say = "Begin" =>
          IF i = 1 THEN lz.report # NoBlock => Unread[i].block.n = lz.report.n + 1
          ELSE Unread[i].block.n = Unread[i - 1].block.n + 1

PairInv == \A i \in DOMAIN Unread : Paired(i)

\* The last message is about what zypp-rpm is doing.
NowInv ==
    /\ zr.state = "runs" =>
          IF Unread = <<>>
          THEN /\ lz.report # NoBlock => lz.report.n = zr.block.n
               /\ zr.at # "idle" => lz.report = zr.block
          ELSE /\ Unread[Len(Unread)].block.n = zr.block.n
               /\ zr.at # "idle" => Unread[Len(Unread)].block = zr.block
               /\ zr.at \in {"begun", "tagged"} => Unread[Len(Unread)].say = "Begin"
               /\ zr.at = "error" => Unread[Len(Unread)].say = "Finished"
    /\ zr.state = "reads" => Unread = <<>> /\ lz.report = NoBlock

StreamInv == LastInv /\ NumberInv /\ PairInv /\ NowInv

\* The package blocks of messages and reports belong to steps of the transaction.
StepsInv ==
    /\ \A i \in DOMAIN Unread : Package(Unread[i].block.type) => Unread[i].block.step \in Todo
    /\ Package(lz.report.type) => lz.report.step \in Todo

\* The messages that change the stage of step s, and those that make it an error.
Breaks(m, s) ==
    /\ m.block.step = s /\ m.say = "Error"
    /\ Package(m.block.type) \/ (m.block.type = "script" /\ m.fatal)

Touches(m, s) ==
    Breaks(m, s) \/ (m.block.step = s /\ m.say = "Finished" /\ Package(m.block.type))

BreaksNext(s) == zr.at = "error" /\ Package(zr.block.type) /\ zr.block.step = s

\* The stage, and the messages that are still to change it, say what rpm did.
StillTodo(s) ==
    zr.did[s] = "untouched" =>
        lz.stage[s] = "todo" /\ \A i \in DOMAIN Unread : ~Touches(Unread[i], s)

BecomesDone(s) ==
    zr.did[s] = "done" =>
        /\ lz.stage[s] # "error" /\ \A i \in DOMAIN Unread : ~Breaks(Unread[i], s)
        /\ lz.stage[s] = "done" \/ \E i \in DOMAIN Unread : Touches(Unread[i], s)

BecomesError(s) ==
    zr.did[s] = "failed" =>
        /\ lz.stage[s] = "error" => \A i \in DOMAIN Unread : ~Touches(Unread[i], s)
        /\ \A i, j \in DOMAIN Unread : i < j /\ Breaks(Unread[i], s) => ~Touches(Unread[j], s)
        /\ \/ lz.stage[s] = "error" \/ zr.code = "Signal" \/ BreaksNext(s)
           \/ \E i \in DOMAIN Unread : Breaks(Unread[i], s)

ErrorIsNext(s) ==
    BreaksNext(s) =>
        /\ zr.did[s] = "failed" /\ lz.stage[s] # "error"
        /\ \A i \in DOMAIN Unread : ~Breaks(Unread[i], s)

Effect(s) == StillTodo(s) /\ BecomesDone(s) /\ BecomesError(s) /\ ErrorIsNext(s)

EffectInv ==
    /\ \A s \in Todo : Effect(s)
    /\ lz.phase = "fill" /\ ~lz.abort => \A s \in Steps : s >= lz.next => lz.stage[s] = "todo"

\* A report that was begun ends well, or its end is still to come.
EndsWell(b) ==
    Package(b.type) =>
        \/ zr.code = "Signal" \/ lz.stage[b.step] = "error" \/ zr.did[b.step] = "done"
        \/ zr.at # "idle" /\ zr.block = b
        \/ \E i \in DOMAIN Unread : Unread[i].say = "Error" /\ Unread[i].block = b

ReportInv ==
    /\ EndsWell(lz.report)
    /\ \A i \in DOMAIN Unread : Unread[i].say = "Begin" => EndsWell(Unread[i].block)

\* The end tags are numbered as the blocks; Sent of them were sent.
Sent == lz.seen + Len(pipes.tags)

SentInv ==
    /\ \A i \in DOMAIN pipes.tags : pipes.tags[i] = lz.seen + i
    /\ zr.state = "runs" => Sent = IF zr.at = "begun" THEN zr.block.n - 1 ELSE zr.block.n
    /\ zr.state = "reads" => Sent = 0 /\ lz.seen = 0

\* The tag of a block is sent before the message that ends it.
SaidInv ==
    \A i \in DOMAIN Unread :
        /\ Unread[i].say \in {"Finished", "Error"} => Sent >= Unread[i].block.n
        /\ Unread[i].say = "Begin" => Sent >= Unread[i].block.n - 1

SeenInv ==
    ~lz.early =>
        /\ lz.report # NoBlock => lz.seen = IF lz.gotEnd THEN lz.report.n ELSE lz.report.n - 1
        /\ lz.report = NoBlock =>
              IF Unread = <<>> THEN zr.state = "runs" => zr.block.n = lz.seen
              ELSE Unread[1].say = "Begin" => Unread[1].block.n = lz.seen + 1

TagInv == SentInv /\ SaidInv /\ SeenInv

-----------------------------------------------------------------------------
(* What the actions do, field by field.  First the thread of libzypp.          *)

LibraryFields == {"kind", "phase", "next", "todo", "abort", "stage", "report", "gotEnd", "seen",
                  "early", "inbox", "logged"}
PipeFields == {"msgs", "tags", "held"}

\* What a report that ends does to the history.
Logged(logged, report, stage) ==
    IF Package(report.type)
    THEN [logged EXCEPT ![report.step] = IF stage[report.step] = "error" THEN "failed" ELSE "ok"]
    ELSE logged

\* The end tag is read, or the fields about the tags stay.
TagIsRead ==
    /\ pipes.tags # <<>> /\ ~lz.gotEnd
    /\ lz'.seen = Head(pipes.tags) /\ pipes'.tags = Tail(pipes.tags)
    /\ lz'.early = (lz.early \/ lz.report = NoBlock)

TagsStay == lz'.seen = lz.seen /\ pipes'.tags = pipes.tags /\ lz'.early = lz.early

TagsOfEnd == IF lz.report = NoBlock \/ lz.gotEnd \/ pipes.tags = <<>> THEN TagsStay ELSE TagIsRead
GotEndOfEnd == lz'.gotEnd = IF lz.report = NoBlock \/ lz.gotEnd \/ pipes.tags = <<>>
                            THEN lz.gotEnd ELSE TRUE

\* e is what EndReport makes of l and p.
EndOf(l, p, e) ==
    /\ DOMAIN e.lib = LibraryFields /\ DOMAIN e.pip = PipeFields
    /\ e.lib.kind = l.kind /\ e.lib.phase = l.phase /\ e.lib.next = l.next
    /\ e.lib.todo = l.todo /\ e.lib.abort = l.abort /\ e.lib.stage = l.stage
    /\ e.lib.inbox = l.inbox /\ e.lib.report = NoBlock
    /\ e.lib.logged = Logged(l.logged, l.report, l.stage)
    /\ e.pip.msgs = p.msgs /\ e.pip.held = p.held
    /\ IF l.report = NoBlock \/ l.gotEnd \/ p.tags = <<>>
       THEN /\ e.lib.gotEnd = l.gotEnd /\ e.lib.seen = l.seen /\ e.lib.early = l.early
            /\ e.pip.tags = p.tags
       ELSE /\ ~l.gotEnd /\ e.lib.gotEnd = TRUE /\ e.lib.seen = Head(p.tags)
            /\ e.lib.early = (l.early \/ l.report = NoBlock) /\ e.pip.tags = Tail(p.tags)

LEMMA EndReportFields ==
    ASSUME NEW l, NEW p, DOMAIN l = LibraryFields, DOMAIN p = PipeFields
    PROVE  EndOf(l, p, EndReport(l, p))
<1> DEFINE e == EndReport(l, p)
<1> DEFINE w == IF l.report = NoBlock THEN [lib |-> l, pip |-> p] ELSE WaitForScriptEnd(l, p)
<1>1. e = [w EXCEPT !.lib = FinalizeCurrentReport(@)]
  BY DEF EndReport
<1>2. /\ DOMAIN w = {"lib", "pip"} /\ DOMAIN w.lib = LibraryFields /\ DOMAIN w.pip = PipeFields
      /\ w.lib.kind = l.kind /\ w.lib.phase = l.phase /\ w.lib.next = l.next
      /\ w.lib.todo = l.todo /\ w.lib.abort = l.abort /\ w.lib.stage = l.stage
      /\ w.lib.inbox = l.inbox /\ w.lib.report = l.report
      /\ w.lib.logged = l.logged
      /\ w.pip.msgs = p.msgs /\ w.pip.held = p.held
      /\ IF l.report = NoBlock \/ l.gotEnd \/ p.tags = <<>>
         THEN /\ w.lib.gotEnd = l.gotEnd /\ w.lib.seen = l.seen /\ w.lib.early = l.early
              /\ w.pip.tags = p.tags
         ELSE /\ w.lib.gotEnd = TRUE /\ w.lib.seen = Head(p.tags)
              /\ w.lib.early = (l.early \/ l.report = NoBlock) /\ w.pip.tags = Tail(p.tags)
  BY DEF WaitForScriptEnd, ReadTag, LibraryFields, PipeFields
<1> HIDE DEF w
<1>3. /\ e.pip = w.pip /\ e.lib = FinalizeCurrentReport(w.lib)
  BY <1>1, <1>2
<1> QED
  BY <1>2, <1>3 DEF EndOf, FinalizeCurrentReport, Logged, Package, LibraryFields

\* l is what libzypp knows, but for the stages and the inbox.
Knows(l, stage, inbox) ==
    /\ DOMAIN l = LibraryFields /\ l.kind = lz.kind /\ l.phase = lz.phase /\ l.next = lz.next
    /\ l.todo = lz.todo /\ l.abort = lz.abort /\ l.inbox = inbox
    /\ l.stage = stage /\ l.report = lz.report /\ l.logged = lz.logged
    /\ l.gotEnd = lz.gotEnd /\ l.seen = lz.seen /\ l.early = lz.early

\* One message, the head of the inbox, is handled.
Handled(stage, report, logged) ==
    /\ Looping /\ lz.inbox # <<>>
    /\ DOMAIN lz' = LibraryFields /\ DOMAIN pipes' = PipeFields /\ UNCHANGED zr
    /\ lz'.kind = lz.kind /\ lz'.phase = lz.phase /\ lz'.next = lz.next /\ lz'.todo = lz.todo
    /\ lz'.abort = lz.abort /\ lz'.inbox = Tail(lz.inbox)
    /\ lz'.stage = stage /\ lz'.report = report /\ lz'.logged = logged
    /\ pipes'.msgs = pipes.msgs /\ pipes'.held = pipes.held

This == Head(lz.inbox)

LEMMA HandlerEffects ==
    ASSUME TypeInv
    PROVE  /\ OnBegin =>
                 /\ This.say = "Begin"
                 /\ Handled(lz.stage, This.block, Logged(lz.logged, lz.report, lz.stage))
                 /\ lz'.gotEnd = FALSE /\ TagsOfEnd /\ (lz.report # NoBlock => CanEndReport)
           /\ OnPackageFinished =>
                 /\ This.say = "Finished" /\ Package(This.block.type)
                 /\ Handled([lz.stage EXCEPT ![This.block.step] = "done"], lz.report, lz.logged)
                 /\ lz'.gotEnd = lz.gotEnd /\ TagsStay
           /\ OnPackageError =>
                 /\ This.say = "Error" /\ Package(This.block.type)
                 /\ LET stage == [lz.stage EXCEPT ![This.block.step] = "error"]
                    IN  Handled(stage, NoBlock, Logged(lz.logged, lz.report, stage))
                 /\ GotEndOfEnd /\ TagsOfEnd /\ (lz.report # NoBlock => CanEndReport)
           /\ OnFinished =>
                 /\ This.say = "Finished" /\ This.block.type \in {"trans", "cleanup"}
                 /\ Handled(lz.stage, NoBlock, Logged(lz.logged, lz.report, lz.stage))
                 /\ GotEndOfEnd /\ TagsOfEnd /\ (lz.report # NoBlock => CanEndReport)
           /\ OnScriptFinished =>
                 /\ This.say = "Finished" /\ This.block.type = "script"
                 /\ Handled(lz.stage, lz.report, lz.logged) /\ lz'.gotEnd = lz.gotEnd /\ TagsStay
           /\ OnScriptError =>
                 /\ This.say = "Error" /\ This.block.type = "script"
                 /\ Handled(IF This.block.step # 0 /\ This.fatal
                            THEN [lz.stage EXCEPT ![This.block.step] = "error"] ELSE lz.stage,
                            IF lz.report.type = "script" THEN NoBlock ELSE lz.report, lz.logged)
                 /\ lz.report.type = "script" => GotEndOfEnd /\ TagsOfEnd /\ CanEndReport
                 /\ lz.report.type # "script" => lz'.gotEnd = lz.gotEnd /\ TagsStay
           /\ OnTransactionError =>
                 /\ This.say = "TransactionError"
                 /\ Handled(lz.stage, lz.report, lz.logged) /\ lz'.gotEnd = lz.gotEnd /\ TagsStay
<1>0. DOMAIN lz = LibraryFields /\ DOMAIN pipes = PipeFields
  BY DEF TypeInv, LibraryType, PipeType, LibraryFields, PipeFields
<1>1. \A stage : Knows([Pop EXCEPT !.stage = stage], stage, Tail(lz.inbox))
  BY <1>0 DEF Pop, LibraryFields, Knows
<1>2. Knows(Pop, lz.stage, Tail(lz.inbox))
  BY <1>0 DEF Pop, LibraryFields, Knows
<1>3. ASSUME OnBegin
      PROVE  /\ This.say = "Begin"
             /\ Handled(lz.stage, This.block, Logged(lz.logged, lz.report, lz.stage))
             /\ lz'.gotEnd = FALSE /\ TagsOfEnd /\ (lz.report # NoBlock => CanEndReport)
  <2> DEFINE e == EndReport(Pop, pipes)
  <2>0. EndOf(Pop, pipes, e)
    BY <1>0, <1>2, EndReportFields DEF Knows
  <2>1. /\ lz' = [e.lib EXCEPT !.gotEnd = FALSE, !.report = This.block] /\ pipes' = e.pip
        /\ UNCHANGED zr
    BY <1>3 DEF OnBegin, StartReport, CurrentBlock, This
  <2>2. /\ DOMAIN e.lib = LibraryFields /\ DOMAIN e.pip = PipeFields
        /\ e.lib.kind = lz.kind /\ e.lib.phase = lz.phase /\ e.lib.next = lz.next
        /\ e.lib.todo = lz.todo /\ e.lib.abort = lz.abort /\ e.lib.stage = lz.stage
        /\ e.lib.inbox = Tail(lz.inbox)
        /\ e.lib.logged = Logged(lz.logged, lz.report, lz.stage)
        /\ e.pip.msgs = pipes.msgs /\ e.pip.held = pipes.held
        /\ IF lz.report = NoBlock \/ lz.gotEnd \/ pipes.tags = <<>>
           THEN /\ e.lib.seen = lz.seen /\ e.lib.early = lz.early /\ e.pip.tags = pipes.tags
           ELSE /\ e.lib.seen = Head(pipes.tags) /\ e.lib.early = (lz.early \/ lz.report = NoBlock)
                /\ e.pip.tags = Tail(pipes.tags)
    BY <1>2, <2>0 DEF EndOf, Knows
  <2> HIDE DEF e
  <2> QED
    BY <1>3, <2>1, <2>2
       DEF OnBegin, Handles, Handled, This, TagsOfEnd, TagsStay, TagIsRead, LibraryFields
<1>4. ASSUME OnPackageFinished
      PROVE  /\ This.say = "Finished" /\ Package(This.block.type)
             /\ Handled([lz.stage EXCEPT ![This.block.step] = "done"], lz.report, lz.logged)
             /\ lz'.gotEnd = lz.gotEnd /\ TagsStay
  <2> DEFINE stage == [lz.stage EXCEPT ![This.block.step] = "done"]
  <2>1. lz' = [Pop EXCEPT !.stage = stage] /\ UNCHANGED <<zr, pipes>>
    BY <1>2, <1>4 DEF OnPackageFinished, CurrentBlock, This, Knows
  <2>2. Knows(lz', stage, Tail(lz.inbox))
    BY <1>1, <2>1
  <2> HIDE DEF stage
  <2>3. Handled(stage, lz.report, lz.logged) /\ lz'.gotEnd = lz.gotEnd /\ TagsStay
    BY <1>0, <1>4, <2>1, <2>2 DEF OnPackageFinished, Handles, Handled, TagsStay, Knows
  <2> QED  BY <1>4, <2>3 DEF stage, OnPackageFinished, Handles, This, Package
<1>5. ASSUME OnPackageError
      PROVE  /\ This.say = "Error" /\ Package(This.block.type)
             /\ LET stage == [lz.stage EXCEPT ![This.block.step] = "error"]
                IN  Handled(stage, NoBlock, Logged(lz.logged, lz.report, stage))
             /\ GotEndOfEnd /\ TagsOfEnd /\ (lz.report # NoBlock => CanEndReport)
  <2> DEFINE stage == [lz.stage EXCEPT ![This.block.step] = "error"]
             l == [Pop EXCEPT !.stage = stage]
             e == EndReport(l, pipes)
  <2>1. lz' = e.lib /\ pipes' = e.pip /\ UNCHANGED zr
    BY <1>2, <1>5 DEF OnPackageError, CurrentBlock, This, Knows
  <2>2. Knows(l, stage, Tail(lz.inbox))
    BY <1>1
  <2> HIDE DEF l, stage
  <2>0. EndOf(l, pipes, e)
    BY <1>0, <2>2, EndReportFields DEF Knows
  <2> HIDE DEF e
  <2>3. /\ DOMAIN e.lib = LibraryFields /\ DOMAIN e.pip = PipeFields
        /\ e.lib.kind = lz.kind /\ e.lib.phase = lz.phase /\ e.lib.next = lz.next
        /\ e.lib.todo = lz.todo /\ e.lib.abort = lz.abort /\ e.lib.stage = stage
        /\ e.lib.inbox = Tail(lz.inbox) /\ e.lib.report = NoBlock
        /\ e.lib.logged = Logged(lz.logged, lz.report, stage)
        /\ e.pip.msgs = pipes.msgs /\ e.pip.held = pipes.held
        /\ IF lz.report = NoBlock \/ lz.gotEnd \/ pipes.tags = <<>>
           THEN /\ e.lib.gotEnd = lz.gotEnd /\ e.lib.seen = lz.seen /\ e.lib.early = lz.early
                /\ e.pip.tags = pipes.tags
           ELSE /\ e.lib.gotEnd = TRUE /\ e.lib.seen = Head(pipes.tags)
                /\ e.lib.early = (lz.early \/ lz.report = NoBlock)
                /\ e.pip.tags = Tail(pipes.tags)
    BY <2>0, <2>2 DEF EndOf, Knows
  <2>4. /\ Handled(stage, NoBlock, Logged(lz.logged, lz.report, stage))
        /\ GotEndOfEnd /\ TagsOfEnd /\ (lz.report # NoBlock => CanEndReport)
    BY <1>5, <2>1, <2>3
       DEF OnPackageError, Handles, Handled, TagsOfEnd, GotEndOfEnd, TagsStay, TagIsRead
  <2> QED  BY <1>5, <2>4 DEF stage, OnPackageError, Handles, This, Package
<1>6. ASSUME OnFinished
      PROVE  /\ This.say = "Finished" /\ This.block.type \in {"trans", "cleanup"}
             /\ Handled(lz.stage, NoBlock, Logged(lz.logged, lz.report, lz.stage))
             /\ GotEndOfEnd /\ TagsOfEnd /\ (lz.report # NoBlock => CanEndReport)
  <2> DEFINE e == EndReport(Pop, pipes)
  <2>0. EndOf(Pop, pipes, e)
    BY <1>0, <1>2, EndReportFields DEF Knows
  <2>1. lz' = e.lib /\ pipes' = e.pip /\ UNCHANGED zr
    BY <1>6 DEF OnFinished
  <2>2. /\ DOMAIN e.lib = LibraryFields /\ DOMAIN e.pip = PipeFields
        /\ e.lib.kind = lz.kind /\ e.lib.phase = lz.phase /\ e.lib.next = lz.next
        /\ e.lib.todo = lz.todo /\ e.lib.abort = lz.abort /\ e.lib.stage = lz.stage
        /\ e.lib.inbox = Tail(lz.inbox) /\ e.lib.report = NoBlock
        /\ e.lib.logged = Logged(lz.logged, lz.report, lz.stage)
        /\ e.pip.msgs = pipes.msgs /\ e.pip.held = pipes.held
        /\ IF lz.report = NoBlock \/ lz.gotEnd \/ pipes.tags = <<>>
           THEN /\ e.lib.gotEnd = lz.gotEnd /\ e.lib.seen = lz.seen /\ e.lib.early = lz.early
                /\ e.pip.tags = pipes.tags
           ELSE /\ e.lib.gotEnd = TRUE /\ e.lib.seen = Head(pipes.tags)
                /\ e.lib.early = (lz.early \/ lz.report = NoBlock)
                /\ e.pip.tags = Tail(pipes.tags)
    BY <1>2, <2>0 DEF EndOf, Knows
  <2> HIDE DEF e
  <2> QED
    BY <1>6, <2>1, <2>2
       DEF OnFinished, Handles, Handled, This, TagsOfEnd, GotEndOfEnd, TagsStay, TagIsRead
<1>7. ASSUME OnScriptFinished \/ OnTransactionError
      PROVE  Handled(lz.stage, lz.report, lz.logged) /\ lz'.gotEnd = lz.gotEnd /\ TagsStay
  BY <1>0, <1>2, <1>7
     DEF OnScriptFinished, OnTransactionError, Handles, Handled, TagsStay, Knows
<1>8. /\ OnScriptFinished => This.say = "Finished" /\ This.block.type = "script"
      /\ OnTransactionError => This.say = "TransactionError"
  BY DEF OnScriptFinished, OnTransactionError, Handles, This
<1>9. ASSUME OnScriptError
      PROVE  /\ This.say = "Error" /\ This.block.type = "script"
             /\ Handled(IF This.block.step # 0 /\ This.fatal
                        THEN [lz.stage EXCEPT ![This.block.step] = "error"] ELSE lz.stage,
                        IF lz.report.type = "script" THEN NoBlock ELSE lz.report, lz.logged)
             /\ lz.report.type = "script" => GotEndOfEnd /\ TagsOfEnd /\ CanEndReport
             /\ lz.report.type # "script" => lz'.gotEnd = lz.gotEnd /\ TagsStay
  <2> DEFINE stage == IF This.block.step # 0 /\ This.fatal
                      THEN [lz.stage EXCEPT ![This.block.step] = "error"] ELSE lz.stage
             l == IF This.block.step # 0 /\ This.fatal
                  THEN [Pop EXCEPT !.stage[This.block.step] = "error"] ELSE Pop
             w == WaitForScriptEnd(l, pipes)
  <2>1. Knows(l, stage, Tail(lz.inbox))
    BY <1>1, <1>2 DEF Knows
  <2>2. /\ UNCHANGED zr
        /\ IF lz.report.type = "script" THEN lz' = [w.lib EXCEPT !.report = NoBlock] /\ pipes' = w.pip
           ELSE lz' = l /\ UNCHANGED pipes
    BY <1>9 DEF OnScriptError, CurrentBlock, This
  <2> HIDE DEF l, stage
  <2>3. /\ DOMAIN w.lib = LibraryFields /\ DOMAIN w.pip = PipeFields
        /\ w.lib.kind = lz.kind /\ w.lib.phase = lz.phase /\ w.lib.next = lz.next
        /\ w.lib.todo = lz.todo /\ w.lib.abort = lz.abort /\ w.lib.stage = stage
        /\ w.lib.inbox = Tail(lz.inbox) /\ w.lib.logged = lz.logged
        /\ w.pip.msgs = pipes.msgs /\ w.pip.held = pipes.held
        /\ IF lz.gotEnd \/ pipes.tags = <<>>
           THEN /\ w.lib.gotEnd = lz.gotEnd /\ w.lib.seen = lz.seen /\ w.lib.early = lz.early
                /\ w.pip.tags = pipes.tags
           ELSE /\ w.lib.gotEnd = TRUE /\ w.lib.seen = Head(pipes.tags)
                /\ w.lib.early = (lz.early \/ lz.report = NoBlock)
                /\ w.pip.tags = Tail(pipes.tags)
    BY <1>0, <2>1 DEF Knows, WaitForScriptEnd, ReadTag, LibraryFields, PipeFields
  <2> HIDE DEF w
  <2>4. /\ This.say = "Error" /\ This.block.type = "script" /\ Looping /\ lz.inbox # <<>>
        /\ lz.report.type = "script" => CanEndReport
    BY <1>9 DEF OnScriptError, Handles, This
  <2>5. CASE lz.report.type = "script"
    <3>1. lz.report # NoBlock
      BY <2>5 DEF NoBlock
    <3>2. /\ Handled(stage, NoBlock, lz.logged) /\ GotEndOfEnd /\ TagsOfEnd
      BY <2>2, <2>3, <2>4, <2>5, <3>1
         DEF Handled, TagsOfEnd, GotEndOfEnd, TagsStay, TagIsRead, LibraryFields
    <3> QED  BY <2>4, <2>5, <3>2 DEF stage
  <2>6. CASE lz.report.type # "script"
    <3>1. Handled(stage, lz.report, lz.logged) /\ lz'.gotEnd = lz.gotEnd /\ TagsStay
      BY <1>0, <2>1, <2>2, <2>4, <2>6 DEF Handled, TagsStay, Knows
    <3> QED  BY <2>4, <2>6, <3>1 DEF stage
  <2> QED  BY <2>5, <2>6
<1> QED
  BY <1>3, <1>4, <1>5, <1>6, <1>7, <1>8, <1>9

\* The thread of libzypp outside of the messages.
FillsTo(stage, next, todo, abort) ==
    /\ DOMAIN lz' = LibraryFields /\ UNCHANGED <<zr, pipes>>
    /\ lz'.kind = lz.kind /\ lz'.phase = lz.phase /\ lz'.report = lz.report
    /\ lz'.gotEnd = lz.gotEnd /\ lz'.seen = lz.seen /\ lz'.early = lz.early
    /\ lz'.inbox = lz.inbox /\ lz'.logged = lz.logged
    /\ lz'.stage = stage /\ lz'.next = next /\ lz'.todo = todo /\ lz'.abort = abort

FillStep == FillIgnored \/ FillAdd \/ FillSkip \/ FillAbort \/ FillOther

LEMMA FillEffects ==
    ASSUME TypeInv, FillStep
    PROVE  /\ Filling
           /\ \/ \E stage \in {"done", "error"} :
                    FillsTo([lz.stage EXCEPT ![lz.next] = stage], lz.next + 1, lz.todo, lz.abort)
              \/ /\ FillKind \in {"install", "remove", "source"}
                 /\ FillsTo(lz.stage, lz.next + 1, Append(lz.todo, lz.next), lz.abort)
              \/ FillsTo([lz.stage EXCEPT ![lz.next] = "error"], lz.next, lz.todo, TRUE)
              \/ FillsTo(lz.stage, lz.next + 1, lz.todo, lz.abort)
<1>0. DOMAIN lz = LibraryFields
  BY DEF TypeInv, LibraryType, LibraryFields
<1>1. CASE FillIgnored
  BY <1>0, <1>1 DEF FillIgnored, FillsTo, LibraryFields
<1>2. CASE FillAdd
  BY <1>0, <1>2 DEF FillAdd, FillsTo, LibraryFields
<1>3. CASE FillSkip
  BY <1>0, <1>3 DEF FillSkip, FillsTo, LibraryFields
<1>4. CASE FillAbort
  BY <1>0, <1>4 DEF FillAbort, FillsTo, LibraryFields
<1>5. CASE FillOther
  BY <1>0, <1>5 DEF FillOther, FillsTo, LibraryFields
<1> QED
  BY <1>1, <1>2, <1>3, <1>4, <1>5 DEF FillStep

\* Only the phase changes, and the stages of steps rpm has nothing to do with.
Moves(phase, stage) ==
    /\ DOMAIN lz' = LibraryFields /\ UNCHANGED pipes
    /\ lz'.kind = lz.kind /\ lz'.next = lz.next /\ lz'.todo = lz.todo /\ lz'.abort = lz.abort
    /\ lz'.report = lz.report /\ lz'.gotEnd = lz.gotEnd /\ lz'.seen = lz.seen
    /\ lz'.early = lz.early /\ lz'.inbox = lz.inbox /\ lz'.logged = lz.logged
    /\ lz'.phase = phase /\ lz'.stage = stage

ProductsDone ==
    [s \in Steps |-> IF ~lz.abort /\ lz.kind[s] = "product" /\ lz.stage[s] = "todo"
                     THEN "done" ELSE lz.stage[s]]

LEMMA MoveEffects ==
    ASSUME TypeInv
    PROVE  /\ StartRpm => /\ Filled /\ lz.todo # <<>>
                          /\ \/ Moves("loop", lz.stage) /\ zr' = [zr EXCEPT !.state = "reads"]
                             \/ Moves("failed", lz.stage) /\ UNCHANGED zr
           /\ NothingToDo => Filled /\ lz.todo = <<>> /\ Moves("scripts", lz.stage) /\ UNCHANGED zr
           /\ SigFinished => /\ lz.phase = "loop" /\ lz.inbox = <<>> /\ zr.state = "gone"
                             /\ Moves("drain", lz.stage) /\ UNCHANGED zr
           /\ CheckExitCode => /\ lz.phase = "check" /\ UNCHANGED zr
                               /\ IF Throws(zr.code) THEN Moves("failed", lz.stage)
                                  ELSE Moves("scripts", ProductsDone)
           /\ RunUpdateScripts => /\ lz.phase = "scripts" /\ UNCHANGED zr
                                  /\ \/ Moves("aborted", lz.stage)
                                     \/ Moves("returned", lz.stage)
<1>0. DOMAIN lz = LibraryFields
  BY DEF TypeInv, LibraryType, LibraryFields
<1>1. ASSUME NEW phase, lz' = [lz EXCEPT !.phase = phase], UNCHANGED pipes
      PROVE  Moves(phase, lz.stage)
  BY <1>0, <1>1 DEF Moves, LibraryFields
<1>2. ASSUME StartRpm
      PROVE  /\ Filled /\ lz.todo # <<>>
             /\ \/ Moves("loop", lz.stage) /\ zr' = [zr EXCEPT !.state = "reads"]
                \/ Moves("failed", lz.stage) /\ UNCHANGED zr
  BY <1>1, <1>2 DEF StartRpm
<1>3. NothingToDo => Filled /\ lz.todo = <<>> /\ Moves("scripts", lz.stage) /\ UNCHANGED zr
  BY <1>1 DEF NothingToDo
<1>4. SigFinished => /\ lz.phase = "loop" /\ lz.inbox = <<>> /\ zr.state = "gone"
                     /\ Moves("drain", lz.stage) /\ UNCHANGED zr
  BY <1>1 DEF SigFinished
<1>5. ASSUME CheckExitCode
      PROVE  /\ lz.phase = "check" /\ UNCHANGED zr
             /\ IF Throws(zr.code) THEN Moves("failed", lz.stage)
                ELSE Moves("scripts", ProductsDone)
  <2>1. CASE Throws(zr.code)
    BY <1>1, <1>5, <2>1 DEF CheckExitCode
  <2>2. CASE ~Throws(zr.code)
    <3>1. lz' = [lz EXCEPT !.phase = "scripts", !.stage = ProductsDone]
      BY <1>5, <2>2 DEF CheckExitCode, ProductsDone
    <3> QED  BY <1>0, <1>5, <2>2, <3>1 DEF CheckExitCode, Moves, LibraryFields
  <2> QED  BY <2>1, <2>2
<1>6. ASSUME RunUpdateScripts
      PROVE  /\ lz.phase = "scripts" /\ UNCHANGED zr
             /\ Moves("aborted", lz.stage) \/ Moves("returned", lz.stage)
  <2>1. lz' = [lz EXCEPT !.phase = "aborted"] \/ lz' = [lz EXCEPT !.phase = "returned"]
    BY <1>6 DEF RunUpdateScripts
  <2> QED  BY <1>1, <1>6, <2>1 DEF RunUpdateScripts
<1> QED
  BY <1>2, <1>3, <1>4, <1>5, <1>6

\* Reading from the pipes.
ReadsOnly ==
    /\ DOMAIN lz' = LibraryFields /\ DOMAIN pipes' = PipeFields /\ UNCHANGED zr
    /\ lz'.kind = lz.kind /\ lz'.next = lz.next /\ lz'.todo = lz.todo
    /\ lz'.abort = lz.abort /\ lz'.stage = lz.stage /\ pipes'.held = pipes.held

LEMMA ReadEffects ==
    ASSUME TypeInv
    PROVE  /\ ReadMessages =>
                 /\ Looping /\ lz.inbox = <<>> /\ ReadsOnly
                 /\ lz'.phase = lz.phase /\ lz'.report = lz.report /\ lz'.logged = lz.logged
                 /\ lz'.inbox = pipes.msgs /\ pipes'.msgs = <<>>
                 /\ lz'.gotEnd = lz.gotEnd /\ TagsStay
           /\ ReadScriptOutput =>
                 /\ lz.phase = "loop" /\ ReadsOnly
                 /\ lz'.phase = lz.phase /\ lz'.report = lz.report /\ lz'.logged = lz.logged
                 /\ lz'.inbox = lz.inbox /\ pipes'.msgs = pipes.msgs
                 /\ lz'.gotEnd = TRUE /\ TagIsRead
           /\ LastReport =>
                 /\ lz.phase = "drain" /\ lz.inbox = <<>> /\ pipes.msgs = <<>> /\ ReadsOnly
                 /\ lz'.phase = "check" /\ lz'.report = NoBlock
                 /\ lz'.logged = Logged(lz.logged, lz.report, lz.stage)
                 /\ lz'.inbox = lz.inbox /\ pipes'.msgs = pipes.msgs
                 /\ GotEndOfEnd /\ TagsOfEnd
<1>0. DOMAIN lz = LibraryFields /\ DOMAIN pipes = PipeFields
  BY DEF TypeInv, LibraryType, PipeType, LibraryFields, PipeFields
<1>1. ASSUME ReadMessages
      PROVE  /\ Looping /\ lz.inbox = <<>> /\ ReadsOnly
             /\ lz'.phase = lz.phase /\ lz'.report = lz.report /\ lz'.logged = lz.logged
             /\ lz'.inbox = pipes.msgs /\ pipes'.msgs = <<>>
             /\ lz'.gotEnd = lz.gotEnd /\ TagsStay
  BY <1>0, <1>1 DEF ReadMessages, ReadsOnly, TagsStay, LibraryFields, PipeFields
<1>2. ASSUME ReadScriptOutput
      PROVE  /\ lz.phase = "loop" /\ ReadsOnly
             /\ lz'.phase = lz.phase /\ lz'.report = lz.report /\ lz'.logged = lz.logged
             /\ lz'.inbox = lz.inbox /\ pipes'.msgs = pipes.msgs
             /\ lz'.gotEnd = TRUE /\ TagIsRead
  BY <1>0, <1>2 DEF ReadScriptOutput, ReadTag, ReadsOnly, TagIsRead, LibraryFields, PipeFields
<1>3. ASSUME LastReport
      PROVE  /\ lz.phase = "drain" /\ lz.inbox = <<>> /\ pipes.msgs = <<>> /\ ReadsOnly
             /\ lz'.phase = "check" /\ lz'.report = NoBlock
             /\ lz'.logged = Logged(lz.logged, lz.report, lz.stage)
             /\ lz'.inbox = lz.inbox /\ pipes'.msgs = pipes.msgs
             /\ GotEndOfEnd /\ TagsOfEnd
  <2> DEFINE e == EndReport(lz, pipes)
  <2>1. EndOf(lz, pipes, e)
    BY <1>0, EndReportFields
  <2>2. /\ lz' = [e.lib EXCEPT !.phase = "check"] /\ pipes' = e.pip /\ UNCHANGED zr
        /\ lz.phase = "drain" /\ lz.inbox = <<>> /\ pipes.msgs = <<>>
    BY <1>3 DEF LastReport
  <2> HIDE DEF e
  <2> QED
    BY <1>0, <2>1, <2>2
       DEF EndOf, ReadsOnly, GotEndOfEnd, TagsOfEnd, TagsStay, TagIsRead, LibraryFields
<1> QED
  BY <1>1, <1>2, <1>3

(* What the actions of zypp-rpm do.                                           *)

RpmFields == {"state", "left", "source", "plan", "block", "at", "err", "cleans", "did", "code"}

\* zypp-rpm ends; what it had still to do is left as it is.
GoneWith(code) ==
    /\ zr.state \in {"reads", "runs"} /\ DOMAIN zr' = RpmFields /\ UNCHANGED lz
    /\ zr'.state = "gone" /\ zr'.code = code /\ zr'.block = NoBlock /\ zr'.at = "idle"
    /\ zr'.left = zr.left /\ zr'.source = zr.source /\ zr'.plan = zr.plan /\ zr'.did = zr.did
    /\ zr'.cleans = zr.cleans /\ zr'.err = zr.err

\* A message is sent, and perhaps somebody else holds the pipe now.
Sends(m) ==
    /\ CanPush /\ DOMAIN pipes' = PipeFields
    /\ pipes'.msgs = Append(pipes.msgs, m) /\ pipes'.tags = pipes.tags
    /\ pipes'.held \in BOOLEAN

\* zypp-rpm goes on.
GoesOn(left, source, plan, did) ==
    /\ DOMAIN zr' = RpmFields /\ UNCHANGED lz
    /\ zr'.state = "runs" /\ zr'.code = zr.code
    /\ zr'.left = left /\ zr'.source = source /\ zr'.plan = plan /\ zr'.did = did
    /\ zr'.cleans \in BOOLEAN /\ zr'.err \in BOOLEAN

SameBlock == zr'.block = zr.block /\ zr'.at = zr.at

\* A plan of at most one package, at its end or followed by one script.
PlanFor(plan, s, some) ==
    /\ plan \in Seq(Block)
    /\ \A i \in DOMAIN plan : plan[i].step = s
    /\ ~some => \A i \in DOMAIN plan : ~Package(plan[i].type)
    /\ \A i \in DOMAIN plan : Package(plan[i].type) => Len(plan) <= i + 1
    /\ \A i, j \in DOMAIN plan : i < j => ~(Package(plan[i].type) /\ Package(plan[j].type))

Ready == zr.state = "runs" /\ zr.at = "idle" /\ zr.plan = <<>>

TypesFor(types, some) ==
    /\ types \in Seq(BlockType)
    /\ ~some => \A i \in DOMAIN types : ~Package(types[i])
    /\ \A i \in DOMAIN types : Package(types[i]) => Len(types) <= i + 1
    /\ \A i, j \in DOMAIN types : i < j => ~(Package(types[i]) /\ Package(types[j]))

LEMMA PlanShape ==
    ASSUME NEW s \in Nat, NEW types, NEW some, TypesFor(types, some)
    PROVE  PlanFor(PlanOf(types, s, 0), s, some)
<1> DEFINE plan == PlanOf(types, s, 0)
<1>0. TypesFor(types, some) /\ types \in Seq(BlockType)
  BY DEF TypesFor
<1>1. /\ plan = [i \in 1..Len(types) |-> [type |-> types[i], step |-> s, n |-> 0]]
      /\ DOMAIN types = 1..Len(types) /\ Len(types) \in Nat
  BY <1>0 DEF PlanOf
<1>2. \A i \in 1..Len(types) : [type |-> types[i], step |-> s, n |-> 0] \in Block
  BY <1>0, <1>1 DEF Block
<1>3. /\ plan \in Seq(Block) /\ DOMAIN plan = DOMAIN types /\ Len(plan) = Len(types)
      /\ \A i \in DOMAIN plan : plan[i].step = s /\ plan[i].type = types[i]
  BY <1>0, <1>1, <1>2
<1> HIDE DEF plan
<1>4. PlanFor(plan, s, some)
  BY <1>0, <1>3 DEF PlanFor, TypesFor
<1> QED  BY <1>4 DEF plan

LEMMA PlanShapes ==
    ASSUME NEW s \in Nat, NEW self \in {"install", "uninstall"}
    PROVE  /\ \A types \in {<<self>>, <<"script", self>>, <<self, "script">>,
                            <<"script", self, "script">>} :
                 PlanFor(PlanOf(types, s, 0), s, TRUE)
           /\ \A types \in {<<>>, <<"cleanup">>, <<"script", "cleanup">>} :
                 PlanFor(PlanOf(types, s, 0), s, FALSE)
           /\ PlanFor(PlanOf(<<"trans">>, s, 0), s, FALSE)
<1>1. PlanFor(PlanOf(<<self>>, s, 0), s, TRUE)
  <2>1. TypesFor(<<self>>, TRUE)
    BY DEF TypesFor, BlockType, Package
  <2> QED  BY <2>1, PlanShape
<1>2. PlanFor(PlanOf(<<"script", self>>, s, 0), s, TRUE)
  <2>1. TypesFor(<<"script", self>>, TRUE)
    BY DEF TypesFor, BlockType, Package
  <2> QED  BY <2>1, PlanShape
<1>3. PlanFor(PlanOf(<<self, "script">>, s, 0), s, TRUE)
  <2>1. TypesFor(<<self, "script">>, TRUE)
    BY DEF TypesFor, BlockType, Package
  <2> QED  BY <2>1, PlanShape
<1>4. PlanFor(PlanOf(<<"script", self, "script">>, s, 0), s, TRUE)
  <2>1. TypesFor(<<"script", self, "script">>, TRUE)
    BY DEF TypesFor, BlockType, Package
  <2> QED  BY <2>1, PlanShape
<1>5. PlanFor(PlanOf(<<>>, s, 0), s, FALSE)
  <2>1. TypesFor(<<>>, FALSE)
    BY DEF TypesFor, BlockType, Package
  <2> QED  BY <2>1, PlanShape
<1>6. PlanFor(PlanOf(<<"cleanup">>, s, 0), s, FALSE)
  <2>1. TypesFor(<<"cleanup">>, FALSE)
    BY DEF TypesFor, BlockType, Package
  <2> QED  BY <2>1, PlanShape
<1>7. PlanFor(PlanOf(<<"script", "cleanup">>, s, 0), s, FALSE)
  <2>1. TypesFor(<<"script", "cleanup">>, FALSE)
    BY DEF TypesFor, BlockType, Package
  <2> QED  BY <2>1, PlanShape
<1>8. PlanFor(PlanOf(<<"trans">>, s, 0), s, FALSE)
  <2>1. TypesFor(<<"trans">>, FALSE)
    BY DEF TypesFor, BlockType, Package
  <2> QED  BY <2>1, PlanShape
<1> QED
  BY <1>1, <1>2, <1>3, <1>4, <1>5, <1>6, <1>7, <1>8

\* The steps of a sequence, each one once.
Once(work, S) ==
    /\ work \in Seq(S)
    /\ \A i, j \in DOMAIN work : i # j => work[i] # work[j]

Packages == {s \in Todo : lz.kind[s] # "source"}
Sources  == {s \in Todo : lz.kind[s] = "source"}

LEMMA StepsAreNumbers ==
    ASSUME TypeInv
    PROVE  /\ Steps = 1..Len(lz.kind) /\ Len(lz.kind) \in Nat
           /\ Steps \subseteq Nat \ {0}
           /\ Todo \subseteq Steps /\ IsFiniteSet(Todo)
           /\ lz.kind \in Seq(StepKind)
           /\ \A i \in DOMAIN lz.todo : lz.todo[i] \in Todo
<1>1. lz.kind \in Seq(StepKind) /\ lz.todo \in Seq(Steps)
  BY CommitAssumption DEF TypeInv, LibraryType
<1>2. Steps = 1..Len(lz.kind) /\ Len(lz.kind) \in Nat
  BY <1>1 DEF Steps
<1>3. Todo \subseteq Steps
  BY <1>1 DEF Todo, ToSet
<1>4. IsFiniteSet(Todo)
  <2>1. IsFiniteSet(1..Len(lz.kind))
    BY <1>2, FS_Interval
  <2> QED  BY <1>2, <1>3, <2>1, FS_Subset
<1> QED
  BY <1>1, <1>2, <1>3, <1>4 DEF Todo, ToSet

LEMMA OrdersOfSet ==
    ASSUME NEW S, NEW T \in SUBSET S, IsFiniteSet(S), NEW order \in SetToSeqs(T)
    PROVE  Once(order, T)
<1>1. Cardinality(T) \in Nat
  BY FS_Subset, FS_CardinalityType
<1>2. /\ order \in [1..Cardinality(T) -> T]
      /\ \A i, j \in 1..Cardinality(T) : i # j => order[i] # order[j]
  BY DEF SetToSeqs
<1> QED
  BY <1>1, <1>2 DEF Once

LEMMA RpmEndsEffects ==
    ASSUME TypeInv
    PROVE  /\ Refuse => zr.state = "reads" /\ UNCHANGED pipes /\ \E code \in Refusals : GoneWith(code)
           /\ Problems => /\ zr.at = "idle" /\ zr.plan = <<>> /\ Untouched
                          /\ Sends(TransactionError) /\ pipes'.held = pipes.held
                          /\ GoneWith("RpmFinishedWithTransactionError")
           /\ EndRun => /\ Ready /\ zr.left = <<>> /\ zr.source = <<>> /\ UNCHANGED pipes
                        /\ \E code \in {"RpmFinishedWithError", "NoError"} : GoneWith(code)
           /\ Killed => UNCHANGED pipes /\ GoneWith("Signal")
<1>0. DOMAIN zr = RpmFields /\ DOMAIN pipes = PipeFields
  BY DEF TypeInv, RpmType, PipeType, RpmFields, PipeFields
<1>1. ASSUME NEW code, zr' = Gone(code), zr.state \in {"reads", "runs"}, UNCHANGED lz
      PROVE  GoneWith(code)
  BY <1>0, <1>1 DEF Gone, GoneWith, RpmFields
<1>2. Refuse => zr.state = "reads" /\ UNCHANGED pipes /\ \E code \in Refusals : GoneWith(code)
  BY <1>1 DEF Refuse
<1>3. ASSUME Problems
      PROVE  /\ zr.at = "idle" /\ zr.plan = <<>> /\ Untouched
             /\ Sends(TransactionError) /\ pipes'.held = pipes.held
             /\ GoneWith("RpmFinishedWithTransactionError")
  <2>1. pipes' = [pipes EXCEPT !.msgs = Append(@, TransactionError)] /\ CanPush
    BY <1>3 DEF Problems, Push
  <2>2. Sends(TransactionError) /\ pipes'.held = pipes.held
    BY <1>0, <2>1 DEF Sends, PipeFields, TypeInv, PipeType
  <2> QED  BY <1>1, <1>3, <2>2 DEF Problems, Untouched
<1>4. EndRun => /\ Ready /\ zr.left = <<>> /\ zr.source = <<>> /\ UNCHANGED pipes
                /\ \E code \in {"RpmFinishedWithError", "NoError"} : GoneWith(code)
  BY <1>1 DEF EndRun, Ready
<1>5. Killed => UNCHANGED pipes /\ GoneWith("Signal")
  BY <1>1 DEF Killed
<1> QED
  BY <1>2, <1>3, <1>4, <1>5

LEMMA RpmPlanEffects ==
    ASSUME TypeInv
    PROVE  /\ Prepare =>
                 /\ zr.state = "reads" /\ UNCHANGED pipes /\ SameBlock
                 /\ \E left, source, plan :
                       /\ GoesOn(left, source, plan, zr.did)
                       /\ Once(left, Packages) /\ Once(source, Sources) /\ PlanFor(plan, 0, FALSE)
           /\ TakeElement =>
                 /\ Ready /\ zr.left # <<>> /\ UNCHANGED pipes /\ SameBlock
                 /\ \E plan : /\ GoesOn(Tail(zr.left), zr.source, plan, zr.did)
                              /\ PlanFor(plan, Head(zr.left), TRUE)
           /\ TakeCleanup =>
                 /\ Ready /\ zr.left = <<>> /\ UNCHANGED pipes /\ SameBlock
                 /\ \E plan : GoesOn(zr.left, zr.source, plan, zr.did) /\ PlanFor(plan, 0, FALSE)
           /\ TakeSource =>
                 /\ Ready /\ zr.left = <<>> /\ zr.source # <<>> /\ UNCHANGED pipes /\ SameBlock
                 /\ \E plan : /\ GoesOn(zr.left, Tail(zr.source), plan, zr.did)
                              /\ PlanFor(plan, Head(zr.source), TRUE)
<1>0. /\ DOMAIN zr = RpmFields /\ zr.cleans \in BOOLEAN /\ zr.err \in BOOLEAN
      /\ zr.left \in Seq(Steps) /\ zr.source \in Seq(Steps) /\ Steps \subseteq Nat
  BY StepsAreNumbers DEF TypeInv, RpmType, RpmFields
<1>1. ASSUME Prepare
      PROVE  /\ zr.state = "reads" /\ UNCHANGED pipes /\ SameBlock
             /\ \E left, source, plan :
                   /\ GoesOn(left, source, plan, zr.did)
                   /\ Once(left, Packages) /\ Once(source, Sources) /\ PlanFor(plan, 0, FALSE)
  <2> DEFINE plan == PlanOf(<<"trans">>, 0, 0)
             taken(missing) == Todo \ (Sources \cup missing)
  <2>0. PICK missing \in SUBSET {s \in Todo : lz.kind[s] = "remove"} :
             \E left \in SetToSeqs(taken(missing)), source \in SourceOrder(Sources) :
                 zr' = [zr EXCEPT !.state = "runs", !.left = left, !.source = source, !.plan = plan]
    BY <1>1 DEF Prepare, RpmOrder, Sources, Todo
  <2>1. PICK left \in SetToSeqs(taken(missing)), source \in SetToSeqs(Sources) :
             zr' = [zr EXCEPT !.state = "runs", !.left = left, !.source = source, !.plan = plan]
    BY <2>0 DEF SourceOrder
  <2>2. PlanFor(plan, 0, FALSE)
    BY PlanShapes
  <2>3. /\ taken(missing) \in SUBSET Todo /\ Sources \in SUBSET Todo /\ IsFiniteSet(Todo)
        /\ taken(missing) \subseteq Packages
    BY StepsAreNumbers DEF Sources, Packages
  <2> HIDE DEF plan, taken
  <2>4. Once(left, taken(missing)) /\ Once(source, Sources)
    BY <2>1, <2>3, OrdersOfSet
  <2>6. Once(left, Packages)
    BY <2>3, <2>4 DEF Once
  <2>5. GoesOn(left, source, plan, zr.did) /\ SameBlock
    BY <1>0, <1>1, <2>1 DEF GoesOn, SameBlock, RpmFields, Prepare
  <2> QED  BY <1>1, <2>2, <2>4, <2>5, <2>6 DEF Prepare
<1>2. ASSUME TakeElement
      PROVE  /\ Ready /\ zr.left # <<>> /\ UNCHANGED pipes /\ SameBlock
             /\ \E plan : /\ GoesOn(Tail(zr.left), zr.source, plan, zr.did)
                          /\ PlanFor(plan, Head(zr.left), TRUE)
  <2> DEFINE s == Head(zr.left)
             self == IF lz.kind[s] = "remove" THEN "uninstall" ELSE "install"
  <2>1. PICK types \in {<<self>>, <<"script", self>>, <<self, "script">>, <<"script", self, "script">>} :
             zr' = [zr EXCEPT !.plan = PlanOf(types, s, 0), !.left = Tail(@),
                              !.cleans = @ \/ self = "install"]
    BY <1>2 DEF TakeElement
  <2>2. s \in Nat /\ self \in {"install", "uninstall"} /\ zr.left # <<>>
    BY <1>0, <1>2 DEF TakeElement
  <2> HIDE DEF self, s
  <2>3. PlanFor(PlanOf(types, s, 0), s, TRUE)
    BY <2>1, <2>2, PlanShapes
  <2> DEFINE plan == PlanOf(types, s, 0)
  <2>4. zr' = [zr EXCEPT !.plan = plan, !.left = Tail(@), !.cleans = @ \/ self = "install"]
    BY <2>1
  <2> HIDE DEF plan
  <2>5. GoesOn(Tail(zr.left), zr.source, plan, zr.did) /\ SameBlock
    BY <1>0, <1>2, <2>4 DEF GoesOn, SameBlock, RpmFields, TakeElement
  <2> QED  BY <1>2, <2>3, <2>5 DEF plan, s, TakeElement, Ready
<1>3. ASSUME TakeCleanup
      PROVE  /\ Ready /\ zr.left = <<>> /\ UNCHANGED pipes /\ SameBlock
             /\ \E plan : GoesOn(zr.left, zr.source, plan, zr.did) /\ PlanFor(plan, 0, FALSE)
  <2>1. PICK types \in {<<>>, <<"cleanup">>, <<"script", "cleanup">>} :
             zr' = [zr EXCEPT !.plan = PlanOf(types, 0, 0), !.cleans = FALSE]
    BY <1>3 DEF TakeCleanup
  <2> DEFINE plan == PlanOf(types, 0, 0)
  <2>2. PlanFor(plan, 0, FALSE)
    BY PlanShapes
  <2> HIDE DEF plan
  <2>3. zr' = [zr EXCEPT !.plan = plan, !.cleans = FALSE]
    BY <2>1 DEF plan
  <2>4. GoesOn(zr.left, zr.source, plan, zr.did) /\ SameBlock
    BY <1>0, <1>3, <2>3 DEF GoesOn, SameBlock, RpmFields, TakeCleanup
  <2> QED  BY <1>3, <2>2, <2>4 DEF TakeCleanup, Ready
<1>4. ASSUME TakeSource
      PROVE  /\ Ready /\ zr.left = <<>> /\ zr.source # <<>> /\ UNCHANGED pipes /\ SameBlock
             /\ \E plan : /\ GoesOn(zr.left, Tail(zr.source), plan, zr.did)
                          /\ PlanFor(plan, Head(zr.source), TRUE)
  <2> DEFINE plan == PlanOf(<<"install">>, Head(zr.source), 0)
  <2>1. zr' = [zr EXCEPT !.plan = plan, !.source = Tail(@)]
    BY <1>4 DEF TakeSource
  <2>2. Head(zr.source) \in Nat
    BY <1>0, <1>4 DEF TakeSource
  <2>3. PlanFor(plan, Head(zr.source), TRUE)
    BY <2>2, PlanShapes
  <2> HIDE DEF plan
  <2>4. GoesOn(zr.left, Tail(zr.source), plan, zr.did) /\ SameBlock
    BY <1>0, <1>4, <2>1 DEF GoesOn, SameBlock, RpmFields, TakeSource
  <2> QED  BY <1>4, <2>3, <2>4 DEF TakeSource, Ready
<1> QED
  BY <1>1, <1>2, <1>3, <1>4

\* What the failure of step s leaves of the work.
Failed(did, s) == IF s # 0 THEN [did EXCEPT ![s] = "failed"] ELSE did
SourceAfter(s) == IF s # 0 /\ lz.kind[s] = "source" THEN zr.source ELSE <<>>

LEMMA BlockEffects ==
    ASSUME TypeInv
    PROVE  /\ BlockBegin =>
                 /\ zr.state = "runs" /\ zr.at = "idle" /\ zr.plan # <<>>
                 /\ GoesOn(zr.left, zr.source, Tail(zr.plan), zr.did)
                 /\ zr'.block = [Head(zr.plan) EXCEPT !.n = zr.block.n + 1] /\ zr'.at = "begun"
                 /\ Sends([say |-> "Begin", block |-> zr'.block, fatal |-> FALSE])
           /\ BlockTag =>
                 /\ zr.at = "begun" /\ UNCHANGED lz /\ DOMAIN zr' = RpmFields
                 /\ zr'.state = zr.state /\ zr'.code = zr.code /\ zr'.left = zr.left
                 /\ zr'.source = zr.source /\ zr'.plan = zr.plan /\ zr'.did = zr.did
                 /\ zr'.block = zr.block /\ zr'.at = "tagged"
                 /\ zr'.cleans = zr.cleans /\ zr'.err = zr.err
                 /\ DOMAIN pipes' = PipeFields /\ pipes'.msgs = pipes.msgs
                 /\ pipes'.tags = Append(pipes.tags, zr.block.n) /\ pipes'.held = pipes.held
           /\ (BlockStop /\ zr.state = "runs") =>
                 /\ zr.at = "tagged" /\ zr'.at = "idle" /\ zr'.block = zr.block
                 /\ Sends(Says("Finished", FALSE))
                 /\ GoesOn(zr.left, zr.source, zr.plan,
                           IF Package(zr.block.type)
                           THEN [zr.did EXCEPT ![zr.block.step] = "done"] ELSE zr.did)
           /\ (BlockFails /\ zr.state = "runs") =>
                 /\ zr.at = "tagged" /\ zr'.at = "error" /\ zr'.block = zr.block
                 /\ Package(zr.block.type) \/ zr.block.type = "script"
                 /\ Sends(Says("Finished", FALSE))
                 /\ IF Package(zr.block.type)
                    THEN GoesOn(zr.left, SourceAfter(zr.block.step), <<>>,
                                Failed(zr.did, zr.block.step))
                    ELSE GoesOn(zr.left, zr.source, zr.plan, zr.did)
           /\ (BlockError /\ zr.state = "runs") =>
                 /\ zr.at = "error" /\ zr'.at = "idle" /\ zr'.block = zr.block
                 /\ \/ /\ Sends(Says("Error", FALSE))
                       /\ GoesOn(zr.left, zr.source, zr.plan, zr.did)
                    \/ /\ zr.block.type = "script" /\ zr.plan # <<>>
                       /\ Sends(Says("Error", TRUE))
                       /\ GoesOn(zr.left, SourceAfter(zr.block.step), <<>>,
                                 Failed(zr.did, zr.block.step))
<1>0. /\ DOMAIN zr = RpmFields /\ DOMAIN pipes = PipeFields
      /\ zr.cleans \in BOOLEAN /\ zr.err \in BOOLEAN /\ pipes.held \in BOOLEAN
  BY DEF TypeInv, RpmType, PipeType, RpmFields, PipeFields
<1>1. ASSUME NEW m, pipes' = Push(m), CanPush
      PROVE  Sends(m)
  BY <1>0, <1>1 DEF Push, Sends, PipeFields
<1>2. ASSUME BlockBegin
      PROVE  /\ zr.state = "runs" /\ zr.at = "idle" /\ zr.plan # <<>>
             /\ GoesOn(zr.left, zr.source, Tail(zr.plan), zr.did)
             /\ zr'.block = [Head(zr.plan) EXCEPT !.n = zr.block.n + 1] /\ zr'.at = "begun"
             /\ Sends([say |-> "Begin", block |-> zr'.block, fatal |-> FALSE])
  <2> DEFINE b == [Head(zr.plan) EXCEPT !.n = zr.block.n + 1]
  <2>1. PICK held \in BOOLEAN :
             pipes' = [pipes EXCEPT !.held = held,
                   !.msgs = Append(@, [say |-> "Begin", block |-> b, fatal |-> FALSE])]
    BY <1>0, <1>2 DEF BlockBegin, NextN
  <2>2. /\ zr' = [zr EXCEPT !.block = b, !.plan = Tail(@), !.at = "begun"]
        /\ zr.state = "runs" /\ zr.at = "idle" /\ zr.plan # <<>> /\ CanPush /\ UNCHANGED lz
    BY <1>2 DEF BlockBegin, NextN
  <2> HIDE DEF b
  <2>3. /\ GoesOn(zr.left, zr.source, Tail(zr.plan), zr.did)
        /\ zr'.block = b /\ zr'.at = "begun"
    BY <1>0, <2>2 DEF GoesOn, RpmFields
  <2>4. Sends([say |-> "Begin", block |-> b, fatal |-> FALSE])
    BY <1>0, <2>1, <2>2 DEF Sends, PipeFields
  <2> QED  BY <2>2, <2>3, <2>4 DEF b
<1>3. ASSUME BlockTag
      PROVE  /\ zr.at = "begun" /\ UNCHANGED lz /\ DOMAIN zr' = RpmFields
             /\ zr'.state = zr.state /\ zr'.code = zr.code /\ zr'.left = zr.left
             /\ zr'.source = zr.source /\ zr'.plan = zr.plan /\ zr'.did = zr.did
             /\ zr'.block = zr.block /\ zr'.at = "tagged"
             /\ zr'.cleans = zr.cleans /\ zr'.err = zr.err
             /\ DOMAIN pipes' = PipeFields /\ pipes'.msgs = pipes.msgs
             /\ pipes'.tags = Append(pipes.tags, zr.block.n) /\ pipes'.held = pipes.held
  BY <1>0, <1>3 DEF BlockTag, RpmFields, PipeFields
<1>4. ASSUME BlockStop, zr.state = "runs"
      PROVE  /\ zr.at = "tagged" /\ zr'.at = "idle" /\ zr'.block = zr.block
             /\ Sends(Says("Finished", FALSE))
             /\ GoesOn(zr.left, zr.source, zr.plan,
                       IF Package(zr.block.type)
                       THEN [zr.did EXCEPT ![zr.block.step] = "done"] ELSE zr.did)
  <2> DEFINE did == IF Package(zr.block.type)
                    THEN [zr.did EXCEPT ![zr.block.step] = "done"] ELSE zr.did
  <2>1. zr' = [zr EXCEPT !.at = "idle", !.did = did] /\ Sends(Says("Finished", FALSE))
    BY <1>1, <1>4 DEF BlockStop
  <2> HIDE DEF did
  <2>2. zr'.at = "idle" /\ zr'.block = zr.block /\ GoesOn(zr.left, zr.source, zr.plan, did)
    BY <1>0, <1>4, <2>1 DEF GoesOn, RpmFields, BlockStop
  <2> QED  BY <1>4, <2>1, <2>2 DEF BlockStop, did
<1>5. ASSUME NEW s
      PROVE  Failing(s) = [zr EXCEPT !.err = TRUE, !.plan = <<>>, !.source = SourceAfter(s),
                                     !.did = Failed(zr.did, s)]
  BY DEF Failing, SourceAfter, Failed
<1>6. ASSUME BlockFails, zr.state = "runs"
      PROVE  /\ zr.at = "tagged" /\ zr'.at = "error" /\ zr'.block = zr.block
             /\ Package(zr.block.type) \/ zr.block.type = "script"
             /\ Sends(Says("Finished", FALSE))
             /\ IF Package(zr.block.type)
                THEN GoesOn(zr.left, SourceAfter(zr.block.step), <<>>,
                            Failed(zr.did, zr.block.step))
                ELSE GoesOn(zr.left, zr.source, zr.plan, zr.did)
  <2> DEFINE source == SourceAfter(zr.block.step)
             did == Failed(zr.did, zr.block.step)
  <2>1. CASE Package(zr.block.type)
    <3>1. zr' = [[zr EXCEPT !.err = TRUE, !.plan = <<>>, !.source = source, !.did = did]
                    EXCEPT !.at = "error"]
      BY <1>5, <1>6, <2>1 DEF BlockFails
    <3> HIDE DEF source, did
    <3>2. /\ zr'.at = "error" /\ zr'.block = zr.block /\ GoesOn(zr.left, source, <<>>, did)
      BY <1>0, <1>6, <3>1 DEF GoesOn, RpmFields, BlockFails
    <3> QED  BY <1>1, <1>6, <2>1, <3>2 DEF BlockFails, source, did
  <2>2. CASE ~Package(zr.block.type)
    <3>1. zr' = [zr EXCEPT !.at = "error"]
      BY <1>6, <2>2 DEF BlockFails
    <3>2. /\ zr'.at = "error" /\ zr'.block = zr.block
          /\ GoesOn(zr.left, zr.source, zr.plan, zr.did)
      BY <1>0, <1>6, <3>1 DEF GoesOn, RpmFields, BlockFails
    <3> QED  BY <1>1, <1>6, <2>2, <3>2 DEF BlockFails
  <2> QED  BY <2>1, <2>2
<1>7. ASSUME BlockError, zr.state = "runs"
      PROVE  /\ zr.at = "error" /\ zr'.at = "idle" /\ zr'.block = zr.block
             /\ \/ /\ Sends(Says("Error", FALSE))
                   /\ GoesOn(zr.left, zr.source, zr.plan, zr.did)
                \/ /\ zr.block.type = "script" /\ zr.plan # <<>>
                   /\ Sends(Says("Error", TRUE))
                   /\ GoesOn(zr.left, SourceAfter(zr.block.step), <<>>,
                             Failed(zr.did, zr.block.step))
  <2> DEFINE source == SourceAfter(zr.block.step)
             did == Failed(zr.did, zr.block.step)
  <2>1. PICK fatal \in {FALSE, zr.block.type = "script" /\ zr.plan # <<>>} :
             /\ pipes' = Push(Says("Error", fatal))
             /\ zr' = [IF fatal THEN Failing(zr.block.step) ELSE zr EXCEPT !.at = "idle"]
    BY <1>7 DEF BlockError
  <2>2. CASE ~fatal
    <3>1. zr' = [zr EXCEPT !.at = "idle"]
      BY <2>1, <2>2
    <3>2. /\ zr'.at = "idle" /\ zr'.block = zr.block
          /\ GoesOn(zr.left, zr.source, zr.plan, zr.did)
      BY <1>0, <1>7, <3>1 DEF GoesOn, RpmFields, BlockError
    <3>3. Sends(Says("Error", FALSE))
      <4>1. fatal = FALSE
        BY <2>1, <2>2
      <4> QED  BY <1>1, <1>7, <2>1, <4>1 DEF BlockError
    <3> QED  BY <1>7, <3>2, <3>3 DEF BlockError
  <2>3. CASE fatal
    <3>0. zr.block.type = "script" /\ zr.plan # <<>>
      BY <2>1, <2>3
    <3>1. zr' = [[zr EXCEPT !.err = TRUE, !.plan = <<>>, !.source = source, !.did = did]
                    EXCEPT !.at = "idle"]
      BY <1>5, <2>1, <2>3
    <3> HIDE DEF source, did
    <3>2. /\ zr'.at = "idle" /\ zr'.block = zr.block /\ GoesOn(zr.left, source, <<>>, did)
      BY <1>0, <1>7, <3>1 DEF GoesOn, RpmFields, BlockError
    <3>3. Sends(Says("Error", TRUE))
      <4>1. fatal = TRUE
        BY <2>1, <2>3
      <4> QED  BY <1>1, <1>7, <2>1, <4>1 DEF BlockError
    <3> QED  BY <1>7, <3>0, <3>2, <3>3 DEF BlockError, source, did
  <2> QED  BY <2>2, <2>3
<1> QED
  BY <1>2, <1>3, <1>4, <1>6, <1>7

(* The actions in groups.                                                     *)

MoveStep    == StartRpm \/ NothingToDo \/ SigFinished \/ CheckExitCode \/ RunUpdateScripts
HandlerStep == \/ OnBegin \/ OnPackageFinished \/ OnPackageError \/ OnFinished
               \/ OnScriptFinished \/ OnScriptError \/ OnTransactionError
ReadStep    == ReadMessages \/ ReadScriptOutput \/ LastReport
EndStep     == Refuse \/ Problems \/ EndRun \/ Killed
PlanStep    == Prepare \/ TakeElement \/ TakeCleanup \/ TakeSource
BlocksStep  == BlockBegin \/ BlockTag \/ BlockStop \/ BlockFails \/ BlockError

LEMMA StepGroups ==
    ASSUME CommitNext
    PROVE  FillStep \/ MoveStep \/ HandlerStep \/ ReadStep \/ EndStep \/ PlanStep \/ BlocksStep
BY DEF CommitNext, LibraryStep, RpmStep, FillStep, MoveStep, HandlerStep, ReadStep, EndStep,
       PlanStep, BlocksStep

-----------------------------------------------------------------------------
(* Types.                                                                     *)

\* The records of lz are typed as before but for the fields given.
LEMMA TypedLibrary ==
    ASSUME TypeInv, DOMAIN lz' = LibraryFields, lz'.kind = lz.kind,
           lz'.phase \in {"fill", "loop", "drain", "check", "scripts", "returned", "aborted", "failed"},
           lz'.next \in 1..Len(lz.kind) + 1,
           lz'.todo \in Seq(Steps),
           lz'.abort \in BOOLEAN, lz'.gotEnd \in BOOLEAN, lz'.early \in BOOLEAN,
           lz'.stage \in [Steps -> {"todo", "done", "error"}],
           lz'.report \in Block \cup {NoBlock},
           lz'.seen \in Nat,
           lz'.inbox \in Seq(Message),
           lz'.logged \in [Steps -> {"no", "ok", "failed"}]
    PROVE  LibraryType'
BY DEF TypeInv, LibraryType, LibraryFields, Steps

LEMMA TypedRpm ==
    ASSUME TypeInv, lz'.kind = lz.kind, DOMAIN zr' = RpmFields, lz'.phase # "fill",
           zr'.state \in {"none", "reads", "runs", "gone"}, zr'.at # "idle" => zr'.state = "runs",
           zr'.left \in Seq(Steps), zr'.source \in Seq(Steps),
           zr'.plan \in Seq(Block), zr'.block \in Block \cup {NoBlock},
           zr'.at \in {"idle", "begun", "tagged", "error"},
           zr'.cleans \in BOOLEAN, zr'.err \in BOOLEAN,
           zr'.did \in [Steps -> Deed], zr'.code \in ExitCode \cup {"none"}
    PROVE  RpmType'
BY DEF TypeInv, RpmType, RpmFields, Steps

LEMMA TypedPipes ==
    ASSUME DOMAIN pipes' = PipeFields, pipes'.msgs \in Seq(Message), Len(pipes'.msgs) <= PipeSize,
           pipes'.tags \in Seq(Nat), pipes'.held \in BOOLEAN
    PROVE  PipeType'
BY DEF PipeType, PipeFields

LEMMA SameTypes ==
    ASSUME TypeInv
    PROVE  /\ UNCHANGED lz => LibraryType'
           /\ lz'.kind = lz.kind /\ lz'.phase \in {lz.phase, "check"} /\ UNCHANGED zr => RpmType'
           /\ UNCHANGED pipes => PipeType'
BY DEF TypeInv, LibraryType, RpmType, PipeType, Steps

LEMMA TagsTyped ==
    ASSUME TypeInv, lz'.gotEnd \in BOOLEAN, TagsStay \/ TagIsRead \/ TagsOfEnd
    PROVE  lz'.seen \in Nat /\ lz'.early \in BOOLEAN /\ pipes'.tags \in Seq(Nat)
<1>1. TagsStay \/ TagIsRead
  BY DEF TagsOfEnd
<1>2. /\ lz.seen \in Nat /\ lz.early \in BOOLEAN /\ pipes.tags \in Seq(Nat)
      /\ (lz.report = NoBlock) \in BOOLEAN
  BY DEF TypeInv, LibraryType, PipeType
<1>3. CASE TagsStay
  BY <1>2, <1>3 DEF TagsStay
<1>4. CASE TagIsRead
  <2>1. lz'.seen \in Nat /\ pipes'.tags \in Seq(Nat)
    BY <1>2, <1>4 DEF TagIsRead
  <2> QED  BY <1>2, <1>4, <2>1 DEF TagIsRead
<1> QED
  BY <1>1, <1>3, <1>4

LEMMA LoggedTyped ==
    ASSUME NEW S, NEW logged \in [S -> {"no", "ok", "failed"}], NEW report, NEW stage
    PROVE  Logged(logged, report, stage) \in [S -> {"no", "ok", "failed"}]
BY DEF Logged

LEMMA HandledTypes ==
    ASSUME TypeInv, NEW report \in Block \cup {NoBlock},
           NEW stage \in [Steps -> {"todo", "done", "error"}],
           NEW logged \in [Steps -> {"no", "ok", "failed"}],
           Handled(stage, report, logged),
           lz'.gotEnd \in BOOLEAN, TagsStay \/ TagIsRead \/ TagsOfEnd
    PROVE  TypeInv'
<1>1. lz'.seen \in Nat /\ lz'.early \in BOOLEAN /\ pipes'.tags \in Seq(Nat)
  BY TagsTyped
<1>2. /\ DOMAIN lz' = LibraryFields /\ lz'.kind = lz.kind
      /\ lz'.phase \in {"fill", "loop", "drain", "check", "scripts", "returned", "aborted", "failed"}
      /\ lz'.next \in 1..Len(lz.kind) + 1 /\ lz'.todo \in Seq(Steps) /\ lz'.abort \in BOOLEAN
      /\ lz'.inbox \in Seq(Message)
      /\ lz'.stage \in [Steps -> {"todo", "done", "error"}] /\ lz'.report \in Block \cup {NoBlock}
      /\ lz'.logged \in [Steps -> {"no", "ok", "failed"}]
  BY DEF TypeInv, LibraryType, Handled
<1>3. LibraryType'
  BY <1>1, <1>2, TypedLibrary
<1>4. RpmType'
  BY SameTypes DEF Handled
<1>5. PipeType'
  <2>1. /\ DOMAIN pipes' = PipeFields /\ pipes'.msgs \in Seq(Message)
        /\ Len(pipes'.msgs) <= PipeSize /\ pipes'.held \in BOOLEAN
    BY DEF Handled, TypeInv, PipeType
  <2> QED  BY <1>1, <2>1, TypedPipes
<1> QED
  BY <1>3, <1>4, <1>5 DEF TypeInv

LEMMA HandlerTypes ==
    ASSUME TypeInv, HandlerStep
    PROVE  TypeInv'
<1>0. /\ lz.stage \in [Steps -> {"todo", "done", "error"}]
      /\ lz.logged \in [Steps -> {"no", "ok", "failed"}]
      /\ lz.report \in Block \cup {NoBlock} /\ NoBlock \in Block \cup {NoBlock}
      /\ lz.gotEnd \in BOOLEAN
      /\ lz.inbox # <<>> => This.block \in Block \cup {NoBlock}
  <2>1. lz.inbox # <<>> => This \in Message
    BY DEF TypeInv, LibraryType, This
  <2> QED  BY <2>1 DEF TypeInv, LibraryType, Message
<1>1. \A s : /\ [lz.stage EXCEPT ![s] = "done"] \in [Steps -> {"todo", "done", "error"}]
             /\ [lz.stage EXCEPT ![s] = "error"] \in [Steps -> {"todo", "done", "error"}]
  BY <1>0
<1>2. \A stage : Logged(lz.logged, lz.report, stage) \in [Steps -> {"no", "ok", "failed"}]
  BY <1>0, LoggedTyped
<1>3. GotEndOfEnd => lz'.gotEnd \in BOOLEAN
  BY <1>0 DEF GotEndOfEnd
<1>4. CASE OnBegin
  <2>1. /\ Handled(lz.stage, This.block, Logged(lz.logged, lz.report, lz.stage))
        /\ lz'.gotEnd = FALSE /\ TagsOfEnd
    BY <1>4, HandlerEffects
  <2>2. This.block \in Block \cup {NoBlock}
    BY <1>0, <2>1 DEF Handled
  <2> QED  BY <1>0, <1>2, <2>1, <2>2, HandledTypes
<1>5. CASE OnPackageFinished
  <2>1. /\ Handled([lz.stage EXCEPT ![This.block.step] = "done"], lz.report, lz.logged)
        /\ lz'.gotEnd = lz.gotEnd /\ TagsStay
    BY <1>5, HandlerEffects
  <2> QED  BY <1>0, <1>1, <2>1, HandledTypes
<1>6. CASE OnPackageError
  <2> DEFINE stage == [lz.stage EXCEPT ![This.block.step] = "error"]
  <2>1. /\ Handled(stage, NoBlock, Logged(lz.logged, lz.report, stage))
        /\ GotEndOfEnd /\ TagsOfEnd
    BY <1>6, HandlerEffects
  <2> QED  BY <1>0, <1>1, <1>2, <1>3, <2>1, HandledTypes
<1>7. CASE OnFinished
  <2>1. /\ Handled(lz.stage, NoBlock, Logged(lz.logged, lz.report, lz.stage))
        /\ GotEndOfEnd /\ TagsOfEnd
    BY <1>7, HandlerEffects
  <2> QED  BY <1>0, <1>2, <1>3, <2>1, HandledTypes
<1>8. CASE OnScriptFinished \/ OnTransactionError
  <2>1. Handled(lz.stage, lz.report, lz.logged) /\ lz'.gotEnd = lz.gotEnd /\ TagsStay
    BY <1>8, HandlerEffects
  <2> QED  BY <1>0, <2>1, HandledTypes
<1>9. CASE OnScriptError
  <2> DEFINE stage == IF This.block.step # 0 /\ This.fatal
                      THEN [lz.stage EXCEPT ![This.block.step] = "error"] ELSE lz.stage
             report == IF lz.report.type = "script" THEN NoBlock ELSE lz.report
  <2>1. /\ Handled(stage, report, lz.logged)
        /\ lz.report.type = "script" => GotEndOfEnd /\ TagsOfEnd
        /\ lz.report.type # "script" => lz'.gotEnd = lz.gotEnd /\ TagsStay
    BY <1>9, HandlerEffects
  <2>2. stage \in [Steps -> {"todo", "done", "error"}] /\ report \in Block \cup {NoBlock}
    BY <1>0, <1>1
  <2> HIDE DEF stage, report
  <2>3. lz'.gotEnd \in BOOLEAN /\ (TagsStay \/ TagsOfEnd)
    BY <1>0, <1>3, <2>1
  <2> QED  BY <1>0, <2>1, <2>2, <2>3, HandledTypes
<1> QED
  BY <1>4, <1>5, <1>6, <1>7, <1>8, <1>9 DEF HandlerStep

LEMMA LibraryStepTypes ==
    ASSUME TypeInv, FillStep \/ MoveStep \/ ReadStep
    PROVE  TypeInv'
<1>0. /\ lz.stage \in [Steps -> {"todo", "done", "error"}]
      /\ lz.logged \in [Steps -> {"no", "ok", "failed"}]
      /\ lz.report \in Block \cup {NoBlock} /\ lz.inbox \in Seq(Message)
      /\ lz.phase \in {"fill", "loop", "drain", "check", "scripts", "returned", "aborted", "failed"}
      /\ lz.next \in 1..Len(lz.kind) + 1 /\ lz.todo \in Seq(Steps) /\ lz.abort \in BOOLEAN
      /\ lz.gotEnd \in BOOLEAN /\ lz.early \in BOOLEAN /\ lz.seen \in Nat
      /\ pipes.msgs \in Seq(Message) /\ Len(pipes.msgs) <= PipeSize /\ pipes.held \in BOOLEAN
      /\ pipes.tags \in Seq(Nat)
  BY DEF TypeInv, LibraryType, PipeType
<1>00. Steps = 1..Len(lz.kind) /\ Len(lz.kind) \in Nat /\ PipeSize \in Nat
  BY StepsAreNumbers, CommitAssumption
<1>1. CASE FillStep
  <2>0. Filling
    BY <1>1, FillEffects
  <2>1. lz.next \in Steps /\ lz.next + 1 \in 1..Len(lz.kind) + 1
    BY <1>0, <1>00, <2>0 DEF Filling
  <2>2. PICK stage, next, todo, abort :
             /\ FillsTo(stage, next, todo, abort)
             /\ stage \in [Steps -> {"todo", "done", "error"}] /\ next \in 1..Len(lz.kind) + 1
             /\ todo \in Seq(Steps) /\ abort \in BOOLEAN
    <3>1. CASE \E stage \in {"done", "error"} :
                  FillsTo([lz.stage EXCEPT ![lz.next] = stage], lz.next + 1, lz.todo, lz.abort)
      <4>1. PICK stage \in {"done", "error"} :
                 FillsTo([lz.stage EXCEPT ![lz.next] = stage], lz.next + 1, lz.todo, lz.abort)
        BY <3>1
      <4>2. [lz.stage EXCEPT ![lz.next] = stage] \in [Steps -> {"todo", "done", "error"}]
        BY <1>0
      <4> QED  BY <1>0, <2>1, <4>1, <4>2
    <3>2. CASE FillsTo(lz.stage, lz.next + 1, Append(lz.todo, lz.next), lz.abort)
      <4>1. Append(lz.todo, lz.next) \in Seq(Steps)
        BY <1>0, <2>1
      <4> QED  BY <1>0, <2>1, <3>2, <4>1
    <3>3. CASE FillsTo([lz.stage EXCEPT ![lz.next] = "error"], lz.next, lz.todo, TRUE)
      <4>1. [lz.stage EXCEPT ![lz.next] = "error"] \in [Steps -> {"todo", "done", "error"}]
        BY <1>0
      <4> QED  BY <1>0, <3>3, <4>1
    <3>4. CASE FillsTo(lz.stage, lz.next + 1, lz.todo, lz.abort)
      BY <1>0, <2>1, <3>4
    <3> QED  BY <1>1, <3>1, <3>2, <3>3, <3>4, FillEffects
  <2>3. LibraryType'
    <3>1. /\ DOMAIN lz' = LibraryFields /\ lz'.kind = lz.kind /\ lz'.phase = lz.phase
          /\ lz'.report = lz.report /\ lz'.gotEnd = lz.gotEnd /\ lz'.seen = lz.seen
          /\ lz'.early = lz.early /\ lz'.inbox = lz.inbox /\ lz'.logged = lz.logged
          /\ lz'.stage = stage /\ lz'.next = next /\ lz'.todo = todo /\ lz'.abort = abort
      BY <2>2 DEF FillsTo
    <3> QED  BY <1>0, <2>2, <3>1, TypedLibrary
  <2> QED  BY <2>2, <2>3, SameTypes DEF FillsTo, TypeInv
<1>2. CASE MoveStep
  <2>1. PICK phase, stage :
             /\ Moves(phase, stage)
             /\ phase \in {"loop", "drain", "check", "scripts", "returned", "aborted", "failed"}
             /\ stage \in [Steps -> {"todo", "done", "error"}]
    <3>1. ProductsDone \in [Steps -> {"todo", "done", "error"}]
      BY <1>0 DEF ProductsDone
    <3>2. \/ Moves("loop", lz.stage) \/ Moves("failed", lz.stage) \/ Moves("scripts", lz.stage)
          \/ Moves("drain", lz.stage) \/ Moves("scripts", ProductsDone)
          \/ Moves("aborted", lz.stage) \/ Moves("returned", lz.stage)
      BY <1>2, MoveEffects DEF MoveStep
    <3> QED  BY <1>0, <3>1, <3>2
  <2>2. LibraryType'
    <3>1. /\ DOMAIN lz' = LibraryFields
          /\ lz'.kind = lz.kind /\ lz'.next = lz.next /\ lz'.todo = lz.todo /\ lz'.abort = lz.abort
          /\ lz'.report = lz.report /\ lz'.gotEnd = lz.gotEnd /\ lz'.seen = lz.seen
          /\ lz'.early = lz.early /\ lz'.inbox = lz.inbox /\ lz'.logged = lz.logged
          /\ lz'.phase = phase /\ lz'.stage = stage
      BY <2>1 DEF Moves
    <3> QED  BY <1>0, <2>1, <3>1, TypedLibrary
  <2>3. RpmType'
    <3>1. lz'.kind = lz.kind /\ lz'.phase # "fill"
      BY <2>1 DEF Moves
    <3>2. CASE UNCHANGED zr
      BY <3>1, <3>2 DEF TypeInv, RpmType, Steps
    <3>3. CASE zr' = [zr EXCEPT !.state = "reads"] /\ StartRpm
      <4>1. DOMAIN zr = RpmFields
        BY DEF TypeInv, RpmType, RpmFields
      <4>2. /\ DOMAIN zr' = RpmFields /\ zr'.state = "reads"
            /\ zr'.left = zr.left /\ zr'.source = zr.source /\ zr'.plan = zr.plan
            /\ zr'.block = zr.block /\ zr'.at = zr.at /\ zr'.err = zr.err
            /\ zr'.cleans = zr.cleans /\ zr'.did = zr.did /\ zr'.code = zr.code
        BY <3>3, <4>1 DEF RpmFields
      <4>3. zr.at = "idle"
        BY <3>3 DEF StartRpm, Filled, TypeInv, RpmType
      <4> QED  BY <3>1, <4>2, <4>3, TypedRpm DEF TypeInv, RpmType
    <3> QED  BY <1>2, <3>2, <3>3, MoveEffects DEF MoveStep
  <2> QED  BY <2>1, <2>2, <2>3, SameTypes DEF Moves, TypeInv
<1>3. CASE ReadStep
  <2>1. /\ ReadsOnly /\ lz'.phase \in {lz.phase, "check"} /\ lz'.report \in {lz.report, NoBlock}
        /\ lz'.logged \in {lz.logged, Logged(lz.logged, lz.report, lz.stage)}
        /\ \/ lz'.inbox = lz.inbox /\ pipes'.msgs = pipes.msgs
           \/ lz'.inbox = pipes.msgs /\ pipes'.msgs = <<>>
        /\ TagsStay \/ TagIsRead \/ TagsOfEnd
        /\ lz'.gotEnd \in BOOLEAN
    <3>1. GotEndOfEnd => lz'.gotEnd \in BOOLEAN
      BY <1>0 DEF GotEndOfEnd
    <3> QED  BY <1>0, <1>3, <3>1, ReadEffects DEF ReadStep
  <2>2. lz'.seen \in Nat /\ lz'.early \in BOOLEAN /\ pipes'.tags \in Seq(Nat)
    BY <2>1, TagsTyped
  <2>3. Logged(lz.logged, lz.report, lz.stage) \in [Steps -> {"no", "ok", "failed"}]
    BY <1>0, LoggedTyped
  <2>4. LibraryType'
    <3>1. /\ DOMAIN lz' = LibraryFields
          /\ lz'.kind = lz.kind /\ lz'.next = lz.next /\ lz'.todo = lz.todo
          /\ lz'.abort = lz.abort /\ lz'.stage = lz.stage
      BY <2>1 DEF ReadsOnly
    <3>2. /\ lz'.report \in Block \cup {NoBlock} /\ lz'.inbox \in Seq(Message)
          /\ lz'.phase \in {"fill", "loop", "drain", "check", "scripts", "returned", "aborted", "failed"}
          /\ lz'.logged \in [Steps -> {"no", "ok", "failed"}]
      BY <1>0, <2>1, <2>3
    <3> QED  BY <1>0, <2>1, <2>2, <3>1, <3>2, TypedLibrary
  <2>5. RpmType'
    BY <2>1, SameTypes DEF ReadsOnly
  <2>6. PipeType'
    <3>1. /\ DOMAIN pipes' = PipeFields /\ pipes'.held \in BOOLEAN
          /\ pipes'.msgs \in Seq(Message) /\ Len(pipes'.msgs) <= PipeSize
      <4>1. Len(<<>>) <= PipeSize /\ <<>> \in Seq(Message)
        BY <1>00
      <4> QED  BY <1>0, <2>1, <4>1 DEF ReadsOnly
    <3> QED  BY <2>2, <3>1, TypedPipes
  <2> QED  BY <2>4, <2>5, <2>6 DEF TypeInv
<1> QED
  BY <1>1, <1>2, <1>3

LEMMA GoesOnTypes ==
    ASSUME TypeInv, NEW left \in Seq(Steps), NEW source \in Seq(Steps), NEW plan \in Seq(Block),
           NEW did \in [Steps -> Deed], GoesOn(left, source, plan, did),
           zr'.block \in Block \cup {NoBlock}, zr'.at \in {"idle", "begun", "tagged", "error"},
           lz'.phase # "fill"
    PROVE  RpmType'
<1>1. /\ DOMAIN zr' = RpmFields /\ lz'.kind = lz.kind /\ zr'.state = "runs" /\ zr'.code = zr.code
      /\ zr'.left = left /\ zr'.source = source /\ zr'.plan = plan /\ zr'.did = did
      /\ zr'.cleans \in BOOLEAN /\ zr'.err \in BOOLEAN
  BY DEF GoesOn
<1>2. zr.code \in ExitCode \cup {"none"}
  BY DEF TypeInv, RpmType
<1> QED
  BY <1>1, <1>2, TypedRpm

LEMMA SendsTypes ==
    ASSUME TypeInv, NEW m \in Message, Sends(m)
    PROVE  PipeType'
<1>1. /\ pipes.msgs \in Seq(Message) /\ Len(pipes.msgs) < PipeSize /\ PipeSize \in Nat
      /\ pipes.tags \in Seq(Nat)
  BY CommitAssumption DEF Sends, CanPush, TypeInv, PipeType
<1>2. /\ DOMAIN pipes' = PipeFields /\ pipes'.held \in BOOLEAN /\ pipes'.tags = pipes.tags
      /\ pipes'.msgs = Append(pipes.msgs, m)
  BY DEF Sends
<1>3. pipes'.msgs \in Seq(Message) /\ Len(pipes'.msgs) <= PipeSize
  BY <1>1, <1>2
<1> QED
  BY <1>1, <1>2, <1>3, TypedPipes

LEMMA RpmStepTypes ==
    ASSUME TypeInv, EndStep \/ PlanStep \/ BlocksStep
    PROVE  TypeInv'
<1>0. /\ zr.left \in Seq(Steps) /\ zr.source \in Seq(Steps) /\ zr.plan \in Seq(Block)
      /\ zr.block \in Block \cup {NoBlock} /\ zr.at \in {"idle", "begun", "tagged", "error"}
      /\ zr.cleans \in BOOLEAN /\ zr.err \in BOOLEAN /\ zr.did \in [Steps -> Deed]
      /\ zr.code \in ExitCode \cup {"none"}
      /\ pipes.msgs \in Seq(Message) /\ Len(pipes.msgs) <= PipeSize /\ pipes.held \in BOOLEAN
      /\ pipes.tags \in Seq(Nat)
  BY DEF TypeInv, RpmType, PipeType
<1>00. zr.block.n \in Nat /\ NoBlock \in Block \cup {NoBlock}
  BY <1>0 DEF Block, NoBlock
<1>9. lz'.phase # "fill"
  <2>1. UNCHANGED lz /\ zr.state # "none"
    <3>1. zr.at # "idle" => zr.state = "runs"
      BY DEF TypeInv, RpmType
    <3> QED
      BY <3>1 DEF EndStep, PlanStep, BlocksStep, Refuse, Problems, EndRun, Killed, Prepare,
                  TakeElement, TakeCleanup, TakeSource, BlockBegin, BlockTag, BlockStop,
                  BlockFails, BlockError
  <2> QED  BY <2>1 DEF TypeInv, RpmType
<1>1. CASE EndStep
  <2>1. PICK code \in ExitCode : GoneWith(code)
    BY <1>1, RpmEndsEffects DEF EndStep, ExitCode, Refusals
  <2>2. UNCHANGED pipes \/ Sends(TransactionError)
    BY <1>1, RpmEndsEffects DEF EndStep
  <2>3. RpmType'
    <3>1. /\ DOMAIN zr' = RpmFields /\ lz'.kind = lz.kind
          /\ zr'.state = "gone" /\ zr'.code = code /\ zr'.block = NoBlock /\ zr'.at = "idle"
          /\ zr'.left = zr.left /\ zr'.source = zr.source /\ zr'.plan = zr.plan
          /\ zr'.did = zr.did /\ zr'.cleans = zr.cleans /\ zr'.err = zr.err
      BY <2>1 DEF GoneWith
    <3> QED  BY <1>0, <1>00, <1>9, <2>1, <3>1, TypedRpm
  <2>4. TransactionError \in Message
    BY DEF TransactionError, Message
  <2>5. PipeType'
    BY <2>2, <2>4, SameTypes, SendsTypes
  <2> QED  BY <2>1, <2>3, <2>5, SameTypes DEF GoneWith, TypeInv
<1>2. CASE PlanStep
  <2>1. PICK left \in Seq(Steps), source \in Seq(Steps), plan \in Seq(Block) :
             GoesOn(left, source, plan, zr.did)
    <3>1. CASE Prepare
      <4>1. PICK left, source, plan :
                 /\ GoesOn(left, source, plan, zr.did)
                 /\ Once(left, Packages) /\ Once(source, Sources) /\ PlanFor(plan, 0, FALSE)
        BY <3>1, RpmPlanEffects
      <4>2. Packages \subseteq Steps /\ Sources \subseteq Steps
        BY StepsAreNumbers DEF Packages, Sources
      <4>3. left \in Seq(Steps) /\ source \in Seq(Steps) /\ plan \in Seq(Block)
        BY <4>1, <4>2 DEF Once, PlanFor
      <4> QED  BY <4>1, <4>3
    <3>2. CASE TakeElement
      <4>1. PICK plan : /\ GoesOn(Tail(zr.left), zr.source, plan, zr.did)
                        /\ PlanFor(plan, Head(zr.left), TRUE)
        BY <3>2, RpmPlanEffects
      <4>2. Tail(zr.left) \in Seq(Steps) /\ plan \in Seq(Block)
        BY <1>0, <3>2, <4>1, RpmPlanEffects DEF PlanFor
      <4> QED  BY <1>0, <4>1, <4>2
    <3>3. CASE TakeCleanup
      <4>1. PICK plan : GoesOn(zr.left, zr.source, plan, zr.did) /\ PlanFor(plan, 0, FALSE)
        BY <3>3, RpmPlanEffects
      <4>2. plan \in Seq(Block)
        BY <4>1 DEF PlanFor
      <4> QED  BY <1>0, <4>1, <4>2
    <3>4. CASE TakeSource
      <4>1. PICK plan : /\ GoesOn(zr.left, Tail(zr.source), plan, zr.did)
                        /\ PlanFor(plan, Head(zr.source), TRUE)
        BY <3>4, RpmPlanEffects
      <4>2. Tail(zr.source) \in Seq(Steps) /\ plan \in Seq(Block)
        BY <1>0, <3>4, <4>1, RpmPlanEffects DEF PlanFor
      <4> QED  BY <1>0, <4>1, <4>2
    <3> QED  BY <1>2, <3>1, <3>2, <3>3, <3>4 DEF PlanStep
  <2>2. SameBlock /\ UNCHANGED pipes
    BY <1>2, RpmPlanEffects DEF PlanStep
  <2>3. RpmType'
    BY <1>0, <1>9, <2>1, <2>2, GoesOnTypes DEF SameBlock
  <2> QED  BY <2>1, <2>2, <2>3, SameTypes DEF GoesOn, TypeInv
<1>3. CASE BlocksStep
  <2>0. UNCHANGED lz
    BY <1>3 DEF BlocksStep, BlockBegin, BlockTag, BlockStop, BlockFails, BlockError
  <2>1. LibraryType'
    BY <2>0, SameTypes
  <2>2. zr.at # "idle" => zr.state = "runs"
    BY DEF TypeInv, RpmType
  <2>3. \A say \in {"Finished", "Error"}, fatal \in BOOLEAN : Says(say, fatal) \in Message
    BY <1>0 DEF Says, Message
  <2>4. \A s : /\ SourceAfter(s) \in Seq(Steps) /\ Failed(zr.did, s) \in [Steps -> Deed]
               /\ [zr.did EXCEPT ![s] = "done"] \in [Steps -> Deed]
    <3>1. \A s : SourceAfter(s) \in Seq(Steps)
      BY <1>0 DEF SourceAfter
    <3>2. "failed" \in Deed /\ "done" \in Deed
      BY DEF Deed
    <3>3. \A s : [zr.did EXCEPT ![s] = "failed"] \in [Steps -> Deed]
      BY <1>0, <3>2
    <3>4. \A s : [zr.did EXCEPT ![s] = "done"] \in [Steps -> Deed]
      BY <1>0, <3>2
    <3> QED  BY <1>0, <3>1, <3>3, <3>4 DEF Failed
  <2>5. CASE BlockBegin
    <3>1. /\ zr.plan # <<>> /\ GoesOn(zr.left, zr.source, Tail(zr.plan), zr.did)
          /\ zr'.block = [Head(zr.plan) EXCEPT !.n = zr.block.n + 1] /\ zr'.at = "begun"
          /\ Sends([say |-> "Begin", block |-> zr'.block, fatal |-> FALSE])
      BY <2>5, BlockEffects
    <3>2. zr'.block \in Block /\ Tail(zr.plan) \in Seq(Block)
      <4>1. Head(zr.plan) \in Block /\ Tail(zr.plan) \in Seq(Block)
        BY <1>0, <3>1
      <4>2. \A b \in Block : \A n \in Nat : [b EXCEPT !.n = n] \in Block
        BY DEF Block
      <4>3. zr.block.n + 1 \in Nat
        BY <1>00
      <4> QED  BY <3>1, <4>1, <4>2, <4>3
    <3>3. [say |-> "Begin", block |-> zr'.block, fatal |-> FALSE] \in Message
      BY <3>2 DEF Message
    <3>4. PipeType'
      BY <3>1, <3>3, SendsTypes
    <3>5. RpmType'
      BY <1>0, <1>9, <3>1, <3>2, GoesOnTypes
    <3> QED  BY <2>1, <3>4, <3>5 DEF TypeInv
  <2>6. CASE BlockTag
    <3>1. /\ zr.at = "begun" /\ DOMAIN zr' = RpmFields
          /\ zr'.state = zr.state /\ zr'.code = zr.code /\ zr'.left = zr.left
          /\ zr'.source = zr.source /\ zr'.plan = zr.plan /\ zr'.did = zr.did
          /\ zr'.block = zr.block /\ zr'.at = "tagged"
          /\ zr'.cleans = zr.cleans /\ zr'.err = zr.err
          /\ DOMAIN pipes' = PipeFields /\ pipes'.msgs = pipes.msgs
          /\ pipes'.tags = Append(pipes.tags, zr.block.n) /\ pipes'.held = pipes.held
      BY <2>6, BlockEffects
    <3>2. pipes'.tags \in Seq(Nat)
      BY <1>0, <1>00, <3>1
    <3>3. PipeType'
      BY <1>0, <3>1, <3>2, TypedPipes
    <3>4. RpmType'
      BY <1>0, <1>9, <2>0, <2>2, <3>1, TypedRpm
    <3> QED  BY <2>1, <3>3, <3>4 DEF TypeInv
  <2>7. CASE BlockStop
    <3>0. zr.state = "runs"
      BY <2>2, <2>7 DEF BlockStop
    <3>1. PICK did \in [Steps -> Deed] :
              /\ Sends(Says("Finished", FALSE)) /\ GoesOn(zr.left, zr.source, zr.plan, did)
              /\ zr'.block = zr.block /\ zr'.at = "idle"
      BY <1>0, <2>4, <2>7, <3>0, BlockEffects
    <3>2. PipeType'
      BY <2>3, <3>1, SendsTypes
    <3>3. RpmType'
      BY <1>0, <1>9, <3>1, GoesOnTypes
    <3> QED  BY <2>1, <3>2, <3>3 DEF TypeInv
  <2>8. CASE BlockFails
    <3>0. zr.state = "runs"
      BY <2>2, <2>8 DEF BlockFails
    <3>1. PICK source \in Seq(Steps), plan \in Seq(Block), did \in [Steps -> Deed] :
              /\ Sends(Says("Finished", FALSE)) /\ GoesOn(zr.left, source, plan, did)
              /\ zr'.block = zr.block /\ zr'.at = "error"
      <4>1. /\ Sends(Says("Finished", FALSE)) /\ zr'.block = zr.block /\ zr'.at = "error"
            /\ IF Package(zr.block.type)
               THEN GoesOn(zr.left, SourceAfter(zr.block.step), <<>>,
                           Failed(zr.did, zr.block.step))
               ELSE GoesOn(zr.left, zr.source, zr.plan, zr.did)
        BY <2>8, <3>0, BlockEffects
      <4>2. <<>> \in Seq(Block)
        OBVIOUS
      <4> QED  BY <1>0, <2>4, <4>1, <4>2
    <3>2. PipeType'
      BY <2>3, <3>1, SendsTypes
    <3>3. RpmType'
      BY <1>0, <1>9, <3>1, GoesOnTypes
    <3> QED  BY <2>1, <3>2, <3>3 DEF TypeInv
  <2>9. CASE BlockError
    <3>0. zr.state = "runs"
      BY <2>2, <2>9 DEF BlockError
    <3>1. PICK source \in Seq(Steps), plan \in Seq(Block), did \in [Steps -> Deed],
               fatal \in BOOLEAN :
              /\ Sends(Says("Error", fatal)) /\ GoesOn(zr.left, source, plan, did)
              /\ zr'.block = zr.block /\ zr'.at = "idle"
      <4>1. /\ zr'.block = zr.block /\ zr'.at = "idle"
            /\ \/ Sends(Says("Error", FALSE)) /\ GoesOn(zr.left, zr.source, zr.plan, zr.did)
               \/ /\ Sends(Says("Error", TRUE))
                  /\ GoesOn(zr.left, SourceAfter(zr.block.step), <<>>,
                            Failed(zr.did, zr.block.step))
        BY <2>9, <3>0, BlockEffects
      <4>2. <<>> \in Seq(Block)
        OBVIOUS
      <4> QED  BY <1>0, <2>4, <4>1, <4>2
    <3>2. PipeType'
      BY <2>3, <3>1, SendsTypes
    <3>3. RpmType'
      BY <1>0, <1>9, <3>1, GoesOnTypes
    <3> QED  BY <2>1, <3>2, <3>3 DEF TypeInv
  <2> QED  BY <1>3, <2>5, <2>6, <2>7, <2>8, <2>9 DEF BlocksStep
<1> QED
  BY <1>1, <1>2, <1>3

LEMMA TypeStep ==
    ASSUME TypeInv, [CommitNext]_commitVars
    PROVE  TypeInv'
<1>1. CASE CommitNext
  BY <1>1, StepGroups, LibraryStepTypes, HandlerTypes, RpmStepTypes
<1>2. CASE UNCHANGED commitVars
  BY <1>2 DEF commitVars, TypeInv, LibraryType, RpmType, PipeType, Steps
<1> QED
  BY <1>1, <1>2

LEMMA TypeInit ==
    ASSUME CommitInit
    PROVE  TypeInv
<1>1. PICK kind \in Transactions :
        /\ lz = [ kind |-> kind, phase |-> "fill", next |-> 1, todo |-> <<>>, abort |-> FALSE,
                  stage |-> [s \in DOMAIN kind |-> "todo"], report |-> NoBlock, gotEnd |-> FALSE,
                  seen |-> 0, early |-> FALSE, inbox |-> <<>>,
                  logged |-> [s \in DOMAIN kind |-> "no"] ]
        /\ zr = [ state |-> "none", left |-> <<>>, source |-> <<>>, plan |-> <<>>,
                  block |-> NoBlock, at |-> "idle", err |-> FALSE, cleans |-> FALSE,
                  did |-> [s \in DOMAIN kind |-> "untouched"], code |-> "none" ]
        /\ pipes = [ msgs |-> <<>>, tags |-> <<>>, held |-> FALSE ]
  BY DEF CommitInit
<1>2. Steps = DOMAIN kind /\ kind \in Seq(StepKind) /\ PipeSize \in Nat
  BY <1>1, CommitAssumption DEF Steps
<1>3. LibraryType
  BY <1>1, <1>2 DEF LibraryType
<1>4. RpmType
  BY <1>1, <1>2 DEF RpmType, Deed
<1>5. PipeType
  BY <1>1, <1>2 DEF PipeType
<1> QED
  BY <1>3, <1>4, <1>5 DEF TypeInv

\* The variables have their types, whatever the transaction and the size of the
\* pipe (CommitInSingleTransaction.cc, zypp-rpm main.cc).
THEOREM CommitTypeCorrect == CommitSpec => []CommitTypeOK
<1>1. TypeInv => CommitTypeOK
  BY DEF TypeInv, LibraryType, RpmType, PipeType, CommitTypeOK
<1> QED
  BY <1>1, TypeInit, TypeStep, PTL DEF CommitSpec

-----------------------------------------------------------------------------
(* The queue of what is unread.                                               *)

\* The first message is taken.
Popped ==
    /\ Len(Unread) \in Nat \ {0} /\ DOMAIN Unread = 1..Len(Unread)
    /\ Len(Unread') = Len(Unread) - 1 /\ DOMAIN Unread' = 1..Len(Unread) - 1
    /\ Unread[1] = This
    /\ \A i \in DOMAIN Unread' : Unread'[i] = Unread[i + 1]
    /\ Unread # <<>> /\ (Unread' = <<>> <=> Len(Unread) = 1)

\* A message is added.
Pushed(m) ==
    /\ Len(Unread) \in Nat /\ DOMAIN Unread = 1..Len(Unread)
    /\ Len(Unread') = Len(Unread) + 1 /\ DOMAIN Unread' = 1..Len(Unread) + 1
    /\ Unread'[Len(Unread) + 1] = m
    /\ \A i \in DOMAIN Unread : Unread'[i] = Unread[i]
    /\ Unread' # <<>> /\ (Unread = <<>> <=> Len(Unread) = 0)

LEMMA UnreadType ==
    ASSUME TypeInv
    PROVE  /\ Unread \in Seq(Message) /\ Len(Unread) \in Nat /\ DOMAIN Unread = 1..Len(Unread)
           /\ \A i \in DOMAIN Unread :
                 /\ Unread[i].say \in {"Begin", "Finished", "Error", "TransactionError"}
                 /\ Unread[i].block \in Block \cup {NoBlock} /\ Unread[i].block.n \in Nat
           /\ Unread = <<>> <=> Len(Unread) = 0
           /\ Unread = <<>> <=> lz.inbox = <<>> /\ pipes.msgs = <<>>
<1>1. lz.inbox \in Seq(Message) /\ pipes.msgs \in Seq(Message)
  BY DEF TypeInv, LibraryType, PipeType
<1>2. Unread \in Seq(Message) /\ Len(Unread) = Len(lz.inbox) + Len(pipes.msgs)
  BY <1>1 DEF Unread
<1>3. \A i \in DOMAIN Unread : Unread[i] \in Message
  <2>1. \A q \in Seq(Message) : \A i \in DOMAIN q : q[i] \in Message
    OBVIOUS
  <2> QED  BY <1>2, <2>1
<1>4. \A m \in Message : /\ m.say \in {"Begin", "Finished", "Error", "TransactionError"}
                         /\ m.block \in Block \cup {NoBlock} /\ m.block.n \in Nat
  BY DEF Message, Block, NoBlock
<1>5. \A q \in Seq(Message) :
        /\ q = <<>> <=> Len(q) = 0
        /\ Len(q) \in Nat /\ DOMAIN q = 1..Len(q)
  OBVIOUS
<1>6. Unread = <<>> <=> lz.inbox = <<>> /\ pipes.msgs = <<>>
  <2>1. Unread = <<>> <=> Len(Unread) = 0
    BY <1>2, <1>5
  <2>2. lz.inbox = <<>> <=> Len(lz.inbox) = 0
    BY <1>1, <1>5
  <2>3. pipes.msgs = <<>> <=> Len(pipes.msgs) = 0
    BY <1>1, <1>5
  <2>4. Len(lz.inbox) \in Nat /\ Len(pipes.msgs) \in Nat /\ Len(Unread) \in Nat
    BY <1>1, <1>2, <1>5
  <2>5. Len(Unread) = 0 <=> Len(lz.inbox) = 0 /\ Len(pipes.msgs) = 0
    <3>1. \A a, b \in Nat : a + b = 0 <=> a = 0 /\ b = 0
      OBVIOUS
    <3>2. Len(Unread) = Len(lz.inbox) + Len(pipes.msgs)
      BY <1>2
    <3> HIDE DEF Unread
    <3> QED  BY <2>4, <3>1, <3>2
  <2> QED  BY <2>1, <2>2, <2>3, <2>5
<1> QED
  BY <1>2, <1>3, <1>4, <1>5, <1>6

LEMMA SameQueue ==
    ASSUME TypeInv
    PROVE  /\ lz'.inbox = lz.inbox /\ pipes'.msgs = pipes.msgs => Unread' = Unread
           /\ lz.inbox = <<>> /\ lz'.inbox = pipes.msgs /\ pipes'.msgs = <<>> => Unread' = Unread
<1>1. lz.inbox \in Seq(Message) /\ pipes.msgs \in Seq(Message)
  BY DEF TypeInv, LibraryType, PipeType
<1>2. \A q \in Seq(Message) : q \o <<>> = q /\ <<>> \o q = q
  OBVIOUS
<1> QED
  BY <1>1, <1>2 DEF Unread

LEMMA PoppedQueue ==
    ASSUME TypeInv, lz.inbox # <<>>, lz'.inbox = Tail(lz.inbox), pipes'.msgs = pipes.msgs
    PROVE  Popped
<1>1. lz.inbox \in Seq(Message) /\ pipes.msgs \in Seq(Message)
  BY DEF TypeInv, LibraryType, PipeType
<1>2. \A q, r \in Seq(Message) : q # <<>> =>
        /\ Len(q \o r) \in Nat \ {0} /\ DOMAIN (q \o r) = 1..Len(q \o r)
        /\ Len(Tail(q) \o r) = Len(q \o r) - 1 /\ DOMAIN (Tail(q) \o r) = 1..Len(q \o r) - 1
        /\ (q \o r)[1] = Head(q)
        /\ \A i \in DOMAIN (Tail(q) \o r) : (Tail(q) \o r)[i] = (q \o r)[i + 1]
  OBVIOUS
<1>4. ASSUME NEW q \in Seq(Message), NEW r \in Seq(Message), q # <<>>
      PROVE  q \o r # <<>> /\ (Tail(q) \o r = <<>> <=> Len(q \o r) = 1)
  <2>1. q \o r \in Seq(Message) /\ Tail(q) \o r \in Seq(Message)
    BY <1>4
  <2>2. \A s \in Seq(Message) : s = <<>> <=> Len(s) = 0
    OBVIOUS
  <2>3. Len(q \o r) \in Nat \ {0} /\ Len(Tail(q) \o r) = Len(q \o r) - 1
    BY <1>2, <1>4
  <2>4. q \o r = <<>> <=> Len(q \o r) = 0
    BY <2>1, <2>2
  <2>5. Tail(q) \o r = <<>> <=> Len(Tail(q) \o r) = 0
    BY <2>1, <2>2
  <2> DEFINE n == Len(q \o r)
  <2>6. n # 0 /\ (n - 1 = 0 <=> n = 1)
    BY <2>3
  <2> QED  BY <2>3, <2>4, <2>5, <2>6
<1>3. Unread = lz.inbox \o pipes.msgs /\ Unread' = Tail(lz.inbox) \o pipes.msgs
  BY DEF Unread
<1> QED
  BY <1>1, <1>2, <1>3, <1>4 DEF Popped, This

LEMMA PushedQueue ==
    ASSUME TypeInv, NEW m, Sends(m), UNCHANGED lz
    PROVE  Pushed(m)
<1>1. lz.inbox \in Seq(Message) /\ pipes.msgs \in Seq(Message)
  BY DEF TypeInv, LibraryType, PipeType
<1>2. ASSUME NEW q \in Seq(Message), NEW r \in Seq(Message)
      PROVE  /\ Len(q \o r) \in Nat /\ DOMAIN (q \o r) = 1..Len(q \o r)
             /\ Len(q \o Append(r, m)) = Len(q \o r) + 1
             /\ DOMAIN (q \o Append(r, m)) = 1..Len(q \o r) + 1
             /\ (q \o Append(r, m))[Len(q \o r) + 1] = m
             /\ \A i \in DOMAIN (q \o r) : (q \o Append(r, m))[i] = (q \o r)[i]
  <2>1. /\ Len(q) \in Nat /\ Len(r) \in Nat /\ Len(Append(r, m)) = Len(r) + 1
        /\ DOMAIN (q \o r) = 1..Len(q) + Len(r) /\ Len(q \o r) = Len(q) + Len(r)
    OBVIOUS
  <2>2. \A i \in 1..Len(r) : Append(r, m)[i] = r[i]
    OBVIOUS
  <2>3. /\ Len(q \o Append(r, m)) = Len(q) + Len(r) + 1
        /\ DOMAIN (q \o Append(r, m)) = 1..Len(q) + Len(r) + 1
        /\ \A i \in 1..Len(q) : (q \o Append(r, m))[i] = q[i] /\ (q \o r)[i] = q[i]
        /\ \A i \in 1..Len(r) + 1 : (q \o Append(r, m))[Len(q) + i] = Append(r, m)[i]
        /\ \A i \in 1..Len(r) : (q \o r)[Len(q) + i] = r[i]
    OBVIOUS
  <2>4. Append(r, m)[Len(r) + 1] = m
    OBVIOUS
  <2>5. ASSUME NEW i \in 1..Len(q) + Len(r)
        PROVE  (q \o Append(r, m))[i] = (q \o r)[i]
    <3>1. CASE i <= Len(q)
      BY <2>1, <2>3, <3>1
    <3>2. CASE i > Len(q)
      <4>1. i - Len(q) \in 1..Len(r) /\ i = Len(q) + (i - Len(q))
        BY <2>1, <3>2
      <4> QED  BY <2>1, <2>2, <2>3, <4>1
    <3> QED  BY <2>1, <3>1, <3>2
  <2> QED  BY <2>1, <2>3, <2>4, <2>5
<1>3. Unread = lz.inbox \o pipes.msgs /\ Unread' = lz.inbox \o Append(pipes.msgs, m)
  BY DEF Unread, Sends
<1>4. ASSUME NEW q, NEW n \in Nat, Len(q) = n + 1
      PROVE  q # <<>>
  BY <1>4
<1> QED
  BY <1>1, <1>2, <1>3, <1>4, UnreadType DEF Pushed

\* What the groups of actions do to the queue and to zypp-rpm.
LEMMA QueueEffects ==
    ASSUME TypeInv
    PROVE  /\ FillStep => Unread' = Unread /\ UNCHANGED zr
           /\ MoveStep => Unread' = Unread
           /\ ReadStep => Unread' = Unread /\ UNCHANGED zr
           /\ HandlerStep => Popped /\ UNCHANGED zr /\ Looping /\ lz'.phase = lz.phase
                                /\ lz'.todo = lz.todo /\ lz'.kind = lz.kind /\ lz'.next = lz.next
           /\ PlanStep => Unread' = Unread /\ UNCHANGED lz
           /\ EndStep => UNCHANGED lz /\ (Unread' = Unread \/ Problems)
           /\ Problems => Pushed(TransactionError)
           /\ BlockTag => Unread' = Unread /\ UNCHANGED lz
<1>1. FillStep => Unread' = Unread /\ UNCHANGED zr
  <2>1. FillStep => UNCHANGED zr /\ lz'.inbox = lz.inbox /\ pipes'.msgs = pipes.msgs
    BY FillEffects DEF FillsTo
  <2> QED  BY <2>1, SameQueue
<1>2. MoveStep => Unread' = Unread
  <2>1. MoveStep => \E phase, stage : Moves(phase, stage)
    BY MoveEffects DEF MoveStep
  <2> QED  BY <2>1, SameQueue DEF Moves
<1>3. ReadStep => Unread' = Unread /\ UNCHANGED zr
  BY ReadEffects, SameQueue DEF ReadStep, ReadsOnly
<1>4. HandlerStep => Popped /\ UNCHANGED zr /\ Looping /\ lz'.phase = lz.phase
                       /\ lz'.todo = lz.todo /\ lz'.kind = lz.kind /\ lz'.next = lz.next
  <2>1. HandlerStep => \E stage, report, logged : Handled(stage, report, logged)
    BY HandlerEffects DEF HandlerStep
  <2> QED  BY <2>1, PoppedQueue DEF Handled
<1>5. PlanStep => Unread' = Unread /\ UNCHANGED lz
  <2>1. PlanStep => UNCHANGED pipes /\ UNCHANGED lz
    BY RpmPlanEffects DEF PlanStep, GoesOn
  <2> QED  BY <2>1, SameQueue
<1>6. Problems => Pushed(TransactionError)
  BY RpmEndsEffects, PushedQueue DEF GoneWith
<1>7. EndStep => UNCHANGED lz /\ (Unread' = Unread \/ Problems)
  BY RpmEndsEffects, SameQueue DEF EndStep, GoneWith
<1>8. BlockTag => Unread' = Unread /\ UNCHANGED lz
  BY BlockEffects, SameQueue
<1> QED
  BY <1>1, <1>2, <1>3, <1>4, <1>5, <1>6, <1>7, <1>8

\* The step that is filled in is new.
LEMMA TodoEffects ==
    ASSUME TypeInv
    PROVE  /\ lz'.todo = lz.todo => Todo' = Todo
           /\ lz'.todo = Append(lz.todo, lz.next) => Todo' = Todo \cup {lz.next}
           /\ lz.todo = <<>> => Todo = {}
           /\ CommitNext => lz'.kind = lz.kind /\ Steps' = Steps
           /\ CommitNext => lz'.todo = lz.todo \/ (FillStep /\ lz'.todo = Append(lz.todo, lz.next))
<1>1. lz.todo \in Seq(Steps)
  BY DEF TypeInv, LibraryType
<1>2. lz'.todo = Append(lz.todo, lz.next) => Todo' = Todo \cup {lz.next}
  <2>1. ASSUME NEW q \in Seq(Steps), NEW s
        PROVE  ToSet(Append(q, s)) = ToSet(q) \cup {s}
    <3>1. /\ Len(q) \in Nat /\ DOMAIN q = 1..Len(q) /\ DOMAIN Append(q, s) = 1..Len(q) + 1
          /\ Append(q, s)[Len(q) + 1] = s
          /\ \A i \in 1..Len(q) : Append(q, s)[i] = q[i]
      OBVIOUS
    <3>2. DOMAIN Append(q, s) = DOMAIN q \cup {Len(q) + 1}
      BY <3>1
    <3> DEFINE r == Append(q, s)
    <3> HIDE DEF r
    <3>3. ToSet(r) = ToSet(q) \cup {s}
      BY <3>1, <3>2 DEF ToSet, r
    <3> QED  BY <3>3 DEF r
  <2> QED  BY <1>1, <2>1 DEF Todo
<1>3. CommitNext => lz'.kind = lz.kind /\ Steps' = Steps
  <2>1. ASSUME CommitNext PROVE lz'.kind = lz.kind
    <3>1. CASE FillStep
      BY <3>1, FillEffects DEF FillsTo
    <3>2. CASE MoveStep
      BY <3>2, MoveEffects DEF MoveStep, Moves
    <3>3. CASE ReadStep
      BY <3>3, ReadEffects DEF ReadStep, ReadsOnly
    <3>4. CASE HandlerStep
      BY <3>4, QueueEffects
    <3>5. CASE EndStep \/ PlanStep
      BY <3>5, QueueEffects
    <3>6. CASE BlocksStep
      BY <3>6 DEF BlocksStep, BlockBegin, BlockTag, BlockStop, BlockFails, BlockError
    <3> QED  BY <2>1, <3>1, <3>2, <3>3, <3>4, <3>5, <3>6, StepGroups
  <2> QED  BY <2>1 DEF Steps
<1>4. CommitNext => lz'.todo = lz.todo \/ (FillStep /\ lz'.todo = Append(lz.todo, lz.next))
  <2>1. ASSUME CommitNext
        PROVE  lz'.todo = lz.todo \/ (FillStep /\ lz'.todo = Append(lz.todo, lz.next))
    <3>1. CASE FillStep
      BY <3>1, FillEffects DEF FillsTo
    <3>2. CASE MoveStep
      BY <3>2, MoveEffects DEF MoveStep, Moves
    <3>3. CASE ReadStep
      BY <3>3, ReadEffects DEF ReadStep, ReadsOnly
    <3>4. CASE HandlerStep
      BY <3>4, QueueEffects
    <3>5. CASE EndStep \/ PlanStep
      BY <3>5, QueueEffects
    <3>6. CASE BlocksStep
      BY <3>6 DEF BlocksStep, BlockBegin, BlockTag, BlockStop, BlockFails, BlockError
    <3> QED  BY <2>1, <3>1, <3>2, <3>3, <3>4, <3>5, <3>6, StepGroups
  <2> QED  BY <2>1
<1> QED
  BY <1>2, <1>3, <1>4 DEF Todo, ToSet

\* What the groups of actions do to zypp-rpm.
ZrStays == zr'.did = zr.did /\ zr'.code = zr.code /\ zr'.plan = zr.plan /\ zr'.left = zr.left
           /\ zr'.source = zr.source /\ zr'.block = zr.block /\ zr'.at = zr.at

LEMMA RpmKeeps ==
    ASSUME TypeInv
    PROVE  /\ MoveStep => ZrStays /\ (zr'.state = zr.state \/ (StartRpm /\ zr'.state = "reads"))
           /\ EndStep => zr'.did = zr.did /\ zr'.state = "gone" /\ zr.state \in {"reads", "runs"}
           /\ PlanStep => /\ zr'.did = zr.did /\ zr'.state = "runs" /\ zr.state \in {"reads", "runs"}
                          /\ zr'.code = zr.code
           /\ BlocksStep => zr.state = "runs" /\ zr'.state = "runs" /\ zr'.code = zr.code
           /\ (EndStep \/ PlanStep \/ BlocksStep) => UNCHANGED lz
<1>1. MoveStep => ZrStays /\ (zr'.state = zr.state \/ (StartRpm /\ zr'.state = "reads"))
  <2>1. DOMAIN zr = RpmFields
    BY DEF TypeInv, RpmType, RpmFields
  <2>2. MoveStep => UNCHANGED zr \/ (StartRpm /\ zr' = [zr EXCEPT !.state = "reads"])
    BY MoveEffects DEF MoveStep
  <2> QED  BY <2>1, <2>2 DEF ZrStays, RpmFields
<1>2. EndStep => zr'.did = zr.did /\ zr'.state = "gone" /\ zr.state \in {"reads", "runs"}
  BY RpmEndsEffects DEF EndStep, GoneWith
<1>3. PlanStep => /\ zr'.did = zr.did /\ zr'.state = "runs" /\ zr.state \in {"reads", "runs"}
                  /\ zr'.code = zr.code
  BY RpmPlanEffects DEF PlanStep, GoesOn, Ready
<1>4. BlocksStep => zr.state = "runs" /\ zr'.state = "runs" /\ zr'.code = zr.code
  <2>1. BlocksStep => zr.state = "runs"
    BY DEF BlocksStep, BlockBegin, BlockTag, BlockStop, BlockFails, BlockError, TypeInv, RpmType
  <2> QED  BY <2>1, BlockEffects DEF BlocksStep, GoesOn
<1>5. (EndStep \/ PlanStep \/ BlocksStep) => UNCHANGED lz
  BY QueueEffects DEF BlocksStep, BlockBegin, BlockTag, BlockStop, BlockFails, BlockError
<1> QED
  BY <1>1, <1>2, <1>3, <1>4, <1>5

-----------------------------------------------------------------------------
(* The phases.                                                                *)

LEMMA PhaseStep ==
    ASSUME TypeInv, TypeInv', PhaseInv, CommitNext
    PROVE  PhaseInv'
<1>0. /\ lz'.kind = lz.kind /\ Steps' = Steps /\ Steps \subseteq Nat
      /\ zr'.did = zr.did => Untouched' = Untouched
      /\ lz.next \in Nat
  <2>1. lz'.kind = lz.kind /\ Steps' = Steps
    BY TodoEffects
  <2>2. lz.next \in 1..Len(lz.kind) + 1
    BY DEF TypeInv, LibraryType
  <2> QED  BY <2>1, <2>2, StepsAreNumbers DEF Untouched
<1>00. /\ ~Throws("none") /\ ~Throws("Signal") /\ ~Throws("NoError") /\ ~Throws("RpmFinishedWithError")
  BY DEF Throws, Refusals
<1>1. CASE FillStep
  <2>1. /\ lz.phase = "fill" /\ lz'.phase = "fill" /\ zr.state = "none" /\ zr.code = "none"
        /\ UNCHANGED <<zr, pipes>> /\ Unread' = Unread /\ lz'.report = lz.report /\ lz'.seen = lz.seen
    BY <1>1, <1>0, FillEffects, QueueEffects DEF Filling, FillsTo, TypeInv, RpmType, PhaseInv
  <2>2. /\ \A s \in Todo' : s < lz'.next
        /\ \A s \in Todo' : lz.kind[s] \in {"install", "remove", "source"}
    <3>0. /\ \A s \in Todo : s < lz.next /\ s \in Nat
          /\ \A s \in Todo : lz.kind[s] \in {"install", "remove", "source"}
      BY <2>1, StepsAreNumbers DEF PhaseInv
    <3>1. CASE lz'.todo = lz.todo /\ lz'.next \in {lz.next, lz.next + 1}
      <4>1. Todo' = Todo
        BY <3>1, TodoEffects
      <4> QED  BY <1>0, <3>0, <3>1, <4>1
    <3>2. CASE /\ FillKind \in {"install", "remove", "source"}
               /\ lz'.todo = Append(lz.todo, lz.next) /\ lz'.next = lz.next + 1
      <4>1. Todo' = Todo \cup {lz.next} /\ lz.kind[lz.next] \in {"install", "remove", "source"}
        BY <3>2, TodoEffects DEF FillKind
      <4> QED  BY <1>0, <3>0, <3>2, <4>1
    <3> QED  BY <1>1, <3>1, <3>2, FillEffects DEF FillsTo
  <2>3. Untouched'
    BY <1>0, <2>1 DEF PhaseInv
  <2> QED  BY <1>0, <2>1, <2>2, <2>3 DEF PhaseInv
<1>2. CASE MoveStep
  <2>1. /\ Unread' = Unread /\ ZrStays /\ (zr'.state = zr.state \/ (StartRpm /\ zr'.state = "reads"))
        /\ lz'.todo = lz.todo /\ Todo' = Todo /\ UNCHANGED pipes
        /\ lz'.report = lz.report /\ lz'.seen = lz.seen
        /\ lz'.phase \in {"loop", "drain", "check", "scripts", "returned", "aborted", "failed"}
    <3>1. \E phase \in {"loop", "drain", "check", "scripts", "returned", "aborted", "failed"} :
             \E stage : Moves(phase, stage)
      BY <1>2, MoveEffects DEF MoveStep
    <3> QED  BY <1>2, <3>1, QueueEffects, RpmKeeps, TodoEffects DEF Moves
  <2>2. Untouched' = Untouched
    BY <1>0, <2>1 DEF ZrStays
  <2>3. CASE StartRpm
    <3>1. lz.phase = "fill" /\ zr.state = "none" /\ zr.code = "none" /\ Untouched
      BY <2>3, MoveEffects DEF Filled, TypeInv, RpmType, PhaseInv
    <3>2. \/ lz'.phase = "loop" /\ zr'.state = "reads"
          \/ lz'.phase = "failed" /\ zr'.state = "none"
      <4>1. \/ Moves("loop", lz.stage) /\ zr' = [zr EXCEPT !.state = "reads"]
            \/ Moves("failed", lz.stage) /\ UNCHANGED zr
        BY <2>3, MoveEffects
      <4>2. DOMAIN zr = RpmFields
        BY DEF TypeInv, RpmType, RpmFields
      <4> QED  BY <3>1, <4>1, <4>2 DEF Moves, RpmFields
    <3> QED  BY <1>0, <1>00, <2>1, <2>2, <3>1, <3>2 DEF PhaseInv, ZrStays
  <2>4. CASE NothingToDo
    <3>1. lz.phase = "fill" /\ zr.state = "none" /\ lz.todo = <<>> /\ lz'.phase = "scripts" /\ UNCHANGED zr
      BY <2>4, MoveEffects DEF Filled, TypeInv, RpmType, Moves
    <3> QED  BY <1>0, <1>00, <2>1, <2>2, <3>1 DEF PhaseInv, ZrStays
  <2>5. CASE SigFinished
    <3>1. lz'.phase = "drain" /\ zr.state = "gone" /\ UNCHANGED zr
      BY <2>5, MoveEffects DEF Moves
    <3> QED  BY <1>0, <1>00, <2>1, <2>2, <3>1 DEF PhaseInv, ZrStays
  <2>6. CASE CheckExitCode
    <3>1. /\ lz.phase = "check" /\ UNCHANGED zr
          /\ IF Throws(zr.code) THEN lz'.phase = "failed" ELSE lz'.phase = "scripts"
      BY <2>6, MoveEffects DEF Moves
    <3> QED  BY <1>0, <1>00, <2>1, <2>2, <3>1 DEF PhaseInv, ZrStays
  <2>7. CASE RunUpdateScripts
    <3>1. lz.phase = "scripts" /\ UNCHANGED zr /\ lz'.phase \in {"aborted", "returned"}
      BY <2>7, MoveEffects DEF Moves
    <3> QED  BY <1>0, <1>00, <2>1, <2>2, <3>1 DEF PhaseInv, ZrStays
  <2> QED  BY <1>2, <2>3, <2>4, <2>5, <2>6, <2>7 DEF MoveStep
<1>3. CASE ReadStep \/ HandlerStep
  <2>1. /\ UNCHANGED zr /\ lz'.todo = lz.todo /\ Todo' = Todo /\ Untouched' = Untouched
    BY <1>0, <1>3, QueueEffects, TodoEffects, ReadEffects DEF ReadStep, ReadsOnly
  <2>2. Looping /\ zr.state # "none"
    <3>1. CASE HandlerStep
      BY <3>1, QueueEffects, UnreadType DEF Popped, PhaseInv
    <3>2. CASE ReadMessages
      BY <3>2, UnreadType DEF ReadMessages, PhaseInv
    <3>3. CASE ReadScriptOutput
      BY <3>3 DEF ReadScriptOutput, PhaseInv, Looping
    <3>4. CASE LastReport
      BY <3>4 DEF LastReport, PhaseInv, Looping
    <3> QED  BY <1>3, <3>1, <3>2, <3>3, <3>4 DEF ReadStep
  <2>3. lz'.phase = lz.phase \/ (lz.phase = "drain" /\ lz'.phase = "check" /\ Unread' = <<>>)
    <3>1. CASE HandlerStep
      BY <3>1, QueueEffects
    <3>2. CASE ReadMessages \/ ReadScriptOutput
      BY <3>2, ReadEffects
    <3>3. CASE LastReport
      <4>1. lz.phase = "drain" /\ lz'.phase = "check" /\ lz.inbox = <<>> /\ pipes.msgs = <<>>
        BY <3>3, ReadEffects
      <4>2. Unread' = Unread
        BY <3>3, QueueEffects DEF ReadStep
      <4> QED  BY <4>1, <4>2, UnreadType
    <3> QED  BY <1>3, <3>1, <3>2, <3>3 DEF ReadStep
  <2> QED  BY <1>0, <2>1, <2>2, <2>3 DEF PhaseInv, Looping
<1>4. CASE EndStep \/ PlanStep \/ BlocksStep
  <2>1. /\ UNCHANGED lz /\ Todo' = Todo /\ zr.state \in {"reads", "runs"} /\ zr.code = "none"
        /\ zr'.state \in {"gone", "runs"} /\ lz.phase # "fill"
    BY <1>4, RpmKeeps, TodoEffects DEF PhaseInv, TypeInv, RpmType
  <2>2. lz'.phase \notin {"fill", "drain", "check", "scripts", "returned", "aborted", "failed"}
    BY <2>1 DEF PhaseInv
  <2>3. Throws(zr'.code) => Untouched'
    <3>1. CASE EndStep
      <4>1. Untouched' = Untouched
        BY <1>0, <3>1, RpmKeeps
      <4>2. ~Throws(zr'.code) \/ Untouched
        BY <1>00, <3>1, RpmEndsEffects DEF EndStep, GoneWith, PhaseInv
      <4> QED  BY <4>1, <4>2
    <3>2. CASE PlanStep \/ BlocksStep
      <4>1. zr'.code = "none"
        BY <2>1, <3>2, RpmKeeps
      <4> QED  BY <1>00, <4>1
    <3> QED  BY <1>4, <3>1, <3>2
  <2>4. zr'.state # "gone" => zr'.code = "none"
    BY <1>4, <2>1, RpmKeeps
  <2> QED  BY <1>0, <2>1, <2>2, <2>3, <2>4 DEF PhaseInv
<1> QED
  BY <1>1, <1>2, <1>3, <1>4, StepGroups

-----------------------------------------------------------------------------
(* The work of rpm.                                                           *)

\* libzypp adds steps only while there is no zypp-rpm.
LEMMA LibraryKeepsWork ==
    ASSUME TypeInv, PhaseInv, WorkInv, CommitNext,
           FillStep \/ MoveStep \/ ReadStep \/ HandlerStep
    PROVE  WorkInv'
<1>1. ZrStays /\ Todo \subseteq Todo' /\ lz'.kind = lz.kind
  <2>1. ZrStays
    BY QueueEffects, RpmKeeps DEF ZrStays
  <2> QED  BY <2>1, TodoEffects
<1>2. /\ Todo # Todo' => zr.state = "none"
      /\ zr'.state = zr.state \/ (zr.state = "none" /\ zr'.state = "reads")
  <2>1. CASE FillStep
    BY <2>1, QueueEffects, FillEffects DEF TypeInv, RpmType, Filling
  <2>2. CASE MoveStep
    <3>1. Todo' = Todo
      <4>1. \E phase, stage : Moves(phase, stage)
        BY <2>2, MoveEffects DEF MoveStep
      <4> QED  BY <4>1, TodoEffects DEF Moves
    <3>2. StartRpm => zr.state = "none"
      BY DEF StartRpm, Filled, TypeInv, RpmType
    <3> QED  BY <2>2, <3>1, <3>2, RpmKeeps
  <2>3. CASE ReadStep \/ HandlerStep
    <3>1. UNCHANGED zr /\ Todo' = Todo
      BY <2>3, QueueEffects, ReadEffects, TodoEffects DEF ReadStep, ReadsOnly
    <3> QED  BY <3>1
  <2> QED  BY <2>1, <2>2, <2>3
<1>3. Fresh \subseteq Fresh' /\ (zr.state # "none" => Fresh' = Fresh)
  BY <1>1, <1>2 DEF Fresh, ZrStays
<1>4. LeftInv'
  BY <1>1 DEF WorkInv, LeftInv, Waits, ZrStays
<1>5. SourceInv'
  BY <1>1 DEF WorkInv, SourceInv, Waits, ZrStays
<1>6. PlanInv'
  BY <1>1, <1>3 DEF WorkInv, PlanInv, ZrStays
<1>7. BlockInv'
  BY <1>1, <1>2, <1>3 DEF WorkInv, BlockInv, ZrStays
<1> QED
  BY <1>4, <1>5, <1>6, <1>7 DEF WorkInv

\* While zypp-rpm works, libzypp does not change what is to do.
LEMMA RpmKeepsTodo ==
    ASSUME TypeInv, CommitNext, EndStep \/ PlanStep \/ BlocksStep
    PROVE  UNCHANGED lz /\ Todo' = Todo /\ Steps' = Steps
BY RpmKeeps, TodoEffects

LEMMA TailFacts ==
    ASSUME NEW S, NEW q \in Seq(S), q # <<>>
    PROVE  /\ Len(q) \in Nat \ {0} /\ DOMAIN q = 1..Len(q)
           /\ Tail(q) \in Seq(S) /\ DOMAIN Tail(q) = 1..Len(q) - 1 /\ Len(Tail(q)) = Len(q) - 1
           /\ Head(q) = q[1] /\ q[1] \in S
           /\ \A i \in DOMAIN Tail(q) : i + 1 \in DOMAIN q /\ Tail(q)[i] = q[i + 1]
OBVIOUS

LEMMA PlanStepWork ==
    ASSUME TypeInv, PhaseInv, WorkInv, CommitNext, PlanStep
    PROVE  WorkInv'
<1>0. /\ UNCHANGED lz /\ Todo' = Todo /\ zr'.did = zr.did /\ zr'.state = "runs" /\ SameBlock
      /\ zr.at = "idle" /\ zr'.at = "idle"
  BY RpmKeepsTodo, RpmKeeps, RpmPlanEffects DEF PlanStep, Ready, SameBlock, TypeInv, RpmType
<1>1. BlockInv'
  BY <1>0 DEF BlockInv
<1>00. zr.left \in Seq(Steps) /\ zr.source \in Seq(Steps) /\ Todo \subseteq Steps /\ Steps \subseteq Nat \ {0}
  BY StepsAreNumbers DEF TypeInv, RpmType
<1>2. ASSUME NEW plan, NEW s, PlanFor(plan, s, TRUE), zr'.plan = plan, s \in Fresh'
      PROVE  PlanInv'
  BY <1>2 DEF PlanInv, PlanFor
<1>3. ASSUME NEW plan, PlanFor(plan, 0, FALSE), zr'.plan = plan
      PROVE  PlanInv'
  BY <1>3 DEF PlanInv, PlanFor
<1>4. CASE Prepare
  <2>1. PICK left, source, plan :
             /\ GoesOn(left, source, plan, zr.did)
             /\ Once(left, Packages) /\ Once(source, Sources) /\ PlanFor(plan, 0, FALSE)
    BY <1>4, RpmPlanEffects
  <2>2. zr'.left = left /\ zr'.source = source /\ zr'.plan = plan
    BY <2>1 DEF GoesOn
  <2>3. PlanInv'
    BY <1>3, <2>1, <2>2
  <2>4. \A s \in Todo : zr.did[s] = "untouched"
    BY <1>4, <1>00, RpmPlanEffects DEF PhaseInv, Untouched
  <2>5. /\ \A i \in DOMAIN left : left[i] \in Todo /\ lz.kind[left[i]] # "source"
        /\ \A i, j \in DOMAIN left : i # j => left[i] # left[j]
    <3>1. left \in Seq(Packages) /\ \A i \in DOMAIN left : left[i] \in Packages
      BY <2>1 DEF Once
    <3> QED  BY <2>1, <3>1 DEF Once, Packages
  <2>6. /\ \A i \in DOMAIN source : source[i] \in Todo /\ lz.kind[source[i]] = "source"
        /\ \A i, j \in DOMAIN source : i # j => source[i] # source[j]
    <3>1. source \in Seq(Sources) /\ \A i \in DOMAIN source : source[i] \in Sources
      BY <2>1 DEF Once
    <3> QED  BY <2>1, <3>1 DEF Once, Sources
  <2>7. LeftInv' /\ SourceInv'
    BY <1>0, <2>2, <2>4, <2>5, <2>6 DEF LeftInv, SourceInv, Waits
  <2> QED  BY <1>1, <2>3, <2>7 DEF WorkInv
<1>5. CASE TakeElement
  <2>1. PICK plan : /\ GoesOn(Tail(zr.left), zr.source, plan, zr.did)
                    /\ PlanFor(plan, Head(zr.left), TRUE)
    BY <1>5, RpmPlanEffects
  <2>2. /\ zr'.left = Tail(zr.left) /\ zr'.source = zr.source /\ zr'.plan = plan
        /\ zr.left # <<>>
    BY <1>5, <2>1, RpmPlanEffects DEF GoesOn
  <2>3. /\ DOMAIN zr.left = 1..Len(zr.left) /\ Len(zr.left) \in Nat \ {0}
        /\ DOMAIN zr'.left = 1..Len(zr.left) - 1 /\ Head(zr.left) = zr.left[1]
        /\ \A i \in DOMAIN zr'.left : i + 1 \in DOMAIN zr.left /\ zr'.left[i] = zr.left[i + 1]
    BY <1>00, <2>2, TailFacts
  <2>4. LeftInv' /\ SourceInv'
    BY <1>0, <2>2, <2>3 DEF WorkInv, LeftInv, SourceInv, Waits
  <2>5. Head(zr.left) \in Fresh'
    <3>1. /\ zr.left[1] \in Todo /\ zr.did[zr.left[1]] = "untouched"
          /\ lz.kind[zr.left[1]] # "source"
          /\ \A i \in DOMAIN zr.left : i # 1 => zr.left[i] # zr.left[1]
      BY <2>3 DEF WorkInv, LeftInv, Waits
    <3>2. \A i \in DOMAIN zr.source : zr.source[i] # zr.left[1]
      BY <3>1 DEF WorkInv, SourceInv
    <3>3. \A i \in DOMAIN zr'.left : zr'.left[i] # zr.left[1]
      BY <2>3, <3>1
    <3> QED  BY <1>0, <2>2, <2>3, <3>1, <3>2, <3>3 DEF Fresh
  <2>6. PlanInv'
    BY <1>2, <2>1, <2>2, <2>5
  <2> QED  BY <1>1, <2>4, <2>6 DEF WorkInv
<1>6. CASE TakeCleanup
  <2>1. PICK plan : GoesOn(zr.left, zr.source, plan, zr.did) /\ PlanFor(plan, 0, FALSE)
    BY <1>6, RpmPlanEffects
  <2>2. zr'.left = zr.left /\ zr'.source = zr.source /\ zr'.plan = plan
    BY <2>1 DEF GoesOn
  <2>3. LeftInv' /\ SourceInv'
    BY <1>0, <2>2 DEF WorkInv, LeftInv, SourceInv, Waits
  <2>4. PlanInv'
    BY <1>3, <2>1, <2>2
  <2> QED  BY <1>1, <2>3, <2>4 DEF WorkInv
<1>7. CASE TakeSource
  <2>1. PICK plan : /\ GoesOn(zr.left, Tail(zr.source), plan, zr.did)
                    /\ PlanFor(plan, Head(zr.source), TRUE)
    BY <1>7, RpmPlanEffects
  <2>2. /\ zr'.left = zr.left /\ zr.left = <<>> /\ zr'.source = Tail(zr.source) /\ zr'.plan = plan
        /\ zr.source # <<>>
    BY <1>7, <2>1, RpmPlanEffects DEF GoesOn
  <2>3. /\ DOMAIN zr.source = 1..Len(zr.source) /\ Len(zr.source) \in Nat \ {0}
        /\ DOMAIN zr'.source = 1..Len(zr.source) - 1 /\ Head(zr.source) = zr.source[1]
        /\ \A i \in DOMAIN zr'.source : i + 1 \in DOMAIN zr.source /\ zr'.source[i] = zr.source[i + 1]
    BY <1>00, <2>2, TailFacts
  <2>4. LeftInv' /\ SourceInv'
    BY <1>0, <2>2, <2>3 DEF WorkInv, LeftInv, SourceInv, Waits
  <2>5. Head(zr.source) \in Fresh'
    <3>1. /\ zr.source[1] \in Todo /\ zr.did[zr.source[1]] = "untouched"
          /\ \A i \in DOMAIN zr.source : i # 1 => zr.source[i] # zr.source[1]
      BY <2>3 DEF WorkInv, SourceInv, Waits
    <3>2. \A i \in DOMAIN zr'.source : zr'.source[i] # zr.source[1]
      BY <2>3, <3>1
    <3>3. DOMAIN zr.left = {}
      BY <2>2
    <3> QED  BY <1>0, <2>2, <2>3, <3>1, <3>2, <3>3 DEF Fresh
  <2>6. PlanInv'
    BY <1>2, <2>1, <2>2, <2>5
  <2> QED  BY <1>1, <2>4, <2>6 DEF WorkInv
<1> QED
  BY <1>4, <1>5, <1>6, <1>7 DEF PlanStep

\* Only the deed of step s changes, which does not wait any more; the source
\* packages may be given up.
LEMMA OneDeed ==
    ASSUME TypeInv, WorkInv, UNCHANGED lz, NEW s,
           zr'.left = zr.left, zr'.source \in {zr.source, <<>>},
           \A t \in Steps : t # s => zr'.did[t] = zr.did[t],
           s \in Fresh \/ s = 0
    PROVE  LeftInv' /\ SourceInv' /\ Fresh \ {s} \subseteq Fresh'
<1>1. /\ Todo' = Todo /\ Todo \subseteq Steps /\ 0 \notin Steps
  BY TodoEffects, StepsAreNumbers
<1>2. /\ \A i \in DOMAIN zr.left : zr.left[i] # s /\ zr.left[i] \in Steps
      /\ \A i \in DOMAIN zr.source : zr.source[i] # s /\ zr.source[i] \in Steps
  <2>1. /\ \A i \in DOMAIN zr.left : zr.left[i] \in Steps
        /\ \A i \in DOMAIN zr.source : zr.source[i] \in Steps
    BY <1>1 DEF WorkInv, LeftInv, SourceInv, Waits
  <2> QED  BY <1>1, <2>1 DEF Fresh
<1>3. DOMAIN <<>> = {}
  OBVIOUS
<1>4. LeftInv'
  BY <1>1, <1>2 DEF WorkInv, LeftInv, Waits
<1>5. SourceInv'
  <2>1. CASE zr'.source = zr.source
    BY <1>1, <1>2, <2>1 DEF WorkInv, SourceInv, Waits
  <2>2. CASE zr'.source = <<>>
    BY <1>3, <2>2 DEF SourceInv, Waits
  <2> QED  BY <2>1, <2>2
<1>6. Fresh \ {s} \subseteq Fresh'
  BY <1>1, <1>3 DEF Fresh
<1> QED
  BY <1>4, <1>5, <1>6

\* Nothing was done and nothing new was taken.
LEMMA NoDeed ==
    ASSUME TypeInv, WorkInv, UNCHANGED lz, zr'.left = zr.left, zr'.source = zr.source,
           zr'.did = zr.did
    PROVE  LeftInv' /\ SourceInv' /\ Fresh' = Fresh
<1>1. Todo' = Todo
  BY TodoEffects
<1> QED
  BY <1>1 DEF WorkInv, LeftInv, SourceInv, Waits, Fresh

LEMMA EndStepWork ==
    ASSUME TypeInv, WorkInv, CommitNext, EndStep
    PROVE  WorkInv'
<1>1. /\ UNCHANGED lz /\ zr'.state = "gone" /\ zr'.at = "idle" /\ zr'.left = zr.left
      /\ zr'.source = zr.source /\ zr'.plan = zr.plan /\ zr'.did = zr.did
  BY RpmEndsEffects DEF EndStep, GoneWith
<1>2. LeftInv' /\ SourceInv' /\ Fresh' = Fresh
  BY <1>1, NoDeed
<1>3. PlanInv' /\ BlockInv'
  BY <1>1, <1>2 DEF WorkInv, PlanInv, BlockInv
<1> QED
  BY <1>2, <1>3 DEF WorkInv

\* What zypp-rpm is at, and to which step it belongs.
LEMMA BlockFacts ==
    ASSUME TypeInv, WorkInv
    PROVE  /\ zr.at # "idle" => zr.block \in Block /\ zr.block.n \in Nat /\ zr.state = "runs"
           /\ zr.at = "tagged" /\ Package(zr.block.type) =>
                 /\ zr.block.step \in Fresh /\ zr.block.step \in Todo /\ zr.block.step # 0
                 /\ zr.did[zr.block.step] = "untouched"
           /\ zr.at = "error" /\ zr.block.type = "script" /\ zr.plan # <<>> =>
                 zr.block.step \in Fresh \/ zr.block.step = 0
           /\ "script" # "install" /\ ~Package("script")
BY StepsAreNumbers DEF WorkInv, BlockInv, Fresh, Block, TypeInv, RpmType, Package

LEMMA BlocksStepWork ==
    ASSUME TypeInv, WorkInv, CommitNext, BlocksStep
    PROVE  WorkInv'
<1>0. /\ UNCHANGED lz /\ Todo' = Todo /\ zr.state = "runs" /\ zr'.state = "runs"
      /\ zr.plan \in Seq(Block) /\ zr.did \in [Steps -> Deed]
      /\ Todo \subseteq Steps /\ Steps \subseteq Nat \ {0} /\ Fresh \subseteq Todo
  BY RpmKeeps, TodoEffects, StepsAreNumbers DEF TypeInv, RpmType, Fresh
<1>00. DOMAIN <<>> = {} /\ <<>> = <<>>
  OBVIOUS
<1>1. CASE BlockBegin
  <2>1. /\ zr.plan # <<>> /\ zr'.plan = Tail(zr.plan)
        /\ zr'.left = zr.left /\ zr'.source = zr.source /\ zr'.did = zr.did
        /\ zr'.block = [Head(zr.plan) EXCEPT !.n = zr.block.n + 1] /\ zr'.at = "begun"
    BY <1>1, BlockEffects DEF GoesOn
  <2>2. LeftInv' /\ SourceInv' /\ Fresh' = Fresh
    BY <1>0, <2>1, NoDeed
  <2>3. /\ Len(zr.plan) \in Nat \ {0} /\ DOMAIN zr.plan = 1..Len(zr.plan)
        /\ DOMAIN zr'.plan = 1..Len(zr.plan) - 1 /\ Len(zr'.plan) = Len(zr.plan) - 1
        /\ Head(zr.plan) = zr.plan[1] /\ zr.plan[1] \in Block /\ zr'.plan \in Seq(Block)
        /\ \A i \in DOMAIN zr'.plan : i + 1 \in DOMAIN zr.plan /\ zr'.plan[i] = zr.plan[i + 1]
    BY <1>0, <2>1, TailFacts
  <2>4. zr'.block \in Block /\ zr'.block.type = zr.plan[1].type /\ zr'.block.step = zr.plan[1].step
    <3>1. \A b \in Block : \A n \in Nat : /\ [b EXCEPT !.n = n] \in Block
                                          /\ [b EXCEPT !.n = n].type = b.type
                                          /\ [b EXCEPT !.n = n].step = b.step
      BY DEF Block
    <3>2. zr.block.n + 1 \in Nat
      BY DEF TypeInv, RpmType, Block, NoBlock
    <3> QED  BY <2>1, <2>3, <3>1, <3>2
  <2>5. /\ \A i \in DOMAIN zr'.plan :
              i \in Nat /\ i + 1 \in DOMAIN zr.plan /\ zr'.plan[i] = zr.plan[i + 1]
        /\ 1 \in DOMAIN zr.plan /\ 1 \notin {i + 1 : i \in DOMAIN zr'.plan}
        /\ \A i \in DOMAIN zr'.plan : 1 < i + 1
        /\ zr'.plan # <<>> => Len(zr.plan) >= 2
    BY <2>3
  <2>6. PlanInv'
    <3>0. /\ \A i \in DOMAIN zr.plan : Package(zr.plan[i].type) =>
                zr.plan[i].step \in Fresh /\ Len(zr.plan) <= i + 1
          /\ \A i, j \in DOMAIN zr.plan : i < j =>
                /\ ~(Package(zr.plan[i].type) /\ Package(zr.plan[j].type))
                /\ zr.plan[i].type = "script" => zr.plan[i].step \in Fresh \cup {0}
      BY DEF WorkInv, PlanInv
    <3>1. ASSUME NEW i \in DOMAIN zr'.plan, Package(zr'.plan[i].type)
          PROVE  zr'.plan[i].step \in Fresh' /\ Len(zr'.plan) <= i + 1
      <4>1. i \in Nat /\ i + 1 \in DOMAIN zr.plan /\ zr'.plan[i] = zr.plan[i + 1]
        BY <2>5
      <4>2. zr.plan[i + 1].step \in Fresh /\ Len(zr.plan) <= (i + 1) + 1
        BY <3>0, <3>1, <4>1
      <4>3. Len(zr'.plan) <= i + 1
        BY <2>3, <4>1, <4>2
      <4> QED  BY <2>2, <4>1, <4>2, <4>3
    <3>2. ASSUME NEW i \in DOMAIN zr'.plan, NEW j \in DOMAIN zr'.plan, i < j
          PROVE  /\ ~(Package(zr'.plan[i].type) /\ Package(zr'.plan[j].type))
                 /\ zr'.plan[i].type = "script" => zr'.plan[i].step \in Fresh' \cup {0}
      <4>1. /\ i + 1 \in DOMAIN zr.plan /\ zr'.plan[i] = zr.plan[i + 1]
            /\ j + 1 \in DOMAIN zr.plan /\ zr'.plan[j] = zr.plan[j + 1]
            /\ i + 1 < j + 1
        BY <2>5, <3>2
      <4> QED  BY <2>2, <3>0, <4>1
    <3> QED  BY <3>1, <3>2 DEF PlanInv
  <2>7. BlockInv'
    <3>0. /\ Package(zr.plan[1].type) => zr.plan[1].step \in Fresh /\ Len(zr.plan) <= 2
          /\ \A j \in DOMAIN zr.plan : 1 < j =>
                /\ ~(Package(zr.plan[1].type) /\ Package(zr.plan[j].type))
                /\ zr.plan[1].type = "script" => zr.plan[1].step \in Fresh \cup {0}
      BY <2>5 DEF WorkInv, PlanInv
    <3>1. Package(zr'.block.type) =>
              /\ zr'.block.step \in Fresh' /\ Len(zr'.plan) <= 1
              /\ \A i \in DOMAIN zr'.plan : ~Package(zr'.plan[i].type)
      <4>1. Package(zr'.block.type) => zr'.block.step \in Fresh' /\ Len(zr.plan) <= 2
        BY <2>2, <2>4, <3>0
      <4>2. Len(zr.plan) <= 2 => Len(zr'.plan) <= 1
        BY <2>3
      <4>3. ASSUME Package(zr'.block.type), NEW i \in DOMAIN zr'.plan
            PROVE  ~Package(zr'.plan[i].type)
        BY <2>4, <2>5, <3>0, <4>3
      <4> QED  BY <4>1, <4>2, <4>3
    <3>2. zr'.block.type = "script" /\ zr'.plan # <<>> => zr'.block.step \in Fresh' \cup {0}
      <4>1. zr'.plan # <<>> => 2 \in DOMAIN zr.plan /\ 1 < 2
        BY <2>3, <2>5
      <4> QED  BY <2>2, <2>4, <3>0, <4>1
    <3> QED  BY <1>0, <2>1, <2>4, <3>1, <3>2 DEF BlockInv
  <2> QED  BY <2>2, <2>6, <2>7 DEF WorkInv
<1>2. CASE BlockTag
  <2>1. /\ zr'.plan = zr.plan /\ zr'.left = zr.left /\ zr'.source = zr.source /\ zr'.did = zr.did
        /\ zr'.block = zr.block /\ zr.at = "begun" /\ zr'.at = "tagged"
    BY <1>2, BlockEffects
  <2>2. LeftInv' /\ SourceInv' /\ Fresh' = Fresh
    BY <1>0, <2>1, NoDeed
  <2> QED  BY <1>0, <2>1, <2>2 DEF WorkInv, PlanInv, BlockInv
<1>3. CASE BlockStop
  <2>1. /\ zr.at = "tagged" /\ zr'.at = "idle" /\ zr'.block = zr.block
        /\ zr'.plan = zr.plan /\ zr'.left = zr.left /\ zr'.source = zr.source
        /\ zr'.did = IF Package(zr.block.type)
                     THEN [zr.did EXCEPT ![zr.block.step] = "done"] ELSE zr.did
    BY <1>0, <1>3, BlockEffects DEF GoesOn
  <2>2. BlockInv'
    BY <1>0, <2>1 DEF BlockInv
  <2>3. CASE Package(zr.block.type)
    <3>1. /\ zr.block.step \in Fresh /\ Len(zr.plan) <= 1
          /\ \A i \in DOMAIN zr.plan : ~Package(zr.plan[i].type)
      BY <2>1, <2>3 DEF WorkInv, BlockInv
    <3>2. LeftInv' /\ SourceInv'
      BY <1>0, <2>1, <2>3, <3>1, OneDeed
    <3>3. \A i, j \in DOMAIN zr.plan : ~(i < j)
      BY <1>0, <3>1
    <3>4. PlanInv'
      BY <2>1, <3>1, <3>3 DEF PlanInv
    <3> QED  BY <2>2, <3>2, <3>4 DEF WorkInv
  <2>4. CASE ~Package(zr.block.type)
    <3>1. LeftInv' /\ SourceInv' /\ Fresh' = Fresh
      BY <1>0, <2>1, <2>4, NoDeed
    <3> QED  BY <2>1, <2>2, <3>1 DEF WorkInv, PlanInv
  <2> QED  BY <2>3, <2>4
<1>4. CASE BlockFails
  <2>1. /\ zr.at = "tagged" /\ zr'.at = "error" /\ zr'.block = zr.block
        /\ Package(zr.block.type) \/ zr.block.type = "script"
        /\ IF Package(zr.block.type)
           THEN GoesOn(zr.left, SourceAfter(zr.block.step), <<>>, Failed(zr.did, zr.block.step))
           ELSE GoesOn(zr.left, zr.source, zr.plan, zr.did)
    BY <1>0, <1>4, BlockEffects
  <2>2. CASE Package(zr.block.type)
    <3>1. /\ zr'.plan = <<>> /\ zr'.left = zr.left /\ zr'.source \in {zr.source, <<>>}
          /\ zr'.did = [zr.did EXCEPT ![zr.block.step] = "failed"] /\ zr.block.step \in Fresh
      BY <2>1, <2>2, BlockFacts DEF GoesOn, SourceAfter, Failed
    <3>2. LeftInv' /\ SourceInv'
      BY <1>0, <3>1, OneDeed
    <3>3. PlanInv' /\ BlockInv'
      BY <1>0, <1>00, <2>1, <2>2, <3>1, BlockFacts DEF PlanInv, BlockInv
    <3> QED  BY <3>2, <3>3 DEF WorkInv
  <2>3. CASE ~Package(zr.block.type)
    <3>1. /\ zr'.plan = zr.plan /\ zr'.left = zr.left /\ zr'.source = zr.source
          /\ zr'.did = zr.did
      BY <2>1, <2>3 DEF GoesOn
    <3>2. LeftInv' /\ SourceInv' /\ Fresh' = Fresh
      BY <1>0, <3>1, NoDeed
    <3>3. PlanInv' /\ BlockInv'
      BY <1>0, <2>1, <2>3, <3>1, <3>2 DEF WorkInv, PlanInv, BlockInv
    <3> QED  BY <3>2, <3>3 DEF WorkInv
  <2> QED  BY <2>2, <2>3
<1>5. CASE BlockError
  <2>1. /\ zr.at = "error" /\ zr'.at = "idle" /\ zr'.block = zr.block
        /\ \/ GoesOn(zr.left, zr.source, zr.plan, zr.did)
           \/ /\ zr.block.type = "script" /\ zr.plan # <<>>
              /\ GoesOn(zr.left, SourceAfter(zr.block.step), <<>>, Failed(zr.did, zr.block.step))
    BY <1>0, <1>5, BlockEffects
  <2>2. BlockInv'
    BY <1>0, <2>1 DEF BlockInv
  <2>3. CASE GoesOn(zr.left, zr.source, zr.plan, zr.did)
    <3>1. /\ zr'.plan = zr.plan /\ zr'.left = zr.left /\ zr'.source = zr.source
          /\ zr'.did = zr.did
      BY <2>3 DEF GoesOn
    <3>2. LeftInv' /\ SourceInv' /\ Fresh' = Fresh
      BY <1>0, <3>1, NoDeed
    <3> QED  BY <2>2, <3>1, <3>2 DEF WorkInv, PlanInv
  <2>4. CASE /\ zr.block.type = "script" /\ zr.plan # <<>>
             /\ GoesOn(zr.left, SourceAfter(zr.block.step), <<>>, Failed(zr.did, zr.block.step))
    <3>1. /\ zr'.plan = <<>> /\ zr'.left = zr.left /\ zr'.source \in {zr.source, <<>>}
          /\ zr'.did = Failed(zr.did, zr.block.step)
          /\ zr.block.step \in Fresh \/ zr.block.step = 0
      BY <2>1, <2>4, BlockFacts DEF GoesOn, SourceAfter
    <3>2. LeftInv' /\ SourceInv'
      BY <1>0, <3>1, OneDeed DEF Failed
    <3>3. PlanInv'
      BY <1>00, <3>1 DEF PlanInv
    <3> QED  BY <2>2, <3>2, <3>3 DEF WorkInv
  <2> QED  BY <2>1, <2>3, <2>4
<1> QED
  BY <1>1, <1>2, <1>3, <1>4, <1>5 DEF BlocksStep

LEMMA WorkStep ==
    ASSUME TypeInv, PhaseInv, WorkInv, CommitNext
    PROVE  WorkInv'
BY StepGroups, LibraryKeepsWork, PlanStepWork, EndStepWork, BlocksStepWork

-----------------------------------------------------------------------------
(* The stream of messages.                                                    *)

\* What a handler does to the report: the message is about the running one.
LEMMA HandlerReports ==
    ASSUME TypeInv, StreamInv, HandlerStep
    PROVE  /\ Popped /\ Unread[1] = This /\ 1 \in DOMAIN Unread
           /\ \/ This.say = "TransactionError" /\ lz'.report = lz.report
              \/ This.say = "Begin" /\ lz'.report = This.block
              \/ /\ This.say = "Finished" /\ lz.report = This.block
                 /\ \/ lz'.report = This.block
                    \/ /\ lz'.report = NoBlock
                       /\ ~Package(This.block.type) /\ This.block.type # "script"
              \/ /\ This.say = "Error" /\ lz.report = This.block /\ lz'.report = NoBlock
<1>1. Popped /\ Unread[1] = This /\ 1 \in DOMAIN Unread
  <2>1. Popped
    BY QueueEffects
  <2> QED  BY <2>1 DEF Popped
<1>2. This.say \in {"Finished", "Error"} => lz.report = This.block
  BY <1>1 DEF StreamInv, PairInv, Paired, After
<1>3. CASE OnBegin
  BY <1>1, <1>3, HandlerEffects DEF Handled
<1>4. CASE OnPackageFinished \/ OnScriptFinished
  BY <1>1, <1>2, <1>4, HandlerEffects DEF Handled
<1>5. CASE OnPackageError
  BY <1>1, <1>2, <1>5, HandlerEffects DEF Handled
<1>6. CASE OnFinished
  BY <1>1, <1>2, <1>6, HandlerEffects DEF Handled, Package
<1>7. CASE OnScriptError
  BY <1>1, <1>2, <1>7, HandlerEffects DEF Handled
<1>8. CASE OnTransactionError
  BY <1>1, <1>8, HandlerEffects DEF Handled
<1> QED
  BY <1>3, <1>4, <1>5, <1>6, <1>7, <1>8 DEF HandlerStep

LEMMA PoppedStream ==
    ASSUME TypeInv, WorkInv, StreamInv, HandlerStep
    PROVE  StreamInv'
<1>1. /\ Popped /\ 1 \in DOMAIN Unread /\ UNCHANGED zr
      /\ Len(Unread) \in Nat \ {0} /\ DOMAIN Unread = 1..Len(Unread)
      /\ Len(Unread') = Len(Unread) - 1 /\ DOMAIN Unread' = 1..Len(Unread) - 1
      /\ \A i \in DOMAIN Unread' : Unread'[i] = Unread[i + 1]
      /\ NoBlock.n = 0
  BY HandlerReports, QueueEffects DEF Popped, NoBlock
<1>2. /\ \A i \in DOMAIN Unread' : i \in Nat \ {0} /\ i + 1 \in DOMAIN Unread /\ 1 < i + 1
      /\ \A i, j \in DOMAIN Unread' : i < j => i + 1 < j + 1
      /\ \A i \in DOMAIN Unread' : i # 1 => i - 1 \in DOMAIN Unread' /\ (i - 1) + 1 = i
      /\ \A i \in DOMAIN Unread' : i = Len(Unread') <=> i + 1 = Len(Unread)
  BY <1>1
<1>3. LastInv'
  BY <1>1, <1>2 DEF StreamInv, LastInv
<1>4. \/ lz'.report = Unread[1].block /\ Unread[1].say # "TransactionError"
      \/ lz'.report = NoBlock
      \/ Unread[1].say = "TransactionError" /\ lz'.report = lz.report
  BY HandlerReports
<1>5. NumberInv'
  <2>1. \A i, j \in DOMAIN Unread' : i < j /\ Unread'[j].say # "TransactionError" =>
          /\ Unread'[i].block.n <= Unread'[j].block.n
          /\ Unread'[j].say = "Begin" => Unread'[i].block.n < Unread'[j].block.n
    BY <1>1, <1>2 DEF StreamInv, NumberInv
  <2>2. lz'.report # NoBlock => lz'.report.n > 0
    BY <1>1, <1>4 DEF StreamInv, NumberInv
  <2>3. ASSUME NEW i \in DOMAIN Unread', Unread'[i].say # "TransactionError"
        PROVE  /\ Unread'[i].block \in Block /\ Unread'[i].block.n > 0
               /\ lz'.report.n <= Unread'[i].block.n
               /\ Unread'[i].say = "Begin" => lz'.report.n < Unread'[i].block.n
    <3>1. Unread'[i] = Unread[i + 1] /\ i + 1 \in DOMAIN Unread /\ 1 < i + 1 /\ 1 \in DOMAIN Unread
      BY <1>1, <1>2
    <3>2. Unread[i + 1].block \in Block /\ Unread[i + 1].block.n > 0
      BY <2>3, <3>1 DEF StreamInv, NumberInv
    <3>3. /\ Unread[1].block.n <= Unread[i + 1].block.n
          /\ Unread[i + 1].say = "Begin" => Unread[1].block.n < Unread[i + 1].block.n
      BY <2>3, <3>1 DEF StreamInv, NumberInv
    <3>4. Unread[1].say # "TransactionError"
      BY <1>1, <3>1 DEF StreamInv, LastInv
    <3>5. Unread[i + 1].block.n \in Nat
      BY <3>1, UnreadType
    <3> QED  BY <1>1, <1>4, <3>1, <3>2, <3>3, <3>4, <3>5
  <2> QED  BY <2>1, <2>2, <2>3 DEF NumberInv
<1>6. PairInv'
  <2> SUFFICES ASSUME NEW i \in DOMAIN Unread'
               PROVE  Paired(i)'
    BY DEF PairInv
  <2>1. /\ Unread'[i] = Unread[i + 1] /\ i + 1 \in DOMAIN Unread /\ i + 1 # 1 /\ (i + 1) - 1 = i
        /\ i # 1 => Unread'[i - 1] = Unread[i]
    BY <1>1, <1>2
  <2>2. /\ Unread[i + 1].say = "Finished" =>
              Unread[i].say = "Begin" /\ Unread[i].block = Unread[i + 1].block
        /\ Unread[i + 1].say = "Error" =>
              /\ Unread[i].say = "Finished" /\ Unread[i].block = Unread[i + 1].block
              /\ Package(Unread[i + 1].block.type) \/ Unread[i + 1].block.type = "script"
        /\ Unread[i + 1].say = "Begin" => Unread[i + 1].block.n = Unread[i].block.n + 1
    BY <2>1 DEF StreamInv, PairInv, Paired, After
  <2>3. CASE i # 1
    BY <2>1, <2>2, <2>3 DEF Paired, After
  <2>4. CASE i = 1
    <3>1. Unread[1].say # "TransactionError"
      BY <1>1, <2>1, <2>4 DEF StreamInv, LastInv
    <3>2. Unread[1] = This
      BY HandlerReports
    <3>3. This.say = "Begin" => lz'.report = This.block
      BY HandlerReports
    <3>4. /\ This.say = "Finished" /\ (Package(This.block.type) \/ This.block.type = "script") =>
                lz'.report = This.block
      BY HandlerReports
    <3>5. lz'.report \in {This.block, NoBlock}
      BY <3>1, <3>2, HandlerReports
    <3>6. /\ Unread[2].say = "Finished" => Unread[1].say = "Begin" /\ Unread[1].block = Unread[2].block
          /\ Unread[2].say = "Error" =>
                /\ Unread[1].say = "Finished" /\ Unread[1].block = Unread[2].block
                /\ Package(Unread[2].block.type) \/ Unread[2].block.type = "script"
          /\ Unread[2].say = "Begin" => Unread[2].block.n = Unread[1].block.n + 1
          /\ Unread'[1] = Unread[2]
      BY <2>1, <2>2, <2>4
    <3>7. Paired(1)'
      BY <3>2, <3>3, <3>4, <3>5, <3>6 DEF Paired, After
    <3> QED  BY <2>4, <3>7
  <2> QED  BY <2>3, <2>4
<1>7. NowInv'
  <2>0. Unread # <<>> /\ (Unread' = <<>> <=> Len(Unread) = 1)
    BY <1>1 DEF Popped
  <2>1. CASE zr.state = "runs" /\ Len(Unread) = 1
    <3>1. /\ Unread[1] = This /\ This.block.n = zr.block.n
          /\ zr.at # "idle" => This.block = zr.block
          /\ zr.at \in {"begun", "tagged"} => This.say = "Begin"
          /\ zr.at = "error" => This.say = "Finished"
      BY <1>1, <2>0, <2>1, HandlerReports DEF StreamInv, NowInv
    <3>2. /\ zr.at \in {"idle", "begun", "tagged", "error"}
          /\ zr.at = "error" => Package(zr.block.type) \/ zr.block.type = "script"
          /\ This.say # "TransactionError"
      BY <1>1, <2>1, <3>1 DEF TypeInv, RpmType, WorkInv, BlockInv, StreamInv, LastInv
    <3>3. lz'.report # NoBlock => lz'.report.n = zr.block.n
      BY <1>4, <3>1, <3>2
    <3>4. zr.at # "idle" => lz'.report = zr.block
      BY <3>1, <3>2, HandlerReports
    <3> QED  BY <1>1, <2>0, <2>1, <3>3, <3>4 DEF NowInv
  <2>2. CASE zr.state = "runs" /\ Len(Unread) # 1
    <3>1. Len(Unread') \in DOMAIN Unread' /\ Unread'[Len(Unread')] = Unread[Len(Unread)]
      BY <1>1, <2>2
    <3> QED  BY <1>1, <2>0, <2>2, <3>1 DEF StreamInv, NowInv
  <2>3. CASE zr.state # "runs"
    BY <1>1, <2>0, <2>3 DEF StreamInv, NowInv
  <2> QED  BY <2>1, <2>2, <2>3
<1> QED
  BY <1>3, <1>5, <1>6, <1>7 DEF StreamInv

\* What zypp-rpm says next.
Continues(m) ==
    \/ m.say = "Begin" /\ m.block.n = zr.block.n + 1
    \/ /\ m.say = "Finished" /\ m.block = zr.block /\ zr.at \in {"begun", "tagged"}
    \/ /\ m.say = "Error" /\ m.block = zr.block /\ zr.at = "error"
       /\ Package(m.block.type) \/ m.block.type = "script"

LEMMA LastBlock ==
    ASSUME TypeInv, StreamInv, zr.state = "runs"
    PROVE  /\ \A i \in DOMAIN Unread :
                 Unread[i].say # "TransactionError" /\ Unread[i].block.n <= zr.block.n
           /\ lz.report.n <= zr.block.n
           /\ zr.block.n \in Nat /\ lz.report.n \in Nat
<1>0. /\ Len(Unread) \in Nat /\ DOMAIN Unread = 1..Len(Unread)
      /\ Unread = <<>> <=> Len(Unread) = 0
      /\ \A i \in DOMAIN Unread : Unread[i].block.n \in Nat
  BY UnreadType
<1>1. zr.block.n \in Nat /\ lz.report.n \in Nat /\ zr.block \in Block \cup {NoBlock} /\ NoBlock.n = 0
  BY DEF TypeInv, RpmType, LibraryType, Block, NoBlock
<1>2. \A i \in DOMAIN Unread : Unread[i].say # "TransactionError"
  BY DEF StreamInv, LastInv
<1>3. CASE Unread = <<>>
  BY <1>0, <1>1, <1>3 DEF StreamInv, NowInv, NumberInv
<1>4. CASE Unread # <<>>
  <2>1. Len(Unread) \in DOMAIN Unread /\ Unread[Len(Unread)].block.n = zr.block.n
    BY <1>0, <1>4 DEF StreamInv, NowInv
  <2>2. ASSUME NEW i \in DOMAIN Unread
        PROVE  Unread[i].block.n <= zr.block.n
    <3>1. CASE i = Len(Unread)
      BY <1>1, <2>1, <3>1
    <3>2. CASE i < Len(Unread)
      BY <1>2, <2>1, <3>2 DEF StreamInv, NumberInv
    <3> QED  BY <1>0, <3>1, <3>2
  <2>3. lz.report.n <= zr.block.n
    BY <1>2, <2>1 DEF StreamInv, NumberInv
  <2> QED  BY <1>1, <1>2, <2>2, <2>3
<1> QED
  BY <1>3, <1>4

LEMMA PushedStream ==
    ASSUME TypeInv, StreamInv, NEW m, Pushed(m), UNCHANGED lz,
           zr.state = "runs", zr'.state = "runs",
           m.block \in Block, m.block.n \in Nat \ {0}, Continues(m),
           zr'.block = m.block, zr'.at \in {"begun", "tagged"} => m.say = "Begin",
           zr'.at = "error" => m.say = "Finished"
    PROVE  StreamInv'
<1>0. /\ Len(Unread) \in Nat /\ DOMAIN Unread = 1..Len(Unread)
      /\ Len(Unread') = Len(Unread) + 1 /\ DOMAIN Unread' = 1..Len(Unread) + 1
      /\ Unread'[Len(Unread) + 1] = m
      /\ \A i \in DOMAIN Unread : Unread'[i] = Unread[i]
      /\ Unread' # <<>> /\ (Unread = <<>> <=> Len(Unread) = 0)
  BY DEF Pushed
<1>1. /\ DOMAIN Unread' = DOMAIN Unread \cup {Len(Unread) + 1}
      /\ \A i \in DOMAIN Unread : i \in Nat \ {0} /\ i # Len(Unread) + 1 /\ ~(Len(Unread) + 1 < i)
      /\ ~(Len(Unread) + 1 < Len(Unread) + 1)
      /\ \A i \in DOMAIN Unread : i # 1 => i - 1 \in DOMAIN Unread
      /\ Unread # <<>> => /\ Len(Unread) \in DOMAIN Unread /\ Len(Unread) + 1 # 1
                          /\ (Len(Unread) + 1) - 1 = Len(Unread)
      /\ Unread = <<>> => Len(Unread) + 1 = 1
  BY <1>0
<1>2. /\ m.say \in {"Begin", "Finished", "Error"}
      /\ m.say = "Begin" => m.block.n = zr.block.n + 1
      /\ m.say # "Begin" => m.block.n = zr.block.n
  BY DEF Continues
<1>3. /\ \A i \in DOMAIN Unread : Unread[i].say # "TransactionError" /\ Unread[i].block.n <= zr.block.n
      /\ lz.report.n <= zr.block.n /\ zr.block.n \in Nat /\ lz.report.n \in Nat
      /\ \A i \in DOMAIN Unread : Unread[i].block.n \in Nat
  BY LastBlock, UnreadType
<1>4. LastInv'
  BY <1>0, <1>1, <1>2, <1>3 DEF LastInv
<1>5. NumberInv'
  <2> DEFINE last == Len(Unread) + 1
  <2> HIDE DEF last
  <2>1. /\ DOMAIN Unread' = DOMAIN Unread \cup {last} /\ Unread'[last] = m
        /\ \A i \in DOMAIN Unread : ~(last < i)
        /\ ~(last < last)
    BY <1>0, <1>1 DEF last
  <2>2. /\ \A i \in DOMAIN Unread : /\ Unread[i].block.n <= m.block.n
                                    /\ m.say = "Begin" => Unread[i].block.n < m.block.n
        /\ lz.report.n <= m.block.n /\ (m.say = "Begin" => lz.report.n < m.block.n)
        /\ m.block.n > 0
    BY <1>2, <1>3
  <2>3. lz'.report # NoBlock => lz'.report.n > 0
    BY DEF StreamInv, NumberInv
  <2>4. ASSUME NEW i \in DOMAIN Unread', Unread'[i].say # "TransactionError"
        PROVE  /\ Unread'[i].block \in Block /\ Unread'[i].block.n > 0
               /\ lz'.report.n <= Unread'[i].block.n
               /\ Unread'[i].say = "Begin" => lz'.report.n < Unread'[i].block.n
    <3>1. CASE i \in DOMAIN Unread
      BY <1>0, <2>4, <3>1 DEF StreamInv, NumberInv
    <3>2. CASE i = last
      BY <2>1, <2>2, <3>2
    <3> QED  BY <2>1, <3>1, <3>2
  <2>5. ASSUME NEW i \in DOMAIN Unread', NEW j \in DOMAIN Unread', i < j,
               Unread'[j].say # "TransactionError"
        PROVE  /\ Unread'[i].block.n <= Unread'[j].block.n
               /\ Unread'[j].say = "Begin" => Unread'[i].block.n < Unread'[j].block.n
    <3>1. CASE i \in DOMAIN Unread /\ j \in DOMAIN Unread
      BY <1>0, <2>5, <3>1 DEF StreamInv, NumberInv
    <3>2. CASE i \in DOMAIN Unread /\ j = last
      BY <1>0, <2>1, <2>2, <3>2
    <3>3. CASE i = last
      BY <2>1, <2>5, <3>3
    <3> QED  BY <2>1, <3>1, <3>2, <3>3
  <2> QED  BY <2>3, <2>4, <2>5 DEF NumberInv
<1>6. PairInv'
  <2> SUFFICES ASSUME NEW i \in DOMAIN Unread'
               PROVE  Paired(i)'
    BY DEF PairInv
  <2>1. CASE i \in DOMAIN Unread
    <3>1. Paired(i)
      BY <2>1 DEF StreamInv, PairInv
    <3>2. Unread'[i] = Unread[i] /\ (i # 1 => Unread'[i - 1] = Unread[i - 1])
      BY <1>0, <1>1, <2>1
    <3> QED  BY <3>1, <3>2 DEF Paired, After
  <2>2. CASE i = Len(Unread) + 1
    <3>1. Unread'[i] = m
      BY <1>0, <2>2
    <3>2. CASE Unread = <<>>
      <4>1. i = 1
        BY <1>1, <2>2, <3>2
      <4>2. /\ lz.report # NoBlock => lz.report.n = zr.block.n
            /\ zr.at # "idle" => lz.report = zr.block
        BY <3>2 DEF StreamInv, NowInv
      <4>3. zr.at = "idle" \/ lz'.report = zr.block
        BY <4>2
      <4> QED  BY <3>1, <4>1, <4>2, <4>3 DEF Paired, After, Continues
    <3>3. CASE Unread # <<>>
      <4>1. i # 1 /\ Unread'[i - 1] = Unread[Len(Unread)]
        BY <1>0, <1>1, <2>2, <3>3
      <4>2. /\ Unread[Len(Unread)].block.n = zr.block.n
            /\ zr.at # "idle" => Unread[Len(Unread)].block = zr.block
            /\ zr.at \in {"begun", "tagged"} => Unread[Len(Unread)].say = "Begin"
            /\ zr.at = "error" => Unread[Len(Unread)].say = "Finished"
        BY <3>3 DEF StreamInv, NowInv
      <4> QED  BY <3>1, <4>1, <4>2 DEF Paired, After, Continues
    <3> QED  BY <3>2, <3>3
  <2> QED  BY <1>1, <2>1, <2>2
<1>7. NowInv'
  BY <1>0 DEF NowInv
<1> QED
  BY <1>4, <1>5, <1>6, <1>7 DEF StreamInv

\* The stream stays as it is, or the last report is closed.
LEMMA SameStream ==
    ASSUME TypeInv, StreamInv, Unread' = Unread,
           \/ lz'.report = lz.report
           \/ lz'.report = NoBlock /\ Unread = <<>> /\ zr.state = "gone",
           zr.state = "gone" => zr'.state = "gone",
           \/ zr'.state = "gone"
           \/ /\ zr'.state = zr.state /\ zr'.block = zr.block
              /\ zr'.at \in {zr.at, "idle"} \/ (zr.at = "begun" /\ zr'.at = "tagged")
           \/ /\ zr.state \in {"none", "reads"} /\ Unread = <<>> /\ lz.report = NoBlock
              /\ zr'.at = "idle" /\ (zr'.block = NoBlock \/ zr'.state = "reads")
              /\ lz'.report = NoBlock
    PROVE  StreamInv'
<1>1. LastInv'
  BY DEF StreamInv, LastInv
<1>2. CASE lz'.report = lz.report
  <2>1. NumberInv' /\ PairInv'
    BY <1>2 DEF StreamInv, NumberInv, PairInv, Paired, After
  <2>2. NowInv'
    BY <1>2 DEF StreamInv, NowInv
  <2> QED  BY <1>1, <2>1, <2>2 DEF StreamInv
<1>3. CASE lz'.report = NoBlock /\ Unread = <<>> /\ zr.state = "gone"
  <2>1. DOMAIN Unread' = {}
    BY <1>3
  <2>2. NumberInv' /\ PairInv'
    BY <1>3, <2>1 DEF NumberInv, PairInv
  <2>3. NowInv'
    BY <1>3 DEF NowInv
  <2> QED  BY <1>1, <2>2, <2>3 DEF StreamInv
<1> QED
  BY <1>2, <1>3

\* The transaction error is the last message.
LEMMA LastWord ==
    ASSUME TypeInv, StreamInv, UNCHANGED lz, Pushed(TransactionError),
           zr.state \in {"reads", "runs"}, zr'.state = "gone"
    PROVE  StreamInv'
<1>0. /\ Len(Unread) \in Nat /\ DOMAIN Unread = 1..Len(Unread)
      /\ Len(Unread') = Len(Unread) + 1 /\ DOMAIN Unread' = 1..Len(Unread) + 1
      /\ Unread'[Len(Unread) + 1].say = "TransactionError"
      /\ \A i \in DOMAIN Unread : Unread'[i] = Unread[i]
  BY DEF Pushed, TransactionError
<1>1. /\ DOMAIN Unread' = DOMAIN Unread \cup {Len(Unread) + 1}
      /\ \A i \in DOMAIN Unread : i \in Nat \ {0} /\ i # Len(Unread) + 1 /\ ~(Len(Unread) + 1 < i)
      /\ \A i \in DOMAIN Unread : i # 1 => i - 1 \in DOMAIN Unread
  BY <1>0
<1>2. LastInv'
  BY <1>0, <1>1 DEF StreamInv, LastInv
<1>3. NumberInv'
  BY <1>0, <1>1 DEF StreamInv, NumberInv
<1>4. PairInv'
  <2> SUFFICES ASSUME NEW i \in DOMAIN Unread'
               PROVE  Paired(i)'
    BY DEF PairInv
  <2>1. CASE i \in DOMAIN Unread
    <3>1. Paired(i)
      BY <2>1 DEF StreamInv, PairInv
    <3>2. Unread'[i] = Unread[i] /\ (i # 1 => Unread'[i - 1] = Unread[i - 1])
      BY <1>0, <1>1, <2>1
    <3> QED  BY <3>1, <3>2 DEF Paired, After
  <2>2. CASE i = Len(Unread) + 1
    BY <1>0, <2>2 DEF Paired
  <2> QED  BY <1>1, <2>1, <2>2
<1>5. NowInv'
  BY DEF NowInv
<1> QED
  BY <1>2, <1>3, <1>4, <1>5 DEF StreamInv

LEMMA BlockNumber ==
    ASSUME TypeInv, WorkInv, StreamInv, zr.at # "idle"
    PROVE  zr.block \in Block /\ zr.block.n \in Nat \ {0}
<1>1. zr.state = "runs" /\ zr.block \in Block /\ zr.block.n \in Nat /\ zr.block # NoBlock
  BY BlockFacts DEF Block, BlockType, NoBlock
<1>2. CASE Unread = <<>>
  <2>1. lz.report = zr.block
    BY <1>1, <1>2 DEF StreamInv, NowInv
  <2> QED  BY <1>1, <2>1 DEF StreamInv, NumberInv
<1>3. CASE Unread # <<>>
  <2>1. /\ Unread[Len(Unread)].block = zr.block /\ Len(Unread) \in DOMAIN Unread
        /\ Unread[Len(Unread)].say # "TransactionError"
    BY <1>1, <1>3, UnreadType DEF StreamInv, NowInv, LastInv
  <2> QED  BY <1>1, <2>1 DEF StreamInv, NumberInv
<1> QED
  BY <1>2, <1>3

LEMMA StreamStep ==
    ASSUME TypeInv, PhaseInv, WorkInv, StreamInv, CommitNext
    PROVE  StreamInv'
<1>1. CASE FillStep
  <2>1. Unread' = Unread /\ UNCHANGED zr /\ lz'.report = lz.report
    BY <1>1, QueueEffects, FillEffects DEF FillsTo
  <2> QED  BY <2>1, SameStream
<1>2. CASE MoveStep
  <2>1. /\ Unread' = Unread /\ ZrStays /\ (zr'.state = zr.state \/ (StartRpm /\ zr'.state = "reads"))
    BY <1>2, QueueEffects, RpmKeeps
  <2>2. lz'.report = lz.report
    <3>1. \E phase, stage : Moves(phase, stage)
      BY <1>2, MoveEffects DEF MoveStep
    <3> QED  BY <3>1 DEF Moves
  <2>3. StartRpm => zr.state = "none"
    BY DEF StartRpm, Filled, TypeInv, RpmType
  <2>4. CASE zr'.state = zr.state
    BY <2>1, <2>2, <2>4, SameStream DEF ZrStays
  <2>5. CASE StartRpm /\ zr'.state = "reads"
    <3>1. Unread = <<>> /\ lz.report = NoBlock /\ zr.block = NoBlock /\ zr.at = "idle"
      BY <2>3, <2>5 DEF PhaseInv, WorkInv, BlockInv, TypeInv, RpmType
    <3> QED  BY <2>1, <2>2, <2>3, <2>5, <3>1, SameStream DEF ZrStays
  <2> QED  BY <2>1, <2>4, <2>5
<1>3. CASE HandlerStep
  BY <1>3, PoppedStream
<1>4. CASE ReadStep
  <2>1. Unread' = Unread /\ UNCHANGED zr
    BY <1>4, QueueEffects
  <2>2. CASE LastReport
    <3>1. lz'.report = NoBlock /\ Unread = <<>> /\ zr.state = "gone"
      BY <2>2, ReadEffects, UnreadType DEF PhaseInv
    <3> QED  BY <2>1, <3>1, SameStream
  <2>3. CASE ReadMessages \/ ReadScriptOutput
    <3>1. lz'.report = lz.report
      BY <2>3, ReadEffects
    <3> QED  BY <2>1, <3>1, SameStream
  <2> QED  BY <1>4, <2>2, <2>3 DEF ReadStep
<1>5. CASE EndStep
  <2>1. /\ UNCHANGED lz /\ (Unread' = Unread \/ Pushed(TransactionError))
        /\ zr'.state = "gone" /\ zr.state \in {"reads", "runs"}
    BY <1>5, QueueEffects, RpmKeeps
  <2>2. CASE Unread' = Unread
    BY <2>1, <2>2, SameStream
  <2>3. CASE Pushed(TransactionError)
    BY <2>1, <2>3, LastWord
  <2> QED  BY <2>1, <2>2, <2>3
<1>6. CASE PlanStep
  <2>1. /\ UNCHANGED lz /\ Unread' = Unread /\ SameBlock /\ zr'.state = "runs" /\ zr'.at = "idle"
    BY <1>6, QueueEffects, RpmKeeps, RpmPlanEffects DEF PlanStep, Ready, SameBlock, TypeInv, RpmType
  <2>2. CASE zr.state = "runs"
    BY <2>1, <2>2, SameStream DEF SameBlock
  <2>3. CASE zr.state = "reads"
    <3>1. Unread = <<>> /\ lz.report = NoBlock /\ zr.block = NoBlock
      BY <2>3 DEF StreamInv, NowInv, WorkInv, BlockInv
    <3> QED  BY <2>1, <2>3, <3>1, SameStream DEF SameBlock
  <2> QED  BY <1>6, <2>2, <2>3, RpmKeeps
<1>7. CASE BlockTag
  <2>1. /\ UNCHANGED lz /\ Unread' = Unread /\ zr'.state = zr.state /\ zr'.block = zr.block
        /\ zr.at = "begun" /\ zr'.at = "tagged" /\ zr.state = "runs"
    BY <1>7, QueueEffects, BlockEffects, RpmKeeps DEF BlocksStep
  <2> QED  BY <2>1, SameStream
<1>8. CASE BlockBegin
  <2>1. /\ UNCHANGED lz /\ zr.state = "runs" /\ zr'.state = "runs" /\ zr'.at = "begun"
        /\ zr'.block = [Head(zr.plan) EXCEPT !.n = zr.block.n + 1] /\ zr.plan # <<>>
        /\ Sends([say |-> "Begin", block |-> zr'.block, fatal |-> FALSE])
    BY <1>8, BlockEffects DEF GoesOn
  <2>2. zr'.block \in Block /\ zr'.block.n = zr.block.n + 1 /\ zr'.block.n \in Nat \ {0}
    <3>1. Head(zr.plan) \in Block /\ zr.block.n \in Nat
      <4>1. zr.plan \in Seq(Block) /\ zr.block \in Block \cup {NoBlock}
        BY DEF TypeInv, RpmType
      <4>2. Head(zr.plan) \in Block
        BY <2>1, <4>1
      <4> QED  BY <4>1, <4>2 DEF Block, NoBlock
    <3>2. \A b \in Block : \A n \in Nat :
              [b EXCEPT !.n = n] \in Block /\ [b EXCEPT !.n = n].n = n
      BY DEF Block
    <3>3. zr.block.n + 1 \in Nat \ {0}
      BY <3>1
    <3> QED  BY <2>1, <3>1, <3>2, <3>3
  <2> DEFINE m == [say |-> "Begin", block |-> zr'.block, fatal |-> FALSE]
  <2>3. Pushed(m)
    BY <2>1, PushedQueue
  <2>4. m.say = "Begin" /\ m.block = zr'.block
    OBVIOUS
  <2> HIDE DEF m
  <2>5. Continues(m)
    BY <2>2, <2>4 DEF Continues
  <2> QED  BY <2>1, <2>2, <2>3, <2>4, <2>5, PushedStream
<1>9. CASE BlockStop \/ BlockFails \/ BlockError
  <2>0. BlocksStep
    BY <1>9 DEF BlocksStep
  <2>1. zr.state = "runs" /\ zr'.state = "runs" /\ UNCHANGED lz
    BY <2>0, RpmKeeps
  <2>2. PICK say \in {"Finished", "Error"}, fatal \in BOOLEAN :
            /\ Sends(Says(say, fatal)) /\ zr'.block = zr.block
            /\ zr'.at \in {"idle", "error"} /\ (zr'.at = "error" => say = "Finished")
            /\ zr.at = IF say = "Finished" THEN "tagged" ELSE "error"
    <3>1. CASE BlockStop
      BY <2>1, <3>1, BlockEffects
    <3>2. CASE BlockFails
      BY <2>1, <3>2, BlockEffects
    <3>3. CASE BlockError
      BY <2>1, <3>3, BlockEffects
    <3> QED  BY <1>9, <3>1, <3>2, <3>3
  <2> DEFINE m == Says(say, fatal)
  <2>3. m.say = say /\ m.block = zr.block
    BY DEF Says
  <2>4. Pushed(m)
    BY <2>1, <2>2, PushedQueue
  <2> HIDE DEF m
  <2>5. zr.block \in Block /\ zr.block.n \in Nat \ {0}
    BY <2>2, BlockNumber
  <2>6. Continues(m)
    BY <2>2, <2>3 DEF Continues, WorkInv, BlockInv
  <2> QED  BY <2>1, <2>2, <2>3, <2>4, <2>5, <2>6, PushedStream
<1> QED
  BY <1>1, <1>2, <1>3, <1>4, <1>5, <1>6, <1>7, <1>8, <1>9, StepGroups DEF BlocksStep

-----------------------------------------------------------------------------
(* The end tags.                                                              *)

LEMMA TagsKept ==
    ASSUME TypeInv, TagInv, TagsStay \/ TagIsRead
    PROVE  /\ Sent' = Sent /\ Sent \in Nat /\ lz.seen \in Nat
           /\ \A i \in DOMAIN pipes'.tags : pipes'.tags[i] = lz'.seen + i
           /\ TagIsRead => lz'.seen = lz.seen + 1
<1>0. lz.seen \in Nat /\ pipes.tags \in Seq(Nat) /\ Len(pipes.tags) \in Nat
  BY DEF TypeInv, LibraryType, PipeType
<1>1. CASE TagsStay
  BY <1>0, <1>1 DEF TagsStay, Sent, TagInv, SentInv, TagIsRead
<1>2. CASE TagIsRead
  <2>1. /\ lz'.seen = Head(pipes.tags) /\ pipes'.tags = Tail(pipes.tags) /\ pipes.tags # <<>>
    BY <1>2 DEF TagIsRead
  <2>2. /\ Len(pipes.tags) \in Nat \ {0} /\ DOMAIN pipes.tags = 1..Len(pipes.tags)
        /\ DOMAIN pipes'.tags = 1..Len(pipes.tags) - 1 /\ Len(pipes'.tags) = Len(pipes.tags) - 1
        /\ Head(pipes.tags) = pipes.tags[1]
        /\ \A i \in DOMAIN pipes'.tags : i + 1 \in DOMAIN pipes.tags /\ pipes'.tags[i] = pipes.tags[i + 1]
    BY <1>0, <2>1, TailFacts
  <2>3. \A i \in DOMAIN pipes.tags : pipes.tags[i] = lz.seen + i
    BY DEF TagInv, SentInv
  <2>4. lz'.seen = lz.seen + 1
    BY <2>1, <2>2, <2>3
  <2>5. Sent' = Sent /\ Sent \in Nat
    <3>1. \A a \in Nat, n \in Nat \ {0} : (a + 1) + (n - 1) = a + n /\ a + n \in Nat
      OBVIOUS
    <3>2. Sent = lz.seen + Len(pipes.tags) /\ Sent' = (lz.seen + 1) + (Len(pipes.tags) - 1)
      BY <2>2, <2>4 DEF Sent
    <3> QED  BY <1>0, <2>2, <3>1, <3>2
  <2>6. ASSUME NEW i \in DOMAIN pipes'.tags
        PROVE  pipes'.tags[i] = lz'.seen + i
    <3>1. i \in Nat /\ i + 1 \in DOMAIN pipes.tags /\ pipes'.tags[i] = pipes.tags[i + 1]
      BY <2>2
    <3>2. pipes.tags[i + 1] = lz.seen + (i + 1)
      BY <2>3, <3>1
    <3>3. \A a, b \in Nat : a + (b + 1) = (a + 1) + b
      OBVIOUS
    <3> QED  BY <1>0, <2>4, <3>1, <3>2, <3>3
  <2> QED  BY <1>0, <2>4, <2>5, <2>6
<1> QED
  BY <1>1, <1>2

\* A report that ends has seen its own tag.
LEMMA EndIsSeen ==
    ASSUME TypeInv, TagInv, TagsOfEnd, lz.report # NoBlock, ~lz.early, Sent >= lz.report.n
    PROVE  lz'.seen = lz.report.n
<1>0. /\ lz.seen \in Nat /\ pipes.tags \in Seq(Nat) /\ lz.report.n \in Nat
      /\ (pipes.tags = <<>> => Len(pipes.tags) = 0)
  BY DEF TypeInv, LibraryType, PipeType, Block, NoBlock
<1>1. lz.seen = IF lz.gotEnd THEN lz.report.n ELSE lz.report.n - 1
  BY DEF TagInv, SeenInv
<1>2. CASE lz.gotEnd
  BY <1>1, <1>2 DEF TagsOfEnd, TagsStay
<1>3. CASE ~lz.gotEnd
  <2>1. pipes.tags # <<>>
    BY <1>0, <1>1, <1>3 DEF Sent
  <2>2. TagIsRead
    BY <1>3, <2>1 DEF TagsOfEnd
  <2> QED  BY <1>0, <1>1, <1>3, <2>2, TagsKept
<1> QED
  BY <1>2, <1>3

LEMMA PoppedTags ==
    ASSUME TypeInv, WorkInv, StreamInv, TagInv, HandlerStep
    PROVE  TagInv'
<1>1. /\ UNCHANGED zr /\ Unread[1] = This /\ 1 \in DOMAIN Unread
      /\ Len(Unread) \in Nat \ {0} /\ DOMAIN Unread = 1..Len(Unread)
      /\ Len(Unread') = Len(Unread) - 1 /\ DOMAIN Unread' = 1..Len(Unread) - 1
      /\ \A i \in DOMAIN Unread' : Unread'[i] = Unread[i + 1]
      /\ Unread # <<>> /\ (Unread' = <<>> <=> Len(Unread) = 1)
  BY HandlerReports, QueueEffects DEF Popped
<1>2. /\ \A i \in DOMAIN Unread' : i + 1 \in DOMAIN Unread
      /\ Unread' # <<>> => 1 \in DOMAIN Unread' /\ 2 \in DOMAIN Unread /\ Unread'[1] = Unread[2]
  BY <1>1
<1>3. TagsStay \/ TagIsRead
  BY HandlerEffects DEF HandlerStep, TagsOfEnd
<1>4. SentInv'
  <2>1. zr.state = "reads" => Unread = <<>>
    BY DEF StreamInv, NowInv
  <2> QED  BY <1>1, <1>3, <2>1, TagsKept DEF TagInv, SentInv
<1>5. SaidInv'
  BY <1>1, <1>2, <1>3, TagsKept DEF TagInv, SaidInv
<1>6. SeenInv'
  <2>0. /\ lz'.early \/ ~lz'.early
        /\ lz.seen \in Nat /\ lz.report.n \in Nat
    BY DEF TypeInv, LibraryType, Block, NoBlock
  <2>1. SUFFICES ASSUME ~lz'.early
        PROVE  /\ lz'.report # NoBlock =>
                     lz'.seen = IF lz'.gotEnd THEN lz'.report.n ELSE lz'.report.n - 1
               /\ lz'.report = NoBlock =>
                     IF Unread' = <<>> THEN zr.state = "runs" => zr.block.n = lz'.seen
                     ELSE Unread'[1].say = "Begin" => Unread'[1].block.n = lz'.seen + 1
    BY <1>1 DEF SeenInv
  <2>2. ~lz.early
    BY <1>3, <2>1 DEF TagsStay, TagIsRead
  <2>3. /\ lz.report # NoBlock => lz.seen = IF lz.gotEnd THEN lz.report.n ELSE lz.report.n - 1
        /\ lz.report = NoBlock /\ This.say = "Begin" => This.block.n = lz.seen + 1
    BY <1>1, <2>2 DEF TagInv, SeenInv
  <2>4. /\ This.say = "Begin" /\ lz.report # NoBlock => This.block.n = lz.report.n + 1
        /\ This.say \in {"Finished", "Error"} => lz.report = This.block /\ Sent >= This.block.n
        /\ This.say = "Begin" => Sent >= This.block.n - 1
    BY <1>1, HandlerReports DEF StreamInv, PairInv, Paired, TagInv, SaidInv
  <2>5. This.say # "TransactionError" => This.block.n \in Nat /\ This.block # NoBlock
    <3>1. This.say # "TransactionError" => This.block \in Block
      BY <1>1 DEF StreamInv, NumberInv
    <3> QED  BY <3>1 DEF Block, BlockType, NoBlock
  <2>6. CASE OnBegin
    <3>1. This.say = "Begin" /\ lz'.report = This.block /\ lz'.gotEnd = FALSE /\ TagsOfEnd
      BY <2>6, HandlerEffects DEF Handled
    <3>2. lz'.seen = This.block.n - 1
      <4>1. CASE lz.report = NoBlock
        BY <2>0, <2>3, <2>5, <3>1, <4>1 DEF TagsOfEnd, TagsStay
      <4>2. CASE lz.report # NoBlock
        BY <2>0, <2>2, <2>4, <2>5, <3>1, <4>2, EndIsSeen
      <4> QED  BY <4>1, <4>2
    <3> QED  BY <2>5, <3>1, <3>2
  <2>7. CASE OnPackageFinished \/ OnScriptFinished
    <3>1. This.say = "Finished" /\ lz'.report = lz.report /\ lz'.gotEnd = lz.gotEnd /\ lz'.seen = lz.seen
      BY <2>7, HandlerEffects DEF Handled, TagsStay
    <3> QED  BY <2>3, <2>4, <2>5, <3>1
  <2>8. CASE OnPackageError \/ OnFinished \/ OnScriptError
    <3>1. /\ This.say \in {"Finished", "Error"} /\ lz'.report = NoBlock /\ TagsOfEnd
      <4>1. CASE OnPackageError \/ OnFinished
        BY <4>1, HandlerEffects DEF Handled
      <4>2. CASE OnScriptError
        <5>1. /\ This.say = "Error" /\ This.block.type = "script"
              /\ lz.report.type = "script" => TagsOfEnd
          BY <4>2, HandlerEffects
        <5>2. lz.report = This.block
          BY <2>4, <5>1
        <5>3. lz'.report = NoBlock
          BY <4>2, <5>1, <5>2, HandlerEffects DEF Handled
        <5> QED  BY <5>1, <5>2, <5>3
      <4> QED  BY <2>8, <4>1, <4>2
    <3>2. lz'.seen = This.block.n
      BY <2>2, <2>4, <2>5, <3>1, EndIsSeen
    <3>3. Unread' = <<>> /\ zr.state = "runs" => zr.block.n = This.block.n
      BY <1>1 DEF StreamInv, NowInv
    <3>4. Unread' # <<>> /\ Unread'[1].say = "Begin" => Unread'[1].block.n = This.block.n + 1
      <4>1. ASSUME Unread' # <<>>, Unread'[1].say = "Begin"
            PROVE  Unread'[1].block.n = This.block.n + 1
        <5>1. 2 \in DOMAIN Unread /\ Unread'[1] = Unread[2]
          BY <1>2, <4>1
        <5>2. Paired(2)
          BY <5>1 DEF StreamInv, PairInv
        <5>3. Unread[2].block.n = Unread[1].block.n + 1
          BY <4>1, <5>1, <5>2 DEF Paired
        <5> QED  BY <1>1, <5>1, <5>3
      <4> QED  BY <4>1
    <3> QED  BY <3>1, <3>2, <3>3, <3>4
  <2>9. CASE OnTransactionError
    <3>1. /\ This.say = "TransactionError" /\ lz'.report = lz.report /\ lz'.gotEnd = lz.gotEnd
          /\ lz'.seen = lz.seen
      BY <2>9, HandlerEffects DEF Handled, TagsStay
    <3>2. Unread' = <<>> /\ zr.state = "gone"
      BY <1>1, <3>1 DEF StreamInv, LastInv
    <3> QED  BY <2>3, <3>1, <3>2
  <2> QED  BY <2>6, <2>7, <2>8, <2>9 DEF HandlerStep
<1> QED
  BY <1>4, <1>5, <1>6 DEF TagInv

\* Messages and tags may be added; libzypp stays as it is.
LEMMA RpmTags ==
    ASSUME TypeInv, PhaseInv, WorkInv, StreamInv, TagInv, CommitNext, EndStep \/ PlanStep \/ BlocksStep
    PROVE  TagInv'
<1>0. /\ UNCHANGED lz /\ Sent \in Nat /\ lz.seen \in Nat /\ zr.block.n \in Nat
      /\ pipes.tags \in Seq(Nat) /\ NoBlock.n = 0 /\ zr.state \in {"reads", "runs"}
  <2>1. UNCHANGED lz /\ zr.state \in {"reads", "runs"}
    BY RpmKeeps
  <2>2. lz.seen \in Nat /\ pipes.tags \in Seq(Nat) /\ zr.block.n \in Nat
    BY DEF TypeInv, LibraryType, RpmType, PipeType, Block, NoBlock
  <2> QED  BY <2>1, <2>2 DEF Sent, NoBlock
<1>1. ASSUME NEW m, Pushed(m), pipes'.tags = pipes.tags,
             m.say \in {"Finished", "Error"} => Sent >= m.block.n,
             m.say = "Begin" => Sent >= m.block.n - 1
      PROVE  SaidInv' /\ Sent' = Sent
  <2>1. Sent' = Sent
    BY <1>0, <1>1 DEF Sent
  <2>2. /\ DOMAIN Unread = 1..Len(Unread) /\ Len(Unread) \in Nat /\ DOMAIN Unread' = 1..Len(Unread) + 1
        /\ Unread'[Len(Unread) + 1] = m /\ \A i \in DOMAIN Unread : Unread'[i] = Unread[i]
    BY <1>1 DEF Pushed
  <2>3. DOMAIN Unread' = DOMAIN Unread \cup {Len(Unread) + 1}
    BY <2>2
  <2> DEFINE last == Len(Unread) + 1
  <2> HIDE DEF last
  <2>4. DOMAIN Unread' = DOMAIN Unread \cup {last} /\ Unread'[last] = m
    BY <2>2, <2>3 DEF last
  <2>5. SaidInv'
    BY <1>1, <2>1, <2>2, <2>4 DEF TagInv, SaidInv
  <2> QED  BY <2>1, <2>5
<1>2. ASSUME NEW m, Pushed(m),
             ~lz.early /\ lz.report = NoBlock /\ Unread = <<>> /\ m.say = "Begin" =>
                 m.block.n = lz.seen + 1
      PROVE  SeenInv'
  <2>1. /\ Unread' # <<>>
        /\ Unread = <<>> => Unread'[1] = m
        /\ Unread # <<>> => Unread'[1] = Unread[1]
    <3>1. /\ DOMAIN Unread = 1..Len(Unread) /\ Len(Unread) \in Nat
          /\ Unread'[Len(Unread) + 1] = m /\ \A i \in DOMAIN Unread : Unread'[i] = Unread[i]
          /\ Unread' # <<>> /\ (Unread = <<>> <=> Len(Unread) = 0)
      BY <1>2 DEF Pushed
    <3>2. Unread # <<>> => 1 \in DOMAIN Unread
      BY <3>1
    <3>3. Unread = <<>> => Len(Unread) + 1 = 1
      BY <3>1
    <3> QED  BY <3>1, <3>2, <3>3
  <2> QED  BY <1>0, <1>2, <2>1 DEF TagInv, SeenInv
<1>3. CASE EndStep
  <2>1. pipes'.tags = pipes.tags /\ zr'.state = "gone"
    BY <1>3, RpmEndsEffects DEF EndStep, GoneWith, Sends
  <2>2. SentInv'
    BY <1>0, <2>1 DEF TagInv, SentInv
  <2>3. CASE Unread' = Unread
    <3>1. SaidInv' /\ SeenInv'
      BY <1>0, <2>1, <2>3 DEF TagInv, SaidInv, SeenInv, Sent
    <3> QED  BY <2>2, <3>1 DEF TagInv
  <2>4. CASE Pushed(TransactionError)
    <3>1. SaidInv'
      BY <1>1, <2>1, <2>4 DEF TransactionError
    <3>2. SeenInv'
      BY <1>2, <2>4 DEF TransactionError
    <3> QED  BY <2>2, <3>1, <3>2 DEF TagInv
  <2> QED  BY <1>3, <2>3, <2>4, QueueEffects
<1>4. CASE PlanStep
  <2>1. /\ Unread' = Unread /\ UNCHANGED pipes /\ SameBlock /\ zr'.state = "runs" /\ zr.at = "idle"
    BY <1>4, QueueEffects, RpmKeeps, RpmPlanEffects DEF PlanStep, Ready, TypeInv, RpmType
  <2>2. zr.state = "reads" =>
            /\ Sent = 0 /\ lz.seen = 0 /\ zr.block = NoBlock /\ Unread = <<>> /\ lz.report = NoBlock
    BY DEF TagInv, SentInv, WorkInv, BlockInv, StreamInv, NowInv
  <2>3. Sent' = Sent
    BY <1>0, <2>1 DEF Sent
  <2>4. SentInv'
    BY <1>0, <2>1, <2>2, <2>3 DEF TagInv, SentInv, SameBlock
  <2>5. SaidInv'
    BY <1>0, <2>1, <2>3 DEF TagInv, SaidInv
  <2>6. SeenInv'
    BY <1>0, <2>1, <2>2 DEF TagInv, SeenInv, SameBlock
  <2> QED  BY <2>4, <2>5, <2>6 DEF TagInv
<1>5. CASE BlockBegin
  <2>1. /\ zr.state = "runs" /\ zr'.state = "runs" /\ zr.at = "idle" /\ zr'.at = "begun"
        /\ zr'.block = [Head(zr.plan) EXCEPT !.n = zr.block.n + 1] /\ zr.plan # <<>>
        /\ Sends([say |-> "Begin", block |-> zr'.block, fatal |-> FALSE])
    BY <1>5, BlockEffects DEF GoesOn
  <2>2. zr'.block.n = zr.block.n + 1
    <3>1. zr.plan \in Seq(Block)
      BY DEF TypeInv, RpmType
    <3>2. Head(zr.plan) \in Block
      BY <2>1, <3>1
    <3>3. \A b \in Block : \A n : [b EXCEPT !.n = n].n = n
      BY DEF Block
    <3> QED  BY <2>1, <3>2, <3>3
  <2> DEFINE m == [say |-> "Begin", block |-> zr'.block, fatal |-> FALSE]
  <2>3. Pushed(m) /\ pipes'.tags = pipes.tags
    BY <1>0, <2>1, PushedQueue DEF Sends
  <2>4. m.say = "Begin" /\ m.block = zr'.block
    OBVIOUS
  <2> HIDE DEF m
  <2>5. Sent = zr.block.n
    BY <2>1 DEF TagInv, SentInv
  <2>6. SaidInv' /\ Sent' = Sent
    BY <1>0, <1>1, <2>2, <2>3, <2>4, <2>5
  <2>7. SentInv'
    BY <1>0, <2>1, <2>2, <2>3, <2>5, <2>6 DEF TagInv, SentInv
  <2>8. SeenInv'
    <3>1. ~lz.early /\ lz.report = NoBlock /\ Unread = <<>> => zr.block.n = lz.seen
      BY <2>1 DEF TagInv, SeenInv
    <3> QED  BY <1>2, <2>2, <2>3, <2>4, <3>1
  <2> QED  BY <2>6, <2>7, <2>8 DEF TagInv
<1>6. CASE BlockTag
  <2>1. /\ zr.at = "begun" /\ zr'.at = "tagged" /\ zr'.state = zr.state /\ zr'.block = zr.block
        /\ pipes'.tags = Append(pipes.tags, zr.block.n) /\ Unread' = Unread /\ zr.state = "runs"
    BY <1>6, BlockEffects, QueueEffects, RpmKeeps DEF BlocksStep
  <2>2. /\ Len(pipes'.tags) = Len(pipes.tags) + 1 /\ Len(pipes.tags) \in Nat
        /\ DOMAIN pipes'.tags = DOMAIN pipes.tags \cup {Len(pipes.tags) + 1}
        /\ pipes'.tags[Len(pipes.tags) + 1] = zr.block.n
        /\ \A i \in DOMAIN pipes.tags : pipes'.tags[i] = pipes.tags[i]
    BY <1>0, <2>1
  <2>3. Sent' = Sent + 1 /\ Sent + 1 = zr.block.n /\ lz.seen + (Len(pipes.tags) + 1) = zr.block.n
    <3>1. Sent = zr.block.n - 1
      BY <2>1 DEF TagInv, SentInv
    <3>2. \A a, b, c \in Nat : a + b = c - 1 => a + b + 1 = c /\ a + (b + 1) = c
      OBVIOUS
    <3>3. Sent = lz.seen + Len(pipes.tags) /\ (Sent)' = lz.seen + (Len(pipes.tags) + 1)
      BY <1>0, <2>2 DEF Sent
    <3> QED  BY <1>0, <2>2, <3>1, <3>2, <3>3
  <2>4. SentInv'
    <3>1. \A i \in DOMAIN pipes'.tags : pipes'.tags[i] = lz.seen + i
      BY <2>2, <2>3 DEF TagInv, SentInv
    <3> QED  BY <1>0, <2>1, <2>3, <3>1 DEF SentInv
  <2>5. SaidInv'
    <3>1. \A i \in DOMAIN Unread : Unread[i].block.n \in Nat
      BY UnreadType
    <3> QED  BY <1>0, <2>1, <2>3, <3>1 DEF TagInv, SaidInv
  <2>6. SeenInv'
    BY <1>0, <2>1 DEF TagInv, SeenInv
  <2> QED  BY <2>4, <2>5, <2>6 DEF TagInv
<1>7. CASE BlockStop \/ BlockFails \/ BlockError
  <2>0. zr.state = "runs" /\ zr'.state = "runs"
    BY <1>7, RpmKeeps DEF BlocksStep
  <2>1. PICK say \in {"Finished", "Error"}, fatal \in BOOLEAN :
            /\ Sends(Says(say, fatal)) /\ zr'.block = zr.block
            /\ zr'.at \in {"idle", "error"} /\ zr.at \in {"tagged", "error"}
    BY <1>7, <2>0, BlockEffects
  <2> DEFINE m == Says(say, fatal)
  <2>2. m.say = say /\ m.block = zr.block
    BY DEF Says
  <2>3. Pushed(m) /\ pipes'.tags = pipes.tags
    BY <1>0, <2>1, PushedQueue DEF Sends
  <2> HIDE DEF m
  <2>4. Sent = zr.block.n
    BY <2>0, <2>1 DEF TagInv, SentInv
  <2>5. SaidInv' /\ Sent' = Sent
    BY <1>0, <1>1, <2>1, <2>2, <2>3, <2>4
  <2>6. SentInv'
    BY <1>0, <2>0, <2>1, <2>3, <2>4, <2>5 DEF TagInv, SentInv
  <2>7. SeenInv'
    BY <1>2, <2>1, <2>2, <2>3
  <2> QED  BY <2>5, <2>6, <2>7 DEF TagInv
<1> QED
  BY <1>3, <1>4, <1>5, <1>6, <1>7 DEF BlocksStep

LEMMA TagStep ==
    ASSUME TypeInv, PhaseInv, WorkInv, StreamInv, TagInv, CommitNext
    PROVE  TagInv'
<1>1. CASE FillStep \/ MoveStep
  <2>1. /\ Unread' = Unread /\ UNCHANGED pipes /\ lz'.report = lz.report /\ lz'.seen = lz.seen
        /\ lz'.early = lz.early /\ lz'.gotEnd = lz.gotEnd
    <3>1. CASE FillStep
      BY <3>1, QueueEffects, FillEffects DEF FillsTo
    <3>2. CASE MoveStep
      <4>1. \E phase, stage : Moves(phase, stage)
        BY <3>2, MoveEffects DEF MoveStep
      <4> QED  BY <3>2, <4>1, QueueEffects DEF Moves
    <3> QED  BY <1>1, <3>1, <3>2
  <2>2. /\ zr'.block = zr.block /\ zr'.at = zr.at
        /\ zr'.state = zr.state \/ (zr.state = "none" /\ zr'.state = "reads")
    BY <1>1, QueueEffects, RpmKeeps DEF ZrStays, StartRpm, Filled, TypeInv, RpmType
  <2>3. Sent' = Sent /\ (zr.state = "none" => Sent = 0 /\ lz.seen = 0)
    <3>1. zr.state = "none" => lz.seen = 0 /\ pipes.tags = <<>>
      BY DEF PhaseInv
    <3> QED  BY <2>1, <3>1 DEF Sent
  <2> QED  BY <2>1, <2>2, <2>3 DEF TagInv, SentInv, SaidInv, SeenInv
<1>2. CASE HandlerStep
  BY <1>2, PoppedTags
<1>3. CASE ReadStep
  <2>1. /\ Unread' = Unread /\ UNCHANGED zr /\ (TagsStay \/ TagIsRead)
    BY <1>3, QueueEffects, ReadEffects DEF ReadStep, TagsOfEnd
  <2>2. SentInv'
    <3>1. TagIsRead => Sent > 0
      BY TagsKept DEF TagIsRead, TypeInv, LibraryType, PipeType, Sent
    <3> QED  BY <2>1, <3>1, TagsKept DEF TagInv, SentInv, TagsStay
  <2>3. SaidInv'
    BY <2>1, TagsKept DEF TagInv, SaidInv
  <2>4. SeenInv'
    <3>1. CASE ReadMessages
      BY <2>1, <3>1, ReadEffects DEF TagInv, SeenInv, TagsStay
    <3>2. CASE ReadScriptOutput
      <4>1. /\ lz'.report = lz.report /\ lz'.gotEnd = TRUE /\ TagIsRead
            /\ ~lz.gotEnd /\ lz'.early = (lz.early \/ lz.report = NoBlock) /\ lz'.seen = lz.seen + 1
        BY <3>2, ReadEffects, TagsKept DEF TagIsRead
      <4>2. lz.seen \in Nat /\ lz.report.n \in Nat
        BY DEF TypeInv, LibraryType, Block, NoBlock
      <4>3. CASE lz.early \/ lz.report = NoBlock
        BY <4>1, <4>3 DEF SeenInv
      <4>4. CASE ~lz.early /\ lz.report # NoBlock
        <5>1. lz.seen = lz.report.n - 1
          BY <4>1, <4>4 DEF TagInv, SeenInv
        <5>2. lz'.seen = lz'.report.n /\ lz'.report # NoBlock
          BY <4>1, <4>2, <4>4, <5>1
        <5> QED  BY <4>1, <5>2 DEF SeenInv
      <4> QED  BY <4>3, <4>4
    <3>3. CASE LastReport
      <4>1. lz'.report = NoBlock /\ Unread' = <<>> /\ zr'.state = "gone"
        BY <2>1, <3>3, ReadEffects, UnreadType DEF PhaseInv
      <4> QED  BY <4>1 DEF SeenInv
    <3> QED  BY <1>3, <3>1, <3>2, <3>3 DEF ReadStep
  <2> QED  BY <2>2, <2>3, <2>4 DEF TagInv
<1> QED
  BY <1>1, <1>2, <1>3, RpmTags, StepGroups

-----------------------------------------------------------------------------
(* The first theorem about both pipes.                                        *)

OrderInv == TypeInv /\ PhaseInv /\ WorkInv /\ StreamInv /\ TagInv

LEMMA OrderInit ==
    ASSUME CommitInit
    PROVE  OrderInv
<1>1. /\ lz.phase = "fill" /\ lz.next = 1 /\ lz.todo = <<>> /\ lz.report = NoBlock /\ lz.seen = 0
      /\ lz.gotEnd = FALSE /\ lz.inbox = <<>>
      /\ zr.state = "none" /\ zr.left = <<>> /\ zr.source = <<>> /\ zr.plan = <<>>
      /\ zr.block = NoBlock /\ zr.at = "idle" /\ zr.did = [s \in Steps |-> "untouched"]
      /\ zr.code = "none" /\ pipes.msgs = <<>> /\ pipes.tags = <<>>
  BY DEF CommitInit, Steps
<1>2. TypeInv
  BY TypeInit
<1>3. Unread = <<>> /\ DOMAIN Unread = {}
  BY <1>1, <1>2, UnreadType
<1>4. Todo = {} /\ Untouched /\ DOMAIN <<>> = {}
  BY <1>1, <1>2, TodoEffects DEF Untouched
<1>5. PhaseInv
  BY <1>1, <1>3, <1>4 DEF PhaseInv
<1>6. WorkInv
  BY <1>1, <1>4 DEF WorkInv, LeftInv, SourceInv, PlanInv, BlockInv, Waits
<1>7. StreamInv
  BY <1>1, <1>3 DEF StreamInv, LastInv, NumberInv, PairInv, NowInv
<1>8. TagInv
  BY <1>1, <1>3, <1>4 DEF TagInv, SentInv, SaidInv, SeenInv
<1> QED
  BY <1>2, <1>5, <1>6, <1>7, <1>8 DEF OrderInv

LEMMA Stuttering ==
    ASSUME UNCHANGED commitVars
    PROVE  /\ OrderInv => OrderInv'
           /\ Unread' = Unread /\ Todo' = Todo /\ Steps' = Steps /\ UNCHANGED <<lz, zr, pipes>>
<1>1. UNCHANGED <<lz, zr, pipes>>
  BY DEF commitVars
<1>2. Unread' = Unread /\ Todo' = Todo /\ Steps' = Steps /\ Untouched' = Untouched
  BY <1>1 DEF Unread, Todo, Steps, Untouched
<1>3. Fresh' = Fresh /\ Sent' = Sent
  BY <1>1, <1>2 DEF Fresh, Sent
<1>4. TypeInv => TypeInv'
  BY <1>1, SameTypes DEF TypeInv
<1>5. PhaseInv => PhaseInv'
  BY <1>1, <1>2 DEF PhaseInv
<1>6. WorkInv => WorkInv'
  BY <1>1, <1>2, <1>3 DEF WorkInv, LeftInv, SourceInv, PlanInv, BlockInv, Waits
<1>7. StreamInv => StreamInv'
  BY <1>1, <1>2 DEF StreamInv, LastInv, NumberInv, PairInv, Paired, After, NowInv
<1>8. TagInv => TagInv'
  BY <1>1, <1>2, <1>3 DEF TagInv, SentInv, SaidInv, SeenInv
<1> QED
  BY <1>1, <1>2, <1>4, <1>5, <1>6, <1>7, <1>8 DEF OrderInv

LEMMA OrderStep ==
    ASSUME OrderInv, [CommitNext]_commitVars
    PROVE  OrderInv'
<1>1. CASE CommitNext
  BY <1>1, TypeStep, PhaseStep, WorkStep, StreamStep, TagStep DEF OrderInv
<1>2. CASE UNCHANGED commitVars
  BY <1>2, Stuttering
<1> QED
  BY <1>1, <1>2

\* The output of a block ends with the end tag of that block, although libzypp
\* reads the two pipes in any order (zypp-rpm's sendEndOfScriptTag and
\* waitForScriptEnd in TargetImpl::commitInSingleTransaction).
THEOREM OutputEndsInOrder == CommitSpec => []OutputInOrder
<1>1. OrderInv => OutputInOrder
  BY DEF OrderInv, TagInv, SeenInv, OutputInOrder
<1> QED
  BY <1>1, OrderInit, OrderStep, PTL DEF CommitSpec

-----------------------------------------------------------------------------
(* The steps of the messages.                                                 *)

\* A message or a report says what zypp-rpm is doing.
LEMMA BlockTodo ==
    ASSUME TypeInv, WorkInv, StreamInv, StepsInv, zr.at # "idle", Package(zr.block.type)
    PROVE  zr.block.step \in Todo
<1>1. zr.state = "runs"
  BY BlockFacts
<1>2. CASE Unread = <<>>
  <2>1. lz.report = zr.block
    BY <1>1, <1>2 DEF StreamInv, NowInv
  <2> QED  BY <2>1 DEF StepsInv
<1>3. CASE Unread # <<>>
  <2>1. Unread[Len(Unread)].block = zr.block /\ Len(Unread) \in DOMAIN Unread
    BY <1>1, <1>3, UnreadType DEF StreamInv, NowInv
  <2> QED  BY <2>1 DEF StepsInv
<1> QED
  BY <1>2, <1>3

LEMMA StepsStep ==
    ASSUME TypeInv, PhaseInv, WorkInv, WorkInv', StreamInv, StepsInv, CommitNext
    PROVE  StepsInv'
<1>0. Todo \subseteq Todo' /\ ~Package(NoBlock.type)
  BY TodoEffects DEF Package, NoBlock
<1>1. ASSUME Unread' = Unread, lz'.report \in {lz.report, NoBlock}
      PROVE  StepsInv'
  BY <1>0, <1>1 DEF StepsInv
<1>2. ASSUME NEW m, Pushed(m), UNCHANGED lz, Package(m.block.type) => m.block.step \in Todo'
      PROVE  StepsInv'
  <2>1. /\ \A i \in DOMAIN Unread : Unread'[i] = Unread[i]
        /\ Unread'[Len(Unread) + 1] = m
        /\ DOMAIN Unread' = DOMAIN Unread \cup {Len(Unread) + 1}
    BY <1>2 DEF Pushed
  <2> DEFINE last == Len(Unread) + 1
  <2> HIDE DEF last
  <2>2. Unread'[last] = m /\ DOMAIN Unread' = DOMAIN Unread \cup {last}
    BY <2>1 DEF last
  <2> QED  BY <1>0, <1>2, <2>1, <2>2 DEF StepsInv
<1>3. CASE FillStep
  BY <1>1, <1>3, QueueEffects, FillEffects DEF FillsTo
<1>4. CASE MoveStep
  <2>1. \E phase, stage : Moves(phase, stage)
    BY <1>4, MoveEffects DEF MoveStep
  <2> QED  BY <1>1, <1>4, <2>1, QueueEffects DEF Moves
<1>5. CASE ReadStep
  BY <1>1, <1>5, QueueEffects, ReadEffects DEF ReadStep
<1>6. CASE HandlerStep
  <2>1. /\ Popped /\ Unread[1] = This /\ 1 \in DOMAIN Unread
        /\ lz'.report \in {lz.report, This.block, NoBlock}
    BY <1>6, HandlerReports
  <2>2. \A i \in DOMAIN Unread' : i + 1 \in DOMAIN Unread /\ Unread'[i] = Unread[i + 1]
    BY <2>1 DEF Popped
  <2> QED  BY <1>0, <2>1, <2>2 DEF StepsInv
<1>7. CASE EndStep
  <2>1. UNCHANGED lz /\ (Unread' = Unread \/ Pushed(TransactionError))
    BY <1>7, QueueEffects
  <2> QED  BY <1>0, <1>1, <1>2, <2>1 DEF TransactionError
<1>8. CASE PlanStep \/ BlockTag
  BY <1>1, <1>8, QueueEffects
<1>9. CASE BlockBegin
  <2>1. /\ UNCHANGED lz /\ zr'.at = "begun"
        /\ Sends([say |-> "Begin", block |-> zr'.block, fatal |-> FALSE])
    BY <1>9, BlockEffects DEF GoesOn
  <2>2. Package(zr'.block.type) => zr'.block.step \in Todo'
    BY <2>1 DEF WorkInv, BlockInv, Fresh
  <2> DEFINE m == [say |-> "Begin", block |-> zr'.block, fatal |-> FALSE]
  <2>3. Pushed(m) /\ m.block = zr'.block
    BY <2>1, PushedQueue
  <2> HIDE DEF m
  <2> QED  BY <1>2, <2>1, <2>2, <2>3
<1>10. CASE BlockStop \/ BlockFails \/ BlockError
  <2>0. BlocksStep
    BY <1>10 DEF BlocksStep
  <2>1. zr.state = "runs" /\ UNCHANGED lz
    BY <2>0, RpmKeeps
  <2>2. PICK say, fatal : Sends(Says(say, fatal)) /\ zr.at # "idle"
    BY <1>10, <2>1, BlockEffects
  <2> DEFINE m == Says(say, fatal)
  <2>3. Pushed(m) /\ m.block = zr.block
    BY <2>1, <2>2, PushedQueue DEF Says
  <2> HIDE DEF m
  <2>4. Package(m.block.type) => m.block.step \in Todo
    BY <2>2, <2>3, BlockTodo
  <2> QED  BY <1>0, <1>2, <2>1, <2>3, <2>4
<1> QED
  BY <1>3, <1>4, <1>5, <1>6, <1>7, <1>8, <1>9, <1>10, StepGroups DEF BlocksStep

-----------------------------------------------------------------------------
(* The stages.                                                                *)

\* What a message that is handled means for step s.
TakesEffect(s) ==
    \/ ~Touches(This, s) /\ lz'.stage[s] = lz.stage[s]
    \/ Breaks(This, s) /\ lz'.stage[s] = "error"
    \/ Touches(This, s) /\ ~Breaks(This, s) /\ lz'.stage[s] = "done"

LEMMA HandlerTouches ==
    ASSUME TypeInv, StreamInv, StepsInv, HandlerStep, NEW s \in Todo
    PROVE  TakesEffect(s)
<1>0. Todo \subseteq Steps /\ 0 \notin Steps /\ lz.stage \in [Steps -> {"todo", "done", "error"}]
  BY TodoEffects, StepsAreNumbers DEF TypeInv, LibraryType
<1>1. CASE OnBegin \/ OnFinished \/ OnScriptFinished \/ OnTransactionError
  <2>1. /\ lz'.stage = lz.stage
        /\ \/ This.say \in {"Begin", "TransactionError"}
           \/ This.say = "Finished" /\ This.block.type \in {"trans", "cleanup", "script"}
    BY <1>1, HandlerEffects DEF Handled
  <2> QED  BY <2>1 DEF TakesEffect, Touches, Breaks, Package
<1>2. CASE OnPackageFinished
  <2>1. /\ This.say = "Finished" /\ Package(This.block.type)
        /\ lz'.stage = [lz.stage EXCEPT ![This.block.step] = "done"]
    BY <1>2, HandlerEffects DEF Handled
  <2> QED  BY <1>0, <2>1 DEF TakesEffect, Touches, Breaks
<1>3. CASE OnPackageError
  <2>1. /\ This.say = "Error" /\ Package(This.block.type)
        /\ lz'.stage = [lz.stage EXCEPT ![This.block.step] = "error"]
    BY <1>3, HandlerEffects DEF Handled
  <2> QED  BY <1>0, <2>1 DEF TakesEffect, Touches, Breaks
<1>4. CASE OnScriptError
  <2>1. /\ This.say = "Error" /\ This.block.type = "script"
        /\ lz'.stage = IF This.block.step # 0 /\ This.fatal
                       THEN [lz.stage EXCEPT ![This.block.step] = "error"] ELSE lz.stage
    BY <1>4, HandlerEffects DEF Handled
  <2>2. CASE This.fatal /\ This.block.step = s
    BY <1>0, <2>1, <2>2 DEF TakesEffect, Touches, Breaks, Package
  <2>3. CASE ~(This.fatal /\ This.block.step = s)
    BY <1>0, <2>1, <2>3 DEF TakesEffect, Touches, Breaks, Package
  <2> QED  BY <2>2, <2>3
<1> QED
  BY <1>1, <1>2, <1>3, <1>4 DEF HandlerStep

LEMMA PoppedEffect ==
    ASSUME TypeInv, StreamInv, HandlerStep, NEW s, Effect(s), TakesEffect(s)
    PROVE  Effect(s)'
<1>1. /\ UNCHANGED zr /\ 1 \in DOMAIN Unread /\ Unread[1] = This
      /\ DOMAIN Unread = 1..Len(Unread) /\ Len(Unread) \in Nat \ {0}
      /\ DOMAIN Unread' = 1..Len(Unread) - 1
      /\ \A i \in DOMAIN Unread' : Unread'[i] = Unread[i + 1]
  BY HandlerReports, QueueEffects DEF Popped
<1>2. /\ \A i \in DOMAIN Unread' : i + 1 \in DOMAIN Unread /\ 1 < i + 1
      /\ \A i, j \in DOMAIN Unread' : i < j => i + 1 < j + 1
      /\ \A i \in DOMAIN Unread : i # 1 => i - 1 \in DOMAIN Unread' /\ Unread'[i - 1] = Unread[i]
  <2>1. \A i \in DOMAIN Unread' : i + 1 \in DOMAIN Unread /\ 1 < i + 1
    BY <1>1
  <2>2. \A i, j \in DOMAIN Unread' : i < j => i + 1 < j + 1
    BY <1>1
  <2>3. ASSUME NEW i \in DOMAIN Unread, i # 1
        PROVE  i - 1 \in DOMAIN Unread' /\ Unread'[i - 1] = Unread[i]
    <3>1. i - 1 \in DOMAIN Unread' /\ (i - 1) + 1 = i
      BY <1>1, <2>3
    <3> QED  BY <1>1, <3>1
  <2> QED  BY <2>1, <2>2, <2>3
<1>3. BreaksNext(s)' = BreaksNext(s)
  BY <1>1 DEF BreaksNext
<1>4. /\ \A m : Breaks(m, s)' = Breaks(m, s)
      /\ \A m : Touches(m, s)' = Touches(m, s)
      /\ \A m : Breaks(m, s) => Touches(m, s)
  BY DEF Breaks, Touches
<1>5. StillTodo(s)'
  BY <1>1, <1>2, <1>4 DEF Effect, StillTodo, TakesEffect
<1>6. BecomesDone(s)'
  <2> SUFFICES ASSUME zr.did[s] = "done"
               PROVE  /\ lz'.stage[s] # "error" /\ \A i \in DOMAIN Unread' : ~Breaks(Unread'[i], s)
                      /\ lz'.stage[s] = "done" \/ \E i \in DOMAIN Unread' : Touches(Unread'[i], s)
    BY <1>1, <1>4 DEF BecomesDone
  <2>1. /\ lz.stage[s] # "error" /\ \A i \in DOMAIN Unread : ~Breaks(Unread[i], s)
        /\ lz.stage[s] = "done" \/ \E i \in DOMAIN Unread : Touches(Unread[i], s)
    BY DEF Effect, BecomesDone
  <2>2. ~Breaks(This, s)
    BY <1>1, <2>1
  <2>3. \A i \in DOMAIN Unread' : ~Breaks(Unread'[i], s)
    BY <1>1, <1>2, <2>1
  <2>4. CASE ~Touches(This, s) /\ lz'.stage[s] = lz.stage[s]
    BY <1>1, <1>2, <2>1, <2>3, <2>4
  <2>5. CASE lz'.stage[s] = "done"
    BY <2>3, <2>5
  <2> QED  BY <2>2, <2>4, <2>5 DEF TakesEffect
<1>7. BecomesError(s)'
  <2> SUFFICES ASSUME zr.did[s] = "failed"
               PROVE  /\ lz'.stage[s] = "error" => \A i \in DOMAIN Unread' : ~Touches(Unread'[i], s)
                      /\ \A i, j \in DOMAIN Unread' :
                            i < j /\ Breaks(Unread'[i], s) => ~Touches(Unread'[j], s)
                      /\ \/ lz'.stage[s] = "error" \/ zr.code = "Signal" \/ BreaksNext(s)
                         \/ \E i \in DOMAIN Unread' : Breaks(Unread'[i], s)
    BY <1>1, <1>3, <1>4 DEF BecomesError
  <2>1. /\ lz.stage[s] = "error" => \A i \in DOMAIN Unread : ~Touches(Unread[i], s)
        /\ \A i, j \in DOMAIN Unread : i < j /\ Breaks(Unread[i], s) => ~Touches(Unread[j], s)
        /\ \/ lz.stage[s] = "error" \/ zr.code = "Signal" \/ BreaksNext(s)
           \/ \E i \in DOMAIN Unread : Breaks(Unread[i], s)
    BY DEF Effect, BecomesError
  <2>2. \A i, j \in DOMAIN Unread' : i < j /\ Breaks(Unread'[i], s) => ~Touches(Unread'[j], s)
    BY <1>1, <1>2, <2>1
  <2>3. CASE ~Touches(This, s) /\ lz'.stage[s] = lz.stage[s]
    <3>1. ~Breaks(This, s)
      BY <1>4, <2>3
    <3>2. lz'.stage[s] = "error" => \A i \in DOMAIN Unread' : ~Touches(Unread'[i], s)
      BY <1>1, <1>2, <2>1, <2>3
    <3>3. (\E i \in DOMAIN Unread : Breaks(Unread[i], s)) =>
              \E i \in DOMAIN Unread' : Breaks(Unread'[i], s)
      BY <1>1, <1>2, <3>1
    <3> QED  BY <2>1, <2>2, <2>3, <3>2, <3>3
  <2>4. CASE Breaks(This, s) /\ lz'.stage[s] = "error"
    <3>1. \A i \in DOMAIN Unread' : ~Touches(Unread'[i], s)
      BY <1>1, <1>2, <2>1, <2>4
    <3> QED  BY <2>2, <2>4, <3>1
  <2>5. CASE Touches(This, s) /\ ~Breaks(This, s) /\ lz'.stage[s] = "done"
    <3>1. lz.stage[s] # "error"
      BY <1>1, <2>1, <2>5
    <3>2. (\E i \in DOMAIN Unread : Breaks(Unread[i], s)) =>
              \E i \in DOMAIN Unread' : Breaks(Unread'[i], s)
      BY <1>1, <1>2, <2>5
    <3> QED  BY <2>1, <2>2, <2>5, <3>1, <3>2
  <2> QED  BY <2>3, <2>4, <2>5 DEF TakesEffect
<1>8. ErrorIsNext(s)'
  <2> SUFFICES ASSUME BreaksNext(s)
               PROVE  /\ zr.did[s] = "failed" /\ lz'.stage[s] # "error"
                      /\ \A i \in DOMAIN Unread' : ~Breaks(Unread'[i], s)
    BY <1>1, <1>3, <1>4 DEF ErrorIsNext
  <2>1. /\ zr.did[s] = "failed" /\ lz.stage[s] # "error"
        /\ \A i \in DOMAIN Unread : ~Breaks(Unread[i], s)
    BY DEF Effect, ErrorIsNext
  <2> QED  BY <1>1, <1>2, <2>1 DEF TakesEffect
<1> QED
  BY <1>5, <1>6, <1>7, <1>8 DEF Effect

\* What a message that is sent means for step s: nothing, the package was done,
\* its failure is seen and the error follows, or the error itself.
SendsNothing(m, s) ==
    /\ ~Touches(m, s) /\ zr'.did[s] = zr.did[s]
    /\ (BreaksNext(s)' <=> BreaksNext(s)) /\ (zr.code = "Signal" => zr'.code = "Signal")

SendsDone(m, s) ==
    /\ zr.did[s] = "untouched" /\ zr'.did[s] = "done"
    /\ Touches(m, s) /\ ~Breaks(m, s) /\ ~BreaksNext(s)'

SendsFailure(m, s) ==
    /\ zr.did[s] = "untouched" /\ zr'.did[s] = "failed" /\ ~Breaks(m, s) /\ BreaksNext(s)'

SendsError(m, s) ==
    /\ zr.did[s] = "untouched" \/ BreaksNext(s)
    /\ zr'.did[s] = "failed" /\ Breaks(m, s) /\ ~BreaksNext(s)'

LEMMA PushedEffect ==
    ASSUME NEW m, Pushed(m), UNCHANGED lz, NEW s, Effect(s),
           SendsNothing(m, s) \/ SendsDone(m, s) \/ SendsFailure(m, s) \/ SendsError(m, s)
    PROVE  Effect(s)'
<1> DEFINE last == Len(Unread) + 1
<1>1. /\ DOMAIN Unread' = DOMAIN Unread \cup {last} /\ last \notin DOMAIN Unread
      /\ \A i \in DOMAIN Unread : Unread'[i] = Unread[i] /\ ~(last < i)
      /\ Unread'[last] = m /\ ~(last < last)
  BY DEF Pushed
<1> HIDE DEF last
<1>2. /\ \A x : Breaks(x, s)' = Breaks(x, s)
      /\ \A x : Touches(x, s)' = Touches(x, s)
      /\ \A x : Breaks(x, s) => Touches(x, s)
  BY DEF Breaks, Touches
<1>3. /\ zr.did[s] = "untouched" =>
            lz.stage[s] = "todo" /\ \A i \in DOMAIN Unread : ~Touches(Unread[i], s)
      /\ BreaksNext(s) => /\ zr.did[s] = "failed" /\ lz.stage[s] # "error"
                          /\ \A i \in DOMAIN Unread : ~Breaks(Unread[i], s)
  BY DEF Effect, StillTodo, ErrorIsNext
<1>4. CASE SendsNothing(m, s)
  <2>0. ~Touches(m, s) /\ ~Breaks(m, s)
    BY <1>2, <1>4 DEF SendsNothing
  <2>1. StillTodo(s)'
    BY <1>1, <1>2, <1>4, <2>0 DEF Effect, StillTodo, SendsNothing
  <2>2. BecomesDone(s)'
    BY <1>1, <1>2, <1>4, <2>0 DEF Effect, BecomesDone, SendsNothing
  <2>3. BecomesError(s)'
    <3> SUFFICES ASSUME zr.did[s] = "failed"
                 PROVE  /\ lz.stage[s] = "error" => \A i \in DOMAIN Unread' : ~Touches(Unread'[i], s)
                        /\ \A i, j \in DOMAIN Unread' :
                              i < j /\ Breaks(Unread'[i], s) => ~Touches(Unread'[j], s)
                        /\ \/ lz.stage[s] = "error" \/ zr'.code = "Signal" \/ BreaksNext(s)
                           \/ \E i \in DOMAIN Unread' : Breaks(Unread'[i], s)
      BY <1>2, <1>4 DEF BecomesError, SendsNothing
    <3>1. /\ lz.stage[s] = "error" => \A i \in DOMAIN Unread : ~Touches(Unread[i], s)
          /\ \A i, j \in DOMAIN Unread : i < j /\ Breaks(Unread[i], s) => ~Touches(Unread[j], s)
          /\ \/ lz.stage[s] = "error" \/ zr.code = "Signal" \/ BreaksNext(s)
             \/ \E i \in DOMAIN Unread : Breaks(Unread[i], s)
      BY DEF Effect, BecomesError
    <3> QED  BY <1>1, <1>4, <2>0, <3>1 DEF SendsNothing
  <2>4. ErrorIsNext(s)'
    <3>1. CASE BreaksNext(s)
      BY <1>1, <1>2, <1>3, <1>4, <2>0, <3>1 DEF ErrorIsNext, SendsNothing
    <3>2. CASE ~BreaksNext(s)
      BY <1>4, <3>2 DEF ErrorIsNext, SendsNothing
    <3> QED  BY <3>1, <3>2
  <2> QED  BY <2>1, <2>2, <2>3, <2>4 DEF Effect
<1>5. CASE SendsDone(m, s)
  <2>1. /\ zr'.did[s] = "done" /\ lz'.stage[s] = "todo" /\ ~BreaksNext(s)'
        /\ \A i \in DOMAIN Unread' : ~Breaks(Unread'[i], s)
        /\ Touches(Unread'[last], s)
    BY <1>1, <1>2, <1>3, <1>5 DEF SendsDone
  <2>2. BecomesDone(s)'
    BY <1>1, <1>2, <2>1 DEF BecomesDone
  <2>3. StillTodo(s)' /\ BecomesError(s)' /\ ErrorIsNext(s)'
    BY <2>1 DEF StillTodo, BecomesError, ErrorIsNext
  <2> QED  BY <2>2, <2>3 DEF Effect
<1>6. CASE SendsFailure(m, s)
  <2>1. /\ zr'.did[s] = "failed" /\ lz'.stage[s] = "todo" /\ BreaksNext(s)'
        /\ \A i \in DOMAIN Unread' : ~Breaks(Unread'[i], s)
    BY <1>1, <1>2, <1>3, <1>6 DEF SendsFailure
  <2>2. BecomesError(s)'
    BY <1>2, <2>1 DEF BecomesError
  <2>3. StillTodo(s)' /\ BecomesDone(s)'
    BY <2>1 DEF StillTodo, BecomesDone
  <2>4. ErrorIsNext(s)'
    BY <1>2, <2>1 DEF ErrorIsNext
  <2> QED  BY <2>2, <2>3, <2>4 DEF Effect
<1>7. CASE SendsError(m, s)
  <2>1. /\ zr'.did[s] = "failed" /\ lz'.stage[s] # "error" /\ ~BreaksNext(s)'
        /\ \A i \in DOMAIN Unread : ~Breaks(Unread'[i], s)
        /\ Breaks(Unread'[last], s)
    BY <1>1, <1>2, <1>3, <1>7 DEF SendsError
  <2>2. BecomesError(s)'
    <3>1. \A i, j \in DOMAIN Unread' : i < j /\ Breaks(Unread'[i], s) => ~Touches(Unread'[j], s)
      BY <1>1, <2>1
    <3> QED  BY <1>1, <1>2, <2>1, <3>1 DEF BecomesError
  <2>3. StillTodo(s)' /\ BecomesDone(s)' /\ ErrorIsNext(s)'
    BY <2>1 DEF StillTodo, BecomesDone, ErrorIsNext
  <2> QED  BY <2>2, <2>3 DEF Effect
<1> QED
  BY <1>4, <1>5, <1>6, <1>7

\* Nothing is said.
LEMMA SameEffect ==
    ASSUME Unread' = Unread, NEW s, Effect(s), zr'.did[s] = zr.did[s], lz'.stage[s] = lz.stage[s],
           zr.code = "Signal" => zr'.code = "Signal",
           BreaksNext(s)' => BreaksNext(s), BreaksNext(s) => BreaksNext(s)' \/ zr'.code = "Signal"
    PROVE  Effect(s)'
<1>1. /\ \A x : Breaks(x, s)' = Breaks(x, s)
      /\ \A x : Touches(x, s)' = Touches(x, s)
  BY DEF Breaks, Touches
<1>2. StillTodo(s)' /\ BecomesDone(s)'
  BY <1>1 DEF Effect, StillTodo, BecomesDone
<1>3. BecomesError(s)'
  BY <1>1 DEF Effect, BecomesError
<1>4. ErrorIsNext(s)'
  BY <1>1 DEF Effect, ErrorIsNext
<1> QED
  BY <1>2, <1>3, <1>4 DEF Effect

LEMMA FillEffect ==
    ASSUME TypeInv, PhaseInv, EffectInv, CommitNext, FillStep
    PROVE  EffectInv'
<1>0. /\ lz.phase = "fill" /\ ~lz.abort /\ lz.next \in Steps /\ Steps \subseteq Nat /\ lz.next \in Nat
      /\ zr.state = "none" /\ zr.at = "idle" /\ Untouched /\ Unread = <<>>
      /\ lz.stage \in [Steps -> {"todo", "done", "error"}] /\ Todo \subseteq Steps
  <2>1. Filling /\ lz.next \in 1..Len(lz.kind) + 1
    BY FillEffects DEF TypeInv, LibraryType
  <2>2. lz.phase = "fill" /\ ~lz.abort /\ lz.next \in Steps
    <3>1. lz.kind \in Seq(StepKind)
      BY CommitAssumption DEF TypeInv, LibraryType
    <3>2. Steps = 1..Len(lz.kind) /\ Len(lz.kind) \in Nat
      BY <3>1 DEF Steps
    <3>3. lz.next <= Len(lz.kind) /\ lz.next \in Nat \ {0}
      BY <2>1, <3>2 DEF Filling
    <3> QED  BY <2>1, <3>2, <3>3 DEF Filling
  <2>20. lz.next \in Nat
    BY <2>2, StepsAreNumbers
  <2>3. zr.state = "none" /\ zr.at = "idle"
    BY <2>2 DEF TypeInv, RpmType
  <2> QED  BY <2>2, <2>20, <2>3, StepsAreNumbers DEF PhaseInv, TypeInv, LibraryType
<1>1. /\ Unread' = Unread /\ UNCHANGED zr /\ Steps' = Steps /\ lz'.phase = "fill" /\ DOMAIN Unread = {}
  <2>1. Unread' = Unread /\ UNCHANGED zr /\ Steps' = Steps
    BY QueueEffects, TodoEffects
  <2>2. lz'.phase = lz.phase
    BY FillEffects DEF FillsTo
  <2>3. DOMAIN Unread = {}
    BY <1>0
  <2> QED  BY <1>0, <2>1, <2>2, <2>3
<1>2. \A s \in Todo : s < lz.next /\ s \in Steps /\ s # lz.next
  <2>1. \A s \in Todo : s < lz.next /\ s \in Steps /\ s \in Nat
    BY <1>0 DEF PhaseInv
  <2>2. \A a, b \in Nat : a < b => a # b
    OBVIOUS
  <2> QED  BY <1>0, <2>1, <2>2
<1>3. /\ \A s \in Steps : s # lz.next => lz'.stage[s] = lz.stage[s]
      /\ \/ Todo' = Todo
         \/ Todo' = Todo \cup {lz.next} /\ lz'.stage[lz.next] = lz.stage[lz.next]
      /\ lz'.next = lz.next + 1 \/ lz'.abort
  <2>1. CASE \E stage \in {"done", "error"} :
                FillsTo([lz.stage EXCEPT ![lz.next] = stage], lz.next + 1, lz.todo, lz.abort)
    BY <1>0, <2>1, TodoEffects DEF FillsTo
  <2>2. CASE FillsTo(lz.stage, lz.next + 1, Append(lz.todo, lz.next), lz.abort)
    BY <1>0, <2>2, TodoEffects DEF FillsTo
  <2>3. CASE FillsTo([lz.stage EXCEPT ![lz.next] = "error"], lz.next, lz.todo, TRUE)
    BY <1>0, <2>3, TodoEffects DEF FillsTo
  <2>4. CASE FillsTo(lz.stage, lz.next + 1, lz.todo, lz.abort)
    BY <1>0, <2>4, TodoEffects DEF FillsTo
  <2> QED  BY <2>1, <2>2, <2>3, <2>4, FillEffects
<1>4. ASSUME NEW s \in Todo'
      PROVE  Effect(s)'
  <2>1. CASE s \in Todo
    <3>1. s # lz.next /\ s \in Steps
      BY <1>2, <2>1
    <3>2. Effect(s)
      BY <2>1 DEF EffectInv
    <3>3. BreaksNext(s)' = BreaksNext(s)
      BY <1>1 DEF BreaksNext
    <3> QED  BY <1>1, <1>3, <3>1, <3>2, <3>3, SameEffect
  <2>2. CASE s = lz.next /\ lz'.stage[s] = lz.stage[s]
    <3>1. lz.stage[s] = "todo"
      <4>1. s >= lz.next
        BY <1>0, <2>2
      <4> QED  BY <1>0, <2>2, <4>1 DEF EffectInv
    <3>2. zr.did[s] = "untouched" /\ ~BreaksNext(s)'
      BY <1>0, <1>1, <2>2 DEF Untouched, BreaksNext
    <3>3. StillTodo(s)' /\ BecomesDone(s)' /\ BecomesError(s)' /\ ErrorIsNext(s)'
      BY <1>1, <2>2, <3>1, <3>2 DEF StillTodo, BecomesDone, BecomesError, ErrorIsNext
    <3> QED  BY <3>3 DEF Effect
  <2> QED  BY <1>3, <2>1, <2>2
<1>5. ASSUME ~lz'.abort, NEW s \in Steps', s >= lz'.next
      PROVE  lz'.stage[s] = "todo"
  <2>0. lz'.next = lz.next + 1 /\ s \in Steps /\ s \in Nat /\ lz.next \in Nat
    BY <1>0, <1>1, <1>3, <1>5
  <2>1. s \in Steps /\ s >= lz.next /\ s # lz.next
    <3>1. \A a, b \in Nat : a >= b + 1 => a >= b /\ a # b
      OBVIOUS
    <3> QED  BY <1>5, <2>0, <3>1
  <2> QED  BY <1>0, <1>3, <2>1 DEF EffectInv
<1> QED
  BY <1>4, <1>5 DEF EffectInv

LEMMA BlocksEffect ==
    ASSUME TypeInv, WorkInv, StreamInv, StepsInv, BlocksStep, NEW s \in Todo, Effect(s)
    PROVE  Effect(s)'
<1>0. /\ zr.state = "runs" /\ zr'.code = zr.code /\ UNCHANGED lz
      /\ Todo \subseteq Steps /\ 0 \notin Steps /\ zr.did \in [Steps -> Deed]
  BY RpmKeeps, TodoEffects, StepsAreNumbers DEF TypeInv, RpmType
<1>1. CASE BlockBegin
  <2>1. /\ zr'.did = zr.did /\ zr.at = "idle" /\ zr'.at = "begun"
        /\ Sends([say |-> "Begin", block |-> zr'.block, fatal |-> FALSE])
    BY <1>1, BlockEffects DEF GoesOn
  <2> DEFINE m == [say |-> "Begin", block |-> zr'.block, fatal |-> FALSE]
  <2>2. Pushed(m) /\ m.say = "Begin"
    BY <1>0, <2>1, PushedQueue
  <2> HIDE DEF m
  <2>3. SendsNothing(m, s)
    BY <1>0, <2>1, <2>2 DEF SendsNothing, Touches, Breaks, BreaksNext
  <2> QED  BY <1>0, <2>2, <2>3, PushedEffect
<1>2. CASE BlockTag
  <2>1. Unread' = Unread /\ zr'.did = zr.did /\ zr.at = "begun" /\ zr'.at = "tagged"
    BY <1>2, BlockEffects, QueueEffects
  <2>2. ~BreaksNext(s) /\ ~BreaksNext(s)'
    BY <2>1 DEF BreaksNext
  <2> QED  BY <1>0, <2>1, <2>2, SameEffect
<1>3. CASE BlockStop
  <2>1. /\ zr.at = "tagged" /\ zr'.at = "idle" /\ zr'.block = zr.block
        /\ Sends(Says("Finished", FALSE))
        /\ zr'.did = IF Package(zr.block.type)
                     THEN [zr.did EXCEPT ![zr.block.step] = "done"] ELSE zr.did
    BY <1>0, <1>3, BlockEffects DEF GoesOn
  <2> DEFINE m == Says("Finished", FALSE)
  <2>2. Pushed(m) /\ m.say = "Finished" /\ m.block = zr.block
    BY <1>0, <2>1, PushedQueue DEF Says
  <2> HIDE DEF m
  <2>3. ~BreaksNext(s) /\ ~BreaksNext(s)' /\ ~Breaks(m, s)
    BY <2>1, <2>2 DEF BreaksNext, Breaks
  <2>4. CASE Package(zr.block.type) /\ s = zr.block.step
    <3>1. zr.did[s] = "untouched" /\ zr'.did[s] = "done"
      BY <1>0, <2>1, <2>4, BlockFacts
    <3>2. SendsDone(m, s)
      BY <2>2, <2>3, <2>4, <3>1 DEF SendsDone, Touches
    <3> QED  BY <1>0, <2>2, <3>2, PushedEffect
  <2>5. CASE ~(Package(zr.block.type) /\ s = zr.block.step)
    <3>1. zr'.did[s] = zr.did[s]
      BY <1>0, <2>1, <2>5
    <3>2. SendsNothing(m, s)
      BY <1>0, <2>2, <2>3, <2>5, <3>1 DEF SendsNothing, Touches
    <3> QED  BY <1>0, <2>2, <3>2, PushedEffect
  <2> QED  BY <2>4, <2>5
<1>4. CASE BlockFails
  <2>1. /\ zr.at = "tagged" /\ zr'.at = "error" /\ zr'.block = zr.block
        /\ Sends(Says("Finished", FALSE))
        /\ zr'.did = IF Package(zr.block.type) THEN Failed(zr.did, zr.block.step) ELSE zr.did
    BY <1>0, <1>4, BlockEffects DEF GoesOn
  <2> DEFINE m == Says("Finished", FALSE)
  <2>2. Pushed(m) /\ m.say = "Finished" /\ m.block = zr.block
    BY <1>0, <2>1, PushedQueue DEF Says
  <2> HIDE DEF m
  <2>3. ~BreaksNext(s) /\ ~Breaks(m, s)
    BY <2>1, <2>2 DEF BreaksNext, Breaks
  <2>4. CASE Package(zr.block.type) /\ s = zr.block.step
    <3>1. zr.did[s] = "untouched" /\ zr'.did[s] = "failed"
      BY <1>0, <2>1, <2>4, BlockFacts DEF Failed
    <3>2. SendsFailure(m, s)
      BY <2>1, <2>2, <2>3, <2>4, <3>1 DEF SendsFailure, BreaksNext
    <3> QED  BY <1>0, <2>2, <3>2, PushedEffect
  <2>5. CASE ~(Package(zr.block.type) /\ s = zr.block.step)
    <3>1. zr'.did[s] = zr.did[s]
      BY <1>0, <2>1, <2>5 DEF Failed
    <3>2. SendsNothing(m, s)
      BY <1>0, <2>1, <2>2, <2>3, <2>5, <3>1 DEF SendsNothing, Touches, BreaksNext
    <3> QED  BY <1>0, <2>2, <3>2, PushedEffect
  <2> QED  BY <2>4, <2>5
<1>5. CASE BlockError
  <2>1. /\ zr.at = "error" /\ zr'.at = "idle" /\ zr'.block = zr.block
        /\ \/ Sends(Says("Error", FALSE)) /\ zr'.did = zr.did
           \/ /\ zr.block.type = "script" /\ zr.plan # <<>>
              /\ Sends(Says("Error", TRUE)) /\ zr'.did = Failed(zr.did, zr.block.step)
    BY <1>0, <1>5, BlockEffects DEF GoesOn
  <2>2. ~BreaksNext(s)'
    BY <2>1 DEF BreaksNext
  <2>3. CASE Sends(Says("Error", FALSE)) /\ zr'.did = zr.did
    <3> DEFINE m == Says("Error", FALSE)
    <3>1. Pushed(m) /\ m.say = "Error" /\ m.block = zr.block /\ m.fatal = FALSE
      BY <1>0, <2>3, PushedQueue DEF Says
    <3> HIDE DEF m
    <3>2. CASE BreaksNext(s)
      <4>1. zr.did[s] = "failed" /\ Breaks(m, s)
        BY <3>1, <3>2 DEF Effect, ErrorIsNext, Breaks, BreaksNext
      <4>2. SendsError(m, s)
        BY <2>2, <2>3, <3>2, <4>1 DEF SendsError
      <4> QED  BY <1>0, <3>1, <4>2, PushedEffect
    <3>3. CASE ~BreaksNext(s)
      <4>1. ~Touches(m, s)
        BY <2>1, <3>1, <3>3 DEF Touches, Breaks, BreaksNext
      <4>2. SendsNothing(m, s)
        BY <1>0, <2>2, <2>3, <3>3, <4>1 DEF SendsNothing
      <4> QED  BY <1>0, <3>1, <4>2, PushedEffect
    <3> QED  BY <3>2, <3>3
  <2>4. CASE /\ zr.block.type = "script" /\ zr.plan # <<>>
             /\ Sends(Says("Error", TRUE)) /\ zr'.did = Failed(zr.did, zr.block.step)
    <3> DEFINE m == Says("Error", TRUE)
    <3>1. Pushed(m) /\ m.say = "Error" /\ m.block = zr.block /\ m.fatal = TRUE
      BY <1>0, <2>4, PushedQueue DEF Says
    <3> HIDE DEF m
    <3>2. CASE s = zr.block.step
      <4>1. zr.did[s] = "untouched"
        BY <1>0, <2>1, <2>4, <3>2, BlockFacts DEF Fresh
      <4>2. zr'.did[s] = "failed" /\ Breaks(m, s)
        BY <1>0, <2>4, <3>1, <3>2 DEF Failed, Breaks
      <4>3. SendsError(m, s)
        BY <2>2, <4>1, <4>2 DEF SendsError
      <4> QED  BY <1>0, <3>1, <4>3, PushedEffect
    <3>3. CASE s # zr.block.step
      <4>1. ~Touches(m, s) /\ ~BreaksNext(s) /\ zr'.did[s] = zr.did[s]
        BY <1>0, <2>4, <3>1, <3>3 DEF Touches, Breaks, BreaksNext, Failed
      <4>2. SendsNothing(m, s)
        BY <1>0, <2>2, <4>1 DEF SendsNothing
      <4> QED  BY <1>0, <3>1, <4>2, PushedEffect
    <3> QED  BY <3>2, <3>3
  <2> QED  BY <2>1, <2>3, <2>4
<1> QED
  BY <1>1, <1>2, <1>3, <1>4, <1>5 DEF BlocksStep

LEMMA EffectStep ==
    ASSUME TypeInv, PhaseInv, WorkInv, StreamInv, StepsInv, EffectInv, CommitNext
    PROVE  EffectInv'
<1>1. CASE FillStep
  BY <1>1, FillEffect
<1>2. CASE ~FillStep
  <2>1. Todo' = Todo /\ Steps' = Steps /\ lz'.kind = lz.kind
    BY <1>2, TodoEffects
  <2>2. lz'.phase = "fill" => UNCHANGED lz
    <3>1. lz'.phase = "fill" => ~MoveStep
      BY MoveEffects DEF MoveStep, Moves
    <3>2. lz'.phase = "fill" => ~HandlerStep
      BY QueueEffects DEF Looping
    <3>3. lz'.phase = "fill" => ~ReadStep
      BY ReadEffects DEF ReadStep, Looping
    <3> QED  BY <1>2, <3>1, <3>2, <3>3, RpmKeeps, StepGroups
  <2>3. ASSUME NEW s \in Todo
        PROVE  Effect(s)'
    <3>0. Effect(s)
      BY <2>3 DEF EffectInv
    <3>1. CASE MoveStep
      <4>1. Unread' = Unread /\ ZrStays
        BY <3>1, QueueEffects, RpmKeeps
      <4>2. s \in Steps /\ lz.kind[s] # "product"
        BY <2>3, StepsAreNumbers DEF PhaseInv
      <4>3. \E phase : Moves(phase, lz.stage) \/ Moves(phase, ProductsDone)
        BY <3>1, MoveEffects DEF MoveStep
      <4>4. lz'.stage[s] = lz.stage[s]
        BY <4>2, <4>3 DEF Moves, ProductsDone
      <4>5. BreaksNext(s)' = BreaksNext(s)
        BY <4>1 DEF ZrStays, BreaksNext
      <4> QED  BY <3>0, <4>1, <4>4, <4>5, SameEffect DEF ZrStays
    <3>2. CASE HandlerStep
      BY <2>3, <3>0, <3>2, HandlerTouches, PoppedEffect
    <3>3. CASE ReadStep
      <4>1. Unread' = Unread /\ UNCHANGED zr /\ lz'.stage = lz.stage
        BY <3>3, QueueEffects, ReadEffects DEF ReadStep, ReadsOnly
      <4>2. BreaksNext(s)' = BreaksNext(s)
        BY <4>1 DEF BreaksNext
      <4> QED  BY <3>0, <4>1, <4>2, SameEffect
    <3>4. CASE EndStep
      <4>1. /\ UNCHANGED lz /\ zr'.did = zr.did /\ zr'.at = "idle"
            /\ zr.code = "none" /\ (zr.at # "idle" => zr'.code = "Signal")
        <5>1. /\ UNCHANGED lz /\ zr'.did = zr.did /\ zr'.at = "idle" /\ zr.state \in {"reads", "runs"}
          BY <3>4, RpmEndsEffects DEF EndStep, GoneWith
        <5>2. zr.at # "idle" => Killed
          BY <3>4, RpmEndsEffects DEF EndStep, Ready, TypeInv, RpmType
        <5>3. Killed => zr'.code = "Signal"
          BY RpmEndsEffects DEF GoneWith
        <5> QED  BY <5>1, <5>2, <5>3 DEF PhaseInv
      <4>2. ~BreaksNext(s)' /\ (BreaksNext(s) => zr'.code = "Signal")
        BY <4>1 DEF BreaksNext
      <4>3. CASE Unread' = Unread
        BY <3>0, <4>1, <4>2, <4>3, SameEffect
      <4>4. CASE Problems
        <5>1. Pushed(TransactionError) /\ zr.at = "idle"
          BY <4>4, QueueEffects, RpmEndsEffects
        <5>2. SendsNothing(TransactionError, s)
          BY <4>1, <4>2, <5>1
             DEF SendsNothing, Touches, Breaks, BreaksNext, TransactionError
        <5> QED  BY <3>0, <4>1, <5>1, <5>2, PushedEffect
      <4> QED  BY <3>4, <4>3, <4>4, QueueEffects
    <3>5. CASE PlanStep
      <4>1. /\ Unread' = Unread /\ UNCHANGED lz /\ zr'.did = zr.did /\ zr'.code = zr.code
            /\ SameBlock /\ zr.at = "idle"
        BY <3>5, QueueEffects, RpmKeeps, RpmPlanEffects DEF PlanStep, Ready, TypeInv, RpmType
      <4>2. ~BreaksNext(s)' /\ ~BreaksNext(s)
        BY <4>1 DEF BreaksNext, SameBlock
      <4> QED  BY <3>0, <4>1, <4>2, SameEffect
    <3>6. CASE BlocksStep
      BY <2>3, <3>0, <3>6, BlocksEffect
    <3> QED  BY <1>2, <3>1, <3>2, <3>3, <3>4, <3>5, <3>6, StepGroups
  <2>4. lz'.phase = "fill" /\ ~lz'.abort => \A s \in Steps' : s >= lz'.next => lz'.stage[s] = "todo"
    BY <2>1, <2>2 DEF EffectInv
  <2> QED  BY <2>1, <2>3, <2>4 DEF EffectInv
<1> QED
  BY <1>1, <1>2

\* A commit that returns knows of every package what rpm did to it.
LEMMA EffectTellsTruth ==
    ASSUME TypeInv, PhaseInv, EffectInv
    PROVE  ResultTellsTruth
<1>1. ASSUME lz.phase \in {"returned", "aborted"}, zr.code # "Signal", NEW s \in Todo
      PROVE  lz.stage[s] = CASE zr.did[s] = "done"      -> "done"
                             [] zr.did[s] = "failed"    -> "error"
                             [] zr.did[s] = "untouched" -> "todo"
  <2>1. Unread = <<>> /\ DOMAIN Unread = {}
    BY <1>1, UnreadType DEF PhaseInv
  <2>2. ~BreaksNext(s)
    <3>1. lz.todo # <<>>
      BY <1>1, TodoEffects
    <3>2. zr.state = "gone"
      BY <1>1, <3>1 DEF PhaseInv
    <3> QED  BY <3>2 DEF BreaksNext, TypeInv, RpmType
  <2>3. Effect(s) /\ zr.did[s] \in Deed
    BY <1>1, StepsAreNumbers DEF EffectInv, TypeInv, RpmType
  <2>4. CASE zr.did[s] = "done"
    <3>1. lz.stage[s] = "done"
      BY <2>1, <2>3, <2>4 DEF Effect, BecomesDone
    <3> QED  BY <2>4, <3>1
  <2>5. CASE zr.did[s] = "failed"
    <3>1. lz.stage[s] = "error"
      BY <1>1, <2>1, <2>2, <2>3, <2>5 DEF Effect, BecomesError
    <3> QED  BY <2>5, <3>1
  <2>6. CASE zr.did[s] = "untouched"
    <3>1. lz.stage[s] = "todo"
      BY <2>3, <2>6 DEF Effect, StillTodo
    <3> QED  BY <2>6, <3>1
  <2> QED  BY <2>3, <2>4, <2>5, <2>6 DEF Deed
<1>2. lz.phase = "failed" => \A s \in Steps : zr.did[s] = "untouched"
  BY DEF PhaseInv, Untouched
<1>3. ToSet(lz.todo) = Todo
  BY DEF Todo
<1> QED
  BY <1>1, <1>2, <1>3 DEF ResultTellsTruth

-----------------------------------------------------------------------------
(* The history.                                                               *)

\* What rpm did stays done, a signal is the end.
LEMMA DoneStays ==
    ASSUME TypeInv, PhaseInv, WorkInv, CommitNext
    PROVE  /\ \A s \in Steps : zr.did[s] = "done" => zr'.did[s] = "done"
           /\ zr.code = "Signal" => zr'.code = "Signal"
<1>0. zr.did \in [Steps -> Deed] /\ 0 \notin Steps
  BY StepsAreNumbers DEF TypeInv, RpmType
<1>1. CASE FillStep \/ MoveStep \/ ReadStep \/ HandlerStep
  BY <1>1, QueueEffects, RpmKeeps DEF ZrStays
<1>2. CASE EndStep \/ PlanStep
  BY <1>2, RpmKeeps DEF PhaseInv
<1>3. CASE BlocksStep
  <2>1. zr'.code = zr.code /\ zr.state = "runs"
    BY <1>3, RpmKeeps
  <2>2. ASSUME NEW s \in Steps, zr.did[s] = "done"
        PROVE  zr'.did[s] = "done"
    <3>1. CASE BlockBegin \/ BlockTag
      BY <2>2, <3>1, BlockEffects DEF GoesOn
    <3>2. CASE BlockStop
      BY <1>0, <2>1, <2>2, <3>2, BlockEffects DEF GoesOn
    <3>3. CASE BlockFails
      <4>1. /\ zr.at = "tagged"
            /\ zr'.did = IF Package(zr.block.type) THEN Failed(zr.did, zr.block.step) ELSE zr.did
        BY <2>1, <3>3, BlockEffects DEF GoesOn
      <4> QED  BY <1>0, <2>2, <4>1, BlockFacts DEF Failed
    <3>4. CASE BlockError
      <4>1. /\ zr.at = "error"
            /\ \/ zr'.did = zr.did
               \/ /\ zr.block.type = "script" /\ zr.plan # <<>>
                  /\ zr'.did = Failed(zr.did, zr.block.step)
        BY <2>1, <3>4, BlockEffects DEF GoesOn
      <4>2. zr.block.type = "script" /\ zr.plan # <<>> => zr.block.step # s
        BY <1>0, <2>2, <4>1, BlockFacts DEF Fresh
      <4> QED  BY <1>0, <2>2, <4>1, <4>2 DEF Failed
    <3> QED  BY <1>3, <3>1, <3>2, <3>3, <3>4 DEF BlocksStep
  <2> QED  BY <2>1, <2>2
<1> QED
  BY <1>1, <1>2, <1>3, StepGroups

\* A package that is in error stays so.
LEMMA ErrorStays ==
    ASSUME TypeInv, PhaseInv, WorkInv, StreamInv, StepsInv, EffectInv, CommitNext, ~FillStep,
           NEW s \in Todo, lz.stage[s] = "error"
    PROVE  lz'.stage[s] = "error"
<1>0. s \in Steps /\ Effect(s) /\ zr.did[s] \in Deed
  BY StepsAreNumbers DEF EffectInv, TypeInv, RpmType
<1>1. CASE MoveStep
  <2>1. \E phase : Moves(phase, lz.stage) \/ Moves(phase, ProductsDone)
    BY <1>1, MoveEffects DEF MoveStep
  <2> QED  BY <1>0, <2>1 DEF Moves, ProductsDone
<1>2. CASE HandlerStep
  <2>1. ~Touches(This, s)
    <3>1. 1 \in DOMAIN Unread /\ Unread[1] = This
      BY <1>2, HandlerReports
    <3>2. zr.did[s] = "failed"
      BY <1>0 DEF Effect, StillTodo, BecomesDone, Deed
    <3> QED  BY <1>0, <3>1, <3>2 DEF Effect, BecomesError
  <2>2. TakesEffect(s)
    BY <1>2, HandlerTouches
  <2> QED  BY <2>1, <2>2 DEF TakesEffect
<1>3. CASE ReadStep
  BY <1>3, ReadEffects DEF ReadStep, ReadsOnly
<1>4. CASE EndStep \/ PlanStep \/ BlocksStep
  BY <1>4, RpmKeeps
<1> QED
  BY <1>1, <1>2, <1>3, <1>4, StepGroups

LEMMA EndsWellStays ==
    ASSUME TypeInv, PhaseInv, WorkInv, StreamInv, StepsInv, EffectInv, CommitNext, ~FillStep,
           NEW b, Package(b.type), b.step \in Todo, EndsWell(b)
    PROVE  EndsWell(b)'
<1>0. b.step \in Steps
  BY StepsAreNumbers
<1>1. CASE zr.code = "Signal" \/ zr.did[b.step] = "done"
  BY <1>0, <1>1, DoneStays DEF EndsWell
<1>2. CASE lz.stage[b.step] = "error"
  BY <1>2, ErrorStays DEF EndsWell
<1>3. CASE zr.at # "idle" /\ zr.block = b
  <2>1. CASE FillStep \/ ReadStep \/ HandlerStep \/ MoveStep
    BY <1>3, <2>1, QueueEffects, RpmKeeps DEF EndsWell, ZrStays
  <2>2. CASE EndStep
    <3>1. zr'.code = "Signal"
      BY <1>3, <2>2, RpmEndsEffects DEF EndStep, Ready, TypeInv, RpmType, GoneWith
    <3> QED  BY <3>1 DEF EndsWell
  <2>3. CASE PlanStep
    BY <1>3, <2>3, RpmPlanEffects DEF PlanStep, Ready, EndsWell, SameBlock
  <2>4. CASE BlocksStep
    <3>0. zr.state = "runs" /\ zr.did \in [Steps -> Deed] /\ UNCHANGED lz
      BY <2>4, RpmKeeps DEF TypeInv, RpmType
    <3>1. CASE BlockBegin
      BY <1>3, <3>1, BlockEffects
    <3>2. CASE BlockTag
      BY <1>3, <3>2, BlockEffects DEF EndsWell
    <3>3. CASE BlockStop
      <4>1. zr'.did = [zr.did EXCEPT ![b.step] = "done"]
        BY <1>3, <3>0, <3>3, BlockEffects DEF GoesOn
      <4> QED  BY <1>0, <3>0, <4>1 DEF EndsWell
    <3>4. CASE BlockFails
      <4>1. zr'.at = "error" /\ zr'.block = zr.block
        BY <3>0, <3>4, BlockEffects
      <4> QED  BY <1>3, <4>1 DEF EndsWell
    <3>5. CASE BlockError
      <4>1. PICK fatal \in BOOLEAN : Sends(Says("Error", fatal))
        BY <3>0, <3>5, BlockEffects
      <4> DEFINE m == Says("Error", fatal)
      <4>2. Pushed(m) /\ m.say = "Error" /\ m.block = b
        BY <1>3, <3>0, <4>1, PushedQueue DEF Says
      <4> HIDE DEF m
      <4>3. Len(Unread) + 1 \in DOMAIN Unread' /\ Unread'[Len(Unread) + 1] = m
        BY <4>2 DEF Pushed
      <4> QED  BY <4>2, <4>3 DEF EndsWell
    <3> QED  BY <2>4, <3>1, <3>2, <3>3, <3>4, <3>5 DEF BlocksStep
  <2> QED  BY <2>1, <2>2, <2>3, <2>4, StepGroups
<1>4. CASE \E i \in DOMAIN Unread : Unread[i].say = "Error" /\ Unread[i].block = b
  <2>1. PICK i \in DOMAIN Unread : Unread[i].say = "Error" /\ Unread[i].block = b
    BY <1>4
  <2>2. CASE Unread' = Unread
    BY <2>1, <2>2 DEF EndsWell
  <2>3. CASE \E m : Pushed(m)
    <3>1. i \in DOMAIN Unread' /\ Unread'[i] = Unread[i]
      BY <2>3 DEF Pushed
    <3> QED  BY <2>1, <3>1 DEF EndsWell
  <2>4. CASE HandlerStep
    <3>1. Popped /\ Unread[1] = This
      BY <2>4, HandlerReports
    <3>2. CASE i = 1
      <4>1. OnPackageError
        BY <2>1, <2>4, <3>1, <3>2, HandlerEffects DEF HandlerStep, Package
      <4>2. lz'.stage = [lz.stage EXCEPT ![b.step] = "error"] /\ lz.stage \in [Steps -> {"todo", "done", "error"}]
        BY <2>1, <3>1, <3>2, <4>1, HandlerEffects DEF Handled, TypeInv, LibraryType
      <4> QED  BY <1>0, <4>2 DEF EndsWell
    <3>3. CASE i # 1
      <4>1. i - 1 \in DOMAIN Unread' /\ (i - 1) + 1 = i
        BY <3>1, <3>3 DEF Popped
      <4>2. Unread'[i - 1] = Unread[i]
        BY <3>1, <4>1 DEF Popped
      <4> QED  BY <2>1, <4>1, <4>2 DEF EndsWell
    <3> QED  BY <3>2, <3>3
  <2>5. HandlerStep \/ Unread' = Unread \/ \E m : Pushed(m)
    <3>1. BlocksStep => Unread' = Unread \/ \E m : Pushed(m)
      <4>1. CASE BlockTag
        BY <4>1, QueueEffects
      <4>2. CASE BlockBegin \/ BlockStop \/ BlockFails \/ BlockError
        <5>1. BlocksStep
          BY <4>2 DEF BlocksStep
        <5>2. zr.state = "runs" /\ UNCHANGED lz
          BY <5>1, RpmKeeps
        <5>3. \E m : Sends(m)
          BY <4>2, <5>2, BlockEffects
        <5> QED  BY <5>2, <5>3, PushedQueue
      <4> QED  BY <4>1, <4>2 DEF BlocksStep
    <3> QED  BY <3>1, StepGroups, QueueEffects
  <2> QED  BY <2>2, <2>3, <2>4, <2>5
<1> QED
  BY <1>1, <1>2, <1>3, <1>4 DEF EndsWell

LEMMA NewMessages ==
    ASSUME TypeInv, StreamInv, CommitNext, NEW i \in DOMAIN Unread', Unread'[i].say = "Begin"
    PROVE  \/ \E j \in DOMAIN Unread : Unread'[i] = Unread[j]
           \/ zr'.at # "idle" /\ zr'.block = Unread'[i].block
<1>1. CASE Unread' = Unread
  BY <1>1
<1>2. ASSUME NEW m, Pushed(m), i # Len(Unread) + 1
      PROVE  \E j \in DOMAIN Unread : Unread'[i] = Unread[j]
  <2>1. i \in DOMAIN Unread
    BY <1>2 DEF Pushed
  <2> QED  BY <1>2, <2>1 DEF Pushed
<1>3. CASE HandlerStep
  <2>1. Popped
    BY <1>3, QueueEffects
  <2>2. i + 1 \in DOMAIN Unread /\ Unread'[i] = Unread[i + 1]
    BY <2>1 DEF Popped
  <2> QED  BY <2>2
<1>4. CASE EndStep
  <2>1. Unread' = Unread \/ Pushed(TransactionError)
    BY <1>4, QueueEffects
  <2>2. Pushed(TransactionError) => i # Len(Unread) + 1
    BY DEF Pushed, TransactionError
  <2> QED  BY <1>1, <1>2, <2>1, <2>2
<1>5. CASE BlockBegin
  <2>1. /\ UNCHANGED lz /\ zr'.at = "begun"
        /\ Sends([say |-> "Begin", block |-> zr'.block, fatal |-> FALSE])
    BY <1>5, BlockEffects DEF GoesOn
  <2> DEFINE m == [say |-> "Begin", block |-> zr'.block, fatal |-> FALSE]
  <2>2. Pushed(m) /\ m.block = zr'.block
    BY <2>1, PushedQueue
  <2> HIDE DEF m
  <2>3. i = Len(Unread) + 1 => Unread'[i].block = zr'.block
    BY <2>2 DEF Pushed
  <2> QED  BY <1>2, <2>1, <2>2, <2>3
<1>6. CASE BlockStop \/ BlockFails \/ BlockError
  <2>1. zr.state = "runs" /\ UNCHANGED lz
    BY <1>6, RpmKeeps DEF BlocksStep
  <2>2. PICK say \in {"Finished", "Error"}, fatal \in BOOLEAN : Sends(Says(say, fatal))
    BY <1>6, <2>1, BlockEffects
  <2> DEFINE m == Says(say, fatal)
  <2>3. Pushed(m) /\ m.say # "Begin"
    BY <2>1, <2>2, PushedQueue DEF Says
  <2> HIDE DEF m
  <2>4. i # Len(Unread) + 1
    BY <2>3 DEF Pushed
  <2> QED  BY <1>2, <2>3, <2>4
<1> QED
  BY <1>1, <1>3, <1>4, <1>5, <1>6, StepGroups, QueueEffects DEF BlocksStep

LEMMA NewReport ==
    ASSUME TypeInv, StreamInv, CommitNext
    PROVE  \/ lz'.report \in {lz.report, NoBlock}
           \/ 1 \in DOMAIN Unread /\ Unread[1].say = "Begin" /\ lz'.report = Unread[1].block
<1>1. CASE FillStep
  BY <1>1, FillEffects DEF FillsTo
<1>2. CASE MoveStep
  <2>1. \E phase, stage : Moves(phase, stage)
    BY <1>2, MoveEffects DEF MoveStep
  <2> QED  BY <2>1 DEF Moves
<1>3. CASE ReadStep
  BY <1>3, ReadEffects DEF ReadStep
<1>4. CASE HandlerStep
  BY <1>4, HandlerReports
<1>5. CASE EndStep \/ PlanStep \/ BlocksStep
  BY <1>5, RpmKeeps
<1> QED
  BY <1>1, <1>2, <1>3, <1>4, <1>5, StepGroups

LEMMA ReportStep ==
    ASSUME TypeInv, PhaseInv, WorkInv, StreamInv, StepsInv, EffectInv, ReportInv, CommitNext
    PROVE  ReportInv'
<1>0. ~Package(NoBlock.type)
  BY DEF Package, NoBlock
<1>1. CASE FillStep
  <2>1. Unread' = Unread /\ lz'.report = lz.report /\ lz.phase = "fill"
    BY <1>1, FillEffects, QueueEffects DEF FillsTo, Filling
  <2>2. Unread = <<>> /\ lz.report = NoBlock
    BY <2>1 DEF PhaseInv, TypeInv, RpmType
  <2>3. DOMAIN Unread = {}
    BY <2>2
  <2> QED  BY <1>0, <2>1, <2>2, <2>3 DEF ReportInv, EndsWell
<1>2. CASE ~FillStep
  <2>1. ASSUME NEW b, \/ b = lz.report
                      \/ \E j \in DOMAIN Unread : Unread[j].say = "Begin" /\ Unread[j].block = b
        PROVE  EndsWell(b)'
    <3>1. EndsWell(b) /\ (Package(b.type) => b.step \in Todo)
      BY <2>1 DEF ReportInv, StepsInv
    <3>2. CASE Package(b.type)
      BY <1>2, <3>1, <3>2, EndsWellStays
    <3>3. CASE ~Package(b.type)
      BY <3>3 DEF EndsWell
    <3> QED  BY <3>2, <3>3
  <2>2. ASSUME NEW b, b = lz'.report
        PROVE  EndsWell(b)'
    <3>1. CASE b = NoBlock
      BY <1>0, <3>1 DEF EndsWell
    <3>2. CASE b # NoBlock
      BY <2>1, <2>2, <3>2, NewReport
    <3> QED  BY <3>1, <3>2
  <2>3. ASSUME NEW i \in DOMAIN Unread', Unread'[i].say = "Begin", NEW b, b = Unread'[i].block
        PROVE  EndsWell(b)'
    <3>1. CASE \E j \in DOMAIN Unread : Unread'[i] = Unread[j]
      BY <2>1, <2>3, <3>1
    <3>2. CASE zr'.at # "idle" /\ zr'.block = Unread'[i].block
      BY <2>3, <3>2 DEF EndsWell
    <3> QED  BY <2>3, <3>1, <3>2, NewMessages
  <2> QED  BY <2>2, <2>3 DEF ReportInv, EndsWell
<1> QED
  BY <1>1, <1>2

\* Who closes the report of a package knows how it ended.
LEMMA ClosedReport ==
    ASSUME TypeInv, PhaseInv, WorkInv, StreamInv, StepsInv, ReportInv,
           OnBegin \/ LastReport, Package(lz.report.type)
    PROVE  \/ zr.code = "Signal" \/ lz.stage[lz.report.step] = "error"
           \/ zr.did[lz.report.step] = "done"
<1>1. EndsWell(lz.report)
  BY DEF ReportInv
<1>2. CASE OnBegin
  <2>1. 1 \in DOMAIN Unread /\ Unread[1].say = "Begin"
    BY <1>2, HandlerReports, HandlerEffects DEF HandlerStep
  <2>2. /\ lz.report.n < Unread[1].block.n /\ Unread[1].block.n \in Nat /\ lz.report.n \in Nat
    BY <2>1, UnreadType DEF StreamInv, NumberInv, TypeInv, LibraryType, Block, NoBlock
  <2>3. ~(zr.at # "idle" /\ zr.block = lz.report)
    <3>1. SUFFICES ASSUME zr.at # "idle"
                   PROVE  zr.block # lz.report
      OBVIOUS
    <3>2. Unread[1].block.n <= zr.block.n /\ zr.block.n \in Nat
      BY <2>1, <3>1, LastBlock, BlockFacts
    <3> QED  BY <2>2, <3>2
  <2>4. ASSUME NEW i \in DOMAIN Unread, Unread[i].say = "Error"
        PROVE  Unread[i].block # lz.report
    <3>1. i # 1 /\ 1 < i
      BY <2>1, <2>4, UnreadType
    <3>2. Unread[1].block.n <= Unread[i].block.n /\ Unread[i].block.n \in Nat
      BY <2>1, <2>4, <3>1, UnreadType DEF StreamInv, NumberInv
    <3> QED  BY <2>2, <3>2
  <2> QED  BY <1>1, <2>3, <2>4 DEF EndsWell
<1>3. CASE LastReport
  <2>1. Unread = <<>> /\ DOMAIN Unread = {} /\ zr.at = "idle"
    <3>1. /\ lz.phase = "drain" /\ lz.inbox = <<>> /\ pipes.msgs = <<>>
      BY <1>3, ReadEffects
    <3>2. Unread = <<>> /\ zr.state = "gone"
      BY <3>1, UnreadType DEF PhaseInv
    <3> QED  BY <3>2 DEF TypeInv, RpmType
  <2> QED  BY <1>1, <2>1 DEF EndsWell
<1> QED
  BY <1>2, <1>3

LEMMA LoggedStep ==
    ASSUME TypeInv, PhaseInv, WorkInv, StreamInv, StepsInv, EffectInv, ReportInv, LoggedIsDone,
           CommitNext
    PROVE  LoggedIsDone'
<1>0. /\ Steps' = Steps /\ lz.logged \in [Steps -> {"no", "ok", "failed"}]
      /\ \A s \in Steps : zr.did[s] = "done" => zr'.did[s] = "done"
      /\ zr.code = "Signal" => zr'.code = "Signal"
  BY TodoEffects, DoneStays DEF TypeInv, LibraryType
<1>1. CASE lz'.logged = lz.logged
  BY <1>0, <1>1 DEF LoggedIsDone
<1>2. CASE (OnBegin \/ LastReport) /\ Package(lz.report.type)
  <2>1. lz'.logged = [lz.logged EXCEPT ![lz.report.step] =
                          IF lz.stage[lz.report.step] = "error" THEN "failed" ELSE "ok"]
    BY <1>2, HandlerEffects, ReadEffects DEF Handled, Logged
  <2>2. \/ zr.code = "Signal" \/ lz.stage[lz.report.step] = "error"
        \/ zr.did[lz.report.step] = "done"
    BY <1>2, ClosedReport
  <2> QED  BY <1>0, <2>1, <2>2 DEF LoggedIsDone
<1>3. CASE OnPackageError
  <2>1. /\ This.say = "Error" /\ Package(This.block.type) /\ lz.report = This.block
        /\ This.block.step \in Steps
    <3>1. /\ This.say = "Error" /\ Package(This.block.type)
      BY <1>3, HandlerEffects
    <3>2. lz.report = This.block
      BY <1>3, <3>1, HandlerReports DEF HandlerStep
    <3> QED  BY <3>1, <3>2, StepsAreNumbers DEF StepsInv
  <2>2. lz'.logged = [lz.logged EXCEPT ![lz.report.step] = "failed"]
    <3> DEFINE stage == [lz.stage EXCEPT ![This.block.step] = "error"]
    <3>1. lz'.logged = Logged(lz.logged, lz.report, stage)
      BY <1>3, HandlerEffects DEF Handled
    <3>2. stage[lz.report.step] = "error"
      BY <2>1 DEF TypeInv, LibraryType
    <3> HIDE DEF stage
    <3> QED  BY <2>1, <3>1, <3>2 DEF Logged
  <2> QED  BY <1>0, <2>2 DEF LoggedIsDone
<1>4. \/ lz'.logged = lz.logged \/ OnPackageError
      \/ (OnBegin \/ LastReport) /\ Package(lz.report.type)
  <2>1. CASE FillStep
    BY <2>1, FillEffects DEF FillsTo
  <2>2. CASE MoveStep
    <3>1. \E phase, stage : Moves(phase, stage)
      BY <2>2, MoveEffects DEF MoveStep
    <3> QED  BY <3>1 DEF Moves
  <2>3. CASE ReadStep
    BY <2>3, ReadEffects DEF ReadStep, Logged
  <2>4. CASE OnBegin
    BY <2>4, HandlerEffects DEF Handled, Logged
  <2>5. CASE OnFinished
    <3>1. /\ This.say = "Finished" /\ This.block.type \in {"trans", "cleanup"}
          /\ lz'.logged = Logged(lz.logged, lz.report, lz.stage)
      BY <2>5, HandlerEffects DEF Handled
    <3>2. lz.report = This.block
      BY <2>5, <3>1, HandlerReports DEF HandlerStep
    <3> QED  BY <3>1, <3>2 DEF Logged, Package
  <2>6. CASE OnPackageFinished \/ OnScriptFinished \/ OnScriptError \/ OnTransactionError
    BY <2>6, HandlerEffects DEF Handled
  <2>7. CASE EndStep \/ PlanStep \/ BlocksStep
    BY <2>7, RpmKeeps
  <2> QED  BY <2>1, <2>2, <2>3, <2>4, <2>5, <2>6, <2>7, StepGroups DEF HandlerStep
<1> QED
  BY <1>1, <1>2, <1>3, <1>4

-----------------------------------------------------------------------------
(* The theorems about the history and the result.                             *)

RecordInv == OrderInv /\ StepsInv /\ EffectInv /\ ReportInv /\ LoggedIsDone

LEMMA RecordInit ==
    ASSUME CommitInit
    PROVE  RecordInv
<1>1. /\ lz.report = NoBlock /\ lz.stage = [s \in Steps |-> "todo"]
      /\ lz.logged = [s \in Steps |-> "no"] /\ lz.todo = <<>>
      /\ ~Package(NoBlock.type)
  BY DEF CommitInit, Steps, NoBlock, Package
<1>2. OrderInv /\ TypeInv
  BY OrderInit DEF OrderInv
<1>3. DOMAIN Unread = {} /\ Todo = {}
  <2>1. zr.state = "none"
    BY DEF CommitInit
  <2>2. Unread = <<>>
    BY <1>2, <2>1 DEF OrderInv, PhaseInv
  <2> QED  BY <1>1, <1>2, <2>2, TodoEffects
<1>4. StepsInv /\ EffectInv /\ ReportInv /\ LoggedIsDone
  BY <1>1, <1>3 DEF StepsInv, EffectInv, ReportInv, EndsWell, LoggedIsDone
<1> QED
  BY <1>2, <1>4 DEF RecordInv

LEMMA RecordStep ==
    ASSUME RecordInv, [CommitNext]_commitVars
    PROVE  RecordInv'
<1>1. OrderInv'
  BY OrderStep DEF RecordInv
<1>2. CASE CommitNext
  <2>1. StepsInv'
    BY <1>1, <1>2, StepsStep DEF RecordInv, OrderInv
  <2>2. EffectInv'
    BY <1>2, EffectStep DEF RecordInv, OrderInv
  <2>3. ReportInv'
    BY <1>2, ReportStep DEF RecordInv, OrderInv
  <2>4. LoggedIsDone'
    BY <1>2, LoggedStep DEF RecordInv, OrderInv
  <2> QED  BY <1>1, <2>1, <2>2, <2>3, <2>4 DEF RecordInv
<1>3. CASE UNCHANGED commitVars
  <2>1. /\ UNCHANGED <<lz, zr, pipes>> /\ Unread' = Unread /\ Todo' = Todo /\ Steps' = Steps
    BY <1>3, Stuttering
  <2>2. StepsInv'
    BY <2>1 DEF RecordInv, StepsInv
  <2>3. EffectInv'
    <3>1. ASSUME NEW s
          PROVE  BreaksNext(s)' <=> BreaksNext(s)
      BY <2>1 DEF BreaksNext
    <3>2. ASSUME NEW s \in Todo
          PROVE  Effect(s)'
      BY <2>1, <3>1, <3>2, SameEffect DEF RecordInv, EffectInv
    <3> QED  BY <2>1, <3>2 DEF RecordInv, EffectInv
  <2>4. ReportInv'
    BY <2>1 DEF RecordInv, ReportInv, EndsWell
  <2>5. LoggedIsDone'
    BY <2>1 DEF RecordInv, LoggedIsDone
  <2> QED  BY <1>1, <2>2, <2>3, <2>4, <2>5 DEF RecordInv
<1> QED
  BY <1>2, <1>3

\* The history says "ok" only of what rpm did, although a report is closed before
\* it is known how zypp-rpm goes on (finalizeCurrentReport in
\* TargetImpl::commitInSingleTransaction).
THEOREM LogIsTrue == CommitSpec => []LoggedIsDone
<1>1. RecordInv => LoggedIsDone
  BY DEF RecordInv
<1> QED
  BY <1>1, RecordInit, RecordStep, PTL DEF CommitSpec

\* The stages of the steps tell what rpm did when the commit returns, and a commit
\* that throws has not touched the system (the end of commitInSingleTransaction).
THEOREM ResultIsTrue == CommitSpec => []ResultTellsTruth
<1>1. RecordInv => ResultTellsTruth
  BY EffectTellsTruth DEF RecordInv, OrderInv
<1> QED
  BY <1>1, RecordInit, RecordStep, PTL DEF CommitSpec
==============================================================================
