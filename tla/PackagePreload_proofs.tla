-------------------------- MODULE PackagePreload_proofs --------------------------
(***************************************************************************)
(* Proofs about the download of packages before a commit, for all packages,  *)
(* repositories, mirrors and connections: each worker has its place in the   *)
(* dispatcher, the users of a mirror are counted, and the last word about    *)
(* each package is said once and is true.                                   *)
(***************************************************************************)
EXTENDS PackagePreload, ListLemmas

-----------------------------------------------------------------------------
(* The inductive invariant.                                                 *)

WorkerOps   == {"enqueue", "setFinished", "finished", "nextJob", "taint"}
BaseFrame   == [op : {"dequeue", "curl", "read"}]
               \cup [op : {"cancelAll"}, res : DownloadResult, was : BOOLEAN]
WorkerFrame == [op : {"enqueue", "nextJob", "taint"}, req : Download]
               \cup [op : {"setFinished", "finished"}, req : Download, res : DownloadResult]
Frame       == WorkerFrame \cup BaseFrame

NetType == [ pending : Seq(Download), running : Seq(Download), locked : BOOLEAN,
             mode : [Download -> {"pending", "running", "finished"}],
             inMulti : SUBSET Download, done : SUBSET [req : Download, res : DownloadResult],
             loop : {"stopped", "running", "quit"} ]

PreType == [ phase : {"start", "loop", "shutdown", "over"}, required : Seq(Job),
             started : 0..MaxConnections, missed : BOOLEAN, aborted : BOOLEAN,
             cached : SUBSET Job, told : [Job -> Nat] ]

LoaderType == [ finished : BOOLEAN, job : {0} \cup Job, mirror : RepoMirror \cup {NoMirror},
                repo : {0} \cup DOMAIN MirrorsOf, tainted : SUBSET RepoMirror, tmp : BOOLEAN,
                auths : 0..MaxAuth ]

Started == 1..pre.started

\* Only the innermost call is that of a worker.
CallsOK ==
    /\ calls \in Seq(Frame)
    /\ calls # <<>> => Tail(calls) \in Seq(BaseFrame)

PTypes ==
    /\ net \in NetType /\ pre \in PreType
    /\ loader \in [Download -> LoaderType]
    /\ mirrors \in [RepoMirror -> [refs : Nat, miss : Nat]]
    /\ CallsOK

\* Which worker the innermost call is about; whether the last word about its job
\* has not been said yet; whether it can be in none of the lists.
AtTop(ops) == IF calls # <<>> /\ Head(calls).op \in ops THEN {Head(calls).req} ELSE {}
InHand     == AtTop(WorkerOps)
InHandBusy == AtTop({"enqueue", "setFinished", "finished", "taint"})
InHandOnly == AtTop({"enqueue", "finished", "nextJob", "taint"})

Listed  == ToSet(net.running) \cup ToSet(net.pending)
Engaged == Listed \cup InHand
Busy    == Listed \cup InHandBusy
Known   == Busy \cup net.inMulti \cup {e.req : e \in net.done}

Has(op) == \E f \in ToSet(calls) : f.op = op

Phases ==
    /\ pre.phase = "start" => net.loop = "stopped" /\ ~pre.aborted
    /\ pre.phase = "loop"  => net.loop \in {"running", "quit"}
    /\ pre.phase \in {"shutdown", "over"} => /\ net.loop = "stopped" /\ pre.required = <<>>
                                             /\ \A w \in Started : loader[w].finished
    /\ Has("curl") => pre.phase = "loop"
    /\ net.loop = "quit" => pre.required = <<>> /\ \A w \in Started : loader[w].finished
    /\ \A w \in Download : loader[w].finished => pre.required = <<>> /\ w \in Started
    /\ pre.aborted => pre.missed /\ pre.required = <<>>
    /\ Known \subseteq Started /\ InHand \subseteq Started
    /\ \A w \in Known : loader[w].job \in Job

\* The stack while the user's abort is carried out: there is nothing but the loop
\* that cancels one request after the other.
AbortCancel == [op |-> "cancelAll", res |-> "cancelled", was |-> TRUE]

Aborting ==
    /\ net.locked
    /\ \/ calls = <<AbortCancel, CurlCall>>
       \/ calls = <<DequeueCall, AbortCancel, CurlCall>>
       \/ \E w \in Download :
             \/ calls = <<SetFinishedCall(w, "cancelled"), AbortCancel, CurlCall>>
             \/ calls = <<FinishedCall(w, "cancelled"), DequeueCall, AbortCancel, CurlCall>>
             \/ calls = <<NextJobCall(w), DequeueCall, AbortCancel, CurlCall>>

StackCalm ==
    /\ Has("curl") => calls = <<CurlCall>>
    /\ net.locked => Has("curl") \/ Has("cancelAll")
    /\ \A f \in ToSet(calls) : f.op = "cancelAll" => ~f.was

StackOK ==
    /\ pre.aborted /\ net.loop = "running" => Aborting
    /\ ~pre.aborted => StackCalm

\* Until the abort is carried out a worker that is not finished is in one place:
\* in one of the lists, once, or in hand.
Unabandoned == ~pre.aborted \/ net.loop = "running"

OnePlace ==
    /\ IsInjective(net.running) /\ IsInjective(net.pending)
    /\ ToSet(net.running) \cap ToSet(net.pending) = {}
    /\ InHandOnly \cap Listed = {}
    /\ net.pending # <<>> => Has("dequeue") \/ Has("cancelAll")

ListsOK ==
    Unabandoned =>
        /\ OnePlace
        /\ \A w \in Started : loader[w].finished <=> w \notin Engaged
        /\ net.loop = "running" => \E w \in Started : ~loader[w].finished

\* Without an abort curl has what is listed as running.
InCurlListed ==
    /\ net.inMulti = ToSet(net.running)
    /\ \A e \in net.done : e.req \in ToSet(net.running)
    /\ \A d \in Download : net.mode[d] = "running" => d \in ToSet(net.running)

MultiOK == ~pre.aborted => InCurlListed

\* Without an abort a job is required, somebody's, or the last word about it was
\* said, once; it has a file then, or it is known that one is missing.
JobsTold ==
    /\ IsInjective(pre.required)
    /\ \A j \in ToSet(pre.required) : pre.told[j] = 0
    /\ \A w \in Busy : pre.told[loader[w].job] = 0 /\ loader[w].job \notin ToSet(pre.required)
    /\ \A v, w \in Busy : loader[v].job = loader[w].job => v = w
    /\ \A j \in Job : /\ pre.told[j] \in {0, 1}
                      /\ pre.told[j] = 0 => \/ j \in ToSet(pre.required)
                                            \/ \E w \in Busy : loader[w].job = j
                      /\ ~pre.missed /\ pre.told[j] = 1 => j \in pre.cached

JobsOK == ~pre.aborted => JobsTold

PreloadInv ==
    PTypes /\ MirrorUsers /\ Phases /\ StackOK /\ ListsOK /\ MultiOK /\ JobsOK

-----------------------------------------------------------------------------
(* Calls.                                                                   *)

LEMMA BaseFrames ==
    ASSUME NEW f \in BaseFrame
    PROVE  /\ f.op \in {"dequeue", "curl", "read", "cancelAll"} /\ f.op \notin WorkerOps
           /\ f.op = "cancelAll" => f.res \in DownloadResult /\ f.was \in BOOLEAN
  BY DEF BaseFrame, WorkerOps

LEMMA WorkerFrames ==
    ASSUME NEW f \in WorkerFrame
    PROVE  /\ f.op \in WorkerOps /\ f.req \in Download
           /\ f.op \in {"setFinished", "finished"} => f.res \in DownloadResult
  BY DEF WorkerFrame, WorkerOps

LEMMA NewFrames ==
    ASSUME NEW w \in Download, NEW res \in DownloadResult
    PROVE  /\ EnqueueCall(w) \in WorkerFrame /\ NextJobCall(w) \in WorkerFrame
           /\ TaintCall(w) \in WorkerFrame
           /\ SetFinishedCall(w, res) \in WorkerFrame /\ FinishedCall(w, res) \in WorkerFrame
  BY DEF WorkerFrame, EnqueueCall, NextJobCall, TaintCall, SetFinishedCall, FinishedCall

LEMMA NewBaseFrames ==
    DequeueCall \in BaseFrame /\ CurlCall \in BaseFrame /\ ReadCall \in BaseFrame
  BY DEF BaseFrame, DequeueCall, CurlCall, ReadCall

\* One call on top of others.
TopOf(T, f, s, t) ==
    /\ t \in Seq(T) /\ t # <<>> /\ Head(t) = f /\ Tail(t) = s
    /\ ToSet(t) = {f} \cup ToSet(s)

LEMMA OnTop ==
    ASSUME NEW T, NEW f \in T, NEW s \in Seq(T), NEW t, t = <<f>> \o s
    PROVE  TopOf(T, f, s, t)
<1>1. /\ <<f>> \in Seq(T) /\ Len(<<f>>) = 1 /\ <<f>>[1] = f /\ Len(s) \in Nat
  OBVIOUS
<1>2. /\ t \in Seq(T) /\ Len(t) = 1 + Len(s)
      /\ \A k \in 1..1 + Len(s) : t[k] = IF k <= 1 THEN <<f>>[k] ELSE s[k - 1]
      /\ ToSet(t) = ToSet(<<f>>) \cup ToSet(s)
  BY <1>1, Joined
<1>3. ToSet(<<f>>) = {f}
  BY DEF ToSet
<1>4. t # <<>> /\ Head(t) = f
  BY <1>1, <1>2
<1>5. Tail(t) = s
  <2>1. Len(Tail(t)) = Len(s) /\ Tail(t) \in Seq(T)
    BY <1>1, <1>2
  <2>2. \A k \in 1..Len(s) : Tail(t)[k] = s[k]
    BY <1>1, <1>2
  <2> QED
    BY <2>1, <2>2
<1> QED
  BY <1>2, <1>3, <1>4, <1>5 DEF TopOf

LEMMA TakenOff ==
    ASSUME NEW T, NEW s \in Seq(T), s # <<>>
    PROVE  /\ Head(s) \in T /\ Tail(s) \in Seq(T) /\ s = <<Head(s)>> \o Tail(s)
           /\ ToSet(s) = {Head(s)} \cup ToSet(Tail(s))
           /\ \A S : Head(s) \in S /\ Tail(s) \in Seq(S) => s \in Seq(S)
<1>1. Head(s) \in T /\ Tail(s) \in Seq(T) /\ Len(s) \in Nat /\ Len(s) > 0
  OBVIOUS
<1>2. s = <<Head(s)>> \o Tail(s)
  <2>1. /\ <<Head(s)>> \o Tail(s) \in Seq(T) /\ Len(<<Head(s)>> \o Tail(s)) = Len(s)
    BY <1>1
  <2>2. \A k \in 1..Len(s) : (<<Head(s)>> \o Tail(s))[k] = s[k]
    BY <1>1
  <2> QED
    BY <2>1, <2>2
<1>3. ToSet(s) = {Head(s)} \cup ToSet(Tail(s))
  <2> DEFINE h == Head(s)  r == Tail(s)
  <2>1. h \in T /\ r \in Seq(T) /\ s = <<h>> \o r
    BY <1>1, <1>2
  <2> HIDE DEF h, r
  <2>2. ToSet(s) = {h} \cup ToSet(r)
    BY <2>1, OnTop DEF TopOf
  <2> QED
    BY <2>2 DEF h, r
<1>4. ASSUME NEW S, Head(s) \in S, Tail(s) \in Seq(S) PROVE s \in Seq(S)
  <2>1. ToSet(Tail(s)) \subseteq S
    BY <1>4, Members
  <2> QED
    BY <2>1, <1>3, <1>4, MembersIn
<1> QED
  BY <1>1, <1>2, <1>3, <1>4

\* The innermost call.
LEMMA InnermostCall ==
    ASSUME PTypes, calls # <<>>
    PROVE  /\ Head(calls) \in Frame /\ Tail(calls) \in Seq(BaseFrame)
           /\ ToSet(calls) = {Head(calls)} \cup ToSet(Tail(calls))
           /\ Head(calls) \in BaseFrame => calls \in Seq(BaseFrame)
           /\ Head(calls).op \in WorkerOps => Head(calls) \in WorkerFrame /\ Head(calls).req \in Download
           /\ Head(calls).op \notin WorkerOps => Head(calls) \in BaseFrame
           /\ ToSet(Tail(calls)) \subseteq BaseFrame
<1>1. /\ Head(calls) \in Frame
      /\ ToSet(calls) = {Head(calls)} \cup ToSet(Tail(calls))
      /\ Head(calls) \in BaseFrame => calls \in Seq(BaseFrame)
  BY TakenOff DEF PTypes, CallsOK
<1>2. /\ Head(calls) \in WorkerFrame => Head(calls).op \in WorkerOps /\ Head(calls).req \in Download
      /\ Head(calls) \in BaseFrame => Head(calls).op \notin WorkerOps
  BY WorkerFrames, BaseFrames
<1>3. Tail(calls) \in Seq(BaseFrame) /\ ToSet(Tail(calls)) \subseteq BaseFrame
  BY Members DEF PTypes, CallsOK
<1> QED
  BY <1>1, <1>2, <1>3 DEF Frame

\* What a worker has to do with the innermost call.
LEMMA InHandIs ==
    /\ calls = <<>> => InHand = {} /\ InHandBusy = {} /\ InHandOnly = {}
    /\ calls # <<>> =>
              /\ Head(calls).op \notin WorkerOps => InHand = {} /\ InHandBusy = {} /\ InHandOnly = {}
              /\ Head(calls).op \in {"enqueue", "finished", "taint"}
                    => /\ InHand = {Head(calls).req} /\ InHandBusy = {Head(calls).req}
                       /\ InHandOnly = {Head(calls).req}
              /\ Head(calls).op = "setFinished"
                    => /\ InHand = {Head(calls).req} /\ InHandBusy = {Head(calls).req}
                       /\ InHandOnly = {}
              /\ Head(calls).op = "nextJob"
                    => /\ InHand = {Head(calls).req} /\ InHandBusy = {}
                       /\ InHandOnly = {Head(calls).req}
  BY DEF InHand, InHandBusy, InHandOnly, AtTop, WorkerOps

\* The innermost call returns.
CallReturns == calls # <<>> /\ calls' = Tail(calls)

LEMMA ReturnedCall ==
    ASSUME PTypes, CallReturns
    PROVE  /\ CallsOK' /\ calls' \in Seq(BaseFrame)
           /\ InHand' = {} /\ InHandBusy' = {} /\ InHandOnly' = {}
           /\ ToSet(calls) = {Head(calls)} \cup ToSet(calls')
<1>1. calls' \in Seq(BaseFrame) /\ ToSet(calls) = {Head(calls)} \cup ToSet(calls')
  BY InnermostCall DEF CallReturns
<1>2. calls' # <<>> => Tail(calls') \in Seq(BaseFrame) /\ Head(calls') \in BaseFrame
  BY <1>1
<1>3. calls' \in Seq(Frame)
  BY <1>1, Members, MembersIn DEF Frame
<1>4. calls' # <<>> => Head(calls').op \notin WorkerOps
  BY <1>2, BaseFrames
<1>5. InHand' = {} /\ InHandBusy' = {} /\ InHandOnly' = {}
  BY <1>4 DEF InHand, InHandBusy, InHandOnly, AtTop, WorkerOps
<1> QED
  BY <1>1, <1>2, <1>3, <1>5 DEF CallsOK

\* A new innermost call, above calls that are not about a worker.
CallMade(f, s) == calls' = <<f>> \o s

LEMMA MadeCall ==
    ASSUME NEW f \in Frame, NEW s \in Seq(BaseFrame), CallMade(f, s)
    PROVE  /\ CallsOK' /\ calls' # <<>> /\ Tail(calls') = s /\ Head(calls') = f
           /\ ToSet(calls') = {f} \cup ToSet(s)
           /\ f.op \notin WorkerOps => InHand' = {} /\ InHandBusy' = {} /\ InHandOnly' = {}
           /\ f.op \in {"enqueue", "finished", "taint"}
                 => InHand' = {f.req} /\ InHandBusy' = {f.req} /\ InHandOnly' = {f.req}
           /\ f.op = "setFinished" => InHand' = {f.req} /\ InHandBusy' = {f.req} /\ InHandOnly' = {}
           /\ f.op = "nextJob" => InHand' = {f.req} /\ InHandBusy' = {} /\ InHandOnly' = {f.req}
<1>1. s \in Seq(Frame)
  BY Members, MembersIn DEF Frame
<1>2. /\ calls' \in Seq(Frame) /\ calls' # <<>> /\ Tail(calls') = s /\ Head(calls') = f
      /\ ToSet(calls') = {f} \cup ToSet(s)
  <2> DEFINE t == <<f>> \o s
  <2>1. f \in Frame /\ s \in Seq(Frame) /\ calls' = t /\ t = <<f>> \o s
    BY <1>1 DEF CallMade
  <2> HIDE DEF t
  <2>2. TopOf(Frame, f, s, t)
    BY <2>1, OnTop, Zenon
  <2> QED
    BY <2>1, <2>2 DEF TopOf
<1> QED
  BY <1>2 DEF CallsOK, InHand, InHandBusy, InHandOnly, AtTop, WorkerOps

\* The two frames of SetFinished.
LEMMA TwoFrames ==
    ASSUME NEW T, NEW f \in T, NEW g \in T, NEW s \in Seq(T)
    PROVE  <<f, g>> \o s = <<f>> \o (<<g>> \o s) /\ <<g>> \o s \in Seq(T)
<1>1. <<f>> \in Seq(T) /\ <<g>> \in Seq(T)
  OBVIOUS
<1>2. <<f, g>> = <<f>> \o <<g>>
  <2> DEFINE p == <<f, g>>  q == <<f>> \o <<g>>
  <2>1. p \in Seq(T) /\ q \in Seq(T) /\ Len(p) = 2 /\ Len(q) = 2
    OBVIOUS
  <2>2. p[1] = f /\ p[2] = g /\ q[1] = f /\ q[2] = g
    OBVIOUS
  <2>3. \A k \in 1..2 : p[k] = q[k]
    BY <2>2
  <2> HIDE DEF p, q
  <2>4. p = q
    BY <2>1, <2>3
  <2> QED
    BY <2>4 DEF p, q
<1>3. (<<f>> \o <<g>>) \o s = <<f>> \o (<<g>> \o s)
  BY <1>1, ConcatAssociative
<1> QED
  BY <1>1, <1>2, <1>3

-----------------------------------------------------------------------------
(* What the steps have in common.                                           *)

LEMMA TailRemoved ==
    ASSUME NEW T, NEW s \in Seq(T), s # <<>>
    PROVE  /\ Head(s) \in T /\ Head(s) \in ToSet(s) /\ Tail(s) \in Seq(T)
           /\ ToSet(s) = {Head(s)} \cup ToSet(Tail(s))
           /\ IsInjective(s) => /\ IsInjective(Tail(s)) /\ Head(s) \notin ToSet(Tail(s))
                                /\ ToSet(Tail(s)) = ToSet(s) \ {Head(s)}
<1> DEFINE t == Tail(s)  h == Head(s)
<1>1. h \in T /\ t \in Seq(T) /\ ToSet(s) = {h} \cup ToSet(t)
  BY TakenOff
<1>2. /\ Len(s) \in Nat /\ Len(s) > 0 /\ DOMAIN s = 1..Len(s) /\ DOMAIN t = 1..Len(s) - 1
      /\ \A k \in DOMAIN t : t[k] = s[k + 1]
      /\ h = s[1]
  OBVIOUS
<1> HIDE DEF t, h
<1>3. ASSUME IsInjective(s) PROVE IsInjective(t) /\ h \notin ToSet(t)
  <2>1. \A k \in DOMAIN t : k + 1 \in DOMAIN s /\ 1 \in DOMAIN s /\ k + 1 # 1 /\ k \in Int
    BY <1>2
  <2>2. IsInjective(t)
    <3> SUFFICES ASSUME NEW a \in DOMAIN t, NEW b \in DOMAIN t, t[a] = t[b] PROVE a = b
      BY DEF IsInjective
    <3>1. a + 1 = b + 1
      BY <1>2, <2>1, <1>3 DEF IsInjective
    <3> QED
      BY <3>1, <2>1
  <2>3. \A k \in DOMAIN t : t[k] # h
    BY <1>2, <2>1, <1>3 DEF IsInjective
  <2> QED
    BY <2>2, <2>3 DEF ToSet
<1> QED
  BY <1>1, <1>3 DEF t, h

LEMMA LastListed ==
    ASSUME NEW T, NEW s \in Seq(T), s # <<>>
    PROVE  Last(s) \in ToSet(s) /\ Last(s) \in T
<1>1. Len(s) \in DOMAIN s /\ s[Len(s)] \in T
  OBVIOUS
<1> QED
  BY <1>1 DEF Last, ToSet

LEMMA DistinctCounted ==
    ASSUME NEW T, NEW s \in Seq(T), IsInjective(s)
    PROVE  Cardinality(ToSet(s)) = Len(s) /\ IsFiniteSet(ToSet(s))
<1>1. Len(s) \in Nat /\ DOMAIN s = 1..Len(s)
  OBVIOUS
<1>2. s \in Bijection(1..Len(s), ToSet(s))
  <2>1. s \in [1..Len(s) -> ToSet(s)]
    BY <1>1 DEF ToSet
  <2>2. \A a, b \in 1..Len(s) : s[a] = s[b] => a = b
    BY <1>1 DEF IsInjective
  <2>3. \A y \in ToSet(s) : \E a \in 1..Len(s) : s[a] = y
    BY <1>1 DEF ToSet
  <2> QED
    BY <2>1, <2>2, <2>3 DEF Bijection, Injection, Surjection, IsInjective
<1>3. ExistsBijection(1..Len(s), ToSet(s))
  BY <1>2 DEF ExistsBijection
<1>4. IsFiniteSet(ToSet(s)) /\ Cardinality(ToSet(s)) = Len(s)
  BY <1>1, <1>3, FS_NatBijection, FS_CountingElements
<1> QED
  BY <1>4

LEMMA InCurlHas == InCurl <=> Has("curl")
  BY DEF InCurl, Has, ToSet

LEMMA HasTop ==
    ASSUME PTypes, calls # <<>>
    PROVE  /\ \A op : Has(op) <=> Head(calls).op = op \/ \E f \in ToSet(Tail(calls)) : f.op = op
  BY InnermostCall DEF Has

\* Curl is the only call where it is one of the calls under way.
LEMMA CurlAlone ==
    ASSUME PTypes, StackCalm, calls # <<>>
    PROVE  /\ Head(calls).op # "curl" => ~Has("curl")
           /\ Head(calls).op = "curl" => calls = <<CurlCall>> /\ Has("curl") /\ Tail(calls) = <<>>
<1>1. calls = <<CurlCall>> => Head(calls).op = "curl" /\ Tail(calls) = <<>>
  BY DEF CurlCall
<1>2. Head(calls).op = "curl" => Has("curl")
  BY HasTop
<1> QED
  BY <1>1, <1>2 DEF StackCalm

LEMMA OnlyCurl ==
    ASSUME calls = <<CurlCall>>
    PROVE  ToSet(calls) = {CurlCall} /\ ~Has("dequeue") /\ ~Has("cancelAll")
<1>1. ToSet(calls) = {CurlCall}
  BY DEF ToSet
<1> QED
  BY <1>1 DEF Has, CurlCall

LEMMA NoCalls ==
    ASSUME calls = <<>>
    PROVE  ToSet(calls) = {} /\ \A op : ~Has(op)
  BY DEF ToSet, Has

\* The calls while the abort is carried out.
LEMMA AbortStack ==
    ASSUME Aborting
    PROVE  /\ calls # <<>> /\ net.locked
           /\ Head(calls).op \in {"cancelAll", "dequeue", "setFinished", "finished", "nextJob"}
           /\ Head(calls).op = "finished" => Head(calls).res = "cancelled"
           /\ Has("cancelAll")
           /\ Head(calls).op # "cancelAll" => \E f \in ToSet(Tail(calls)) : f.op = "cancelAll"
<1> DEFINE A == AbortCancel  C == CurlCall  D == DequeueCall
<1>1. A.op = "cancelAll" /\ D.op = "dequeue"
  BY DEF AbortCancel, DequeueCall
<1>2. PICK w : \/ calls = <<A, C>>
               \/ calls = <<D, A, C>>
               \/ calls = <<SetFinishedCall(w, "cancelled"), A, C>>
               \/ calls = <<FinishedCall(w, "cancelled"), D, A, C>>
               \/ calls = <<NextJobCall(w), D, A, C>>
  BY DEF Aborting
<1>3. /\ SetFinishedCall(w, "cancelled").op = "setFinished"
      /\ FinishedCall(w, "cancelled").op = "finished"
      /\ FinishedCall(w, "cancelled").res = "cancelled"
      /\ NextJobCall(w).op = "nextJob"
  BY DEF SetFinishedCall, FinishedCall, NextJobCall
<1> DEFINE S == SetFinishedCall(w, "cancelled")  F == FinishedCall(w, "cancelled")
           N == NextJobCall(w)
<1> HIDE DEF A, C, D, S, F, N
<1>4. \/ calls = <<A, C>> \/ calls = <<D, A, C>> \/ calls = <<S, A, C>>
      \/ calls = <<F, D, A, C>> \/ calls = <<N, D, A, C>>
  BY <1>2 DEF S, F, N
<1>5. /\ S.op = "setFinished" /\ F.op = "finished" /\ F.res = "cancelled" /\ N.op = "nextJob"
  BY <1>3 DEF S, F, N
<1>6. calls # <<>> /\ (A = Head(calls) \/ A \in ToSet(Tail(calls))) /\ A \in ToSet(calls)
  <2>1. /\ calls # <<>>
        /\ \/ A = Head(calls)
           \/ 1 \in DOMAIN Tail(calls) /\ Tail(calls)[1] = A
           \/ 2 \in DOMAIN Tail(calls) /\ Tail(calls)[2] = A
    BY <1>4
  <2>2. \E k \in DOMAIN calls : calls[k] = A
    BY <1>4
  <2> QED
    BY <2>1, <2>2 DEF ToSet
<1>7. Head(calls) \in {A, D, S, F, N}
  BY <1>4
<1> QED
  BY <1>1, <1>5, <1>6, <1>7 DEF Aborting, Has

-----------------------------------------------------------------------------
(* Mirrors and their users.                                                 *)

MirrorTable == [RepoMirror -> [refs : Nat, miss : Nat]]

LEMMA MirrorsGiven ==
    /\ RepoMirror \subseteq Nat /\ NoMirror \notin RepoMirror
    /\ \A j \in Job : /\ Wanted[j] \in DOMAIN MirrorsOf /\ MirrorsOf[Wanted[j]] \subseteq RepoMirror
                      /\ MirrorsOf[Wanted[j]] # {}
<1>1. \A r \in DOMAIN MirrorsOf : MirrorsOf[r] # {} /\ MirrorsOf[r] \subseteq Nat \ {0}
  BY PreloadAssumption
<1>2. \A j \in Job : Wanted[j] \in DOMAIN MirrorsOf
  BY PreloadAssumption DEF Job
<1>3. \A m \in RepoMirror : \E r \in DOMAIN MirrorsOf : m \in MirrorsOf[r]
  BY DEF RepoMirror
<1>4. \A r \in DOMAIN MirrorsOf : MirrorsOf[r] \subseteq RepoMirror
  BY DEF RepoMirror
<1> QED
  BY <1>1, <1>2, <1>3, <1>4 DEF NoMirror

LEMMA DownloadsCounted ==
    /\ Download = 1..MaxConnections /\ MaxConnections \in Nat
    /\ IsFiniteSet(Download) /\ Cardinality(Download) = MaxConnections
<1>1. Download = 1..MaxConnections /\ MaxConnections \in Nat
  BY PreloadAssumption, ConnectionsAssumption
<1> QED
  BY <1>1, FS_Interval

\* The mirror that is chosen is one of those that are usable.
LEMMA LeastUsedIsUsable ==
    ASSUME NEW usable, usable # {}, usable \subseteq RepoMirror, NEW table \in MirrorTable
    PROVE  LeastUsed(usable, table) \in usable
<1>1. \A m \in usable : Load(m, table) \in Nat /\ m \in Nat
  BY MirrorsGiven DEF Load, MirrorTable
<1> DEFINE L == {Load(m, table) : m \in usable}
           F == {m \in usable : Load(m, table) = Min(L)}
<1>2. Min(L) \in L /\ \A l \in L : Min(L) <= l
  BY <1>1, SmallestExists
<1>3. Min(F) \in F /\ \A n \in F : Min(F) <= n
  <2>1. F # {} /\ F \subseteq Nat
    BY <1>1, <1>2
  <2> HIDE DEF F
  <2> QED
    BY <2>1, SmallestExists
<1>4. \A n \in usable : \/ Load(Min(F), table) < Load(n, table)
                        \/ Load(Min(F), table) = Load(n, table) /\ Min(F) <= n
  <2> TAKE n \in usable
  <2>1. Load(Min(F), table) = Min(L) /\ Min(L) <= Load(n, table) /\ Min(L) \in Nat
    BY <1>1, <1>2, <1>3
  <2>2. Load(n, table) = Min(L) => Min(F) <= n
    BY <1>3
  <2> QED
    BY <1>1, <2>1, <2>2
<1>5. Min(F) \in usable
  BY <1>3
<1> HIDE DEF F
<1> QED
  BY <1>4, <1>5 DEF LeastUsed

Users(m) == {w \in Download : loader[w].mirror = m}

LEMMA UsersAreFinite == \A m : IsFiniteSet(Users(m)) /\ Cardinality(Users(m)) \in Nat
<1>1. \A m : Users(m) \subseteq Download
  BY DEF Users
<1> QED
  BY <1>1, DownloadsCounted, FS_Subset, FS_CardinalityType

LEMMA MirrorInUse ==
    ASSUME PTypes, MirrorUsers, NEW w \in Download, loader[w].mirror # NoMirror
    PROVE  loader[w].mirror \in RepoMirror /\ mirrors[loader[w].mirror].refs >= 1
<1> DEFINE m == loader[w].mirror
<1>1. m \in RepoMirror
  BY DEF PTypes, LoaderType
<1>2. IsFiniteSet(Users(m)) /\ w \in Users(m) /\ Cardinality(Users(m)) \in Nat
  BY UsersAreFinite DEF Users
<1>3. Cardinality(Users(m)) # 0
  BY <1>2, FS_EmptySet
<1>4. mirrors[m].refs = Cardinality(Users(m))
  BY <1>1 DEF MirrorUsers, Users
<1> QED
  BY <1>1, <1>2, <1>3, <1>4

\* The counts when the old mirror is released and the new one is used; what else is
\* done to the table is a miss.
Recounted(old, new, table, result) ==
    /\ result \in MirrorTable
    /\ \A m \in RepoMirror :
          result[m].refs = IF m = new THEN IF m = old THEN table[m].refs
                                                     ELSE table[m].refs + 1
                                      ELSE IF m = old THEN table[m].refs - 1
                                                      ELSE table[m].refs

\* A worker that leaves one mirror and takes another, or none.
Moves(w, new) == \A v \in Download : loader'[v].mirror = IF v = w THEN new ELSE loader[v].mirror

LEMMA WorkerMoves ==
    ASSUME PTypes, MirrorUsers, NEW w \in Download, NEW new, Moves(w, new),
           Recounted(loader[w].mirror, new, mirrors, mirrors')
    PROVE  MirrorUsers' /\ mirrors' \in MirrorTable
<1> DEFINE old == loader[w].mirror
<1> USE DEF Recounted, Moves
<1> SUFFICES ASSUME NEW m \in RepoMirror
             PROVE  mirrors'[m].refs = Cardinality({v \in Download : loader'[v].mirror = m})
  BY DEF MirrorUsers
<1> DEFINE U == {v \in Download : loader'[v].mirror = m}
<1>1. mirrors[m].refs = Cardinality(Users(m)) /\ IsFiniteSet(Users(m))
      /\ Cardinality(Users(m)) \in Nat
  BY UsersAreFinite DEF MirrorUsers, Users
<1>2. CASE m = new /\ m # old
  <2>1. U = Users(m) \cup {w} /\ w \notin Users(m)
    BY <1>2 DEF Users
  <2>2. mirrors'[m].refs = mirrors[m].refs + 1
    BY <1>2
  <2>3. Cardinality(U) = Cardinality(Users(m)) + 1
    <3> HIDE DEF U
    <3> QED
      BY <1>1, <2>1, FS_AddElement
  <2> QED
    BY <1>1, <2>2, <2>3
<1>3. CASE m # new /\ m = old
  <2>1. U = Users(m) \ {w} /\ w \in Users(m)
    BY <1>3 DEF Users
  <2>2. mirrors'[m].refs = mirrors[m].refs - 1
    BY <1>3
  <2>3. Cardinality(U) = Cardinality(Users(m)) - 1
    <3> HIDE DEF U
    <3> QED
      BY <1>1, <2>1, FS_RemoveElement
  <2> QED
    BY <1>1, <2>2, <2>3
<1>4. CASE m = new /\ m = old
  <2>1. U = Users(m)
    BY <1>4 DEF Users
  <2> QED
    BY <1>1, <1>4, <2>1
<1>5. CASE m # new /\ m # old
  <2>1. U = Users(m)
    BY <1>5 DEF Users
  <2> QED
    BY <1>1, <1>5, <2>1
<1> QED
  BY <1>2, <1>3, <1>4, <1>5

LEMMA Released ==
    ASSUME NEW table \in MirrorTable, NEW old \in RepoMirror \cup {NoMirror},
           old # NoMirror => table[old].refs >= 1
    PROVE  Recounted(old, NoMirror, table, Unref(old, table))
<1>1. CASE old = NoMirror
  BY <1>1, MirrorsGiven DEF Recounted, Unref, MirrorTable
<1>2. CASE old # NoMirror
  <2>1. old \in RepoMirror /\ table[old].refs \in Nat /\ table[old].refs - 1 \in Nat
    BY <1>2 DEF MirrorTable
  <2>2. Unref(old, table) = [table EXCEPT ![old] = [table[old] EXCEPT !.refs = table[old].refs - 1]]
    BY <1>2 DEF Unref
  <2> QED
    BY <1>2, <2>1, <2>2, MirrorsGiven DEF Recounted, MirrorTable
<1> QED
  BY <1>1, <1>2

LEMMA Exchanged ==
    ASSUME NEW table \in MirrorTable, NEW old \in RepoMirror \cup {NoMirror},
           old # NoMirror => table[old].refs >= 1, NEW new \in RepoMirror
    PROVE  Recounted(old, new, table, Ref(new, Unref(old, table)))
<1> DEFINE free == Unref(old, table)
<1>1. Recounted(old, NoMirror, table, free)
  BY Released
<1> HIDE DEF free
<1>2. free \in MirrorTable /\ free[new].refs \in Nat
  BY <1>1 DEF Recounted, MirrorTable
<1>3. Ref(new, free) = [free EXCEPT ![new] = [free[new] EXCEPT !.refs = free[new].refs + 1]]
  BY DEF Ref
<1>4. \A m \in RepoMirror : table[m].refs \in Nat
  BY DEF MirrorTable
<1>5. Ref(new, free) \in MirrorTable
      /\ \A m \in RepoMirror : Ref(new, free)[m].refs = IF m = new THEN free[m].refs + 1
                                                                    ELSE free[m].refs
  BY <1>2, <1>3 DEF MirrorTable
<1>6. Recounted(old, new, table, Ref(new, free))
  BY <1>1, <1>4, <1>5, MirrorsGiven DEF Recounted
<1> QED
  BY <1>6 DEF free

-----------------------------------------------------------------------------
(* The steps of the dispatcher.                                             *)

\* What a step of the dispatcher has to keep.
LEMMA DispatchKeeps ==
    ASSUME PreloadInv, UNCHANGED <<pre, loader, mirrors>>,
           net' \in NetType, net'.loop = net.loop, CallsOK',
           Known' \subseteq Known, InHand' \subseteq Started,
           pre.phase = "loop" \/ ~Has("curl")',
           pre.aborted /\ net.loop = "running" => Aborting',
           ~pre.aborted => StackCalm' /\ InCurlListed' /\ Busy' = Busy,
           Unabandoned => OnePlace' /\ Engaged' = Engaged
    PROVE  PreloadInv'
<1>1. PTypes' /\ MirrorUsers'
  BY DEF PreloadInv, PTypes, MirrorUsers
<1>2. Phases'
  BY DEF PreloadInv, Phases, Started
<1>3. StackOK' /\ MultiOK'
  BY DEF StackOK, MultiOK
<1>4. ListsOK'
  BY DEF PreloadInv, ListsOK, Unabandoned, Started
<1>5. JobsOK'
  BY DEF PreloadInv, JobsOK, JobsTold
<1> QED
  BY <1>1, <1>2, <1>3, <1>4, <1>5 DEF PreloadInv

LEMMA InMeantime ==
    ASSUME PreloadInv
    PROVE  /\ ~pre.aborted => Unabandoned /\ StackCalm /\ InCurlListed
           /\ Unabandoned => OnePlace
           /\ pre.aborted /\ net.loop = "running" => Aborting
           /\ pre.aborted /\ Unabandoned => net.loop = "running"
           /\ net \in NetType /\ CallsOK /\ PTypes
           /\ Known \subseteq Started /\ InHand \subseteq Started
           /\ Started \subseteq Download
           /\ net.loop = "running" => pre.phase = "loop"
<1>1. Started \subseteq Download
  BY DownloadsCounted DEF PreloadInv, PTypes, PreType, Started
<1> QED
  BY <1>1 DEF PreloadInv, StackOK, MultiOK, ListsOK, Unabandoned, PTypes, Phases, NetType, PreType

\* The innermost call is replaced by others.
Replaces(F) ==
    /\ calls # <<>> /\ ToSet(calls') = F \cup ToSet(Tail(calls))
    /\ Head(calls).op \notin {"curl", "cancelAll"}
    /\ \A f \in F : f.op \notin {"curl", "cancelAll"}

LEMMA StackReplaced ==
    ASSUME PTypes, NEW F, Replaces(F), net'.locked = net.locked
    PROVE  /\ Has("curl")' => Has("curl")
           /\ Has("cancelAll")' <=> Has("cancelAll")
           /\ Has("dequeue") /\ Head(calls).op # "dequeue" => Has("dequeue")'
           /\ StackCalm => StackCalm'
<1> USE DEF Replaces
<1>1. ToSet(calls) = {Head(calls)} \cup ToSet(Tail(calls))
  BY InnermostCall
<1>2. /\ Has("curl")' => Has("curl")
      /\ Has("cancelAll")' <=> Has("cancelAll")
      /\ Has("dequeue") /\ Head(calls).op # "dequeue" => Has("dequeue")'
  BY <1>1 DEF Has
<1>3. StackCalm => ~Has("curl")
  BY CurlAlone
<1>4. ASSUME StackCalm PROVE \A f \in ToSet(calls') : f.op = "cancelAll" => ~f.was
  BY <1>1, <1>4 DEF StackCalm
<1> QED
  BY <1>2, <1>3, <1>4 DEF StackCalm

LEMMA EnqueueKeeps ==
    ASSUME PreloadInv, Enqueue, UNCHANGED <<pre, loader, mirrors>>
    PROVE  PreloadInv'
<1> DEFINE d == Head(calls).req  t == Tail(calls)
<1>1. /\ calls # <<>> /\ Head(calls).op = "enqueue" /\ d \in Download /\ t \in Seq(BaseFrame)
      /\ ToSet(calls) = {Head(calls)} \cup ToSet(t) /\ PTypes
  BY InnermostCall DEF Enqueue, Runs, PreloadInv, WorkerOps
<1>2. InHand = {d} /\ InHandBusy = {d} /\ InHandOnly = {d} /\ d \in Started
  BY <1>1, InHandIs, InMeantime
<1>3. ~(pre.aborted /\ net.loop = "running")
  BY <1>1, AbortStack, InMeantime
<1>4. CASE d \in Listed
  <2>1. ~Unabandoned /\ pre.aborted
    BY <1>2, <1>4, InMeantime DEF OnePlace
  <2>2. net' = net /\ CallReturns
    BY <1>1, <1>4 DEF Enqueue, CallReturns, Listed
  <2>3. CallsOK' /\ InHand' = {} /\ InHandBusy' = {} /\ ToSet(calls') = {} \cup ToSet(t)
    BY <1>1, <2>2, ReturnedCall DEF CallReturns
  <2>4. Known' \subseteq Known
    BY <2>2, <2>3 DEF Known, Busy, Listed
  <2>5. Has("curl")' => Has("curl")
    <3>1. Replaces({})
      BY <1>1, <2>3 DEF Replaces
    <3> QED
      BY <3>1, <1>1, <2>2, StackReplaced
  <2> QED
    BY <1>3, <2>1, <2>2, <2>3, <2>4, <2>5, DispatchKeeps, InMeantime DEF PreloadInv, Phases
<1>5. CASE d \notin Listed
  <2>1. /\ net' = [net EXCEPT !.pending = Append(net.pending, d)]
        /\ CallMade(DequeueCall, t)
    BY <1>1, <1>5 DEF Enqueue, CallMade, Becomes, Listed
  <2>2. DequeueCall \in Frame /\ DequeueCall.op = "dequeue"
    BY NewBaseFrames DEF Frame, DequeueCall
  <2>3. /\ CallsOK' /\ InHand' = {} /\ InHandBusy' = {} /\ InHandOnly' = {}
        /\ ToSet(calls') = {DequeueCall} \cup ToSet(t)
    BY <1>1, <2>1, <2>2, MadeCall DEF WorkerOps
  <2>4. /\ net.pending \in Seq(Download) /\ net' \in NetType
        /\ net'.pending = Append(net.pending, d) /\ net'.running = net.running
        /\ net'.locked = net.locked /\ net'.mode = net.mode /\ net'.inMulti = net.inMulti
        /\ net'.done = net.done /\ net'.loop = net.loop
    <3> DEFINE q == Append(net.pending, d)
    <3>1. net \in NetType /\ net.pending \in Seq(Download)
      BY InMeantime DEF NetType
    <3>2. q \in Seq(Download)
      BY <1>1, <3>1, Appended
    <3> HIDE DEF q
    <3>3. net' = [net EXCEPT !.pending = q]
      BY <2>1 DEF q
    <3>4. /\ net' \in NetType /\ net'.pending = q /\ net'.running = net.running
          /\ net'.locked = net.locked /\ net'.mode = net.mode /\ net'.inMulti = net.inMulti
          /\ net'.done = net.done /\ net'.loop = net.loop
      BY <3>1, <3>2, <3>3 DEF NetType
    <3> QED
      BY <3>1, <3>4 DEF q
  <2>5. /\ ToSet(net'.pending) = ToSet(net.pending) \cup {d}
        /\ IsInjective(net.pending) /\ d \notin ToSet(net.pending) => IsInjective(net'.pending)
    BY <1>1, <2>4, Appended
  <2>6. Listed' = Listed \cup {d}
    BY <2>4, <2>5 DEF Listed
  <2>7. Known' \subseteq Known /\ Busy' = Busy /\ Engaged' = Engaged
    BY <1>2, <2>3, <2>4, <2>6 DEF Known, Busy, Engaged
  <2>8. /\ Has("curl")' => Has("curl")
        /\ StackCalm => StackCalm'
    <3>1. Replaces({DequeueCall})
      BY <1>1, <2>2, <2>3 DEF Replaces
    <3> QED
      BY <3>1, <1>1, <2>4, StackReplaced
  <2>9. Has("dequeue")'
    BY <2>2, <2>3 DEF Has
  <2>10. ASSUME OnePlace PROVE OnePlace'
    BY <1>5, <2>3, <2>4, <2>5, <2>9, <2>10 DEF OnePlace, Listed
  <2>11. InCurlListed => InCurlListed'
    BY <2>4 DEF InCurlListed
  <2> QED
    BY <1>3, <2>3, <2>4, <2>7, <2>8, <2>10, <2>11, DispatchKeeps, InMeantime
    DEF PreloadInv, Phases
<1> QED
  BY <1>4, <1>5

\* As many requests run as there are connections: these are all.
LEMMA AllConnectionsUsed ==
    ASSUME net \in NetType, OnePlace, ~(Len(net.running) < MaxConnections)
    PROVE  net.pending = <<>>
<1> DEFINE R == ToSet(net.running)
<1>1. net.running \in Seq(Download) /\ net.pending \in Seq(Download) /\ IsInjective(net.running)
  BY DEF NetType, OnePlace
<1>2. R \subseteq Download /\ Cardinality(R) = Len(net.running) /\ Len(net.running) \in Nat
  BY <1>1, Members, DistinctCounted
<1>3. IsFiniteSet(Download) /\ Cardinality(Download) = MaxConnections /\ MaxConnections \in Nat
  BY DownloadsCounted
<1> HIDE DEF R
<1>4. /\ Cardinality(R) <= Cardinality(Download)
      /\ Cardinality(R) = Cardinality(Download) => R = Download
  BY <1>2, <1>3, FS_Subset
<1>5. R = Download
  BY <1>2, <1>3, <1>4
<1>6. R \cap ToSet(net.pending) = {} /\ ToSet(net.pending) \subseteq Download
  BY <1>1, Members DEF OnePlace, R
<1>7. ToSet(net.pending) = {}
  BY <1>5, <1>6
<1> QED
  BY <1>1, <1>7, Members

LEMMA DequeueStopsKeeps ==
    ASSUME PreloadInv, DequeueStops, UNCHANGED <<pre, loader, mirrors>>
    PROVE  PreloadInv'
<1> DEFINE t == Tail(calls)
<1>1. /\ calls # <<>> /\ Head(calls).op = "dequeue" /\ t \in Seq(BaseFrame) /\ calls' = t
      /\ ToSet(calls) = {Head(calls)} \cup ToSet(t) /\ PTypes /\ net' = net /\ ~CanDequeue
      /\ CallReturns
  BY InnermostCall DEF DequeueStops, Runs, PreloadInv, CallReturns
<1>2. InHand = {} /\ InHandBusy = {} /\ InHandOnly = {}
  BY <1>1, InHandIs DEF WorkerOps
<1>3. /\ CallsOK' /\ InHand' = {} /\ InHandBusy' = {} /\ InHandOnly' = {}
  BY <1>1, ReturnedCall
<1>4. Listed' = Listed /\ Known' = Known /\ Busy' = Busy /\ Engaged' = Engaged
  BY <1>1, <1>2, <1>3 DEF Known, Busy, Listed, Engaged
<1>5. /\ Has("curl")' => Has("curl")
      /\ Has("cancelAll")' <=> Has("cancelAll")
      /\ StackCalm => StackCalm'
  <2>1. Replaces({})
    BY <1>1 DEF Replaces
  <2> QED
    BY <2>1, <1>1, StackReplaced
<1>6. ASSUME Unabandoned PROVE OnePlace'
  <2>1. OnePlace
    BY <1>6, InMeantime
  <2>2. net.locked => Has("cancelAll")
    <3>1. CASE pre.aborted
      BY <3>1, <1>6, InMeantime, AbortStack
    <3>2. CASE ~pre.aborted
      BY <3>2, <1>1, CurlAlone, InMeantime DEF StackCalm
    <3> QED
      BY <3>1, <3>2
  <2>3. net.pending # <<>> => Has("cancelAll")
    BY <1>1, <2>1, <2>2, AllConnectionsUsed, InMeantime DEF CanDequeue
  <2> QED
    BY <1>1, <1>3, <1>4, <1>5, <2>1, <2>3 DEF OnePlace
<1>7. ASSUME pre.aborted, net.loop = "running" PROVE Aborting'
  <2>1. Aborting
    BY <1>7, InMeantime
  <2> DEFINE A == AbortCancel  C == CurlCall  D == DequeueCall
  <2>2. calls = <<D, A, C>>
    BY <2>1, <1>1 DEF Aborting, AbortCancel, SetFinishedCall, FinishedCall, NextJobCall
  <2>3. calls' = <<A, C>> /\ net'.locked
    <3> HIDE DEF A, C, D
    <3> QED
      BY <1>1, <2>1, <2>2 DEF Aborting
  <2> QED
    BY <2>3 DEF Aborting
<1>8. InCurlListed => InCurlListed'
  BY <1>1 DEF InCurlListed
<1> QED
  BY <1>1, <1>3, <1>4, <1>5, <1>6, <1>7, <1>8, DispatchKeeps, InMeantime DEF PreloadInv, Phases

LEMMA DequeueFailsKeeps ==
    ASSUME PreloadInv, DequeueFails, UNCHANGED <<pre, loader, mirrors>>
    PROVE  PreloadInv'
<1> DEFINE d == Head(net.pending)  q == Tail(net.pending)  f == SetFinishedCall(d, "error")
           m == [net.mode EXCEPT ![d] = "pending"]
<1>1. /\ calls # <<>> /\ Head(calls).op = "dequeue" /\ PTypes /\ net \in NetType
      /\ ~net.locked /\ net.pending # <<>> /\ calls \in Seq(BaseFrame)
  BY InnermostCall DEF DequeueFails, Runs, CanDequeue, PreloadInv, PTypes, WorkerOps
<1>2. InHand = {} /\ InHandBusy = {} /\ InHandOnly = {}
  BY <1>1, InHandIs DEF WorkerOps
<1>3. /\ net.pending \in Seq(Download) /\ d \in Download /\ q \in Seq(Download)
      /\ ToSet(net.pending) = {d} \cup ToSet(q)
      /\ IsInjective(net.pending) => /\ IsInjective(q) /\ d \notin ToSet(q)
                                     /\ ToSet(q) = ToSet(net.pending) \ {d}
  <2>1. net.pending \in Seq(Download)
    BY <1>1 DEF NetType
  <2> QED
    BY <2>1, <1>1, TailRemoved
<1>4. f \in Frame /\ f.op = "setFinished" /\ f.req = d
  BY <1>3, NewFrames DEF Frame, DownloadResult, SetFinishedCall
<1>5. CallMade(f, calls)
  BY <1>1 DEF DequeueFails, CallMade, Calls
<1>6. /\ net' \in NetType /\ net'.pending = q /\ net'.running = net.running
      /\ net'.locked = net.locked /\ net'.mode = m /\ net'.inMulti = net.inMulti
      /\ net'.done = net.done /\ net'.loop = net.loop
  <2>1. net' = [net EXCEPT !.pending = q, !.mode = m]
    BY <1>1 DEF DequeueFails, NetType
  <2>2. m \in [Download -> {"pending", "running", "finished"}]
    BY <1>1 DEF NetType
  <2> HIDE DEF q, m
  <2> QED
    BY <1>1, <1>3, <2>1, <2>2 DEF NetType
<1> HIDE DEF q, f
<1>7. /\ CallsOK' /\ InHand' = {d} /\ InHandBusy' = {d} /\ InHandOnly' = {}
      /\ ToSet(calls') = {f} \cup ToSet(calls)
  BY <1>1, <1>4, <1>5, MadeCall
<1>8. /\ Listed' = ToSet(net.running) \cup ToSet(q)
      /\ Known' = Known /\ Busy' = Busy /\ Engaged' = Engaged
  BY <1>2, <1>3, <1>6, <1>7 DEF Known, Busy, Listed, Engaged
<1>9. /\ Has("curl")' => Has("curl")
      /\ Has("dequeue")'
      /\ StackCalm => StackCalm'
  <2> DEFINE F == {f, Head(calls)}
  <2>1. Replaces(F)
    BY <1>1, <1>4, <1>7, InnermostCall DEF Replaces
  <2> HIDE DEF F
  <2>2. Head(calls) \in ToSet(calls')
    BY <1>1, <1>7, InnermostCall
  <2> QED
    BY <2>1, <2>2, <1>1, <1>6, StackReplaced DEF Has
<1>10. OnePlace => OnePlace'
  BY <1>3, <1>6, <1>7, <1>8, <1>9 DEF OnePlace
<1>11. InCurlListed => InCurlListed'
  BY <1>1, <1>6 DEF InCurlListed, NetType
<1>12. ~(pre.aborted /\ net.loop = "running")
  BY <1>1, AbortStack, InMeantime
<1>13. d \in Started
  BY <1>3, InMeantime DEF Known, Busy, Listed
<1> QED
  BY <1>6, <1>7, <1>8, <1>9, <1>10, <1>11, <1>12, <1>13, DispatchKeeps, InMeantime
  DEF PreloadInv, Phases

LEMMA DequeueStartsKeeps ==
    ASSUME PreloadInv, DequeueStarts, UNCHANGED <<pre, loader, mirrors>>
    PROVE  PreloadInv'
<1> DEFINE d == Head(net.pending)  q == Tail(net.pending)  r == Append(net.running, d)
           m == [net.mode EXCEPT ![d] = "running"]
<1>1. /\ calls # <<>> /\ Head(calls).op = "dequeue" /\ PTypes /\ net \in NetType
      /\ ~net.locked /\ net.pending # <<>> /\ calls' = calls
  BY DEF DequeueStarts, Runs, CanDequeue, PreloadInv, PTypes
<1>2. InHand = {} /\ InHandBusy = {} /\ InHandOnly = {}
  BY <1>1, InHandIs DEF WorkerOps
<1>3. /\ net.pending \in Seq(Download) /\ d \in Download /\ q \in Seq(Download)
      /\ ToSet(net.pending) = {d} \cup ToSet(q)
      /\ IsInjective(net.pending) => /\ IsInjective(q) /\ d \notin ToSet(q)
                                     /\ ToSet(q) = ToSet(net.pending) \ {d}
  <2>1. net.pending \in Seq(Download)
    BY <1>1 DEF NetType
  <2> QED
    BY <2>1, <1>1, TailRemoved
<1>4. /\ r \in Seq(Download) /\ ToSet(r) = ToSet(net.running) \cup {d}
      /\ IsInjective(net.running) /\ d \notin ToSet(net.running) => IsInjective(r)
  <2>1. net.running \in Seq(Download)
    BY <1>1 DEF NetType
  <2> QED
    BY <2>1, <1>3, Appended
<1>5. /\ net' \in NetType /\ net'.pending = q /\ net'.running = r
      /\ net'.locked = net.locked /\ net'.mode = m /\ net'.inMulti = net.inMulti \cup {d}
      /\ net'.done = net.done /\ net'.loop = net.loop
  <2>1. net' = [net EXCEPT !.pending = q, !.mode = m, !.inMulti = net.inMulti \cup {d},
                           !.running = r]
    BY <1>1 DEF DequeueStarts, NetType
  <2>2. m \in [Download -> {"pending", "running", "finished"}]
    BY <1>1 DEF NetType
  <2> HIDE DEF q, m, r
  <2> QED
    BY <1>1, <1>3, <1>4, <2>1, <2>2 DEF NetType
<1> HIDE DEF q, r
<1>6. InHand' = {} /\ InHandBusy' = {} /\ InHandOnly' = {} /\ CallsOK'
  BY <1>1, <1>2 DEF InHand, InHandBusy, InHandOnly, AtTop, PTypes, CallsOK
<1>7. /\ Listed' = Listed /\ Known' = Known /\ Busy' = Busy /\ Engaged' = Engaged
  BY <1>2, <1>3, <1>4, <1>5, <1>6 DEF Known, Busy, Listed, Engaged
<1>8. /\ \A op : Has(op)' <=> Has(op)
      /\ StackCalm => StackCalm'
  BY <1>1, <1>5 DEF Has, StackCalm
<1>9. Has("dequeue")
  BY <1>1, HasTop
<1>10. OnePlace => OnePlace'
  BY <1>3, <1>4, <1>5, <1>6, <1>7, <1>8, <1>9 DEF OnePlace
<1>11. InCurlListed => InCurlListed'
  BY <1>1, <1>4, <1>5 DEF InCurlListed, NetType
<1>12. ~(pre.aborted /\ net.loop = "running")
  BY <1>1, AbortStack, InMeantime
<1> QED
  BY <1>5, <1>6, <1>7, <1>8, <1>10, <1>11, <1>12, DispatchKeeps, InMeantime
  DEF PreloadInv, Phases

LEMMA ThreeFrames ==
    ASSUME NEW a, NEW b, NEW c
    PROVE  <<a>> \o <<b, c>> = <<a, b, c>>
<1> DEFINE p == <<a>> \o <<b, c>>  q == <<a, b, c>>  T == {a, b, c}
<1>1. <<a>> \in Seq(T) /\ <<b, c>> \in Seq(T)
  OBVIOUS
<1>2. p \in Seq(T) /\ Len(p) = 3 /\ q \in Seq(T) /\ Len(q) = 3
  <2>1. q \in Seq(T) /\ Len(q) = 3
    OBVIOUS
  <2> QED
    BY <1>1, <2>1
<1>3. p[1] = a /\ p[2] = b /\ p[3] = c
  BY <1>1
<1>4. q[1] = a /\ q[2] = b /\ q[3] = c
  OBVIOUS
<1> HIDE DEF p, q, T
<1>5. \A k \in 1..3 : p[k] = q[k]
  BY <1>3, <1>4
<1>6. p = q
  BY <1>2, <1>5
<1> QED
  BY <1>6 DEF p, q

LEMMA FourFrames ==
    ASSUME NEW a, NEW b, NEW c, NEW d
    PROVE  <<a, b>> \o <<c, d>> = <<a, b, c, d>>
<1> DEFINE p == <<a, b>> \o <<c, d>>  q == <<a, b, c, d>>  T == {a, b, c, d}
<1>1. <<a, b>> \in Seq(T) /\ <<c, d>> \in Seq(T)
  OBVIOUS
<1>2. p \in Seq(T) /\ Len(p) = 4 /\ q \in Seq(T) /\ Len(q) = 4
  <2>1. q \in Seq(T) /\ Len(q) = 4
    OBVIOUS
  <2> QED
    BY <1>1, <2>1
<1>3. p[1] = a /\ p[2] = b /\ p[3] = c /\ p[4] = d
  BY <1>1
<1>4. q[1] = a /\ q[2] = b /\ q[3] = c /\ q[4] = d
  OBVIOUS
<1> HIDE DEF p, q, T
<1>5. \A k \in 1..4 : p[k] = q[k]
  BY <1>3, <1>4
<1>6. p = q
  BY <1>2, <1>5
<1> QED
  BY <1>6 DEF p, q

LEMMA OneAndThree ==
    ASSUME NEW a, NEW b, NEW c, NEW d
    PROVE  <<a>> \o <<b, c, d>> = <<a, b, c, d>>
<1> DEFINE p == <<a>> \o <<b, c, d>>  q == <<a, b, c, d>>  T == {a, b, c, d}
<1>1. <<a>> \in Seq(T) /\ <<b, c, d>> \in Seq(T)
  OBVIOUS
<1>2. p \in Seq(T) /\ Len(p) = 4 /\ q \in Seq(T) /\ Len(q) = 4
  <2>1. q \in Seq(T) /\ Len(q) = 4
    OBVIOUS
  <2> QED
    BY <1>1, <2>1
<1>3. p[1] = a /\ p[2] = b /\ p[3] = c /\ p[4] = d
  BY <1>1
<1>4. q[1] = a /\ q[2] = b /\ q[3] = c /\ q[4] = d
  OBVIOUS
<1> HIDE DEF p, q, T
<1>5. \A k \in 1..4 : p[k] = q[k]
  BY <1>3, <1>4
<1>6. p = q
  BY <1>2, <1>5
<1> QED
  BY <1>6 DEF p, q

LEMMA SetFinishedKeeps ==
    ASSUME PreloadInv, SetFinished, UNCHANGED <<pre, loader, mirrors>>
    PROVE  PreloadInv'
<1> DEFINE d == Head(calls).req  t == Tail(calls)  f == FinishedCall(d, Head(calls).res)
           r == RemoveFirst(net.running, d)  q == RemoveFirst(net.pending, d)
           m == [net.mode EXCEPT ![d] = "finished"]
           i == IF InCurl THEN net.inMulti ELSE net.inMulti \ {d}
           e == IF InCurl THEN net.done ELSE {x \in net.done : x.req # d}
<1>1. /\ calls # <<>> /\ Head(calls).op = "setFinished" /\ PTypes /\ net \in NetType
      /\ d \in Download /\ Head(calls).res \in DownloadResult /\ t \in Seq(BaseFrame)
      /\ ToSet(calls) = {Head(calls)} \cup ToSet(t)
  BY InnermostCall, WorkerFrames DEF SetFinished, Runs, PreloadInv, PTypes, WorkerOps
<1>2. InHand = {d} /\ InHandBusy = {d} /\ InHandOnly = {} /\ d \in Started
  BY <1>1, InHandIs, InMeantime
<1>3. /\ f \in Frame /\ f.op = "finished" /\ f.req = d
      /\ DequeueCall \in BaseFrame /\ DequeueCall.op = "dequeue"
  BY <1>1, NewFrames, NewBaseFrames DEF Frame, FinishedCall, DequeueCall
<1>4. /\ r \in Seq(Download) /\ ToSet(r) \subseteq ToSet(net.running)
      /\ IsInjective(net.running) => IsInjective(r) /\ ToSet(r) = ToSet(net.running) \ {d}
  <2>1. net.running \in Seq(Download)
    BY <1>1 DEF NetType
  <2> QED
    BY <2>1, FirstRemoved
<1>5. /\ q \in Seq(Download) /\ ToSet(q) \subseteq ToSet(net.pending)
      /\ IsInjective(net.pending) => IsInjective(q) /\ ToSet(q) = ToSet(net.pending) \ {d}
  <2>1. net.pending \in Seq(Download)
    BY <1>1 DEF NetType
  <2> QED
    BY <2>1, FirstRemoved
<1>6. /\ net' \in NetType /\ net'.pending = q /\ net'.running = r
      /\ net'.locked = net.locked /\ net'.mode = m /\ net'.inMulti = i
      /\ net'.done = e /\ net'.loop = net.loop
  <2>1. net' = [net EXCEPT !.running = r, !.pending = q, !.mode = m, !.inMulti = i, !.done = e]
    BY <1>1 DEF SetFinished, NetType
  <2>2. m \in [Download -> {"pending", "running", "finished"}]
    BY <1>1 DEF NetType
  <2>3. i \in SUBSET Download /\ e \in SUBSET [req : Download, res : DownloadResult]
    BY <1>1 DEF NetType
  <2> HIDE DEF q, m, r, i, e
  <2> QED
    BY <1>1, <1>4, <1>5, <2>1, <2>2, <2>3 DEF NetType
<1>7. CallMade(f, <<DequeueCall>> \o t) /\ <<DequeueCall>> \o t \in Seq(BaseFrame)
      /\ ToSet(<<DequeueCall>> \o t) = {DequeueCall} \cup ToSet(t)
  <2>1. calls' = <<f, DequeueCall>> \o t
    BY <1>1 DEF SetFinished, Becomes
  <2>2. t \in Seq(Frame) /\ DequeueCall \in Frame
    BY <1>1, <1>3, Members, MembersIn DEF Frame
  <2> DEFINE g == DequeueCall  s == <<g>> \o t
  <2> HIDE DEF f, g, t
  <2>3. <<f, g>> \o t = <<f>> \o (<<g>> \o t)
    BY <1>3, <2>2, TwoFrames DEF g
  <2>4. g \in BaseFrame /\ t \in Seq(BaseFrame) /\ s = <<g>> \o t
    BY <1>1, <1>3 DEF g, t
  <2> HIDE DEF s
  <2>5. TopOf(BaseFrame, g, t, s)
    BY <2>4, OnTop, Zenon
  <2> QED
    BY <2>1, <2>3, <2>5 DEF TopOf, CallMade, g, s, f
<1> DEFINE s == <<DequeueCall>> \o t
<1> HIDE DEF q, r, f, s
<1>8. /\ CallsOK' /\ InHand' = {d} /\ InHandBusy' = {d} /\ InHandOnly' = {d}
      /\ ToSet(calls') = {f} \cup ({DequeueCall} \cup ToSet(t))
  <2>1. s \in Seq(BaseFrame) /\ CallMade(f, s) /\ ToSet(s) = {DequeueCall} \cup ToSet(t)
    BY <1>7 DEF s
  <2> QED
    BY <1>3, <2>1, MadeCall
<1>9. /\ Listed' = ToSet(r) \cup ToSet(q)
      /\ Known' \subseteq Known
      /\ OnePlace => Busy' = Busy /\ Engaged' = Engaged
  BY <1>2, <1>4, <1>5, <1>6, <1>8 DEF Known, Busy, Listed, Engaged, OnePlace
<1>10. /\ Has("curl")' => Has("curl")
       /\ Has("dequeue")'
       /\ StackCalm => StackCalm'
  <2> DEFINE F == {f, DequeueCall}
  <2>1. Replaces(F)
    BY <1>1, <1>3, <1>8 DEF Replaces
  <2> HIDE DEF F
  <2> QED
    BY <2>1, <1>1, <1>3, <1>6, <1>8, StackReplaced DEF Has
<1>11. OnePlace => OnePlace'
  BY <1>4, <1>5, <1>6, <1>8, <1>9, <1>10 DEF OnePlace
<1>12. ASSUME ~pre.aborted PROVE InCurlListed'
  <2>1. ~InCurl /\ InCurlListed /\ OnePlace
    BY <1>1, <1>12, CurlAlone, InCurlHas, InMeantime
  <2>2. ToSet(r) = ToSet(net.running) \ {d}
    BY <1>4, <2>1 DEF OnePlace
  <2>3. \A x \in Download : m[x] = "running" => x # d /\ net.mode[x] = "running"
    BY <1>1 DEF NetType
  <2>4. i = net.inMulti \ {d} /\ e = {x \in net.done : x.req # d}
    BY <2>1
  <2> HIDE DEF i, e, m
  <2> QED
    BY <1>6, <2>1, <2>2, <2>3, <2>4 DEF InCurlListed
<1>13. ASSUME pre.aborted, net.loop = "running" PROVE Aborting'
  <2>1. Aborting
    BY <1>13, InMeantime
  <2> DEFINE A == AbortCancel  C == CurlCall  D == DequeueCall
  <2>2. PICK w \in Download : calls = <<SetFinishedCall(w, "cancelled"), A, C>>
    BY <2>1, <1>1
    DEF Aborting, AbortCancel, DequeueCall, SetFinishedCall, FinishedCall, NextJobCall
  <2>3. w = d /\ Head(calls).res = "cancelled" /\ t = <<A, C>>
    BY <2>2 DEF SetFinishedCall
  <2>4. calls' = <<FinishedCall(w, "cancelled"), D>> \o <<A, C>>
    BY <1>1, <2>3 DEF SetFinished, Becomes
  <2> DEFINE G == FinishedCall(w, "cancelled")
  <2>5. calls' = <<G, D, A, C>> /\ net'.locked
    <3> HIDE DEF A, C, D, G
    <3>1. <<G, D>> \o <<A, C>> = <<G, D, A, C>>
      BY FourFrames
    <3> QED
      BY <1>6, <2>1, <2>4, <3>1 DEF Aborting, G, D
  <2> QED
    BY <2>5 DEF Aborting
<1> QED
  BY <1>2, <1>6, <1>8, <1>9, <1>10, <1>11, <1>12, <1>13, DispatchKeeps, InMeantime
  DEF PreloadInv, Phases

LEMMA CancelAllKeeps ==
    ASSUME PreloadInv, CancelAll, UNCHANGED <<pre, loader, mirrors>>
    PROVE  PreloadInv'
<1> DEFINE t == Tail(calls)  res == Head(calls).res
           R == net.running  P == net.pending
<1>1. /\ calls # <<>> /\ Head(calls).op = "cancelAll" /\ PTypes /\ net \in NetType
      /\ res \in DownloadResult /\ Head(calls).was \in BOOLEAN /\ t \in Seq(BaseFrame)
      /\ ToSet(calls) = {Head(calls)} \cup ToSet(t) /\ calls \in Seq(BaseFrame)
  BY InnermostCall, BaseFrames DEF CancelAll, Runs, PreloadInv, PTypes, WorkerOps
<1>2. InHand = {} /\ InHandBusy = {} /\ InHandOnly = {}
  BY <1>1, InHandIs DEF WorkerOps
<1>3. R \in Seq(Download) /\ P \in Seq(Download)
  BY <1>1 DEF NetType
<1>4. R \o P = <<>> <=> R = <<>> /\ P = <<>>
  <2>1. Len(R \o P) = Len(R) + Len(P) /\ Len(R) \in Nat /\ Len(P) \in Nat
        /\ R \o P \in Seq(Download)
    BY <1>3, Joined, Members
  <2>2. /\ R \o P = <<>> <=> Len(R \o P) = 0
        /\ R = <<>> <=> Len(R) = 0
        /\ P = <<>> <=> Len(P) = 0
    BY <1>3, <2>1, Members
  <2> QED
    BY <2>1, <2>2
<1>5. Has("cancelAll")
  BY <1>1, HasTop
<1>6. ~pre.aborted => ~Has("curl") /\ ~Head(calls).was
  BY <1>1, CurlAlone, InMeantime DEF StackCalm
<1>7. ASSUME pre.aborted, net.loop = "running" PROVE calls = <<AbortCancel, CurlCall>> /\ net.locked
  <2>1. Aborting
    BY <1>7, InMeantime
  <2> QED
    BY <2>1, <1>1
    DEF Aborting, AbortCancel, DequeueCall, SetFinishedCall, FinishedCall, NextJobCall
<1>8. CASE R \o P = <<>>
  <2>1. CallReturns /\ calls' = t
    BY <1>1, <1>8 DEF CancelAll, CallReturns
  <2>2. /\ net' \in NetType /\ net'.pending = P /\ net'.running = R
        /\ net'.locked = Head(calls).was /\ net'.mode = net.mode /\ net'.inMulti = net.inMulti
        /\ net'.done = net.done /\ net'.loop = net.loop
    BY <1>1, <1>8 DEF CancelAll, NetType
  <2>3. CallsOK' /\ InHand' = {} /\ InHandBusy' = {} /\ InHandOnly' = {}
    BY <1>1, <2>1, ReturnedCall
  <2>4. Listed' = Listed /\ Known' = Known /\ Busy' = Busy /\ Engaged' = Engaged /\ Engaged = {}
    BY <1>2, <1>4, <1>8, <1>3, <2>2, <2>3, Members DEF Known, Busy, Listed, Engaged
  <2>5. ~(pre.aborted /\ net.loop = "running")
    BY <2>4, InMeantime DEF PreloadInv, ListsOK, Unabandoned
  <2>6. Has("curl")' => Has("curl")
    BY <1>1, <2>1 DEF Has
  <2>7. ASSUME ~pre.aborted PROVE StackCalm'
    <3>1. \A f \in ToSet(t) : f.op = "cancelAll" => ~f.was
      BY <1>1, <2>7, InMeantime DEF StackCalm
    <3> QED
      BY <1>6, <2>1, <2>2, <2>6, <2>7, <3>1 DEF StackCalm
  <2>8. OnePlace => OnePlace'
    BY <1>4, <1>8, <1>2, <2>2, <2>3, <2>4 DEF OnePlace
  <2>9. InCurlListed => InCurlListed'
    BY <2>2 DEF InCurlListed
  <2> QED
    BY <2>2, <2>3, <2>4, <2>5, <2>6, <2>7, <2>8, <2>9, DispatchKeeps, InMeantime
    DEF PreloadInv, Phases
<1>9. CASE R \o P # <<>>
  <2> DEFINE d == Last(IF R # <<>> THEN R ELSE P)  f == SetFinishedCall(d, res)
  <2>1. d \in Download /\ d \in Listed
    BY <1>3, <1>4, <1>9, LastListed DEF Listed
  <2>2. CallMade(f, calls) /\ calls' = <<f>> \o calls
    BY <1>1, <1>9 DEF CancelAll, CallMade, Calls
  <2>3. /\ net' \in NetType /\ net'.pending = P /\ net'.running = R
        /\ net'.locked /\ net'.mode = net.mode /\ net'.inMulti = net.inMulti
        /\ net'.done = net.done /\ net'.loop = net.loop
    <3>1. net' = [net EXCEPT !.locked = TRUE]
      BY <1>9 DEF CancelAll
    <3>2. net \in NetType
      BY <1>1
    <3> QED
      BY <3>1, <3>2 DEF NetType
  <2>4. f \in Frame /\ f.op = "setFinished" /\ f.req = d
    BY <1>1, <2>1, NewFrames DEF Frame, SetFinishedCall
  <2> HIDE DEF d
  <2>5. /\ CallsOK' /\ InHand' = {d} /\ InHandBusy' = {d} /\ InHandOnly' = {}
        /\ ToSet(calls') = {f} \cup ToSet(calls)
    <3> HIDE DEF f
    <3> QED
      BY <1>1, <2>2, <2>4, MadeCall
  <2>6. Listed' = Listed /\ Known' = Known /\ Busy' = Busy /\ Engaged' = Engaged
    BY <1>2, <2>1, <2>3, <2>5 DEF Known, Busy, Listed, Engaged
  <2>7. /\ Has("curl")' => Has("curl")
        /\ Has("cancelAll")'
    BY <1>5, <2>4, <2>5 DEF Has
  <2>8. ASSUME ~pre.aborted PROVE StackCalm'
    <3>1. \A g \in ToSet(calls) : g.op = "cancelAll" => ~g.was
      BY <2>8, InMeantime DEF StackCalm
    <3> QED
      BY <1>6, <2>4, <2>5, <2>7, <2>8, <3>1 DEF StackCalm
  <2>9. OnePlace => OnePlace'
    BY <2>3, <2>5, <2>6, <2>7 DEF OnePlace
  <2>10. InCurlListed => InCurlListed'
    BY <2>3 DEF InCurlListed
  <2>11. ASSUME pre.aborted, net.loop = "running" PROVE Aborting'
    <3> DEFINE A == AbortCancel  C == CurlCall  G == SetFinishedCall(d, "cancelled")
    <3>1. calls = <<A, C>> /\ res = "cancelled"
      BY <1>7, <2>11 DEF AbortCancel
    <3>2. calls' = <<G>> \o <<A, C>>
      BY <2>2, <3>1
    <3>3. calls' = <<G, A, C>>
      <4> HIDE DEF A, C, G
      <4> QED
        BY <3>2, ThreeFrames
    <3> QED
      BY <2>1, <2>3, <3>3 DEF Aborting
  <2>12. d \in Started
    BY <2>1, InMeantime DEF Known, Busy
  <2> QED
    BY <2>3, <2>5, <2>6, <2>7, <2>8, <2>9, <2>10, <2>11, <2>12, DispatchKeeps, InMeantime
    DEF PreloadInv, Phases
<1> QED
  BY <1>8, <1>9

LEMMA ActivityTimeoutKeeps ==
    ASSUME PreloadInv, NEW d \in Download, ActivityTimeout(d), UNCHANGED <<pre, loader, mirrors>>
    PROVE  PreloadInv'
<1> DEFINE f == SetFinishedCall(d, "error")
<1>1. /\ calls = <<>> /\ net.loop = "running" /\ net.mode[d] = "running" /\ net' = net
      /\ calls' = <<f>> \o calls /\ PTypes /\ net \in NetType
  BY DEF ActivityTimeout, LoopIdle, Calls, PreloadInv, PTypes
<1>2. InHand = {} /\ InHandBusy = {} /\ InHandOnly = {} /\ \A op : ~Has(op)
  BY <1>1, InHandIs, NoCalls
<1>3. ~pre.aborted
  BY <1>1, AbortStack, InMeantime
<1>4. OnePlace /\ StackCalm /\ InCurlListed /\ ~net.locked
  BY <1>2, <1>3, InMeantime DEF StackCalm
<1>5. d \in Listed /\ d \in Started
  BY <1>1, <1>4, InMeantime DEF InCurlListed, Listed, Known, Busy
<1>6. f \in Frame /\ f.op = "setFinished" /\ f.req = d
  BY NewFrames DEF Frame, SetFinishedCall, DownloadResult
<1>7. CallMade(f, calls) /\ calls \in Seq(BaseFrame) /\ ToSet(calls) = {}
  BY <1>1, NoCalls DEF CallMade
<1> HIDE DEF f
<1>8. /\ CallsOK' /\ InHand' = {d} /\ InHandBusy' = {d} /\ InHandOnly' = {}
      /\ ToSet(calls') = {f} \cup ToSet(calls)
  BY <1>6, <1>7, MadeCall
<1>9. Listed' = Listed /\ Known' = Known /\ Busy' = Busy /\ Engaged' = Engaged
  BY <1>1, <1>2, <1>5, <1>8 DEF Known, Busy, Listed, Engaged
<1>10. StackCalm' /\ ~Has("curl")'
  BY <1>1, <1>4, <1>6, <1>7, <1>8 DEF StackCalm, Has
<1>11. OnePlace'
  BY <1>1, <1>2, <1>4, <1>8, <1>9 DEF OnePlace
<1>12. InCurlListed'
  BY <1>1, <1>4 DEF InCurlListed
<1> QED
  BY <1>1, <1>3, <1>5, <1>8, <1>9, <1>10, <1>11, <1>12, DispatchKeeps, InMeantime

\* Curl works: it is called by the loop that waits, or has called back before.
LEMMA CurlWorks ==
    ASSUME PreloadInv, LoopIdle \/ Runs("curl"), calls' = WithinCurl
    PROVE  /\ pre.phase = "loop" /\ ~(pre.aborted /\ net.loop = "running")
           /\ ~pre.aborted => WithinCurl = <<CurlCall>> /\ net.pending = <<>>
           /\ WithinCurl \in Seq(BaseFrame)
           /\ CallsOK' /\ InHand = {} /\ InHandBusy = {} /\ InHandOnly = {}
           /\ InHand' = {} /\ InHandBusy' = {} /\ InHandOnly' = {}
<1>1. CASE LoopIdle
  <2>1. calls = <<>> /\ net.loop = "running" /\ WithinCurl = <<CurlCall>>
    BY <1>1 DEF LoopIdle, WithinCurl
  <2>2. pre.phase = "loop" /\ ~pre.aborted
    BY <2>1, AbortStack, InMeantime
  <2>3. InHand = {} /\ InHandBusy = {} /\ InHandOnly = {} /\ \A op : ~Has(op)
    BY <2>1, InHandIs, NoCalls
  <2>4. net.pending = <<>>
    BY <2>2, <2>3, InMeantime DEF OnePlace
  <2>5. CurlCall \in BaseFrame /\ CurlCall \in Frame /\ CurlCall.op = "curl"
    BY NewBaseFrames DEF Frame, CurlCall
  <2>6. <<CurlCall>> \in Seq(BaseFrame) /\ calls \in Seq(BaseFrame)
    BY <2>1, <2>5
  <2>7. CallMade(CurlCall, calls)
    <3> DEFINE c == CurlCall
    <3>1. calls' = <<c>> /\ <<c>> \o <<>> = <<c>>
      <4> HIDE DEF c
      <4>1. <<c>> \in Seq({c})
        OBVIOUS
      <4>2. <<c>> \o <<>> = <<c>>
        BY <4>1, ConcatEmptySeq
      <4> QED
        BY <4>2, <2>1 DEF c
    <3> QED
      BY <3>1, <2>1 DEF CallMade
  <2>8. CallsOK' /\ InHand' = {} /\ InHandBusy' = {} /\ InHandOnly' = {}
    BY <2>5, <2>6, <2>7, MadeCall DEF WorkerOps
  <2> QED
    BY <2>1, <2>2, <2>3, <2>4, <2>6, <2>8
<1>2. CASE ~LoopIdle /\ Runs("curl")
  <2>1. calls # <<>> /\ Head(calls).op = "curl" /\ calls' = calls /\ WithinCurl = calls /\ PTypes
    BY <1>2 DEF Runs, WithinCurl, PreloadInv
  <2>2. InHand = {} /\ InHandBusy = {} /\ InHandOnly = {} /\ calls \in Seq(BaseFrame) /\ Has("curl")
    BY <2>1, InHandIs, InnermostCall, HasTop DEF WorkerOps
  <2>3. ~(pre.aborted /\ net.loop = "running") /\ pre.phase = "loop"
    BY <2>1, <2>2, AbortStack, InMeantime DEF PreloadInv, Phases
  <2>4. ~pre.aborted => calls = <<CurlCall>> /\ net.pending = <<>>
    BY <2>1, CurlAlone, OnlyCurl, InMeantime DEF OnePlace
  <2>5. CallsOK' /\ InHand' = {} /\ InHandBusy' = {} /\ InHandOnly' = {}
    BY <2>1, <2>2, InMeantime DEF CallsOK, InHand, InHandBusy, InHandOnly, AtTop
  <2> QED
    BY <2>1, <2>2, <2>3, <2>4, <2>5
<1> QED
  BY <1>1, <1>2

LEMMA CompletesKeeps ==
    ASSUME PreloadInv, NEW d \in Download, Completes(d), UNCHANGED <<pre, loader, mirrors>>
    PROVE  PreloadInv'
<1>1. PICK res \in Outcomes(d) :
         net' = [net EXCEPT !.locked = TRUE, !.done = net.done \cup {[req |-> d, res |-> res]}]
  BY InMeantime DEF Completes, NetType
<1>2. /\ LoopIdle \/ Runs("curl")
      /\ calls' = WithinCurl /\ d \in net.inMulti /\ net \in NetType
  BY InMeantime DEF Completes, Transferring
<1>3. /\ pre.phase = "loop" /\ ~(pre.aborted /\ net.loop = "running")
      /\ ~pre.aborted => WithinCurl = <<CurlCall>> /\ net.pending = <<>>
      /\ CallsOK' /\ InHand = {} /\ InHandBusy = {} /\ InHandOnly = {}
      /\ InHand' = {} /\ InHandBusy' = {} /\ InHandOnly' = {}
  BY <1>2, CurlWorks
<1> DEFINE e == [req |-> d, res |-> res]
<1>4. /\ net' \in NetType /\ net'.pending = net.pending /\ net'.running = net.running
      /\ net'.locked = TRUE /\ net'.mode = net.mode /\ net'.inMulti = net.inMulti
      /\ net'.done = net.done \cup {e} /\ net'.loop = net.loop /\ e.req = d
  <2>1. e \in [req : Download, res : DownloadResult] /\ e.req = d
    BY DEF Outcomes, DownloadResult
  <2> HIDE DEF e
  <2>2. net' = [net EXCEPT !.locked = TRUE, !.done = net.done \cup {e}]
    BY <1>1 DEF e
  <2> DEFINE x == net.done \cup {e}
  <2>3. x \in SUBSET [req : Download, res : DownloadResult] /\ net' = [net EXCEPT !.locked = TRUE, !.done = x]
    BY <1>2, <2>1, <2>2 DEF NetType
  <2> HIDE DEF x
  <2>4. /\ net' \in NetType /\ net'.pending = net.pending /\ net'.running = net.running
        /\ net'.locked = TRUE /\ net'.mode = net.mode /\ net'.inMulti = net.inMulti
        /\ net'.done = x /\ net'.loop = net.loop
    BY <1>2, <2>3 DEF NetType
  <2> QED
    BY <2>1, <2>4 DEF x
<1> HIDE DEF e
<1>5. Listed' = Listed /\ Known' = Known /\ Busy' = Busy /\ Engaged' = Engaged
  BY <1>2, <1>3, <1>4 DEF Known, Busy, Listed, Engaged
<1>6. ASSUME ~pre.aborted PROVE StackCalm'
  <2>1. calls' = <<CurlCall>>
    BY <1>2, <1>3, <1>6
  <2>2. ToSet(calls') = {CurlCall}
    BY <2>1 DEF ToSet
  <2> QED
    BY <2>1, <2>2 DEF StackCalm, Has, CurlCall
<1>7. ASSUME Unabandoned PROVE OnePlace'
  BY <1>3, <1>4, <1>5, <1>7, InMeantime DEF OnePlace
<1>8. InCurlListed => InCurlListed'
  BY <1>2, <1>4 DEF InCurlListed
<1> QED
  BY <1>3, <1>4, <1>5, <1>6, <1>7, <1>8, DispatchKeeps, InMeantime

\* The innermost call is that of curl, and it returns.
LEMMA CurlLeaves ==
    ASSUME PreloadInv, Runs("curl"), NEW f \in BaseFrame, f.op \in {"read", "cancelAll"},
           f.op = "cancelAll" => ~f.was, calls' = Becomes(<<f>>),
           net' = [net EXCEPT !.locked = FALSE], UNCHANGED <<pre, loader, mirrors>>
    PROVE  PreloadInv'
<1> DEFINE t == Tail(calls)
<1>1. /\ calls # <<>> /\ Head(calls).op = "curl" /\ PTypes /\ net \in NetType
      /\ t \in Seq(BaseFrame) /\ ToSet(calls) = {Head(calls)} \cup ToSet(t) /\ Has("curl")
  BY InnermostCall, HasTop DEF Runs, PreloadInv, PTypes
<1>2. InHand = {} /\ InHandBusy = {} /\ InHandOnly = {} /\ pre.phase = "loop"
  BY <1>1, InHandIs DEF WorkerOps, PreloadInv, Phases
<1>3. ~(pre.aborted /\ net.loop = "running")
  BY <1>1, AbortStack, InMeantime
<1>4. ~pre.aborted => t = <<>> /\ net.pending = <<>>
  BY <1>1, CurlAlone, OnlyCurl, InMeantime DEF OnePlace
<1>5. CallMade(f, t) /\ f \in Frame /\ f.op \notin WorkerOps
  BY <1>1 DEF CallMade, Becomes, Frame, WorkerOps
<1>6. /\ CallsOK' /\ InHand' = {} /\ InHandBusy' = {} /\ InHandOnly' = {}
      /\ ToSet(calls') = {f} \cup ToSet(t)
  BY <1>1, <1>5, MadeCall
<1>7. /\ net' \in NetType /\ net'.pending = net.pending /\ net'.running = net.running
      /\ net'.locked = FALSE /\ net'.mode = net.mode /\ net'.inMulti = net.inMulti
      /\ net'.done = net.done /\ net'.loop = net.loop
  BY <1>1 DEF NetType
<1>8. Listed' = Listed /\ Known' = Known /\ Busy' = Busy /\ Engaged' = Engaged
  BY <1>2, <1>6, <1>7 DEF Known, Busy, Listed, Engaged
<1>9. ASSUME ~pre.aborted PROVE StackCalm'
  <2>1. ToSet(t) = {}
    BY <1>4, <1>9 DEF ToSet
  <2> QED
    BY <1>6, <1>7, <2>1 DEF StackCalm, Has
<1>10. ASSUME Unabandoned PROVE OnePlace'
  BY <1>3, <1>4, <1>6, <1>7, <1>8, <1>10, InMeantime DEF OnePlace
<1>11. InCurlListed => InCurlListed'
  BY <1>7 DEF InCurlListed
<1> QED
  BY <1>2, <1>3, <1>6, <1>7, <1>8, <1>9, <1>10, <1>11, DispatchKeeps, InMeantime

LEMMA CurlReturnsKeeps ==
    ASSUME PreloadInv, CurlReturns, UNCHANGED <<pre, loader, mirrors>>
    PROVE  PreloadInv'
<1>1. ReadCall \in BaseFrame /\ ReadCall.op = "read"
  BY NewBaseFrames DEF ReadCall
<1> QED
  BY <1>1, CurlLeaves DEF CurlReturns

LEMMA CurlFailsKeeps ==
    ASSUME PreloadInv, CurlFails, UNCHANGED <<pre, loader, mirrors>>
    PROVE  PreloadInv'
<1> DEFINE f == [CancelAllCall("error") EXCEPT !.was = FALSE]
<1>1. f \in BaseFrame /\ f.op = "cancelAll" /\ ~f.was
  <2> DEFINE c == CancelAllCall("error")
  <2>1. c \in [op : {"cancelAll"}, res : DownloadResult, was : BOOLEAN]
    BY InMeantime DEF CancelAllCall, NetType, DownloadResult
  <2> HIDE DEF c
  <2>2. [c EXCEPT !.was = FALSE] \in [op : {"cancelAll"}, res : DownloadResult, was : BOOLEAN]
        /\ [c EXCEPT !.was = FALSE].op = "cancelAll" /\ ~[c EXCEPT !.was = FALSE].was
    BY <2>1
  <2> QED
    BY <2>2 DEF BaseFrame, c
<1>2. Runs("curl") /\ net' = [net EXCEPT !.locked = FALSE] /\ calls' = Becomes(<<f>>)
  BY DEF CurlFails
<1> HIDE DEF f
<1> QED
  BY <1>1, <1>2, CurlLeaves

LEMMA ReadInfoKeeps ==
    ASSUME PreloadInv, ReadInfo, UNCHANGED <<pre, loader, mirrors>>
    PROVE  PreloadInv'
<1> DEFINE t == Tail(calls)
<1>1. /\ calls # <<>> /\ Head(calls).op = "read" /\ PTypes /\ net \in NetType
      /\ t \in Seq(BaseFrame) /\ calls \in Seq(BaseFrame)
      /\ ToSet(calls) = {Head(calls)} \cup ToSet(t)
  BY InnermostCall DEF ReadInfo, Runs, PreloadInv, PTypes, WorkerOps
<1>2. InHand = {} /\ InHandBusy = {} /\ InHandOnly = {}
  BY <1>1, InHandIs DEF WorkerOps
<1>3. ~(pre.aborted /\ net.loop = "running")
  BY <1>1, AbortStack, InMeantime
<1>4. CASE calls' = Becomes(<<DequeueCall>>) /\ net' = net
  <2>1. CallMade(DequeueCall, t) /\ DequeueCall \in Frame /\ DequeueCall.op = "dequeue"
    BY <1>4, NewBaseFrames DEF CallMade, Becomes, Frame, DequeueCall
  <2>2. /\ CallsOK' /\ InHand' = {} /\ InHandBusy' = {} /\ InHandOnly' = {}
        /\ ToSet(calls') = {DequeueCall} \cup ToSet(t)
    BY <1>1, <2>1, MadeCall DEF WorkerOps
  <2>3. Listed' = Listed /\ Known' = Known /\ Busy' = Busy /\ Engaged' = Engaged
    BY <1>2, <1>4, <2>2 DEF Known, Busy, Listed, Engaged
  <2>4. /\ Has("curl")' => Has("curl")
        /\ Has("dequeue")'
        /\ StackCalm => StackCalm'
    <3> DEFINE F == {DequeueCall}
    <3>1. Replaces(F)
      BY <1>1, <2>1, <2>2 DEF Replaces
    <3> HIDE DEF F
    <3> QED
      BY <3>1, <1>1, <1>4, <2>1, <2>2, StackReplaced DEF Has
  <2>5. OnePlace => OnePlace'
    BY <1>2, <1>4, <2>2, <2>3, <2>4 DEF OnePlace
  <2>6. InCurlListed => InCurlListed'
    BY <1>4 DEF InCurlListed
  <2> QED
    BY <1>1, <1>3, <1>4, <2>2, <2>3, <2>4, <2>5, <2>6, DispatchKeeps, InMeantime
    DEF PreloadInv, Phases
<1>5. ASSUME NEW e \in net.done, net' = [net EXCEPT !.done = net.done \ {e}],
             calls' = Calls(SetFinishedCall(e.req, e.res))
      PROVE  PreloadInv'
  <2> DEFINE f == SetFinishedCall(e.req, e.res)
  <2>1. e.req \in Download /\ e.res \in DownloadResult
    BY <1>1 DEF NetType
  <2>2. /\ net' \in NetType /\ net'.pending = net.pending /\ net'.running = net.running
        /\ net'.locked = net.locked /\ net'.mode = net.mode /\ net'.inMulti = net.inMulti
        /\ net'.done = net.done \ {e} /\ net'.loop = net.loop
    BY <1>1, <1>5 DEF NetType
  <2>3. CallMade(f, calls) /\ f \in Frame /\ f.op = "setFinished" /\ f.req = e.req
    BY <1>5, <2>1, NewFrames DEF CallMade, Calls, Frame, SetFinishedCall
  <2> HIDE DEF f
  <2>4. /\ CallsOK' /\ InHand' = {e.req} /\ InHandBusy' = {e.req} /\ InHandOnly' = {}
        /\ ToSet(calls') = {f} \cup ToSet(calls)
    BY <1>1, <2>3, MadeCall
  <2>5. e.req \in Known /\ (InCurlListed => e.req \in Listed)
    BY <1>5 DEF Known, InCurlListed, Listed
  <2>6. Listed' = Listed /\ Known' \subseteq Known
    BY <1>2, <2>2, <2>4, <2>5 DEF Known, Busy, Listed
  <2>7. InCurlListed => Busy' = Busy /\ Engaged' = Engaged
    BY <1>2, <2>4, <2>5, <2>6 DEF Busy, Engaged
  <2>8. /\ Has("curl")' => Has("curl")
        /\ Has("dequeue") => Has("dequeue")'
        /\ Has("cancelAll") => Has("cancelAll")'
        /\ StackCalm => StackCalm'
    <3> DEFINE F == {f, Head(calls)}
    <3>1. Replaces(F)
      BY <1>1, <2>3, <2>4 DEF Replaces
    <3> HIDE DEF F
    <3> QED
      BY <3>1, <1>1, <2>2, StackReplaced
  <2>9. OnePlace => OnePlace'
    BY <2>2, <2>4, <2>6, <2>8 DEF OnePlace
  <2>10. InCurlListed => InCurlListed'
    BY <2>2 DEF InCurlListed
  <2>11. Unabandoned => InCurlListed
    BY <1>3, InMeantime
  <2> QED
    BY <1>3, <2>2, <2>4, <2>5, <2>6, <2>7, <2>8, <2>9, <2>10, <2>11, DispatchKeeps, InMeantime
    DEF PreloadInv, Phases
<1> QED
  BY <1>1, <1>4, <1>5 DEF ReadInfo, NetType

-----------------------------------------------------------------------------
(* The steps of the workers.                                                *)

LEMMA WordTold ==
    ASSUME pre \in PreType, NEW j \in Job, NEW fatal \in BOOLEAN
    PROVE  /\ Told(j, fatal) \in PreType
           /\ Told(j, fatal).phase = pre.phase /\ Told(j, fatal).required = pre.required
           /\ Told(j, fatal).started = pre.started /\ Told(j, fatal).aborted = pre.aborted
           /\ Told(j, fatal).cached = pre.cached
           /\ Told(j, fatal).told = [pre.told EXCEPT ![j] = pre.told[j] + 1]
           /\ Told(j, fatal).missed <=> pre.missed \/ fatal
<1> DEFINE t == [pre.told EXCEPT ![j] = pre.told[j] + 1]  m == pre.missed \/ fatal
<1>1. Told(j, fatal) = [pre EXCEPT !.told = t, !.missed = m]
  BY DEF Told, PreType
<1>2. t \in [Job -> Nat] /\ m \in BOOLEAN
  BY DEF PreType
<1> HIDE DEF t, m
<1>3. /\ Told(j, fatal) \in PreType
      /\ Told(j, fatal).phase = pre.phase /\ Told(j, fatal).required = pre.required
      /\ Told(j, fatal).started = pre.started /\ Told(j, fatal).aborted = pre.aborted
      /\ Told(j, fatal).cached = pre.cached
      /\ Told(j, fatal).told = t /\ Told(j, fatal).missed = m
  BY <1>1, <1>2 DEF PreType
<1> QED
  BY <1>3 DEF t, m

\* The code of one worker runs before and after the step.
SameHand ==
    /\ CallsOK' /\ InHand' = InHand /\ InHandOnly' = InHandOnly
    /\ Has("curl")' => Has("curl")
    /\ Has("dequeue") => Has("dequeue")'
    /\ Has("cancelAll") => Has("cancelAll")'
    /\ StackCalm => StackCalm'

LEMMA OwnCall ==
    ASSUME PTypes, calls # <<>>, Head(calls).op \in {"finished", "nextJob", "taint"},
           NEW f \in WorkerFrame, f.op \in {"enqueue", "taint", "nextJob"},
           f.req = Head(calls).req, calls' = Becomes(<<f>>), net' = net
    PROVE  /\ SameHand /\ InHand = {f.req}
           /\ InHandBusy' = IF f.op = "nextJob" THEN {} ELSE {f.req}
<1> DEFINE t == Tail(calls)
<1>1. CallMade(f, t) /\ f \in Frame /\ t \in Seq(BaseFrame)
  BY InnermostCall DEF CallMade, Becomes, Frame
<1>2. InHand = {f.req} /\ InHandOnly = {f.req}
  BY InHandIs
<1>3. /\ CallsOK' /\ InHand' = {f.req} /\ InHandOnly' = {f.req}
      /\ InHandBusy' = IF f.op = "nextJob" THEN {} ELSE {f.req}
      /\ ToSet(calls') = {f} \cup ToSet(t)
  BY <1>1, MadeCall
<1>4. /\ Has("curl")' => Has("curl")
      /\ Has("dequeue") => Has("dequeue")'
      /\ Has("cancelAll") => Has("cancelAll")'
      /\ StackCalm => StackCalm'
  <2> DEFINE F == {f}
  <2>1. Replaces(F)
    BY <1>3 DEF Replaces
  <2> HIDE DEF F
  <2> QED
    BY <2>1, StackReplaced
<1> QED
  BY <1>2, <1>3, <1>4 DEF SameHand

LEMMA SameCalls ==
    ASSUME PTypes, calls' = calls, net' = net
    PROVE  SameHand /\ InHandBusy' = InHandBusy
  BY DEF SameHand, PTypes, CallsOK, InHand, InHandOnly, InHandBusy, AtTop, Has, StackCalm

\* What a step of a worker has to keep that does not come to the end of its jobs.
LEMMA WorkerKeeps ==
    ASSUME PreloadInv, net' = net, SameHand, InHandBusy' \subseteq InHand,
           loader' \in [Download -> LoaderType], mirrors' \in MirrorTable, MirrorUsers',
           pre' \in PreType, pre'.phase = pre.phase, pre'.started = pre.started,
           pre'.aborted = pre.aborted, pre.missed => pre'.missed,
           pre.required = <<>> => pre'.required = <<>>,
           \A v \in Download : loader'[v].finished = loader[v].finished,
           \A v \in Known \cup InHandBusy' : loader'[v].job \in Job,
           pre.aborted /\ net.loop = "running" => Aborting',
           ~pre.aborted => JobsTold'
    PROVE  PreloadInv'
<1>1. PTypes' /\ MirrorUsers'
  BY DEF PreloadInv, PTypes, SameHand, MirrorTable
<1>2. /\ Listed' = Listed /\ Engaged' = Engaged /\ Started' = Started
      /\ Known' \subseteq Known \cup InHandBusy'
  BY DEF Known, Busy, Listed, Engaged, SameHand, Started
<1>3. Phases'
  <2>1. Known' \subseteq Started' /\ InHand' \subseteq Started' /\ Started \subseteq Download
    BY <1>2, InMeantime DEF SameHand
  <2> QED
    BY <1>2, <2>1 DEF PreloadInv, Phases, SameHand
<1>4. StackOK' /\ MultiOK'
  BY InMeantime DEF StackOK, MultiOK, InCurlListed, SameHand
<1>5. OnePlace => OnePlace'
  BY <1>2 DEF OnePlace, SameHand
<1>6. ListsOK'
  BY <1>2, <1>5, InMeantime DEF PreloadInv, ListsOK, Unabandoned
<1> QED
  BY <1>1, <1>3, <1>4, <1>6 DEF PreloadInv, JobsOK

\* The last word about the job of a worker.
LEMMA LastWord ==
    ASSUME PTypes, JobsTold, NEW w \in Busy, w \notin Busy', Busy' \subseteq Busy, Busy \ {w} \subseteq Busy',
           \A v \in Busy : loader'[v].job = loader[v].job /\ loader[v].job \in Job,
           pre'.required = pre.required,
           pre'.told = [pre.told EXCEPT ![loader[w].job] = pre.told[loader[w].job] + 1],
           pre.cached \subseteq pre'.cached,
           ~pre'.missed => ~pre.missed /\ loader[w].job \in pre'.cached
    PROVE  JobsTold'
<1> DEFINE j == loader[w].job
<1>1. j \in Job /\ pre.told[j] = 0 /\ j \notin ToSet(pre.required) /\ pre.told \in [Job -> Nat]
  BY DEF JobsTold, PTypes, PreType
<1>2. pre'.told[j] = 1 /\ \A k \in Job : k # j => pre'.told[k] = pre.told[k]
  BY <1>1
<1>3. \A v \in Busy' : v \in Busy /\ loader'[v].job = loader[v].job /\ loader[v].job # j
                       /\ loader[v].job \in Job
  BY DEF JobsTold
<1>4. ToSet(pre.required) \subseteq Job
  BY Members DEF PTypes, PreType
<1>5. \A v, x \in Busy' : loader'[v].job = loader'[x].job => v = x
  BY <1>3 DEF JobsTold
<1>6. \A v \in Busy' : pre'.told[loader'[v].job] = 0 /\ loader'[v].job \notin ToSet(pre'.required)
  BY <1>2, <1>3 DEF JobsTold
<1>7. IsInjective(pre'.required) /\ \A k \in ToSet(pre'.required) : pre'.told[k] = 0
  BY <1>1, <1>2, <1>4 DEF JobsTold
<1>8. ASSUME NEW k \in Job
      PROVE  /\ pre'.told[k] \in {0, 1}
             /\ pre'.told[k] = 0 => \/ k \in ToSet(pre'.required)
                                    \/ \E v \in Busy' : loader'[v].job = k
             /\ ~pre'.missed /\ pre'.told[k] = 1 => k \in pre'.cached
  <2>1. CASE k = j
    BY <1>2, <2>1
  <2>2. CASE k # j
    <3>1. pre'.told[k] = pre.told[k] /\ pre.told[k] \in {0, 1}
      BY <1>2, <2>2 DEF JobsTold
    <3>2. pre.told[k] = 0 => k \in ToSet(pre.required) \/ \E v \in Busy : loader[v].job = k
      BY DEF JobsTold
    <3>3. (\E v \in Busy : loader[v].job = k) => \E v \in Busy' : loader'[v].job = k
      BY <2>2, <1>3
    <3>4. ~pre'.missed /\ pre'.told[k] = 1 => k \in pre'.cached
      BY <3>1 DEF JobsTold
    <3> QED
      BY <3>1, <3>2, <3>3, <3>4
  <2> QED
    BY <2>1, <2>2
<1> QED
  BY <1>5, <1>6, <1>7, <1>8 DEF JobsTold

\* The job stays with its worker.
LEMMA NoWordYet ==
    ASSUME JobsTold, Busy' = Busy, pre' = pre, \A v \in Busy : loader'[v].job = loader[v].job
    PROVE  JobsTold'
  BY DEF JobsTold

\* A worker that ends its job goes for the next one; meanwhile its job is nobody's.
LastWordAbout(j) ==
    /\ pre' \in PreType /\ pre'.phase = pre.phase /\ pre'.started = pre.started
    /\ pre'.aborted = pre.aborted /\ pre'.required = pre.required
    /\ pre'.told = [pre.told EXCEPT ![j] = pre.told[j] + 1]
    /\ pre.cached \subseteq pre'.cached
    /\ pre.missed => pre'.missed
    /\ ~pre'.missed => j \in pre'.cached

SameJobs ==
    /\ loader' \in [Download -> LoaderType]
    /\ \A v \in Download : /\ loader'[v].finished = loader[v].finished
                           /\ loader'[v].job = loader[v].job

LEMMA WorkerOfCall ==
    ASSUME PreloadInv, calls # <<>>, Head(calls).op \in {"finished", "taint"}
    PROVE  /\ This \in Download /\ This \in Started /\ loader[This].job \in Job
           /\ InHand = {This} /\ InHandBusy = {This} /\ InHandOnly = {This}
           /\ Busy \subseteq Download /\ Busy = Listed \cup {This} /\ This \in Busy
           /\ Unabandoned => This \notin Listed
           /\ PTypes /\ Head(calls) \in WorkerFrame
<1>1. This \in Download /\ PTypes /\ Head(calls) \in WorkerFrame
  BY InnermostCall DEF PreloadInv, WorkerOps, This
<1>2. InHand = {This} /\ InHandBusy = {This} /\ InHandOnly = {This}
  BY InHandIs DEF This
<1>3. This \in Known /\ Busy = Listed \cup {This} /\ Busy \subseteq Known
  BY <1>2 DEF Known, Busy
<1>4. This \in Started /\ Started \subseteq Download /\ Known \subseteq Started /\ loader[This].job \in Job
  BY <1>3, InMeantime DEF PreloadInv, Phases
<1>5. Unabandoned => This \notin Listed
  BY <1>2, InMeantime DEF OnePlace
<1> QED
  BY <1>1, <1>2, <1>3, <1>4, <1>5

LEMMA WorkerEnds ==
    ASSUME PreloadInv, calls # <<>>, Head(calls).op \in {"finished", "taint"},
           calls' = Becomes(<<NextJobCall(This)>>), net' = net, SameJobs,
           mirrors' \in MirrorTable, MirrorUsers', LastWordAbout(loader[This].job),
           pre.aborted /\ net.loop = "running" => Aborting'
    PROVE  PreloadInv'
<1> DEFINE f == NextJobCall(This)
<1>1. /\ This \in Download /\ loader[This].job \in Job /\ InHandBusy = {This}
      /\ Busy = Listed \cup {This} /\ Busy \subseteq Download
      /\ Unabandoned => This \notin Listed
      /\ PTypes
  BY WorkerOfCall
<1>2. f \in WorkerFrame /\ f.op = "nextJob" /\ f.req = Head(calls).req
  BY <1>1, NewFrames DEF NextJobCall, This, DownloadResult
<1> HIDE DEF f
<1>3. SameHand /\ InHandBusy' = {}
  BY <1>1, <1>2, OwnCall DEF f
<1>4. Busy' = Listed
  BY <1>3 DEF Busy, Listed
<1>5. ASSUME ~pre.aborted PROVE JobsTold'
  <2>1. JobsTold /\ This \notin Busy' /\ This \in Busy /\ Busy' \subseteq Busy /\ Busy \ {This} \subseteq Busy'
    BY <1>1, <1>4, <1>5, InMeantime DEF PreloadInv, JobsOK
  <2>2. \A v \in Busy : loader'[v].job = loader[v].job /\ loader[v].job \in Job
    BY <1>1 DEF SameJobs, PreloadInv, Phases, Known
  <2> DEFINE w == This
  <2> HIDE DEF w
  <2>3. JobsTold /\ w \notin Busy' /\ w \in Busy /\ Busy' \subseteq Busy /\ Busy \ {w} \subseteq Busy'
    BY <2>1 DEF w
  <2>4. /\ pre'.required = pre.required
        /\ pre'.told = [pre.told EXCEPT ![loader[w].job] = pre.told[loader[w].job] + 1]
        /\ pre.cached \subseteq pre'.cached
        /\ ~pre'.missed => ~pre.missed /\ loader[w].job \in pre'.cached
    BY DEF LastWordAbout, w
  <2> QED
    BY <1>1, <2>2, <2>3, <2>4, LastWord
<1>6. \A v \in Known \cup InHandBusy' : loader'[v].job \in Job
  BY <1>3, InMeantime DEF SameJobs, PreloadInv, Phases
<1> QED
  BY <1>3, <1>5, <1>6, WorkerKeeps DEF SameJobs, LastWordAbout

\* A worker goes on with its job.
LEMMA WorkerGoesOn ==
    ASSUME PreloadInv, calls # <<>>, Head(calls).op \in {"finished", "taint"},
           calls' = Becomes(<<EnqueueCall(This)>>) \/ calls' = Becomes(<<TaintCall(This)>>)
           \/ calls' = calls,
           net' = net, SameJobs, mirrors' \in MirrorTable, MirrorUsers', pre' = pre,
           ~(pre.aborted /\ net.loop = "running")
    PROVE  PreloadInv'
<1>1. /\ This \in Download /\ InHandBusy = {This} /\ InHand = {This}
      /\ Busy = Listed \cup {This} /\ Busy \subseteq Download /\ PTypes
  BY WorkerOfCall
<1>2. SameHand /\ InHandBusy' = {This}
  <2>1. ASSUME NEW f \in WorkerFrame, f.op \in {"enqueue", "taint"}, f.req = Head(calls).req,
               calls' = Becomes(<<f>>)
        PROVE  SameHand /\ InHandBusy' = {This}
    BY <2>1, <1>1, OwnCall DEF This
  <2>2. CASE calls' = calls
    BY <2>2, <1>1, SameCalls
  <2> DEFINE e == EnqueueCall(This)  t == TaintCall(This)
  <2>3. /\ e \in WorkerFrame /\ e.op = "enqueue" /\ e.req = Head(calls).req
        /\ t \in WorkerFrame /\ t.op = "taint" /\ t.req = Head(calls).req
    BY <1>1, NewFrames DEF EnqueueCall, TaintCall, This, DownloadResult
  <2>4. calls' = Becomes(<<e>>) \/ calls' = Becomes(<<t>>) \/ calls' = calls
    OBVIOUS
  <2> HIDE DEF e, t
  <2> QED
    BY <2>1, <2>2, <2>3, <2>4
<1>3. Busy' = Busy
  BY <1>1, <1>2 DEF Busy, Listed
<1>4. ASSUME ~pre.aborted PROVE JobsTold'
  BY <1>1, <1>3, <1>4, NoWordYet DEF PreloadInv, JobsOK, SameJobs
<1>5. \A v \in Known \cup InHandBusy' : loader'[v].job \in Job
  BY <1>1, <1>2, InMeantime DEF SameJobs, PreloadInv, Phases, Known
<1> QED
  BY <1>1, <1>2, <1>4, <1>5, WorkerKeeps, InMeantime DEF SameJobs, PTypes

LEMMA SameMirrors ==
    ASSUME PTypes, MirrorUsers, mirrors' = mirrors,
           \A v \in Download : loader'[v].mirror = loader[v].mirror
    PROVE  mirrors' \in MirrorTable /\ MirrorUsers'
  BY DEF PTypes, MirrorTable, MirrorUsers

LEMMA SameLoader ==
    ASSUME PTypes, MirrorUsers, mirrors' = mirrors, loader' = loader
    PROVE  mirrors' \in MirrorTable /\ MirrorUsers' /\ SameJobs
  BY DEF PTypes, MirrorTable, MirrorUsers, SameJobs

LEMMA ToldLast ==
    ASSUME PTypes, NEW j \in Job, pre' = Told(j, TRUE)
    PROVE  LastWordAbout(j)
  BY WordTold DEF LastWordAbout, PTypes

LEMMA FinishedOkKeeps ==
    ASSUME PreloadInv, FinishedOk
    PROVE  PreloadInv'
<1>1. /\ calls # <<>> /\ Head(calls).op = "finished" /\ Head(calls).res = "ok"
      /\ calls' = Becomes(<<NextJobCall(This)>>) /\ net' = net /\ mirrors' = mirrors
      /\ PTypes /\ MirrorUsers
  BY DEF FinishedOk, RequestFinished, Runs, PreloadInv
<1>2. This \in Download /\ loader[This].job \in Job
  BY <1>1, WorkerOfCall
<1>3. ~(pre.aborted /\ net.loop = "running")
  BY <1>1, AbortStack, InMeantime
<1> DEFINE j == loader[This].job
<1>4. ASSUME pre' = [Told(j, FALSE) EXCEPT !.cached = pre.cached \cup {j}],
             loader' = [loader EXCEPT ![This].tmp = FALSE]
      PROVE  PreloadInv'
  <2>1. /\ loader' \in [Download -> LoaderType] /\ SameJobs
        /\ \A v \in Download : loader'[v].mirror = loader[v].mirror
    <3> DEFINE l == [loader[This] EXCEPT !.tmp = FALSE]
    <3>1. /\ l \in LoaderType /\ l.finished = loader[This].finished
          /\ l.job = loader[This].job /\ l.mirror = loader[This].mirror
      BY <1>1, <1>2 DEF PTypes, LoaderType
    <3>2. loader' = [loader EXCEPT ![This] = l]
      BY <1>4
    <3> HIDE DEF l
    <3> QED
      BY <1>1, <1>2, <3>1, <3>2 DEF PTypes, SameJobs
  <2>2. LastWordAbout(j)
    <3> DEFINE p == Told(j, FALSE)  c == pre.cached \cup {j}
    <3>1. /\ p \in PreType /\ p.phase = pre.phase /\ p.required = pre.required
          /\ p.started = pre.started /\ p.aborted = pre.aborted /\ p.cached = pre.cached
          /\ p.told = [pre.told EXCEPT ![j] = pre.told[j] + 1]
          /\ p.missed <=> pre.missed
      BY <1>1, <1>2, WordTold DEF PTypes
    <3>2. c \in SUBSET Job /\ pre.cached \subseteq c /\ j \in c
      BY <1>1, <1>2 DEF PTypes, PreType
    <3> HIDE DEF p, c, j
    <3>3. pre' = [p EXCEPT !.cached = c]
      BY <1>4 DEF p, c, j
    <3> QED
      BY <3>1, <3>2, <3>3 DEF LastWordAbout, PreType
  <2> QED
    BY <1>1, <1>3, <2>1, <2>2, SameMirrors, WorkerEnds
<1>5. ASSUME pre' = Told(j, TRUE), loader' = loader
      PROVE  PreloadInv'
  BY <1>1, <1>2, <1>3, <1>5, SameLoader, ToldLast, WorkerEnds
<1>6. \/ /\ pre' = [Told(j, FALSE) EXCEPT !.cached = pre.cached \cup {j}]
         /\ loader' = [loader EXCEPT ![This].tmp = FALSE]
      \/ pre' = Told(j, TRUE) /\ loader' = loader
  BY <1>1, <1>2, WordTold DEF FinishedOk, PTypes, PreType
<1> QED
  BY <1>4, <1>5, <1>6

LEMMA FinishedErrorKeeps ==
    ASSUME PreloadInv, FinishedError
    PROVE  PreloadInv'
<1>1. /\ calls # <<>> /\ Head(calls).op = "finished" /\ Head(calls).res = "error"
      /\ calls' = Becomes(<<TaintCall(This)>>) /\ net' = net /\ mirrors' = mirrors
      /\ pre' = pre /\ loader' = loader /\ PTypes /\ MirrorUsers
  BY DEF FinishedError, RequestFinished, Runs, PreloadInv
<1>2. ~(pre.aborted /\ net.loop = "running")
  BY <1>1, AbortStack, InMeantime
<1> QED
  BY <1>1, <1>2, SameLoader, WorkerGoesOn

LEMMA FinishedAuthKeeps ==
    ASSUME PreloadInv, FinishedAuth
    PROVE  PreloadInv'
<1>1. /\ calls # <<>> /\ Head(calls).op = "finished" /\ Head(calls).res = "auth"
      /\ net' = net /\ mirrors' = mirrors /\ PTypes /\ MirrorUsers
  BY DEF FinishedAuth, RequestFinished, Runs, PreloadInv
<1>2. This \in Download /\ loader[This].job \in Job
  BY <1>1, WorkerOfCall
<1>3. ~(pre.aborted /\ net.loop = "running")
  BY <1>1, AbortStack, InMeantime
<1>4. ASSUME loader[This].auths < MaxAuth,
             loader' = [loader EXCEPT ![This].auths = loader[This].auths + 1],
             calls' = Becomes(<<EnqueueCall(This)>>), pre' = pre
      PROVE  PreloadInv'
  <2>1. SameJobs /\ \A v \in Download : loader'[v].mirror = loader[v].mirror
    <3> DEFINE a == loader[This].auths + 1  l == [loader[This] EXCEPT !.auths = a]
    <3>1. a \in 0..MaxAuth
      BY <1>1, <1>2, <1>4, PreloadAssumption DEF PTypes, LoaderType
    <3> HIDE DEF a
    <3>2. /\ l \in LoaderType /\ l.finished = loader[This].finished
          /\ l.job = loader[This].job /\ l.mirror = loader[This].mirror
      BY <1>1, <1>2, <3>1 DEF PTypes, LoaderType
    <3>3. loader' = [loader EXCEPT ![This] = l]
      BY <1>4 DEF a
    <3> HIDE DEF l
    <3> QED
      BY <1>1, <1>2, <3>2, <3>3 DEF PTypes, SameJobs
  <2> QED
    BY <1>1, <1>3, <1>4, <2>1, SameMirrors, WorkerGoesOn
<1>5. ASSUME pre' = Told(loader[This].job, TRUE), calls' = Becomes(<<NextJobCall(This)>>),
             loader' = loader
      PROVE  PreloadInv'
  BY <1>1, <1>2, <1>3, <1>5, SameLoader, ToldLast, WorkerEnds
<1> QED
  BY <1>4, <1>5 DEF FinishedAuth

LEMMA FinishedCancelledKeeps ==
    ASSUME PreloadInv, FinishedCancelled
    PROVE  PreloadInv'
<1>1. /\ calls # <<>> /\ Head(calls).op = "finished" /\ Head(calls).res = "cancelled"
      /\ calls' = Becomes(<<NextJobCall(This)>>) /\ net' = net /\ mirrors' = mirrors
      /\ pre' = Told(loader[This].job, TRUE) /\ loader' = loader /\ PTypes /\ MirrorUsers
  BY DEF FinishedCancelled, RequestFinished, Runs, PreloadInv
<1>2. This \in Download /\ loader[This].job \in Job
  BY <1>1, WorkerOfCall
<1>3. ASSUME pre.aborted, net.loop = "running" PROVE Aborting'
  <2>1. Aborting
    BY <1>3, InMeantime
  <2> DEFINE A == AbortCancel  C == CurlCall  D == DequeueCall  N == NextJobCall(This)
  <2>2. PICK w \in Download : calls = <<FinishedCall(w, "cancelled"), D, A, C>>
    BY <2>1, <1>1
    DEF Aborting, AbortCancel, DequeueCall, SetFinishedCall, FinishedCall, NextJobCall
  <2>3. Tail(calls) = <<D, A, C>>
    <3> DEFINE F == FinishedCall(w, "cancelled")
    <3> HIDE DEF A, C, D, F
    <3> QED
      BY <2>2 DEF F
  <2>4. calls' = <<N, D, A, C>>
    <3> HIDE DEF A, C, D, N
    <3>1. calls' = <<N>> \o <<D, A, C>>
      BY <1>1, <2>3 DEF Becomes, N
    <3> QED
      BY <3>1, OneAndThree
  <2>5. net'.locked
    BY <1>1, <2>1 DEF Aborting
  <2> QED
    BY <1>2, <2>4, <2>5 DEF Aborting
<1> QED
  BY <1>1, <1>2, <1>3, SameLoader, ToldLast, WorkerEnds

LEMMA TaintMirrorKeeps ==
    ASSUME PreloadInv, TaintMirror
    PROVE  PreloadInv'
<1> DEFINE w       == This
           j       == loader[w].job
           old     == loader[w].mirror
           tainted == loader[w].tainted \cup ({old} \ {NoMirror})
           table   == IF old = NoMirror THEN mirrors ELSE [mirrors EXCEPT ![old].miss = @ + 1]
           usable  == MirrorsOf[Wanted[j]] \ tainted
           new     == LeastUsed(usable, table)
<1>1. /\ calls # <<>> /\ Head(calls).op = "taint" /\ net' = net /\ PTypes /\ MirrorUsers
  BY DEF TaintMirror, Runs, PreloadInv
<1>2. w \in Download /\ j \in Job
  BY <1>1, WorkerOfCall
<1>3. ~(pre.aborted /\ net.loop = "running")
  BY <1>1, AbortStack, InMeantime
<1>4. /\ loader[w] \in LoaderType /\ old \in RepoMirror \cup {NoMirror}
      /\ tainted \in SUBSET RepoMirror
      /\ old # NoMirror => mirrors[old].refs >= 1
  BY <1>1, <1>2, MirrorInUse DEF PTypes, LoaderType
<1>5. /\ table \in MirrorTable
      /\ \A m \in RepoMirror : table[m].refs = mirrors[m].refs /\ mirrors[m].refs \in Nat
  BY <1>1, <1>4 DEF PTypes, MirrorTable
<1>6. usable \subseteq RepoMirror
  BY <1>2, MirrorsGiven
<1>7. \/ /\ usable = {}
         /\ pre' = Told(j, TRUE)
         /\ loader' = [loader EXCEPT ![w].tainted = tainted]
         /\ mirrors' = table
         /\ calls' = Becomes(<<NextJobCall(w)>>)
      \/ /\ usable # {}
         /\ loader' = [loader EXCEPT ![w].tainted = tainted, ![w].mirror = new]
         /\ mirrors' = Ref(new, Unref(old, table))
         /\ calls' = Becomes(<<EnqueueCall(w)>>) \/ calls' = calls
         /\ pre' = pre
  BY DEF TaintMirror
<1> HIDE DEF tainted, table, usable, new, w
<1>8. ASSUME NEW m, m \in RepoMirror \cup {NoMirror}, NEW l,
             l = [loader[w] EXCEPT !.tainted = tainted, !.mirror = m],
             loader' = [loader EXCEPT ![w] = l]
      PROVE  SameJobs /\ Moves(w, m)
  <2>1. l \in LoaderType /\ l.mirror = m /\ l.finished = loader[w].finished /\ l.job = loader[w].job
    BY <1>4, <1>8 DEF LoaderType
  <2> QED
    BY <1>1, <1>2, <1>8, <2>1 DEF SameJobs, Moves, PTypes
<1>9. CASE usable = {}
  <2>1. /\ pre' = Told(j, TRUE) /\ mirrors' = table /\ calls' = Becomes(<<NextJobCall(This)>>)
        /\ loader' = [loader EXCEPT ![w].tainted = tainted]
    BY <1>7, <1>9 DEF w
  <2>2. loader' = [loader EXCEPT ![w] = [loader[w] EXCEPT !.tainted = tainted, !.mirror = old]]
    <3>1. [loader[w] EXCEPT !.tainted = tainted] = [loader[w] EXCEPT !.tainted = tainted, !.mirror = old]
      BY <1>4 DEF LoaderType
    <3>2. loader' = [loader EXCEPT ![w] = [loader[w] EXCEPT !.tainted = tainted]]
      BY <2>1
    <3> QED
      BY <3>1, <3>2
  <2>3. SameJobs /\ Moves(w, old)
    BY <1>4, <1>8, <2>2
  <2>4. Recounted(loader[w].mirror, old, mirrors, mirrors')
    BY <1>5, <2>1 DEF Recounted
  <2>5. mirrors' \in MirrorTable /\ MirrorUsers'
    BY <1>1, <1>2, <2>3, <2>4, WorkerMoves
  <2>6. LastWordAbout(loader[This].job)
    BY <1>1, <1>2, <2>1, ToldLast DEF w
  <2> QED
    BY <1>1, <1>3, <2>1, <2>3, <2>5, <2>6, WorkerEnds
<1>10. CASE usable # {}
  <2>1. /\ pre' = pre
        /\ calls' = Becomes(<<EnqueueCall(This)>>) \/ calls' = calls
        /\ loader' = [loader EXCEPT ![w].tainted = tainted, ![w].mirror = new]
        /\ mirrors' = Ref(new, Unref(old, table))
    BY <1>7, <1>10 DEF w
  <2>2. new \in RepoMirror
    BY <1>5, <1>6, <1>10, LeastUsedIsUsable DEF new
  <2>3. loader' = [loader EXCEPT ![w] = [loader[w] EXCEPT !.tainted = tainted, !.mirror = new]]
    BY <1>1, <1>2, <2>1 DEF PTypes
  <2>4. SameJobs /\ Moves(w, new)
    BY <1>8, <2>2, <2>3
  <2>5. Recounted(old, new, table, mirrors')
    BY <1>4, <1>5, <2>1, <2>2, Exchanged
  <2>6. Recounted(loader[w].mirror, new, mirrors, mirrors')
    BY <1>5, <2>5 DEF Recounted
  <2>7. mirrors' \in MirrorTable /\ MirrorUsers'
    BY <1>1, <1>2, <2>4, <2>6, WorkerMoves
  <2> QED
    BY <1>1, <1>3, <2>1, <2>4, <2>7, WorkerGoesOn
<1> QED
  BY <1>9, <1>10

-----------------------------------------------------------------------------
(* nextJob.                                                                 *)

LEMMA WorkerAsks ==
    ASSUME PreloadInv, calls # <<>>, Head(calls).op = "nextJob"
    PROVE  /\ This \in Download /\ This \in Started /\ Head(calls) \in WorkerFrame
           /\ InHand = {This} /\ InHandBusy = {} /\ InHandOnly = {This} /\ Busy = Listed
           /\ Unabandoned => This \notin Listed
           /\ PTypes /\ Busy \subseteq Download
<1>1. This \in Download /\ PTypes /\ Head(calls) \in WorkerFrame
  BY InnermostCall DEF PreloadInv, WorkerOps, This
<1>2. InHand = {This} /\ InHandBusy = {} /\ InHandOnly = {This}
  BY InHandIs DEF This
<1>3. Busy = Listed /\ Busy \subseteq Known /\ This \in Started
  BY <1>2, InMeantime DEF Busy, Known
<1>4. Unabandoned => This \notin Listed
  BY <1>2, InMeantime DEF OnePlace
<1> QED
  BY <1>1, <1>2, <1>3, <1>4, InMeantime

\* The job is taken by a worker that has, or gets, a mirror of its repository.
JobTaken(w, j) ==
    /\ loader' \in [Download -> LoaderType]
    /\ \A v \in Download : /\ loader'[v].finished = loader[v].finished
                           /\ loader'[v].job = IF v = w THEN j ELSE loader[v].job
    /\ mirrors' \in MirrorTable /\ MirrorUsers'

LEMMA TakesJob ==
    ASSUME PTypes, MirrorUsers, This \in Download, pre.required # <<>>, NEW tmp \in BOOLEAN,
           Takes(tmp)
    PROVE  JobTaken(This, Head(pre.required)) /\ Head(pre.required) \in Job
<1> DEFINE w == This  j == Head(pre.required)  p == PrepareMirror(w, j)
           old == loader[w].mirror  rep == Wanted[j]
<1>1. j \in Job /\ rep \in DOMAIN MirrorsOf
  BY MirrorsGiven DEF PTypes, PreType
<1>2. loader[w] \in LoaderType /\ old \in RepoMirror \cup {NoMirror}
      /\ (old # NoMirror => mirrors[old].refs >= 1) /\ mirrors \in MirrorTable
  BY MirrorInUse DEF PTypes, LoaderType, MirrorTable
<1>3. p.mirror \in RepoMirror /\ Recounted(old, p.mirror, mirrors, p.table)
  <2>1. CASE old # NoMirror /\ loader[w].repo = rep
    <3>1. p.mirror = old /\ p.table = mirrors
      BY <2>1 DEF PrepareMirror
    <3>2. Recounted(old, old, mirrors, mirrors)
      BY <1>2 DEF Recounted
    <3> QED
      BY <1>2, <2>1, <3>1, <3>2
  <2>2. CASE ~(old # NoMirror /\ loader[w].repo = rep)
    <3> DEFINE free == Unref(old, mirrors)  choice == LeastUsed(MirrorsOf[rep], free)
    <3>1. p.mirror = choice /\ p.table = Ref(choice, free)
      BY <2>2 DEF PrepareMirror
    <3>2. free \in MirrorTable
      BY <1>2, Released DEF Recounted
    <3>3. choice \in RepoMirror
      <4> HIDE DEF free
      <4>1. MirrorsOf[rep] # {} /\ MirrorsOf[rep] \subseteq RepoMirror
        BY <1>1, MirrorsGiven
      <4>2. choice \in MirrorsOf[rep]
        BY <3>2, <4>1, LeastUsedIsUsable
      <4> QED
        BY <4>1, <4>2
    <3> HIDE DEF choice
    <3>4. Recounted(old, choice, mirrors, Ref(choice, free))
      BY <1>2, <3>3, Exchanged
    <3> QED
      BY <3>1, <3>3, <3>4
  <2> QED
    BY <2>1, <2>2
<1>4. /\ loader' = [loader EXCEPT ![w] = [loader[w] EXCEPT
              !.job = j, !.mirror = p.mirror, !.repo = rep,
              !.tainted = {}, !.tmp = tmp, !.auths = 0]]
      /\ mirrors' = p.table
  BY DEF Takes
<1> HIDE DEF p
<1> DEFINE l == [loader[w] EXCEPT !.job = j, !.mirror = p.mirror, !.repo = rep,
                                  !.tainted = {}, !.tmp = tmp, !.auths = 0]
<1>5. l \in LoaderType /\ l.finished = loader[w].finished /\ l.job = j /\ l.mirror = p.mirror
  <2>1. 0 \in 0..MaxAuth
    BY PreloadAssumption
  <2> DEFINE m == p.mirror
  <2>2. m \in RepoMirror /\ l = [loader[w] EXCEPT !.job = j, !.mirror = m, !.repo = rep,
                                                  !.tainted = {}, !.tmp = tmp, !.auths = 0]
    BY <1>3
  <2> HIDE DEF m, j, rep
  <2> QED
    BY <1>1, <1>2, <2>1, <2>2 DEF LoaderType, m
<1>6. loader' = [loader EXCEPT ![w] = l]
  BY <1>4
<1> HIDE DEF l, j
<1>7. /\ loader' \in [Download -> LoaderType] /\ Moves(w, p.mirror)
      /\ \A v \in Download : /\ loader'[v].finished = loader[v].finished
                             /\ loader'[v].job = IF v = w THEN j ELSE loader[v].job
  BY <1>5, <1>6 DEF PTypes, Moves
<1>8. mirrors' \in MirrorTable /\ MirrorUsers'
  BY <1>3, <1>4, <1>7, WorkerMoves
<1> QED
  BY <1>1, <1>7, <1>8 DEF JobTaken, j

\* A job about which the last word is said at once.
LEMMA JobAtOnceKeeps ==
    ASSUME PreloadInv, Runs("nextJob"), pre.required # <<>>, Takes(FALSE), UNCHANGED netVars,
           NEW fatal \in BOOLEAN,
           pre' = [Told(Head(pre.required), fatal) EXCEPT !.required = Tail(pre.required)],
           ~fatal => Head(pre.required) \in pre.cached
    PROVE  PreloadInv'
<1> DEFINE j == Head(pre.required)  w == This  p == Told(j, fatal)  r == Tail(pre.required)
<1>1. calls # <<>> /\ Head(calls).op = "nextJob" /\ net' = net /\ calls' = calls
  BY DEF Runs, netVars
<1>2. /\ w \in Download /\ InHand = {w} /\ InHandBusy = {} /\ Busy = Listed /\ PTypes
      /\ Unabandoned => w \notin Listed
      /\ Busy \subseteq Download /\ w \in Started
  BY <1>1, WorkerAsks
<1>3. JobTaken(w, j) /\ j \in Job
  BY <1>2, TakesJob DEF PreloadInv
<1>4. ~pre.aborted
  BY DEF PreloadInv, Phases
<1>5. /\ pre.required \in Seq(Job) /\ r \in Seq(Job) /\ ToSet(pre.required) = {j} \cup ToSet(r)
      /\ IsInjective(pre.required) => IsInjective(r) /\ j \notin ToSet(r)
  BY <1>2, TailRemoved DEF PTypes, PreType
<1>6. SameHand /\ InHandBusy' = {}
  BY <1>1, <1>2, SameCalls
<1>7. Busy' = Busy
  BY <1>1, <1>2, <1>6 DEF Busy, Listed
<1>8. /\ pre' \in PreType /\ pre'.phase = pre.phase /\ pre'.required = r
      /\ pre'.started = pre.started /\ pre'.aborted = pre.aborted /\ pre'.cached = pre.cached
      /\ pre'.told = [pre.told EXCEPT ![j] = pre.told[j] + 1]
      /\ pre'.missed <=> pre.missed \/ fatal
  <2>1. /\ p \in PreType /\ p.phase = pre.phase
        /\ p.started = pre.started /\ p.aborted = pre.aborted /\ p.cached = pre.cached
        /\ p.told = [pre.told EXCEPT ![j] = pre.told[j] + 1]
        /\ p.missed <=> pre.missed \/ fatal
    BY <1>2, <1>3, WordTold DEF PTypes
  <2>2. pre' = [p EXCEPT !.required = r]
    OBVIOUS
  <2> HIDE DEF p, r
  <2>3. /\ pre' \in PreType /\ pre'.phase = p.phase /\ pre'.required = r
        /\ pre'.started = p.started /\ pre'.aborted = p.aborted /\ pre'.cached = p.cached
        /\ pre'.told = p.told /\ pre'.missed = p.missed
    BY <1>5, <2>1, <2>2 DEF PreType
  <2> QED
    BY <2>1, <2>3
<1> HIDE DEF r, j, p, w
<1>9. /\ JobsTold /\ w \notin Busy
      /\ \A v \in Busy : v # w /\ loader[v].job \in Job /\ loader'[v].job = loader[v].job
  BY <1>2, <1>3, <1>4, InMeantime DEF PreloadInv, JobsOK, JobTaken, Phases, Known
<1>10. /\ pre.told \in [Job -> Nat] /\ pre.told[j] = 0 /\ pre'.told[j] = 1
       /\ \A k \in Job : k # j => pre'.told[k] = pre.told[k]
       /\ ToSet(r) \subseteq Job /\ j \notin ToSet(r)
  BY <1>2, <1>3, <1>5, <1>8, <1>9, Members DEF PTypes, PreType, JobsTold
<1>11. JobsTold'
  <2>0. pre'.required = r
    BY <1>8
  <2>1. IsInjective(pre'.required) /\ \A k \in ToSet(pre'.required) : pre'.told[k] = 0
    BY <1>5, <1>9, <1>10, <2>0 DEF JobsTold
  <2>2. \A v \in Busy' : /\ pre'.told[loader'[v].job] = 0
                         /\ loader'[v].job \notin ToSet(pre'.required)
    <3> SUFFICES ASSUME NEW v \in Busy
                 PROVE  pre'.told[loader[v].job] = 0 /\ loader[v].job \notin ToSet(r)
      BY <1>7, <1>9, <2>0
    <3>1. pre.told[loader[v].job] = 0 /\ loader[v].job \notin ToSet(pre.required)
      BY <1>9 DEF JobsTold
    <3>2. loader[v].job # j /\ loader[v].job \in Job
      BY <1>5, <1>9, <3>1
    <3> QED
      BY <1>5, <1>10, <3>1, <3>2
  <2>3. \A v, x \in Busy' : loader'[v].job = loader'[x].job => v = x
    BY <1>7, <1>9 DEF JobsTold
  <2>4. ASSUME NEW k \in Job
        PROVE  /\ pre'.told[k] \in {0, 1}
               /\ pre'.told[k] = 0 => \/ k \in ToSet(pre'.required)
                                      \/ \E v \in Busy' : loader'[v].job = k
               /\ ~pre'.missed /\ pre'.told[k] = 1 => k \in pre'.cached
    <3>1. CASE k = j
      BY <3>1, <1>8, <1>10 DEF j
    <3>2. CASE k # j
      <4>1. /\ pre'.told[k] = pre.told[k] /\ pre.told[k] \in {0, 1}
            /\ pre.told[k] = 0 => \/ k \in ToSet(pre.required)
                                  \/ \E v \in Busy : loader[v].job = k
            /\ ~pre.missed /\ pre.told[k] = 1 => k \in pre.cached
        BY <3>2, <1>9, <1>10 DEF JobsTold
      <4>2. k \in ToSet(pre.required) => k \in ToSet(pre'.required)
        BY <3>2, <1>5, <1>8
      <4>3. (\E v \in Busy : loader[v].job = k) => \E v \in Busy' : loader'[v].job = k
        BY <1>7, <1>9
      <4> QED
        BY <4>1, <4>2, <4>3, <1>8
    <3> QED
      BY <3>1, <3>2
  <2> QED
    BY <2>1, <2>2, <2>3, <2>4 DEF JobsTold
<1>12. \A v \in Known \cup InHandBusy' : loader'[v].job \in Job
  BY <1>2, <1>3, <1>6, InMeantime DEF PreloadInv, Phases, JobTaken
<1> QED
  BY <1>1, <1>2, <1>3, <1>4, <1>6, <1>8, <1>11, <1>12, WorkerKeeps DEF JobTaken

LEMMA JobFailsKeeps ==
    ASSUME PreloadInv, JobFails
    PROVE  PreloadInv'
<1>1. /\ Runs("nextJob") /\ pre.required # <<>> /\ Takes(FALSE) /\ UNCHANGED netVars
      /\ PTypes /\ MirrorUsers
  BY DEF JobFails, PreloadInv
<1>2. Head(pre.required) \in Job
  BY <1>1, TailRemoved DEF PTypes, PreType
<1>3. pre' = [Told(Head(pre.required), TRUE) EXCEPT !.required = Tail(pre.required)]
  BY <1>1, <1>2, WordTold DEF JobFails, PTypes, PreType
<1> QED
  BY <1>1, <1>3, JobAtOnceKeeps

LEMMA JobCachedKeeps ==
    ASSUME PreloadInv, JobCached
    PROVE  PreloadInv'
<1>1. /\ Runs("nextJob") /\ pre.required # <<>> /\ Takes(FALSE) /\ UNCHANGED netVars
      /\ PTypes /\ MirrorUsers /\ Head(pre.required) \in pre.cached
  BY DEF JobCached, PreloadInv
<1>2. Head(pre.required) \in Job
  BY <1>1, TailRemoved DEF PTypes, PreType
<1>3. pre' = [Told(Head(pre.required), FALSE) EXCEPT !.required = Tail(pre.required)]
  BY <1>1, <1>2, WordTold DEF JobCached, PTypes, PreType
<1> QED
  BY <1>1, <1>3, JobAtOnceKeeps

LEMMA JobStartsKeeps ==
    ASSUME PreloadInv, JobStarts
    PROVE  PreloadInv'
<1> DEFINE j == Head(pre.required)  w == This  r == Tail(pre.required)  f == EnqueueCall(w)
<1>1. /\ calls # <<>> /\ Head(calls).op = "nextJob" /\ net' = net /\ Takes(TRUE)
      /\ pre.required # <<>> /\ calls' = Becomes(<<f>>)
      /\ pre' = [pre EXCEPT !.required = r]
  BY InMeantime DEF JobStarts, Runs, PTypes, PreType
<1>2. /\ w \in Download /\ InHand = {w} /\ InHandBusy = {} /\ Busy = Listed /\ PTypes
      /\ Unabandoned => w \notin Listed
      /\ Busy \subseteq Download /\ w \in Started
  BY <1>1, WorkerAsks
<1>3. JobTaken(w, j) /\ j \in Job
  BY <1>1, <1>2, TakesJob DEF PreloadInv
<1>4. ~pre.aborted
  BY <1>1 DEF PreloadInv, Phases
<1>5. /\ pre.required \in Seq(Job) /\ r \in Seq(Job) /\ ToSet(pre.required) = {j} \cup ToSet(r)
      /\ IsInjective(pre.required) => IsInjective(r) /\ j \notin ToSet(r)
  BY <1>1, <1>2, TailRemoved DEF PTypes, PreType
<1>6. f \in WorkerFrame /\ f.op = "enqueue" /\ f.req = Head(calls).req /\ f.req = w
  BY <1>2, NewFrames DEF EnqueueCall, This, DownloadResult
<1> HIDE DEF f
<1>7. SameHand /\ InHandBusy' = {w}
  BY <1>1, <1>2, <1>6, OwnCall
<1>8. Busy' = Busy \cup {w}
  BY <1>1, <1>2, <1>7 DEF Busy, Listed
<1> HIDE DEF r, j, w
<1>9. /\ pre' \in PreType /\ pre'.phase = pre.phase /\ pre'.required = r
      /\ pre'.started = pre.started /\ pre'.aborted = pre.aborted /\ pre'.cached = pre.cached
      /\ pre'.told = pre.told /\ pre'.missed = pre.missed
  BY <1>1, <1>2, <1>5 DEF PTypes, PreType
<1>10. /\ JobsTold /\ w \notin Busy /\ loader'[w].job = j
       /\ \A v \in Busy : v # w /\ loader[v].job \in Job /\ loader'[v].job = loader[v].job
  BY <1>2, <1>3, <1>4, InMeantime DEF PreloadInv, JobsOK, JobTaken, Phases, Known
<1>11. /\ pre.told[j] = 0 /\ j \notin ToSet(r) /\ j \in ToSet(pre.required)
       /\ \A v \in Busy : loader[v].job # j
  BY <1>5, <1>10 DEF JobsTold
<1>12. JobsTold'
  <2>1. IsInjective(pre'.required) /\ \A k \in ToSet(pre'.required) : pre'.told[k] = 0
    BY <1>5, <1>9, <1>10 DEF JobsTold
  <2>2. \A v \in Busy' : /\ pre'.told[loader'[v].job] = 0
                         /\ loader'[v].job \notin ToSet(pre'.required)
    BY <1>5, <1>8, <1>9, <1>10, <1>11 DEF JobsTold
  <2>3. \A v, x \in Busy' : loader'[v].job = loader'[x].job => v = x
    BY <1>8, <1>10, <1>11 DEF JobsTold
  <2>4. ASSUME NEW k \in Job
        PROVE  /\ pre'.told[k] \in {0, 1}
               /\ pre'.told[k] = 0 => \/ k \in ToSet(pre'.required)
                                      \/ \E v \in Busy' : loader'[v].job = k
               /\ ~pre'.missed /\ pre'.told[k] = 1 => k \in pre'.cached
    <3>1. /\ pre.told[k] \in {0, 1}
          /\ pre.told[k] = 0 => \/ k \in ToSet(pre.required)
                                \/ \E v \in Busy : loader[v].job = k
          /\ ~pre.missed /\ pre.told[k] = 1 => k \in pre.cached
      BY <1>10 DEF JobsTold
    <3>2. k \in ToSet(pre.required) => \/ k \in ToSet(pre'.required)
                                       \/ \E v \in Busy' : loader'[v].job = k
      BY <1>5, <1>8, <1>9, <1>10
    <3>3. (\E v \in Busy : loader[v].job = k) => \E v \in Busy' : loader'[v].job = k
      BY <1>8, <1>10
    <3> QED
      BY <3>1, <3>2, <3>3, <1>9
  <2> QED
    BY <2>1, <2>2, <2>3, <2>4 DEF JobsTold
<1>13. \A v \in Known \cup InHandBusy' : loader'[v].job \in Job
  BY <1>2, <1>3, <1>7, InMeantime DEF PreloadInv, Phases, JobTaken
<1> QED
  BY <1>1, <1>2, <1>3, <1>4, <1>7, <1>9, <1>12, <1>13, WorkerKeeps DEF JobTaken

LEMMA NoMoreJobsKeeps ==
    ASSUME PreloadInv, NoMoreJobs
    PROVE  PreloadInv'
<1> DEFINE w == This  old == loader[w].mirror  t == Tail(calls)
           l == [loader[w] EXCEPT !.finished = TRUE, !.mirror = NoMirror, !.tainted = {}, !.tmp = FALSE,
                                  !.repo = IF loader[w].mirror = NoMirror THEN loader[w].repo ELSE 0]
           done == net.loop = "running" /\ \A v \in Started : loader'[v].finished
<1>1. /\ calls # <<>> /\ Head(calls).op = "nextJob" /\ pre' = pre /\ pre.required = <<>>
      /\ mirrors' = Unref(old, mirrors) /\ calls' = t
  BY DEF NoMoreJobs, Runs
<1>2. /\ w \in Download /\ InHand = {w} /\ InHandBusy = {} /\ InHandOnly = {w} /\ Busy = Listed
      /\ PTypes /\ w \in Started /\ MirrorUsers
      /\ Unabandoned => w \notin Listed
  BY <1>1, WorkerAsks DEF PreloadInv
<1>3. /\ loader[w] \in LoaderType /\ old \in RepoMirror \cup {NoMirror} /\ mirrors \in MirrorTable
      /\ old # NoMirror => mirrors[old].refs >= 1
  BY <1>2, MirrorInUse DEF PTypes, LoaderType, MirrorTable
<1>4. Recounted(old, NoMirror, mirrors, mirrors')
  BY <1>1, <1>3, Released
<1>5. /\ l \in LoaderType /\ l.finished /\ l.job = loader[w].job /\ l.mirror = NoMirror
  <2> DEFINE rep == IF loader[w].mirror = NoMirror THEN loader[w].repo ELSE 0
  <2>1. rep \in {0} \cup DOMAIN MirrorsOf
    BY <1>3 DEF LoaderType
  <2>2. l = [loader[w] EXCEPT !.finished = TRUE, !.mirror = NoMirror, !.tainted = {}, !.tmp = FALSE,
                              !.repo = rep]
    OBVIOUS
  <2> HIDE DEF rep, l
  <2> QED
    BY <1>3, <2>1, <2>2 DEF LoaderType
<1>6. loader' = [loader EXCEPT ![w] = l]
  BY DEF NoMoreJobs
<1> HIDE DEF l
<1>7. /\ loader' \in [Download -> LoaderType] /\ Moves(w, NoMirror)
      /\ \A v \in Download : loader'[v].finished <=> v = w \/ loader[v].finished
      /\ \A v \in Download : loader'[v].job = loader[v].job
  <2> DEFINE fin(v) == loader[v].finished
  <2>1. \A v \in Download : fin(v) \in BOOLEAN
    BY <1>2 DEF PTypes, LoaderType
  <2> QED
    BY <1>2, <1>5, <1>6, <2>1 DEF PTypes, Moves
<1>8. mirrors' \in MirrorTable /\ MirrorUsers'
  BY <1>2, <1>4, <1>7, WorkerMoves
<1>9. net' = IF done THEN [net EXCEPT !.loop = "quit"] ELSE net
  BY DEF NoMoreJobs, Started
<1>10. /\ net' \in NetType /\ net'.pending = net.pending /\ net'.running = net.running
       /\ net'.locked = net.locked /\ net'.mode = net.mode /\ net'.inMulti = net.inMulti
       /\ net'.done = net.done /\ net'.loop = IF done THEN "quit" ELSE net.loop
  <2>1. net \in NetType
    BY <1>2 DEF PTypes
  <2> HIDE DEF done
  <2> QED
    BY <1>9, <2>1 DEF NetType
<1>11. /\ CallReturns /\ CallsOK' /\ InHand' = {} /\ InHandBusy' = {} /\ InHandOnly' = {}
       /\ ToSet(calls') = ToSet(t)
  BY <1>1, <1>2, ReturnedCall DEF CallReturns
<1>12. /\ Listed' = Listed /\ Busy' = Busy /\ Known' = Known /\ Started' = Started
       /\ Engaged = Listed \cup {w} /\ Engaged' = Listed /\ Started \subseteq Download
  BY <1>1, <1>2, <1>10, <1>11, InMeantime DEF Listed, Busy, Known, Engaged, Started
<1>13. /\ Has("curl")' => Has("curl")
       /\ Has("cancelAll")' <=> Has("cancelAll")
       /\ Has("dequeue") => Has("dequeue")'
       /\ StackCalm => StackCalm'
  <2>1. Replaces({})
    BY <1>1, <1>11 DEF Replaces
  <2> QED
    BY <2>1, <1>1, <1>2, <1>10, StackReplaced
<1> HIDE DEF done
<1>14. PTypes'
  BY <1>1, <1>2, <1>7, <1>8, <1>10, <1>11 DEF PTypes, MirrorTable
<1>15. Phases'
  <2>1. net'.loop = "quit" => pre.required = <<>> /\ \A v \in Started : loader'[v].finished
    BY <1>1, <1>7, <1>10, <1>12 DEF PreloadInv, Phases, done
  <2>2. \A v \in Download : loader'[v].finished => v \in Started
    BY <1>2, <1>7 DEF PreloadInv, Phases
  <2>3. pre.phase \in {"shutdown", "over"} => net'.loop = "stopped"
    BY <1>10 DEF PreloadInv, Phases, done
  <2>4. /\ pre.phase = "start" => net'.loop = "stopped"
        /\ pre.phase = "loop" => net'.loop \in {"running", "quit"}
    BY <1>10 DEF PreloadInv, Phases, done
  <2>5. \A v \in Started : loader[v].finished => loader'[v].finished
    BY <1>7, <1>12
  <2>6. Known' \subseteq Started' /\ InHand' \subseteq Started'
        /\ \A v \in Known' : loader'[v].job \in Job
    BY <1>7, <1>11, <1>12, InMeantime DEF PreloadInv, Phases
  <2>7. /\ pre.phase = "start" => ~pre.aborted
        /\ pre.aborted => pre.missed
        /\ Has("curl")' => pre.phase = "loop"
        /\ pre.phase \in {"shutdown", "over"} => \A v \in Started : loader[v].finished
    BY <1>13 DEF PreloadInv, Phases
  <2> QED
    BY <1>1, <1>12, <2>1, <2>2, <2>3, <2>4, <2>5, <2>6, <2>7 DEF Phases
<1>16. StackOK'
  <2>1. ASSUME pre.aborted, net'.loop = "running" PROVE Aborting'
    <3>1. Aborting
      BY <2>1, <1>10, InMeantime
    <3> DEFINE A == AbortCancel  C == CurlCall  D == DequeueCall
    <3>2. PICK v \in Download : calls = <<NextJobCall(v), D, A, C>>
      BY <3>1, <1>1
      DEF Aborting, AbortCancel, DequeueCall, SetFinishedCall, FinishedCall, NextJobCall
    <3>3. calls' = <<D, A, C>>
      <4> DEFINE N == NextJobCall(v)
      <4> HIDE DEF A, C, D, N
      <4> QED
        BY <1>1, <3>2 DEF N
    <3>4. net'.locked
      BY <1>10, <3>1 DEF Aborting
    <3> QED
      BY <3>3, <3>4 DEF Aborting
  <2>2. ~pre.aborted => StackCalm'
    BY <1>13, InMeantime
  <2> QED
    BY <1>1, <2>1, <2>2 DEF StackOK
<1>17. ListsOK'
  <2> SUFFICES ASSUME Unabandoned'
               PROVE  /\ OnePlace'
                      /\ \A v \in Started' : loader'[v].finished <=> v \notin Engaged'
                      /\ net'.loop = "running" => \E v \in Started' : ~loader'[v].finished
    BY DEF ListsOK
  <2>1. Unabandoned
    BY <1>1, <1>10 DEF Unabandoned
  <2>2. OnePlace'
    BY <1>10, <1>11, <1>12, <1>13, <2>1, InMeantime DEF OnePlace
  <2>3. \A v \in Started : loader'[v].finished <=> v \notin Engaged'
    <3>1. \A v \in Started : loader[v].finished <=> v \notin Engaged
      BY <2>1 DEF PreloadInv, ListsOK
    <3> QED
      BY <1>2, <1>7, <1>12, <2>1, <3>1
  <2>4. net'.loop = "running" => \E v \in Started : ~loader'[v].finished
    BY <1>10 DEF done
  <2> QED
    BY <1>12, <2>2, <2>3, <2>4
<1>18. MultiOK'
  BY <1>1, <1>10, InMeantime DEF MultiOK, InCurlListed
<1>19. JobsOK'
  <2>1. \A v \in Busy : loader'[v].job = loader[v].job
    BY <1>7, <1>12, InMeantime DEF Known
  <2> QED
    BY <1>1, <1>12, <2>1, NoWordYet DEF PreloadInv, JobsOK
<1> QED
  BY <1>8, <1>14, <1>15, <1>16, <1>17, <1>18, <1>19 DEF PreloadInv

-----------------------------------------------------------------------------
(* preloadTransaction.                                                      *)

LEMMA StartPreloadWorkerKeeps ==
    ASSUME PreloadInv, StartPreloadWorker
    PROVE  PreloadInv'
<1> DEFINE w == pre.started + 1  f == NextJobCall(w)
<1>1. /\ pre.phase = "start" /\ calls = <<>> /\ pre.required # <<>> /\ pre.started < MaxConnections
      /\ calls' = <<f>> /\ net' = net /\ loader' = loader /\ mirrors' = mirrors
      /\ PTypes /\ MirrorUsers /\ net \in NetType /\ pre \in PreType
  BY DEF StartPreloadWorker, PreloadInv, PTypes
<1>2. /\ pre' = [pre EXCEPT !.started = w]
      /\ w \in Download /\ w \notin Started /\ w \in 0..MaxConnections
      /\ \A s \in 0..MaxConnections : s = w => 1..s = Started \cup {w}
  BY <1>1, DownloadsCounted DEF StartPreloadWorker, PreType, Started
<1> HIDE DEF w
<1>3. /\ pre' \in PreType /\ pre'.phase = pre.phase /\ pre'.required = pre.required
      /\ pre'.started = w /\ pre'.aborted = pre.aborted /\ pre'.cached = pre.cached
      /\ pre'.told = pre.told /\ pre'.missed = pre.missed
  BY <1>1, <1>2 DEF PreType
<1>4. Started' = Started \cup {w}
  BY <1>2, <1>3 DEF Started
<1>5. f \in WorkerFrame /\ f.op = "nextJob" /\ f.req = w
  BY <1>2, NewFrames DEF NextJobCall, DownloadResult
<1> HIDE DEF f
<1>6. /\ CallsOK' /\ InHand' = {w} /\ InHandBusy' = {} /\ InHandOnly' = {w}
      /\ ToSet(calls') = {f}
  <2>1. CallMade(f, <<>>)
    <3>1. <<f>> \in Seq({f})
      OBVIOUS
    <3>2. <<f>> \o <<>> = <<f>>
      BY <3>1, ConcatEmptySeq
    <3> QED
      BY <1>1, <3>2 DEF CallMade
  <2>2. ToSet(<<>>) = {} /\ <<>> \in Seq(BaseFrame)
    BY DEF ToSet
  <2> DEFINE s == <<>>
  <2>3. CallMade(f, s) /\ s \in Seq(BaseFrame) /\ ToSet(s) = {} /\ f \in Frame
    BY <1>5, <2>1, <2>2 DEF Frame
  <2> HIDE DEF s
  <2> QED
    BY <1>5, <2>3, MadeCall
<1>7. InHand = {} /\ InHandBusy = {} /\ InHandOnly = {} /\ \A op : ~Has(op)
  BY <1>1, InHandIs, NoCalls
<1>8. ~Has("curl")' /\ ~Has("cancelAll")'
  BY <1>5, <1>6 DEF Has
<1>9. ~pre.aborted /\ net.loop = "stopped"
  BY <1>1 DEF PreloadInv, Phases
<1>10. /\ OnePlace /\ StackCalm /\ InCurlListed /\ JobsTold /\ net.pending = <<>>
       /\ ~net.locked
  BY <1>7, <1>9, InMeantime DEF OnePlace, StackCalm, PreloadInv, JobsOK
<1>11. /\ Listed' = Listed /\ Busy' = Busy /\ Known' = Known /\ Engaged' = Engaged \cup {w}
       /\ w \notin Engaged
  <2>1. Engaged \subseteq Started
    BY <1>7, InMeantime DEF Engaged, Known, Busy
  <2> QED
    BY <1>1, <1>2, <1>6, <1>7, <2>1 DEF Listed, Busy, Known, Engaged
<1>12. PTypes' /\ MirrorUsers'
  BY <1>1, <1>3, <1>6 DEF PTypes, MirrorUsers
<1>13. \A v \in Download : ~loader[v].finished
  BY <1>1 DEF PreloadInv, Phases
<1>14. Phases'
  <2>1. Known' \subseteq Started' /\ InHand' \subseteq Started' /\ \A v \in Known' : loader[v].job \in Job
    BY <1>4, <1>6, <1>11, InMeantime DEF PreloadInv, Phases
  <2> QED
    BY <1>1, <1>3, <1>8, <1>9, <1>13, <2>1 DEF Phases
<1>15. StackOK'
  <2>1. StackCalm'
    BY <1>1, <1>5, <1>6, <1>8, <1>10 DEF StackCalm
  <2> QED
    BY <1>3, <1>9, <2>1 DEF StackOK
<1>16. ListsOK'
  <2>1. OnePlace'
    BY <1>1, <1>6, <1>10, <1>11, InMeantime DEF OnePlace, Engaged
  <2>2. \A v \in Started : v \in Engaged /\ v \in Download
    BY <1>9, <1>13, InMeantime DEF PreloadInv, ListsOK
  <2>3. \A v \in Started' : v \in Engaged' /\ ~loader'[v].finished
    BY <1>1, <1>2, <1>4, <1>11, <1>13, <2>2
  <2> QED
    BY <1>1, <1>9, <2>1, <2>3 DEF ListsOK
<1>17. MultiOK'
  BY <1>1, <1>10 DEF MultiOK, InCurlListed
<1>18. JobsOK'
  BY <1>1, <1>3, <1>10, <1>11 DEF JobsOK, JobsTold
<1> QED
  BY <1>12, <1>14, <1>15, <1>16, <1>17, <1>18 DEF PreloadInv

LEMMA RunLoopKeeps ==
    ASSUME PreloadInv, RunLoop
    PROVE  PreloadInv'
<1>1. /\ pre.phase = "start" /\ calls = <<>> /\ calls' = calls
      /\ \E v \in Started : ~loader[v].finished
      /\ loader' = loader /\ mirrors' = mirrors
      /\ PTypes /\ MirrorUsers /\ net \in NetType /\ pre \in PreType
  BY DEF RunLoop, PreloadInv, PTypes, Started
<1>2. /\ pre' \in PreType /\ pre'.phase = "loop" /\ pre'.required = pre.required
      /\ pre'.started = pre.started /\ pre'.aborted = pre.aborted /\ pre'.cached = pre.cached
      /\ pre'.told = pre.told /\ pre'.missed = pre.missed
  BY <1>1 DEF RunLoop, PreType
<1>3. /\ net' \in NetType /\ net'.pending = net.pending /\ net'.running = net.running
      /\ net'.locked = net.locked /\ net'.mode = net.mode /\ net'.inMulti = net.inMulti
      /\ net'.done = net.done /\ net'.loop = "running"
  BY <1>1 DEF RunLoop, NetType
<1>4. /\ InHand' = InHand /\ InHandBusy' = InHandBusy /\ InHandOnly' = InHandOnly /\ CallsOK'
      /\ \A op : ~Has(op) /\ ~Has(op)'
  BY <1>1, NoCalls DEF InHand, InHandBusy, InHandOnly, AtTop, CallsOK, PTypes, Has
<1>5. Listed' = Listed /\ Busy' = Busy /\ Known' = Known /\ Engaged' = Engaged /\ Started' = Started
  BY <1>2, <1>3, <1>4 DEF Listed, Busy, Known, Engaged, Started
<1>6. ~pre.aborted
  BY <1>1 DEF PreloadInv, Phases
<1>7. OnePlace /\ StackCalm /\ InCurlListed /\ JobsTold
  BY <1>6, InMeantime DEF PreloadInv, JobsOK
<1>8. PTypes' /\ MirrorUsers'
  BY <1>1, <1>2, <1>3, <1>4 DEF PTypes, MirrorUsers
<1>9. Phases'
  BY <1>1, <1>2, <1>3, <1>4, <1>5, <1>6 DEF PreloadInv, Phases
<1>10. StackOK' /\ MultiOK' /\ JobsOK'
  BY <1>1, <1>2, <1>3, <1>4, <1>5, <1>6, <1>7
  DEF StackOK, StackCalm, MultiOK, InCurlListed, JobsOK, JobsTold
<1>11. ListsOK'
  BY <1>1, <1>3, <1>4, <1>5, <1>6, <1>7, InMeantime DEF ListsOK, OnePlace, PreloadInv
<1> QED
  BY <1>8, <1>9, <1>10, <1>11 DEF PreloadInv

LEMMA LoopEndsKeeps ==
    ASSUME PreloadInv, LoopEnds
    PROVE  PreloadInv'
<1> DEFINE f == CancelAllCall("cancelled")
<1>1. /\ calls = <<>> /\ calls' = <<f>>
      /\ loader' = loader /\ mirrors' = mirrors
      /\ PTypes /\ MirrorUsers /\ net \in NetType /\ pre \in PreType
      /\ \/ pre.phase = "loop" /\ net.loop = "quit"
         \/ /\ pre.phase = "start" /\ pre.required = <<>>
            /\ \A v \in Started : loader[v].finished
  BY DEF LoopEnds, PreloadInv, PTypes, Started
<1>2. pre.required = <<>> /\ \A v \in Started : loader[v].finished
  BY <1>1 DEF PreloadInv, Phases
<1>3. /\ pre' \in PreType /\ pre'.phase = "shutdown" /\ pre'.required = pre.required
      /\ pre'.started = pre.started /\ pre'.aborted = pre.aborted /\ pre'.cached = pre.cached
      /\ pre'.told = pre.told /\ pre'.missed = pre.missed
  BY <1>1 DEF LoopEnds, PreType
<1>4. /\ net' \in NetType /\ net'.pending = net.pending /\ net'.running = net.running
      /\ net'.locked = net.locked /\ net'.mode = net.mode /\ net'.inMulti = net.inMulti
      /\ net'.done = net.done /\ net'.loop = "stopped"
  BY <1>1 DEF LoopEnds, NetType
<1>5. f \in BaseFrame /\ f.op = "cancelAll" /\ f.was = net.locked /\ f \in Frame
  <2>1. f.op = "cancelAll" /\ f.was = net.locked
        /\ f \in [op : {"cancelAll"}, res : DownloadResult, was : BOOLEAN]
    BY <1>1 DEF CancelAllCall, NetType, DownloadResult
  <2> HIDE DEF f
  <2> QED
    BY <2>1 DEF BaseFrame, Frame
<1> HIDE DEF f
<1>6. /\ CallsOK' /\ InHand' = {} /\ InHandBusy' = {} /\ InHandOnly' = {}
      /\ ToSet(calls') = {f}
  <2>1. CallMade(f, <<>>)
    <3>1. <<f>> \in Seq({f})
      OBVIOUS
    <3>2. <<f>> \o <<>> = <<f>>
      BY <3>1, ConcatEmptySeq
    <3> QED
      BY <1>1, <3>2 DEF CallMade
  <2>2. ToSet(<<>>) = {} /\ <<>> \in Seq(BaseFrame)
    BY DEF ToSet
  <2> DEFINE s == <<>>
  <2>3. CallMade(f, s) /\ s \in Seq(BaseFrame) /\ ToSet(s) = {} /\ f.op \notin WorkerOps
    BY <1>5, <2>1, <2>2 DEF WorkerOps
  <2> HIDE DEF s
  <2> QED
    BY <1>5, <2>3, MadeCall
<1>7. InHand = {} /\ InHandBusy = {} /\ InHandOnly = {} /\ \A op : ~Has(op)
  BY <1>1, InHandIs, NoCalls
<1>8. ~Has("curl")' /\ Has("cancelAll")'
  BY <1>5, <1>6 DEF Has
<1>9. /\ Listed' = Listed /\ Busy' = Busy /\ Known' = Known /\ Engaged' = Engaged
      /\ Started' = Started
  BY <1>3, <1>4, <1>6, <1>7 DEF Listed, Busy, Known, Engaged, Started
<1>10. ~pre.aborted => /\ OnePlace /\ StackCalm /\ InCurlListed /\ JobsTold /\ ~net.locked
  BY <1>7, InMeantime DEF StackCalm, PreloadInv, JobsOK
<1>11. PTypes' /\ MirrorUsers'
  BY <1>1, <1>3, <1>4, <1>6 DEF PTypes, MirrorUsers
<1>12. Phases'
  BY <1>1, <1>2, <1>3, <1>4, <1>6, <1>7, <1>8, <1>9 DEF PreloadInv, Phases
<1>13. StackOK' /\ MultiOK' /\ JobsOK'
  BY <1>1, <1>3, <1>4, <1>5, <1>6, <1>8, <1>9, <1>10
  DEF StackOK, StackCalm, MultiOK, InCurlListed, JobsOK, JobsTold
<1>14. ListsOK'
  BY <1>1, <1>3, <1>4, <1>6, <1>7, <1>8, <1>9, <1>10
  DEF PreloadInv, ListsOK, OnePlace, Unabandoned
<1> QED
  BY <1>11, <1>12, <1>13, <1>14 DEF PreloadInv

LEMMA PreloadReturnsKeeps ==
    ASSUME PreloadInv, PreloadReturns
    PROVE  PreloadInv'
<1>1. /\ calls' = calls /\ pre.phase = "shutdown" /\ net' = net
      /\ loader' = loader /\ mirrors' = mirrors
      /\ PTypes /\ MirrorUsers /\ pre \in PreType
  BY DEF PreloadReturns, PreloadInv, PTypes
<1>2. /\ pre' \in PreType /\ pre'.phase = "over" /\ pre'.required = pre.required
      /\ pre'.started = pre.started /\ pre'.aborted = pre.aborted /\ pre'.cached = pre.cached
      /\ pre'.told = pre.told /\ pre'.missed = pre.missed
  BY <1>1 DEF PreloadReturns, PreType
<1>3. /\ InHand' = InHand /\ InHandBusy' = InHandBusy /\ InHandOnly' = InHandOnly /\ CallsOK'
      /\ \A op : Has(op)' <=> Has(op)
  BY <1>1 DEF InHand, InHandBusy, InHandOnly, AtTop, CallsOK, PTypes, Has
<1>4. Listed' = Listed /\ Busy' = Busy /\ Known' = Known /\ Engaged' = Engaged /\ Started' = Started
  BY <1>1, <1>2, <1>3 DEF Listed, Busy, Known, Engaged, Started
<1>5. PTypes' /\ MirrorUsers'
  BY <1>1, <1>2, <1>3 DEF PTypes, MirrorUsers
<1>6. Phases'
  BY <1>1, <1>2, <1>3, <1>4 DEF PreloadInv, Phases
<1>7. StackOK' /\ MultiOK' /\ JobsOK'
  BY <1>1, <1>2, <1>3, <1>4
  DEF PreloadInv, StackOK, StackCalm, Aborting, MultiOK, InCurlListed, JobsOK, JobsTold
<1>8. ListsOK'
  BY <1>1, <1>2, <1>3, <1>4 DEF PreloadInv, ListsOK, OnePlace, Unabandoned
<1> QED
  BY <1>5, <1>6, <1>7, <1>8 DEF PreloadInv

LEMMA UserAbortsKeeps ==
    ASSUME PreloadInv, NEW d \in Download, UserAborts(d)
    PROVE  PreloadInv'
<1> DEFINE f == [CancelAllCall("cancelled") EXCEPT !.was = TRUE]
<1>1. /\ LoopIdle \/ Runs("curl")
      /\ calls' = <<f>> \o WithinCurl /\ loader' = loader /\ mirrors' = mirrors
      /\ PTypes /\ MirrorUsers /\ net \in NetType /\ pre \in PreType
  BY DEF UserAborts, Transferring, PreloadInv, PTypes
<1>2. /\ pre' \in PreType /\ pre'.phase = pre.phase /\ pre'.required = <<>>
      /\ pre'.started = pre.started /\ pre'.aborted /\ pre'.missed
  <2> DEFINE r == <<>>
  <2>1. r \in Seq(Job) /\ pre' = [pre EXCEPT !.missed = TRUE, !.required = r, !.aborted = TRUE]
    BY DEF UserAborts
  <2> HIDE DEF r
  <2>2. /\ pre' \in PreType /\ pre'.phase = pre.phase /\ pre'.required = r
        /\ pre'.started = pre.started /\ pre'.aborted = TRUE /\ pre'.missed = TRUE
    BY <1>1, <2>1 DEF PreType
  <2> QED
    BY <2>2 DEF r
<1>3. /\ net' \in NetType /\ net'.pending = net.pending /\ net'.running = net.running
      /\ net'.locked /\ net'.mode = net.mode /\ net'.inMulti = net.inMulti
      /\ net'.done = net.done /\ net'.loop = net.loop
  BY <1>1 DEF UserAborts, NetType
<1>4. f \in BaseFrame /\ f.op = "cancelAll" /\ f = AbortCancel /\ f \in Frame /\ f.op \notin WorkerOps
  <2> DEFINE c == CancelAllCall("cancelled")
  <2>1. c = [op |-> "cancelAll", res |-> "cancelled", was |-> net.locked] /\ net.locked \in BOOLEAN
    BY <1>1 DEF CancelAllCall, NetType
  <2>2. f = [op |-> "cancelAll", res |-> "cancelled", was |-> TRUE]
    <3> HIDE DEF c
    <3>1. c \in [op : {"cancelAll"}, res : {"cancelled"}, was : BOOLEAN]
      BY <2>1
    <3> DEFINE r == [c EXCEPT !.was = TRUE]
    <3>3. r \in [op : {"cancelAll"}, res : {"cancelled"}, was : {TRUE}]
      BY <3>1
    <3>2. r = [op |-> "cancelAll", res |-> "cancelled", was |-> TRUE]
      <4> HIDE DEF r
      <4>1. r = [op |-> r.op, res |-> r.res, was |-> r.was]
        BY <3>3
      <4>2. r.op = "cancelAll" /\ r.res = "cancelled" /\ r.was = TRUE
        BY <3>3
      <4> QED
        BY <4>1, <4>2
    <3> QED
      BY <3>2 DEF c
  <2> HIDE DEF f
  <2>3. f \in BaseFrame /\ f.op = "cancelAll"
    BY <2>2 DEF BaseFrame, DownloadResult
  <2> QED
    BY <2>2, <2>3 DEF AbortCancel, Frame, WorkerOps
<1>5. /\ pre.phase = "loop" /\ ~(pre.aborted /\ net.loop = "running")
      /\ ~pre.aborted => WithinCurl = <<CurlCall>>
      /\ WithinCurl \in Seq(BaseFrame)
      /\ InHand = {} /\ InHandBusy = {} /\ InHandOnly = {}
  <2> DEFINE c == WithinCurl
  <2>1. CASE LoopIdle
    <3>1. calls = <<>> /\ net.loop = "running" /\ c = <<CurlCall>>
      BY <2>1 DEF LoopIdle, WithinCurl
    <3>2. CurlCall \in BaseFrame
      BY NewBaseFrames
    <3>3. c \in Seq(BaseFrame)
      BY <3>1, <3>2
    <3> QED
      BY <3>1, <3>3, AbortStack, InHandIs, InMeantime
  <2>2. CASE ~LoopIdle /\ Runs("curl")
    <3>1. calls # <<>> /\ Head(calls).op = "curl" /\ c = calls
      BY <2>2 DEF Runs, WithinCurl
    <3>2. /\ calls \in Seq(BaseFrame) /\ Has("curl")
          /\ InHand = {} /\ InHandBusy = {} /\ InHandOnly = {}
      BY <1>1, <3>1, InnermostCall, HasTop, InHandIs DEF WorkerOps
    <3> QED
      BY <1>1, <3>1, <3>2, AbortStack, CurlAlone, InMeantime DEF PreloadInv, Phases
  <2> QED
    BY <1>1, <2>1, <2>2
<1> DEFINE s == WithinCurl
<1> HIDE DEF f
<1>6. /\ CallsOK' /\ InHand' = {} /\ InHandBusy' = {} /\ InHandOnly' = {}
      /\ ToSet(calls') = {f} \cup ToSet(s)
  <2>1. CallMade(f, s) /\ s \in Seq(BaseFrame)
    BY <1>1, <1>5 DEF CallMade
  <2> HIDE DEF s
  <2> QED
    BY <1>4, <2>1, MadeCall
<1>7. Has("cancelAll")'
  BY <1>4, <1>6 DEF Has
<1>8. /\ Listed' = Listed /\ Busy' = Busy /\ Known' = Known /\ Engaged' = Engaged
      /\ Started' = Started
  BY <1>2, <1>3, <1>5, <1>6 DEF Listed, Busy, Known, Engaged, Started
<1>9. PTypes' /\ MirrorUsers'
  BY <1>1, <1>2, <1>3, <1>6 DEF PTypes, MirrorUsers
<1>10. Phases'
  BY <1>1, <1>2, <1>3, <1>5, <1>6, <1>8 DEF PreloadInv, Phases
<1>11. StackOK'
  <2>1. ASSUME net.loop = "running" PROVE Aborting'
    <3> DEFINE A == AbortCancel  C == CurlCall
    <3>1. calls' = <<A>> \o <<C>>
      BY <1>1, <1>4, <1>5, <2>1
    <3>2. calls' = <<A, C>>
      <4>1. <<A>> \in Seq({A, C}) /\ <<C>> \in Seq({A, C})
        OBVIOUS
      <4> HIDE DEF A, C
      <4> DEFINE p == <<A>> \o <<C>>  q == <<A, C>>
      <4>2. p \in Seq({A, C}) /\ Len(p) = 2 /\ p[1] = A /\ p[2] = C
        BY <4>1
      <4>3. q \in Seq({A, C}) /\ Len(q) = 2 /\ q[1] = A /\ q[2] = C
        OBVIOUS
      <4> HIDE DEF p, q
      <4>4. \A k \in 1..2 : p[k] = q[k]
        BY <4>2, <4>3
      <4>5. p = q
        BY <4>2, <4>3, <4>4
      <4> QED
        BY <3>1, <4>5 DEF p, q
    <3> QED
      BY <1>3, <3>2 DEF Aborting
  <2> QED
    BY <1>2, <1>3, <2>1 DEF StackOK
<1>12. ListsOK'
  <2> SUFFICES ASSUME net.loop = "running"
               PROVE  /\ OnePlace'
                      /\ \A v \in Started' : loader'[v].finished <=> v \notin Engaged'
                      /\ \E v \in Started' : ~loader'[v].finished
    BY <1>2, <1>3 DEF ListsOK, Unabandoned
  <2>1. Unabandoned
    BY DEF Unabandoned
  <2>2. OnePlace'
    BY <1>3, <1>6, <1>7, <1>8, <2>1, InMeantime DEF OnePlace
  <2>3. /\ \A v \in Started : loader[v].finished <=> v \notin Engaged
        /\ \E v \in Started : ~loader[v].finished
    BY <2>1 DEF PreloadInv, ListsOK
  <2> QED
    BY <1>1, <1>8, <2>2, <2>3
<1>13. MultiOK' /\ JobsOK'
  BY <1>2 DEF MultiOK, JobsOK
<1> QED
  BY <1>9, <1>10, <1>11, <1>12, <1>13 DEF PreloadInv

-----------------------------------------------------------------------------
(* The theorems.                                                            *)

LEMMA PreloadInvInit ==
    ASSUME PreloadInit
    PROVE  PreloadInv
<1>1. /\ net = [ pending |-> <<>>, running |-> <<>>, locked |-> FALSE,
                 mode |-> [d \in Download |-> "pending"], inMulti |-> {}, done |-> {},
                 loop |-> "stopped" ]
      /\ calls = <<>>
  BY DEF PreloadInit, NetInit
<1>2. PICK left \in SUBSET {1} :
         pre = [ phase |-> "start", required |-> [j \in Job |-> j], started |-> 0, missed |-> FALSE,
                 aborted |-> FALSE, cached |-> left, told |-> [j \in Job |-> 0] ]
  BY DEF PreloadInit
<1>3. /\ loader = [w \in Download |->
            [ finished |-> FALSE, job |-> 0, mirror |-> NoMirror, repo |-> 0,
              tainted |-> {}, tmp |-> FALSE, auths |-> 0 ]]
      /\ mirrors = [m \in RepoMirror |-> [refs |-> 0, miss |-> 0]]
  BY DEF PreloadInit
<1>4. Job = 1..Len(Wanted) /\ Len(Wanted) \in Nat /\ 1 \in Job
  BY PreloadAssumption DEF Job
<1> DEFINE req == [j \in Job |-> j]
<1>5. req \in Seq(Job) /\ IsInjective(req) /\ \A j \in Job : j \in ToSet(req)
  BY <1>4 DEF IsInjective, ToSet
<1>6. net \in NetType
  BY <1>1 DEF NetType
<1>7. pre \in PreType
  <2>1. left \in SUBSET Job
    BY <1>4
  <2>2. 0 \in 0..MaxConnections
    BY DownloadsCounted
  <2> DEFINE tl == [j \in Job |-> 0]
  <2>3. tl \in [Job -> Nat]
    OBVIOUS
  <2>4. pre = [ phase |-> "start", required |-> req, started |-> 0, missed |-> FALSE,
                aborted |-> FALSE, cached |-> left, told |-> tl ]
    BY <1>2
  <2> HIDE DEF req, tl
  <2> QED
    BY <1>5, <2>1, <2>2, <2>3, <2>4 DEF PreType
<1>8. loader \in [Download -> LoaderType] /\ \A w \in Download : ~loader[w].finished
  BY <1>3, PreloadAssumption DEF LoaderType
<1>9. mirrors \in [RepoMirror -> [refs : Nat, miss : Nat]]
  BY <1>3
<1>10. CallsOK /\ InHand = {} /\ InHandBusy = {} /\ InHandOnly = {} /\ \A op : ~Has(op)
  BY <1>1, InHandIs, NoCalls DEF CallsOK
<1>11. PTypes
  BY <1>6, <1>7, <1>8, <1>9, <1>10 DEF PTypes
<1>12. MirrorUsers
  <2> SUFFICES ASSUME NEW m \in RepoMirror
               PROVE  mirrors[m].refs = Cardinality({w \in Download : loader[w].mirror = m})
    BY DEF MirrorUsers
  <2>1. {w \in Download : loader[w].mirror = m} = {}
    BY <1>3, MirrorsGiven
  <2>2. mirrors[m].refs = 0
    BY <1>3
  <2> QED
    BY <2>1, <2>2, FS_EmptySet
<1>13. Started = {} /\ Listed = {} /\ Known = {} /\ Busy = {} /\ Engaged = {}
  <2>1. pre.started = 0
    BY <1>2
  <2>2. Listed = {}
    BY <1>1 DEF Listed, ToSet
  <2> QED
    BY <1>1, <1>10, <2>1, <2>2 DEF Started, Known, Busy, Engaged
<1>14. pre.phase = "start" /\ ~pre.aborted /\ ~pre.missed /\ net.loop = "stopped" /\ ~net.locked
  BY <1>1, <1>2
<1>15. Phases
  BY <1>8, <1>10, <1>13, <1>14 DEF Phases
<1>16. StackOK
  BY <1>1, <1>10, <1>14, NoCalls DEF StackOK, StackCalm
<1>17. ListsOK
  <2>1. OnePlace
    BY <1>1, <1>10, <1>13 DEF OnePlace, IsInjective, ToSet
  <2> QED
    BY <1>13, <1>14, <2>1 DEF ListsOK
<1>18. MultiOK
  BY <1>1 DEF MultiOK, InCurlListed, ToSet
<1>19. JobsOK
  <2>1. pre.required = req /\ \A j \in Job : pre.told[j] = 0
    BY <1>2
  <2>2. ToSet(req) \subseteq Job
    BY <1>5, Members
  <2> HIDE DEF req
  <2> QED
    BY <1>5, <1>13, <2>1, <2>2 DEF JobsOK, JobsTold
<1> QED
  BY <1>11, <1>12, <1>15, <1>16, <1>17, <1>18, <1>19 DEF PreloadInv

LEMMA PreloadInvStep ==
    ASSUME PreloadInv, [PreloadNext]_preVars
    PROVE  PreloadInv'
<1>1. ASSUME DispatchNext, UNCHANGED <<pre, loader, mirrors>>
      PROVE  PreloadInv'
  <2>1. ASSUME NEW d \in Download, ActivityTimeout(d) \/ Completes(d)
        PROVE  PreloadInv'
    BY <1>1, <2>1, ActivityTimeoutKeeps, CompletesKeeps
  <2> QED
    BY <1>1, <2>1, EnqueueKeeps, DequeueStopsKeeps, DequeueFailsKeeps, DequeueStartsKeeps,
       SetFinishedKeeps, CancelAllKeeps, CurlReturnsKeeps, CurlFailsKeeps, ReadInfoKeeps
    DEF DispatchNext
<1>2. CASE NoMoreJobs \/ JobFails \/ JobCached \/ JobStarts
  BY <1>2, NoMoreJobsKeeps, JobFailsKeeps, JobCachedKeeps, JobStartsKeeps
<1>3. CASE FinishedOk \/ FinishedError \/ TaintMirror \/ FinishedAuth \/ FinishedCancelled
  BY <1>3, FinishedOkKeeps, FinishedErrorKeeps, TaintMirrorKeeps, FinishedAuthKeeps,
     FinishedCancelledKeeps
<1>4. CASE StartPreloadWorker \/ RunLoop \/ LoopEnds \/ PreloadReturns
  BY <1>4, StartPreloadWorkerKeeps, RunLoopKeeps, LoopEndsKeeps, PreloadReturnsKeeps
<1>5. ASSUME NEW d \in Download, UserAborts(d)
      PROVE  PreloadInv'
  BY <1>5, UserAbortsKeeps
<1>6. CASE UNCHANGED preVars
  <2>1. net' = net /\ calls' = calls /\ pre' = pre /\ loader' = loader /\ mirrors' = mirrors
    BY <1>6 DEF preVars
  <2>2. /\ InHand' = InHand /\ InHandBusy' = InHandBusy /\ InHandOnly' = InHandOnly /\ CallsOK'
        /\ \A op : Has(op)' <=> Has(op)
    BY <2>1 DEF InHand, InHandBusy, InHandOnly, AtTop, CallsOK, PreloadInv, PTypes, Has
  <2>3. Listed' = Listed /\ Busy' = Busy /\ Known' = Known /\ Engaged' = Engaged
    BY <2>1, <2>2 DEF Listed, Busy, Known, Engaged
  <2>4. net' \in NetType
    BY <2>1, InMeantime
  <2>5. Aborting => Aborting'
    BY <2>1 DEF Aborting
  <2>6. (StackCalm => StackCalm') /\ (InCurlListed => InCurlListed') /\ (OnePlace => OnePlace')
    BY <2>1, <2>2, <2>3 DEF StackCalm, InCurlListed, OnePlace
  <2>7. pre.phase = "loop" \/ ~Has("curl")'
    BY <2>2 DEF PreloadInv, Phases
  <2> QED
    BY <2>1, <2>2, <2>3, <2>4, <2>5, <2>6, <2>7, DispatchKeeps, InMeantime
<1> QED
  BY <1>1, <1>2, <1>3, <1>4, <1>5, <1>6 DEF PreloadNext

LEMMA PreloadInvariant == PreloadSpec => []PreloadInv
<1>1. PreloadInit => PreloadInv
  BY PreloadInvInit
<1>2. PreloadInv /\ [PreloadNext]_preVars => PreloadInv'
  BY PreloadInvStep
<1> QED
  BY <1>1, <1>2, PTL DEF PreloadSpec

\* The queues of the dispatcher, the calls under way and the workers keep their types,
\* however the calls of NetworkRequestDispatcher and PreloadWorker nest.
THEOREM PreloadTypeCorrect == PreloadSpec => []PreloadTypeOK
<1>1. PreloadInv => PreloadTypeOK
  <2> SUFFICES ASSUME PreloadInv PROVE PreloadTypeOK
    OBVIOUS
  <2>1. PTypes /\ net \in NetType /\ pre \in PreType /\ calls \in Seq(Frame)
    BY DEF PreloadInv, PTypes, CallsOK
  <2>2. ASSUME NEW i \in DOMAIN calls
        PROVE  calls[i].op \in {"enqueue", "dequeue", "setFinished", "finished", "cancelAll",
                                "curl", "read", "nextJob", "taint"}
    <3>1. calls[i] \in Frame
      BY <2>1
    <3> QED
      BY <3>1, WorkerFrames, BaseFrames DEF Frame, WorkerOps
  <2>3. NetTypeOK
    BY <2>1, <2>2 DEF NetTypeOK, NetType
  <2>4. \A w \in Download : loader[w] \in LoaderType
    BY <2>1 DEF PTypes
  <2>5. \A m \in RepoMirror : mirrors[m].refs \in Nat /\ mirrors[m].miss \in Nat
    BY <2>1 DEF PTypes
  <2> QED
    BY <2>1, <2>3, <2>4, <2>5 DEF PreloadTypeOK, PreType, LoaderType
<1> QED
  BY <1>1, PreloadInvariant, PTL

\* The users of a mirror are counted: prepareMirror, taintCurrentMirror and the end of
\* a worker leave RepoUrl::refCount at the number of the workers that have the mirror.
THEOREM MirrorUsersCounted == PreloadSpec => []MirrorUsers
<1>1. PreloadInv => MirrorUsers
  BY DEF PreloadInv
<1> QED
  BY <1>1, PreloadInvariant, PTL

\* When the event loop waits, a worker that is not finished has its request among the
\* running ones and its handle in curl, and nobody else has: no connection is lost.
THEOREM NoConnectionLost == PreloadSpec => []WorkerHasTransfer
<1>1. PreloadInv => WorkerHasTransfer
  <2> SUFFICES ASSUME PreloadInv, calls = <<>>, net.loop = "running"
               PROVE  /\ ToSet(net.running) = {w \in 1..pre.started : ~loader[w].finished}
                      /\ net.inMulti = ToSet(net.running)
                      /\ Len(net.running) = Cardinality(net.inMulti) /\ net.pending = <<>>
    BY DEF WorkerHasTransfer
  <2>1. ~pre.aborted
    BY AbortStack, InMeantime
  <2>2. OnePlace /\ InCurlListed /\ InHand = {} /\ \A op : ~Has(op)
    BY <2>1, InMeantime, InHandIs, NoCalls
  <2>3. net.pending = <<>>
    BY <2>2 DEF OnePlace
  <2>4. Engaged = ToSet(net.running) /\ Engaged \subseteq Started
    BY <2>2, <2>3, InMeantime DEF Engaged, Listed, ToSet, Known, Busy
  <2>5. \A w \in Started : loader[w].finished <=> w \notin Engaged
    BY <2>1 DEF PreloadInv, ListsOK, Unabandoned
  <2>6. ToSet(net.running) = {w \in 1..pre.started : ~loader[w].finished}
    BY <2>4, <2>5 DEF Started
  <2>7. net.running \in Seq(Download) /\ IsInjective(net.running)
    BY <2>2, InMeantime DEF NetType, OnePlace
  <2>8. Len(net.running) = Cardinality(ToSet(net.running))
    BY <2>7, DistinctCounted
  <2> QED
    BY <2>2, <2>3, <2>6, <2>8 DEF InCurlListed
<1> QED
  BY <1>1, PreloadInvariant, PTL

\* The preload says that nothing is missing only if every package has a file, and unless
\* the user aborted the last word about each package was said exactly once.
THEOREM PreloadIsTruthful == PreloadSpec => []PreloadTellsTruth
<1>1. PreloadInv => PreloadTellsTruth
  <2> SUFFICES ASSUME PreloadInv, pre.phase = "over"
               PROVE  /\ ~pre.missed => pre.cached = Job
                      /\ ~pre.aborted => \A j \in Job : pre.told[j] = 1
    BY DEF PreloadTellsTruth
  <2>0. pre \in PreType /\ (pre.aborted => pre.missed)
    BY DEF PreloadInv, PTypes, Phases
  <2> SUFFICES ASSUME ~pre.aborted
               PROVE  \A j \in Job : pre.told[j] = 1 /\ (~pre.missed => j \in pre.cached)
    BY <2>0 DEF PreType
  <2>1. pre.required = <<>> /\ \A w \in Started : loader[w].finished
    BY DEF PreloadInv, Phases
  <2>2. \A w \in Started : w \notin Engaged
    BY <2>1 DEF PreloadInv, ListsOK, Unabandoned
  <2>3. Busy \subseteq Started /\ Busy \subseteq Engaged
    <3>1. InHandBusy \subseteq InHand
      BY DEF InHandBusy, InHand, AtTop, WorkerOps
    <3> QED
      BY <3>1, InMeantime DEF Known, Busy, Engaged
  <2>4. Busy = {} /\ ToSet(pre.required) = {}
    BY <2>1, <2>2, <2>3 DEF ToSet
  <2>5. JobsTold
    BY DEF PreloadInv, JobsOK
  <2> QED
    BY <2>4, <2>5 DEF JobsTold
<1> QED
  BY <1>1, PreloadInvariant, PTL
=============================================================================
