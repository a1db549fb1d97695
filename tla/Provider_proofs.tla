---------------------------- MODULE Provider_proofs ----------------------------
(***************************************************************************)
(* Proofs about the provider, for any requests, mirrors, limits, media and   *)
(* every combination of failures.                                           *)
(*                                                                         *)
(* The scheduler: no host gets more requests than it may, what waits is      *)
(* somewhere it can be answered from, and what was deferred has something    *)
(* that wakes the scheduler.                                                *)
(*                                                                         *)
(* Attaching: no medium is attached twice, who waits hears from an item with *)
(* a request, nobody is told twice and the media of the owners stay.         *)
(***************************************************************************)
EXTENDS ProvideSched, ProvideAttach, ListLemmas

-----------------------------------------------------------------------------
(* The inductive invariant.                                                 *)

\* What a worker queue holds, how much that is, and what can be said of each: one
\* that was removed leaves nothing behind, only a dead one keeps requests waiting,
\* and none has more than it may.
HeldBy(w) == ToSet(w.active) \cup ToSet(w.wait)
Load(w)   == Len(w.active) + Len(w.wait)

WorkerOK(w) ==
    /\ w.state = "none" => w = NoWorker
    /\ w.wait # <<>> => w.state = "dead"
    /\ Load(w) <= MaxConnPerHost

SchedTypes ==
    /\ item \in [Request -> {"none", "new", "running", "ended", "gone"}]
    /\ newItems \in Seq(Request) /\ IsInjective(newItems)
    /\ \A r \in ToSet(newItems) : item[r] = "new"
    /\ tried \in [Request -> SUBSET Mirror]
    /\ requests \in Seq(Request) /\ IsInjective(requests)
    /\ \A r \in ToSet(requests) : item[r] = "running"
    /\ queueOf \in [Request -> Mirror \cup {None}]
    /\ workers \in [Mirror -> WorkerType]
    /\ idle \in Seq(Mirror) /\ IsInjective(idle)
    /\ ToSet(idle) \subseteq Existing
    /\ trigger \in BOOLEAN /\ pos \in 0 .. Len(requests) + 1

\* The idle queues are known to the scheduler.
WorkersOK ==
    \A m \in Mirror :
        /\ WorkerOK(workers[m])
        /\ m \in Existing /\ workers[m].active = <<>> => m \in ToSet(idle)

\* A request is to be scheduled or was sent, and its queue has it.
HeldOK ==
    /\ \A m \in Mirror : \A r \in HeldBy(workers[m]) \ {None} :
          item[r] \notin {"none", "new"} /\ r \notin ToSet(requests)
    /\ \A r \in Request : queueOf[r] # None => r \in HeldBy(workers[queueOf[r]])

\* The requests that a run of the scheduler left, and will not come to again.
IsDeferred(k) == IF pos > 0 THEN k < pos ELSE ~trigger

SomeBusy == \E m \in Mirror : HeldBy(workers[m]) # {}

\* Nothing waits unnoticed: a new item has triggered the scheduler, a request was
\* deferred because a queue is busy, or a worker could not be started for it.
Noticed ==
    /\ newItems # <<>> => trigger
    /\ \A k \in DOMAIN requests : IsDeferred(k) /\ tried[requests[k]] = {} => SomeBusy

LimitOK == Cardinality(UnderWay) <= MaxConn

SchedInv == SchedTypes /\ WorkersOK /\ HeldOK /\ Noticed /\ LimitOK

-----------------------------------------------------------------------------
(* The workers.                                                             *)

LEMMA WorkerFields ==
    ASSUME NEW w \in WorkerType
    PROVE  /\ w.state \in {"none", "up", "dead"}
           /\ w.active \in Seq(Request \cup {None}) /\ w.wait \in Seq(Request)
           /\ Len(w.active) \in Nat /\ Len(w.wait) \in Nat
           /\ DOMAIN w.active = 1..Len(w.active)
           /\ Load(w) \in Nat /\ (Load(w) = 0 <=> HeldBy(w) = {})
           /\ w.active = <<>> <=> ToSet(w.active) = {}
           /\ w.wait = <<>> <=> ToSet(w.wait) = {}
           /\ ToSet(w.active) \subseteq Request \cup {None} /\ ToSet(w.wait) \subseteq Request
<1>1. /\ w.state \in {"none", "up", "dead"}
      /\ w.active \in Seq(Request \cup {None}) /\ w.wait \in Seq(Request)
  BY DEF WorkerType
<1>2. /\ Len(w.active) \in Nat /\ Len(w.wait) \in Nat
      /\ DOMAIN w.active = 1..Len(w.active)
      /\ w.active = <<>> <=> Len(w.active) = 0
      /\ w.wait = <<>> <=> Len(w.wait) = 0
      /\ w.active = <<>> <=> ToSet(w.active) = {}
      /\ w.wait = <<>> <=> ToSet(w.wait) = {}
      /\ ToSet(w.active) \subseteq Request \cup {None} /\ ToSet(w.wait) \subseteq Request
  BY <1>1, Members
<1>3. Load(w) \in Nat /\ (Load(w) = 0 <=> Len(w.active) = 0 /\ Len(w.wait) = 0)
  <2> DEFINE a == Len(w.active)  b == Len(w.wait)
  <2>1. a \in Nat /\ b \in Nat
    BY <1>2
  <2>2. a + b \in Nat /\ (a + b = 0 <=> a = 0 /\ b = 0)
    <3> HIDE DEF a, b
    <3> QED
      BY <2>1
  <2> QED
    BY <2>2, Zenon DEF Load
<1>4. HeldBy(w) = {} <=> ToSet(w.active) = {} /\ ToSet(w.wait) = {}
  BY Zenon DEF HeldBy
<1> QED
  BY <1>1, <1>2, <1>3, <1>4, Zenon

\* The connections are finitely many, at least as many as requests under way.
LEMMA ConnectionsCount ==
    ASSUME SchedTypes
    PROVE  /\ Connections \in Nat
           /\ IsFiniteSet(UnderWay) /\ Cardinality(UnderWay) \in Nat
           /\ Cardinality(UnderWay) <= Connections
           /\ Connections > 0 => SomeBusy
<1> DEFINE At(m)  == {m} \X DOMAIN workers[m].active
           All    == {At(m) : m \in Mirror}
           Slots  == UNION All
           Used   == {p \in Slots : workers[p[1]].active[p[2]] \in Request}
           what   == [p \in Used |-> workers[p[1]].active[p[2]]]
<1>1. \A m \in Mirror : IsFiniteSet(At(m))
  <2> TAKE m \in Mirror
  <2>1. /\ Len(workers[m].active) \in Nat
        /\ DOMAIN workers[m].active = 1..Len(workers[m].active)
    BY WorkerFields DEF SchedTypes
  <2>2. IsFiniteSet(1..Len(workers[m].active))
    BY <2>1, FS_Interval
  <2>3. IsFiniteSet({m})
    BY FS_Singleton
  <2> QED
    BY <2>1, <2>2, <2>3, FS_Product
<1>2. IsFiniteSet(All)
  <2> DEFINE f == [m \in Mirror |-> At(m)]
  <2>1. f \in Surjection(Mirror, All)
    <3> HIDE DEF At
    <3> QED
      BY DEF Surjection
  <2> QED
    BY <2>1, MirrorsAreFinite, FS_Surjection
<1>3. IsFiniteSet(Slots)
  BY <1>1, <1>2, FS_UNION
<1>4. \A p \in Slots : p[1] \in Mirror /\ p[2] \in DOMAIN workers[p[1]].active
  OBVIOUS
<1>5. \A m \in Mirror : \A k \in DOMAIN workers[m].active : <<m, k>> \in Slots
  OBVIOUS
<1>6. Connections = Cardinality(Slots) /\ Connections \in Nat
  BY <1>3, FS_CardinalityType DEF Connections
<1> HIDE DEF Slots
<1>7. IsFiniteSet(Used) /\ Cardinality(Used) <= Cardinality(Slots)
  BY <1>3, FS_Subset
<1>8. what \in Surjection(Used, UnderWay)
  <2>1. \A p \in Used : what[p] \in UnderWay
    BY <1>4 DEF UnderWay, ToSet
  <2>2. \A r \in UnderWay : \E p \in Used : what[p] = r
    <3> TAKE r \in UnderWay
    <3>1. PICK m \in Mirror : \E k \in DOMAIN workers[m].active : workers[m].active[k] = r
      BY DEF UnderWay, ToSet
    <3>. PICK k \in DOMAIN workers[m].active : workers[m].active[k] = r
      BY <3>1
    <3>2. <<m, k>> \in Used
      BY <3>1, <1>5 DEF UnderWay
    <3> QED
      BY <3>1, <3>2
  <2> QED
    BY <2>1, <2>2 DEF Surjection
<1>9. IsFiniteSet(UnderWay) /\ Cardinality(UnderWay) <= Cardinality(Used)
  BY <1>7, <1>8, FS_Surjection
<1>10. Cardinality(UnderWay) \in Nat /\ Cardinality(Used) \in Nat
  BY <1>7, <1>9, FS_CardinalityType
<1>11. ASSUME Connections > 0 PROVE SomeBusy
  <2>1. PICK p \in Slots : TRUE
    BY <1>6, <1>11, FS_EmptySet
  <2>2. PICK m \in Mirror : \E k \in DOMAIN workers[m].active : TRUE
    BY <2>1, <1>4
  <2>3. ToSet(workers[m].active) # {}
    BY <2>2 DEF ToSet
  <2> QED
    BY <2>3 DEF SomeBusy, HeldBy
<1> QED
  BY <1>6, <1>7, <1>9, <1>10, <1>11

\* What a worker queue is when it was sent a request more.
LEMMA EnqueuedHolds ==
    ASSUME NEW w \in WorkerType, NEW r \in Request, NEW v, v = Enqueued(w, r)
    PROVE  /\ v \in WorkerType
           /\ HeldBy(v) = HeldBy(w) \cup {r}
           /\ ToSet(v.active) \subseteq ToSet(w.active) \cup {r}
           /\ v.state # "none"
           /\ w.state # "dead" => v.active # <<>>
           /\ w.state = "dead" => v.active = w.active
           /\ WorkerOK(w) /\ Load(w) < MaxConnPerHost => WorkerOK(v)
<1>1. /\ w.active \in Seq(Request \cup {None}) /\ w.wait \in Seq(Request)
      /\ w.state \in {"none", "up", "dead"}
      /\ Len(w.active) \in Nat /\ Len(w.wait) \in Nat
  BY WorkerFields
<1>2. CASE w.state = "dead"
  <2>1. v = [w EXCEPT !.wait = Append(@, r)]
    BY <1>2 DEF Enqueued
  <2>2. v = [state |-> "dead", active |-> w.active, wait |-> Append(w.wait, r)]
    BY <2>1, <1>2 DEF WorkerType
  <2>3. /\ v.wait = Append(w.wait, r) /\ v.active = w.active /\ v.state = "dead"
        /\ v \in WorkerType
    BY <2>2, <1>1 DEF WorkerType
  <2>4. ToSet(v.wait) = ToSet(w.wait) \cup {r} /\ Len(v.wait) = Len(w.wait) + 1
    BY <2>3, <1>1, Appended
  <2>5. HeldBy(v) = HeldBy(w) \cup {r}
    BY <2>3, <2>4, Zenon DEF HeldBy
  <2>6. Load(v) = Load(w) + 1
    <3> DEFINE a == Len(w.active)  b == Len(w.wait)  c == Len(v.active)  d == Len(v.wait)
    <3>1. a \in Nat /\ b \in Nat /\ c = a /\ d = b + 1
      BY <2>3, <2>4, <1>1
    <3>2. c + d = a + b + 1
      <4> HIDE DEF a, b, c, d
      <4> QED
        BY <3>1
    <3> QED
      BY <3>2, Zenon DEF Load
  <2>7. ASSUME Load(w) < MaxConnPerHost PROVE Load(v) <= MaxConnPerHost
    BY <2>6, <2>7, LimitsArePositive, WorkerFields
  <2>8. WorkerOK(w) /\ Load(w) < MaxConnPerHost => WorkerOK(v)
    BY <2>3, <2>7 DEF WorkerOK
  <2> QED
    BY <2>3, <2>5, <2>8, <1>2
<1>3. CASE w.state # "dead"
  <2>1. v = [w EXCEPT !.state = "up", !.active = Append(@, r)]
    BY <1>3 DEF Enqueued
  <2>2. v = [state |-> "up", active |-> Append(w.active, r), wait |-> w.wait]
    BY <2>1 DEF WorkerType
  <2>3. /\ v.active = Append(w.active, r) /\ v.wait = w.wait /\ v.state = "up"
        /\ v \in WorkerType
    BY <2>2, <1>1 DEF WorkerType
  <2>4. r \in Request \cup {None}
    OBVIOUS
  <2>5. ToSet(v.active) = ToSet(w.active) \cup {r} /\ Len(v.active) = Len(w.active) + 1
    BY <2>3, <2>4, <1>1, Appended
  <2>6. HeldBy(v) = HeldBy(w) \cup {r}
    BY <2>3, <2>5, Zenon DEF HeldBy
  <2>7. Load(v) = Load(w) + 1
    <3> DEFINE a == Len(w.active)  b == Len(w.wait)  c == Len(v.active)  d == Len(v.wait)
    <3>1. a \in Nat /\ b \in Nat /\ c = a + 1 /\ d = b
      BY <2>3, <2>5, <1>1
    <3>2. c + d = a + b + 1
      <4> HIDE DEF a, b, c, d
      <4> QED
        BY <3>1
    <3> QED
      BY <3>2, Zenon DEF Load
  <2>8. ASSUME Load(w) < MaxConnPerHost PROVE Load(v) <= MaxConnPerHost
    BY <2>7, <2>8, LimitsArePositive, WorkerFields
  <2>9. WorkerOK(w) /\ Load(w) < MaxConnPerHost => WorkerOK(v)
    BY <2>3, <2>8, <1>3 DEF WorkerOK
  <2>10. v.active # <<>>
    BY <2>5, <2>3, WorkerFields
  <2> QED
    BY <2>3, <2>5, <2>6, <2>9, <2>10, <1>3
<1> QED
  BY <1>2, <1>3

\* One that has not got a request any more that was under way.
Answered(w, r) == [w EXCEPT !.active = RemoveFirst(@, r)]

LEMMA AnsweredHolds ==
    ASSUME NEW w \in WorkerType, NEW r \in Request, NEW v, v = Answered(w, r)
    PROVE  /\ v \in WorkerType /\ v.state = w.state
           /\ HeldBy(v) \subseteq HeldBy(w) /\ HeldBy(w) \ {r} \subseteq HeldBy(v)
           /\ ToSet(v.active) \subseteq ToSet(w.active)
           /\ w.state # "none" /\ WorkerOK(w) => WorkerOK(v)
<1>1. /\ w.active \in Seq(Request \cup {None}) /\ w.wait \in Seq(Request)
      /\ w.state \in {"none", "up", "dead"}
      /\ Len(w.active) \in Nat /\ Len(w.wait) \in Nat
  BY WorkerFields
<1>2. v = [state |-> w.state, active |-> RemoveFirst(w.active, r), wait |-> w.wait]
  BY DEF Answered, WorkerType
<1>3. /\ RemoveFirst(w.active, r) \in Seq(Request \cup {None})
      /\ ToSet(RemoveFirst(w.active, r)) \subseteq ToSet(w.active)
      /\ ToSet(w.active) \ {r} \subseteq ToSet(RemoveFirst(w.active, r))
      /\ Len(RemoveFirst(w.active, r)) \in {Len(w.active), Len(w.active) - 1}
  BY <1>1, FirstRemoved
<1>4. /\ v.active = RemoveFirst(w.active, r) /\ v.wait = w.wait /\ v.state = w.state
      /\ v \in WorkerType
  BY <1>1, <1>2, <1>3 DEF WorkerType
<1>5. HeldBy(v) \subseteq HeldBy(w) /\ HeldBy(w) \ {r} \subseteq HeldBy(v)
  BY <1>3, <1>4, Zenon DEF HeldBy
<1>6. Load(v) <= Load(w)
  <2> DEFINE a == Len(w.active)  b == Len(w.wait)  c == Len(v.active)  d == Len(v.wait)
  <2>1. a \in Nat /\ b \in Nat /\ c \in {a, a - 1} /\ d = b
    BY <1>1, <1>3, <1>4
  <2>2. c + d <= a + b
    <3> HIDE DEF a, b, c, d
    <3> QED
      BY <2>1
  <2> QED
    BY <2>2, Zenon DEF Load
<1>7. ASSUME Load(w) <= MaxConnPerHost PROVE Load(v) <= MaxConnPerHost
  BY <1>4, <1>6, <1>7, LimitsArePositive, WorkerFields
<1>8. w.state # "none" /\ WorkerOK(w) => WorkerOK(v)
  BY <1>4, <1>7 DEF WorkerOK
<1> QED
  BY <1>3, <1>4, <1>5, <1>8

\* The two ways of blanking requests under way, as records.
LEMMA DeadWorker ==
    ASSUME NEW w \in WorkerType, NEW v,
           v = [w EXCEPT !.state = "dead", !.active = [k \in DOMAIN @ |-> None]]
    PROVE  v = [state |-> "dead", active |-> [k \in DOMAIN w.active |-> None], wait |-> w.wait]
<1> DEFINE act == [k \in DOMAIN w.active |-> None]
<1>1. v = [w EXCEPT !.state = "dead", !.active = act]
  OBVIOUS
<1> HIDE DEF act
<1>2. v = [state |-> "dead", active |-> act, wait |-> w.wait]
  BY <1>1 DEF WorkerType
<1> QED
  BY <1>2 DEF act

LEMMA ReleasedWorker ==
    ASSUME NEW w \in WorkerType, NEW r, NEW v,
           v = [w EXCEPT !.wait = RemoveFirst(@, r),
                         !.active = [k \in DOMAIN @ |-> IF @[k] = r THEN None ELSE @[k]]]
    PROVE  v = [state |-> w.state,
                active |-> [k \in DOMAIN w.active |-> IF w.active[k] = r THEN None ELSE w.active[k]],
                wait |-> RemoveFirst(w.wait, r)]
<1> DEFINE act  == [k \in DOMAIN w.active |-> IF w.active[k] = r THEN None ELSE w.active[k]]
           left == RemoveFirst(w.wait, r)
<1>1. v = [w EXCEPT !.wait = left, !.active = act]
  OBVIOUS
<1> HIDE DEF act, left
<1>2. v = [state |-> w.state, active |-> act, wait |-> left]
  BY <1>1 DEF WorkerType
<1> QED
  BY <1>2 DEF act, left

\* One whose requests under way are blanked, all or one, and that does not keep
\* that one waiting.
Blanked(w, state, S, r) ==
    [ state  |-> state,
      active |-> [k \in DOMAIN w.active |-> IF w.active[k] \in S THEN None ELSE w.active[k]],
      wait   |-> RemoveFirst(w.wait, r) ]

KeptOf(w, v, state, S, r) ==
    /\ v \in WorkerType /\ v.state = state
    /\ HeldBy(v) \subseteq HeldBy(w) \cup {None}
    /\ HeldBy(w) \ (S \cup {r}) \subseteq HeldBy(v)
    /\ ToSet(v.active) \subseteq (ToSet(w.active) \ S) \cup {None}
    /\ v.active = <<>> <=> w.active = <<>>
    /\ HeldBy(w) # {} /\ r \notin ToSet(w.wait) => HeldBy(v) # {}
    /\ WorkerOK(w) /\ (w.state = "dead" => state = "dead") => WorkerOK(v)

LEMMA BlankedHolds ==
    ASSUME NEW w \in WorkerType, NEW r, NEW state \in {"up", "dead"}, NEW S,
           NEW v, v = Blanked(w, state, S, r)
    PROVE  KeptOf(w, v, state, S, r)
<1> DEFINE act  == [k \in DOMAIN w.active |-> IF w.active[k] \in S THEN None ELSE w.active[k]]
           wait == RemoveFirst(w.wait, r)
<1>1. /\ w.active \in Seq(Request \cup {None}) /\ w.wait \in Seq(Request)
      /\ Len(w.active) \in Nat /\ Len(w.wait) \in Nat
      /\ DOMAIN w.active = 1..Len(w.active)
      /\ w.wait = <<>> <=> ToSet(w.wait) = {}
  BY WorkerFields
<1>2. /\ act \in Seq(Request \cup {None}) /\ Len(act) = Len(w.active)
      /\ \A k \in 1..Len(w.active) : act[k] = IF w.active[k] \in S THEN None ELSE w.active[k]
      /\ DOMAIN act = 1..Len(w.active)
  BY <1>1
<1>3. /\ wait \in Seq(Request) /\ ToSet(wait) \subseteq ToSet(w.wait)
      /\ ToSet(w.wait) \ {r} \subseteq ToSet(wait)
      /\ r \notin ToSet(w.wait) => wait = w.wait
      /\ Len(wait) \in {Len(w.wait), Len(w.wait) - 1}
  BY <1>1, FirstRemoved
<1>4. /\ v.active = act /\ v.wait = wait /\ v.state = state /\ v \in WorkerType
  BY <1>2, <1>3 DEF Blanked, WorkerType
<1>5. ToSet(act) \subseteq (ToSet(w.active) \ S) \cup {None}
  BY <1>1, <1>2 DEF ToSet
<1>6. ToSet(w.active) \ S \subseteq ToSet(act)
  <2> SUFFICES ASSUME NEW k \in DOMAIN w.active, w.active[k] \notin S
               PROVE  w.active[k] \in ToSet(act)
    BY DEF ToSet
  <2>1. k \in DOMAIN act /\ act[k] = w.active[k]
    BY <1>1, <1>2
  <2> QED
    BY <2>1 DEF ToSet
<1>7. (act = <<>> <=> w.active = <<>>) /\ (ToSet(act) = {} <=> act = <<>>)
      /\ (ToSet(w.active) = {} <=> w.active = <<>>)
  <2>1. (act = <<>> <=> Len(act) = 0) /\ (act = <<>> <=> ToSet(act) = {})
    BY <1>2, Members
  <2>2. (w.active = <<>> <=> Len(w.active) = 0) /\ (w.active = <<>> <=> ToSet(w.active) = {})
    BY <1>1, Members
  <2> QED
    BY <2>1, <2>2, <1>2, Zenon
<1> HIDE DEF act
<1>8. /\ HeldBy(v) \subseteq HeldBy(w) \cup {None}
      /\ HeldBy(w) \ (S \cup {r}) \subseteq HeldBy(v)
  BY <1>3, <1>4, <1>5, <1>6, Zenon DEF HeldBy
<1>9. HeldBy(w) # {} /\ r \notin ToSet(w.wait) => HeldBy(v) # {}
  BY <1>3, <1>4, <1>7, Zenon DEF HeldBy
<1>10. Load(v) <= Load(w)
  <2> DEFINE a == Len(w.active)  b == Len(w.wait)  c == Len(v.active)  d == Len(v.wait)
  <2>1. a \in Nat /\ b \in Nat /\ c = a /\ d \in {b, b - 1}
    BY <1>1, <1>2, <1>3, <1>4
  <2>2. c + d <= a + b
    <3> HIDE DEF a, b, c, d
    <3> QED
      BY <2>1
  <2> QED
    BY <2>2, Zenon DEF Load
<1>11. ASSUME Load(w) <= MaxConnPerHost PROVE Load(v) <= MaxConnPerHost
  BY <1>4, <1>10, <1>11, LimitsArePositive, WorkerFields
<1>12. w.wait = <<>> => wait = <<>>
  BY <1>1, <1>3
<1>13. WorkerOK(w) /\ (w.state = "dead" => state = "dead") => WorkerOK(v)
  BY <1>4, <1>11, <1>12 DEF WorkerOK
<1> QED
  BY <1>4, <1>5, <1>7, <1>8, <1>9, <1>13 DEF KeptOf

-----------------------------------------------------------------------------
(* The steps.                                                               *)

LEMMA RequestsFinite == SchedTypes => IsFiniteSet(UnderWay)
  BY ConnectionsCount

\* The limit of all connections holds as long as no request is sent.
LEMMA NothingSent ==
    ASSUME SchedTypes, LimitOK, UnderWay' \subseteq UnderWay
    PROVE  LimitOK'
<1>1. /\ IsFiniteSet(UnderWay) /\ Cardinality(UnderWay) \in Nat
  BY ConnectionsCount
<1>2. IsFiniteSet(UnderWay') /\ Cardinality(UnderWay') <= Cardinality(UnderWay)
  BY <1>1, FS_Subset
<1>3. Cardinality(UnderWay') \in Nat
  BY <1>2, FS_CardinalityType
<1> QED
  BY <1>1, <1>2, <1>3, LimitsArePositive DEF LimitOK

\* Nor is it exceeded when the current one is sent.
LEMMA OneSent ==
    ASSUME SchedTypes, LimitOK, Connections < MaxConn, NEW r,
           UnderWay' \subseteq UnderWay \cup {r}
    PROVE  LimitOK'
<1>1. /\ IsFiniteSet(UnderWay) /\ Cardinality(UnderWay) \in Nat
      /\ Connections \in Nat /\ Cardinality(UnderWay) <= Connections
  BY ConnectionsCount
<1>2. /\ IsFiniteSet(UnderWay \cup {r})
      /\ Cardinality(UnderWay \cup {r}) \in {Cardinality(UnderWay), Cardinality(UnderWay) + 1}
  BY <1>1, FS_AddElement
<1>3. /\ IsFiniteSet(UnderWay') /\ Cardinality(UnderWay') <= Cardinality(UnderWay \cup {r})
      /\ Cardinality(UnderWay') \in Nat
  BY <1>2, FS_Subset, FS_CardinalityType
<1> QED
  BY <1>1, <1>2, <1>3, LimitsArePositive DEF LimitOK

LEMMA InitHolds == SchedInit => SchedInv
<1> SUFFICES ASSUME SchedInit PROVE SchedInv
  OBVIOUS
<1> USE DEF SchedInit
<1>1. /\ <<>> \in Seq(Request) /\ <<>> \in Seq(Mirror) /\ <<>> \in Seq(Request \cup {None})
      /\ IsInjective(<<>>) /\ ToSet(<<>>) = {} /\ Len(<<>>) = 0
  BY DEF IsInjective, ToSet
<1>2. NoWorker \in WorkerType /\ NoWorker.state = "none"
      /\ NoWorker.active = <<>> /\ NoWorker.wait = <<>>
  BY <1>1 DEF NoWorker, WorkerType
<1>3. HeldBy(NoWorker) = {} /\ Load(NoWorker) = 0
  <2>1. HeldBy(NoWorker) = {}
    BY <1>1, <1>2, Zenon DEF HeldBy
  <2> QED
    BY <2>1, <1>2, WorkerFields
<1>4. \A m \in Mirror : workers[m] = NoWorker
  OBVIOUS
<1>5. SchedTypes
  <2>1. Existing = {} /\ ToSet(idle) = {} /\ ToSet(requests) = {} /\ ToSet(newItems) = {}
    BY <1>1, <1>2 DEF Existing
  <2>2. pos \in 0..Len(requests) + 1
    BY <1>1
  <2>3. /\ item \in [Request -> {"none", "new", "running", "ended", "gone"}]
        /\ tried \in [Request -> SUBSET Mirror]
        /\ queueOf \in [Request -> Mirror \cup {None}]
        /\ workers \in [Mirror -> WorkerType]
    BY <1>2
  <2>4. newItems \in Seq(Request) /\ requests \in Seq(Request) /\ idle \in Seq(Mirror)
        /\ IsInjective(newItems) /\ IsInjective(requests) /\ IsInjective(idle)
    BY <1>1
  <2>5. trigger \in BOOLEAN
    OBVIOUS
  <2> QED
    BY <2>1, <2>2, <2>3, <2>4, <2>5, Zenon DEF SchedTypes
<1>6. WorkersOK
  <2>1. WorkerOK(NoWorker)
    BY <1>2, <1>3, LimitsArePositive DEF WorkerOK
  <2> QED
    BY <2>1, <1>2 DEF WorkersOK, Existing
<1>7. HeldOK
  BY <1>3 DEF HeldOK
<1>8. Noticed
  BY DEF Noticed
<1>9. UnderWay = {}
  BY <1>1, <1>2 DEF UnderWay
<1>10. LimitOK
  BY <1>9, FS_EmptySet, LimitsArePositive DEF LimitOK
<1> QED
  BY <1>5, <1>6, <1>7, <1>8, <1>10 DEF SchedInv

LEMMA ProvideFileHolds ==
    ASSUME SchedInv, NEW r \in Request, ProvideFile(r)
    PROVE  SchedInv'
<1> USE DEF SchedInv, ProvideFile
<1>1. /\ newItems' \in Seq(Request) /\ ToSet(newItems') = ToSet(newItems) \cup {r}
      /\ IsInjective(newItems')
  <2>1. r \notin ToSet(newItems)
    BY DEF SchedTypes
  <2> QED
    BY <2>1, Appended DEF SchedTypes
<1>2. SchedTypes'
  <2>1. item' \in [Request -> {"none", "new", "running", "ended", "gone"}]
    BY DEF SchedTypes
  <2>2. \A s \in ToSet(newItems') : item'[s] = "new"
    BY <1>1, Members DEF SchedTypes
  <2>3. \A s \in ToSet(requests) : item'[s] = "running"
    BY Members DEF SchedTypes
  <2> QED
    BY <1>1, <2>1, <2>2, <2>3 DEF SchedTypes, Existing
<1>3. WorkersOK'
  BY DEF WorkersOK, Existing
<1>4. HeldOK'
  <2>1. ASSUME NEW m \in Mirror, NEW s \in HeldBy(workers[m]) \ {None}
        PROVE  item'[s] \notin {"none", "new"} /\ s \notin ToSet(requests)
    <3>1. s \in Request
      BY WorkerFields DEF SchedTypes, HeldBy
    <3> QED
      BY <3>1 DEF HeldOK, SchedTypes
  <2> QED
    BY <2>1 DEF HeldOK
<1>5. Noticed'
  BY DEF Noticed, IsDeferred, SomeBusy, SchedTypes
<1>6. LimitOK'
  BY DEF LimitOK, UnderWay
<1> QED
  BY <1>2, <1>3, <1>4, <1>5, <1>6

LEMMA AnswerHolds ==
    ASSUME SchedInv, NEW m \in Mirror, NEW r \in Request, Answer(m, r)
    PROVE  SchedInv'
<1> USE DEF SchedInv
<1> DEFINE v == [workers[m] EXCEPT !.active = RemoveFirst(@, r)]
<1>1. /\ pos = 0 /\ workers[m].state = "up" /\ r \in ToSet(workers[m].active)
      /\ queueOf[r] = m
      /\ workers' = [workers EXCEPT ![m] = v]
      /\ idle' = IF v.active = <<>> THEN Append(RemoveFirst(idle, m), m) ELSE idle
      /\ queueOf' = [queueOf EXCEPT ![r] = None]
      /\ trigger' = TRUE
      /\ UNCHANGED <<newItems, tried, requests, pos>>
      /\ workers[m] \in WorkerType
  <2>1. workers' = [workers EXCEPT ![m] = v]
    BY DEF Answer, Dequeue
  <2>2. workers'[m] = v
    BY <2>1 DEF SchedTypes
  <2> QED
    BY <2>1, <2>2 DEF Answer, Dequeue, SchedTypes
<1>2. /\ item' = item \/ item' = [item EXCEPT ![r] = IF @ = "running" THEN "ended" ELSE @]
  BY DEF Answer, End, Recover
<1>3. /\ v \in WorkerType /\ v.state = "up"
      /\ HeldBy(v) \subseteq HeldBy(workers[m]) /\ HeldBy(workers[m]) \ {r} \subseteq HeldBy(v)
      /\ ToSet(v.active) \subseteq ToSet(workers[m].active)
      /\ WorkerOK(v)
  <2>1. WorkerOK(workers[m])
    BY DEF WorkersOK
  <2>3. v = Answered(workers[m], r)
    BY DEF Answered
  <2> HIDE DEF v
  <2>2. /\ v \in WorkerType /\ v.state = workers[m].state
        /\ HeldBy(v) \subseteq HeldBy(workers[m]) /\ HeldBy(workers[m]) \ {r} \subseteq HeldBy(v)
        /\ ToSet(v.active) \subseteq ToSet(workers[m].active)
        /\ workers[m].state # "none" /\ WorkerOK(workers[m]) => WorkerOK(v)
    <3>1. workers[m] \in WorkerType
      BY <1>1
    <3> QED
      BY <2>3, <3>1, AnsweredHolds
  <2> QED
    BY <2>1, <2>2, <1>1, Zenon
<1>4. workers'[m] = v /\ \A n \in Mirror \ {m} : workers'[n] = workers[n]
  BY <1>1 DEF SchedTypes
<1> HIDE DEF v
<1>5. r # None /\ r \in HeldBy(workers[m]) /\ r \notin ToSet(requests)
      /\ item[r] \notin {"none", "new"}
  BY <1>1, NoneIsNone DEF HeldOK, HeldBy
<1>6. Existing' = Existing
  BY <1>1, <1>3, <1>4 DEF Existing
<1>7. /\ idle' \in Seq(Mirror) /\ IsInjective(idle') /\ ToSet(idle') \subseteq Existing'
      /\ ToSet(idle) \ {m} \subseteq ToSet(idle')
      /\ v.active = <<>> => m \in ToSet(idle')
  <2> DEFINE t == RemoveFirst(idle, m)
  <2>1. t \in Seq(Mirror) /\ IsInjective(t) /\ ToSet(t) = ToSet(idle) \ {m}
    BY FirstRemoved DEF SchedTypes
  <2>2. /\ Append(t, m) \in Seq(Mirror) /\ ToSet(Append(t, m)) = ToSet(t) \cup {m}
        /\ IsInjective(Append(t, m))
    <3> HIDE DEF t
    <3> QED
      BY <2>1, Appended
  <2>3. m \in Existing
    BY <1>1 DEF Existing
  <2>4. CASE v.active = <<>>
    BY <2>1, <2>2, <2>3, <2>4, <1>1, <1>6 DEF SchedTypes
  <2>5. CASE v.active # <<>>
    BY <2>5, <1>1, <1>6 DEF SchedTypes
  <2> QED
    BY <2>4, <2>5
<1>8. SchedTypes'
  <2>1. item' \in [Request -> {"none", "new", "running", "ended", "gone"}]
    BY <1>2 DEF SchedTypes
  <2>2. \A s \in ToSet(newItems) : item'[s] = "new"
    BY <1>2, <1>5, Members DEF SchedTypes
  <2>3. \A s \in ToSet(requests) : item'[s] = "running"
    BY <1>2, <1>5, Members DEF SchedTypes
  <2>4. workers' \in [Mirror -> WorkerType] /\ queueOf' \in [Request -> Mirror \cup {None}]
    BY <1>1, <1>3 DEF SchedTypes
  <2> QED
    BY <1>1, <1>7, <2>1, <2>2, <2>3, <2>4 DEF SchedTypes
<1>9. WorkersOK'
  <2> SUFFICES ASSUME NEW n \in Mirror
               PROVE  /\ WorkerOK(workers'[n])
                      /\ n \in Existing' /\ workers'[n].active = <<>> => n \in ToSet(idle')
    BY DEF WorkersOK
  <2>1. CASE n = m
    BY <2>1, <1>3, <1>4, <1>7
  <2>2. CASE n # m
    BY <2>2, <1>4, <1>6, <1>7 DEF WorkersOK
  <2> QED
    BY <2>1, <2>2
<1>10. HeldOK'
  <2>1. ASSUME NEW n \in Mirror, NEW s \in HeldBy(workers'[n]) \ {None}
        PROVE  item'[s] \notin {"none", "new"} /\ s \notin ToSet(requests')
    <3>1. s \in HeldBy(workers[n])
      BY <1>3, <1>4
    <3>2. s \in Request
      BY <3>1, WorkerFields DEF SchedTypes, HeldBy
    <3> QED
      BY <3>1, <3>2, <1>1, <1>2 DEF HeldOK, SchedTypes
  <2>2. ASSUME NEW s \in Request, queueOf'[s] # None
        PROVE  s \in HeldBy(workers'[queueOf'[s]])
    <3>1. s # r /\ queueOf'[s] = queueOf[s]
      BY <2>2, <1>1 DEF SchedTypes
    <3>2. s \in HeldBy(workers[queueOf[s]]) /\ queueOf[s] \in Mirror
      BY <3>1, <2>2 DEF HeldOK, SchedTypes
    <3>3. CASE queueOf[s] = m
      BY <3>1, <3>2, <3>3, <1>3, <1>4
    <3>4. CASE queueOf[s] # m
      BY <3>1, <3>2, <3>4, <1>4
    <3> QED
      BY <3>3, <3>4
  <2> QED
    BY <2>1, <2>2 DEF HeldOK
<1>11. Noticed'
  BY <1>1 DEF Noticed, IsDeferred
<1>12. LimitOK'
  <2>1. UnderWay' \subseteq UnderWay
    BY <1>3, <1>4 DEF UnderWay
  <2> QED
    BY <2>1, NothingSent
<1> QED
  BY <1>8, <1>9, <1>10, <1>11, <1>12

LEMMA DieHolds ==
    ASSUME SchedInv, NEW m \in Mirror, Die(m)
    PROVE  SchedInv'
<1> USE DEF SchedInv
<1> DEFINE told == ToSet(workers[m].active)
           act  == workers[m].active
           v    == [workers[m] EXCEPT !.state = "dead", !.active = [k \in DOMAIN @ |-> None]]
<1>1. /\ pos = 0 /\ workers[m].state = "up" /\ workers[m] \in WorkerType
      /\ item' = [r \in Request |-> IF r \in told /\ item[r] = "running"
                                    THEN "ended" ELSE item[r]]
      /\ queueOf' = [r \in Request |-> IF r \in told THEN None ELSE queueOf[r]]
      /\ workers' = [workers EXCEPT ![m] = v]
      /\ UNCHANGED <<newItems, tried, requests, idle, trigger, pos>>
  BY DEF Die, SchedTypes
<1>2. /\ v \in WorkerType /\ v.state = "dead"
      /\ HeldBy(v) \subseteq {None}
      /\ v.active = <<>> <=> workers[m].active = <<>>
      /\ HeldBy(workers[m]) # {} => HeldBy(v) # {}
      /\ HeldBy(workers[m]) = told
      /\ WorkerOK(v)
  <2> DEFINE S == Request \cup {None}
  <2>1. /\ workers[m].wait = <<>> /\ WorkerOK(workers[m])
    BY <1>1 DEF WorkersOK, WorkerOK
  <2>2. v = [state |-> "dead", active |-> [k \in DOMAIN act |-> None], wait |-> workers[m].wait]
    <3>1. v = [workers[m] EXCEPT !.state = "dead", !.active = [k \in DOMAIN @ |-> None]]
      OBVIOUS
    <3> HIDE DEF v
    <3> QED
      BY <1>1, <3>1, DeadWorker
  <2>3. [k \in DOMAIN act |-> None] = [k \in DOMAIN act |-> IF act[k] \in S THEN None ELSE act[k]]
    <3>1. \A k \in DOMAIN act : act[k] \in S
      BY <1>1 DEF WorkerType
    <3> QED
      BY <3>1
  <2>4. ToSet(workers[m].wait) = {}
    BY <2>1 DEF ToSet
  <2>5. /\ v \in WorkerType /\ v.state = "dead"
        /\ ToSet(v.active) \subseteq (told \ S) \cup {None}
        /\ v.active = <<>> <=> workers[m].active = <<>>
        /\ HeldBy(workers[m]) # {} /\ None \notin ToSet(workers[m].wait) => HeldBy(v) # {}
        /\ WorkerOK(workers[m]) => WorkerOK(v)
    <3>1. v = Blanked(workers[m], "dead", S, None)
      <4>1. RemoveFirst(workers[m].wait, None) = workers[m].wait
        BY <1>1, <2>4, FirstRemoved, WorkerFields
      <4> QED
        BY <2>2, <2>3, <4>1, Zenon DEF Blanked
    <3> DEFINE w == workers[m]
    <3>2. w \in WorkerType /\ v = Blanked(w, "dead", S, None) /\ told = ToSet(w.active)
      BY <1>1, <3>1
    <3> HIDE DEF S, v, act, w
    <3>3. KeptOf(w, v, "dead", S, None)
      BY <3>2, BlankedHolds
    <3> QED
      BY <3>2, <3>3 DEF w, KeptOf
  <2>6. v.wait = <<>>
    BY <2>1, <2>2
  <2>7. HeldBy(v) \subseteq {None}
    <3>1. told \subseteq S
      BY <1>1, WorkerFields
    <3>2. ToSet(v.wait) = {}
      BY <2>6 DEF ToSet
    <3> HIDE DEF v
    <3> QED
      BY <2>5, <3>1, <3>2, Zenon DEF HeldBy
  <2>8. HeldBy(workers[m]) = told
    BY <2>4, Zenon DEF HeldBy
  <2> HIDE DEF v
  <2> QED
    BY <2>1, <2>4, <2>5, <2>7, <2>8, Zenon
<1>3. workers'[m] = v /\ \A n \in Mirror \ {m} : workers'[n] = workers[n]
  BY <1>1 DEF SchedTypes
<1> HIDE DEF v
<1>4. Existing' = Existing
  BY <1>1, <1>2, <1>3 DEF Existing
<1>5. \A s \in told \cap Request : s \notin ToSet(requests) /\ item[s] \notin {"none", "new"}
  BY <1>2, NoneIsNone DEF HeldOK
<1>6. SchedTypes'
  <2>1. item' \in [Request -> {"none", "new", "running", "ended", "gone"}]
    BY <1>1 DEF SchedTypes
  <2>2. \A s \in ToSet(newItems) : item'[s] = "new"
    BY <1>1, <1>5, Members DEF SchedTypes
  <2>3. \A s \in ToSet(requests) : item'[s] = "running"
    BY <1>1, <1>5, Members DEF SchedTypes
  <2>4. workers' \in [Mirror -> WorkerType] /\ queueOf' \in [Request -> Mirror \cup {None}]
    BY <1>1, <1>2 DEF SchedTypes
  <2> QED
    BY <1>1, <1>4, <2>1, <2>2, <2>3, <2>4 DEF SchedTypes
<1>7. WorkersOK'
  <2> SUFFICES ASSUME NEW n \in Mirror
               PROVE  /\ WorkerOK(workers'[n])
                      /\ n \in Existing' /\ workers'[n].active = <<>> => n \in ToSet(idle')
    BY DEF WorkersOK
  <2>1. CASE n = m
    BY <2>1, <1>1, <1>2, <1>3, <1>4 DEF WorkersOK
  <2>2. CASE n # m
    BY <2>2, <1>1, <1>3, <1>4 DEF WorkersOK
  <2> QED
    BY <2>1, <2>2
<1>8. HeldOK'
  <2>1. ASSUME NEW n \in Mirror, NEW s \in HeldBy(workers'[n]) \ {None}
        PROVE  item'[s] \notin {"none", "new"} /\ s \notin ToSet(requests')
    <3>1. s \in HeldBy(workers[n])
      BY <1>2, <1>3
    <3>2. s \in Request
      BY <3>1, WorkerFields DEF SchedTypes, HeldBy
    <3> QED
      BY <3>1, <3>2, <1>1 DEF HeldOK, SchedTypes
  <2>2. ASSUME NEW s \in Request, queueOf'[s] # None
        PROVE  s \in HeldBy(workers'[queueOf'[s]])
    <3>1. s \notin told /\ queueOf'[s] = queueOf[s]
      BY <2>2, <1>1 DEF SchedTypes
    <3>2. s \in HeldBy(workers[queueOf[s]]) /\ queueOf[s] \in Mirror
      BY <3>1, <2>2 DEF HeldOK, SchedTypes
    <3>3. queueOf[s] # m
      BY <3>1, <3>2, <1>2
    <3> QED
      BY <3>1, <3>2, <3>3, <1>3
  <2> QED
    BY <2>1, <2>2 DEF HeldOK
<1>9. Noticed'
  <2>1. SomeBusy => SomeBusy'
    BY <1>2, <1>3 DEF SomeBusy
  <2> QED
    BY <2>1, <1>1 DEF Noticed, IsDeferred
<1>10. LimitOK'
  <2>1. UnderWay' \subseteq UnderWay
    <3>1. ToSet(v.active) \subseteq {None}
      BY <1>2 DEF HeldBy
    <3> QED
      BY <3>1, <1>3, NoneIsNone DEF UnderWay
  <2> QED
    BY <2>1, NothingSent
<1> QED
  BY <1>6, <1>7, <1>8, <1>9, <1>10

LEMMA ReleaseFileHolds ==
    ASSUME SchedInv, NEW r \in Request, ReleaseFile(r)
    PROVE  SchedInv'
<1> USE DEF SchedInv
<1> DEFINE m == queueOf[r]
           w == workers[m]
<1>1. /\ pos = 0 /\ item[r] \in {"new", "running"}
      /\ item' = [item EXCEPT ![r] = "gone"]
      /\ newItems' = RemoveFirst(newItems, r)
      /\ queueOf' = [queueOf EXCEPT ![r] = None]
      /\ UNCHANGED <<tried, idle, pos>>
  BY DEF ReleaseFile
<1>2. /\ newItems' \in Seq(Request) /\ IsInjective(newItems')
      /\ ToSet(newItems') = ToSet(newItems) \ {r}
  BY <1>1, FirstRemoved DEF SchedTypes
<1>3. newItems' # <<>> => trigger
  <2>1. newItems = <<>> => ToSet(newItems') = {}
    BY <1>2 DEF ToSet
  <2> QED
    BY <2>1, <1>2, Members DEF Noticed
\* What the scheduler has to do, and the item, whatever the queue.
<1>4. /\ requests' \in Seq(Request) /\ IsInjective(requests')
      /\ ToSet(requests') = ToSet(requests) \ {r}
  <2>1. CASE m = None
    BY <2>1, FirstRemoved DEF ReleaseFile, SchedTypes
  <2>2. CASE m # None
    <3>1. r \in HeldBy(w) \ {None} /\ m \in Mirror
      BY <2>2, NoneIsNone DEF HeldOK, SchedTypes
    <3>2. r \notin ToSet(requests)
      BY <3>1 DEF HeldOK
    <3>3. requests' = requests
      BY <2>2 DEF ReleaseFile
    <3> QED
      BY <3>2, <3>3 DEF SchedTypes
  <2> QED
    BY <2>1, <2>2
<1>5. /\ \A s \in ToSet(newItems') : item'[s] = "new"
      /\ \A s \in ToSet(requests') : item'[s] = "running"
      /\ item' \in [Request -> {"none", "new", "running", "ended", "gone"}]
      /\ queueOf' \in [Request -> Mirror \cup {None}]
  BY <1>1, <1>2, <1>4, Members DEF SchedTypes
\* What the queue keeps of it.
<1>6. /\ \A n \in Mirror \ {m} : workers'[n] = workers[n]
      /\ workers' \in [Mirror -> WorkerType]
      /\ m \in Mirror => /\ KeptOf(w, workers'[m], w.state, {r}, r)
                         /\ w.state \in {"up", "dead"}
                         /\ r \in ToSet(w.wait) => trigger'
      /\ trigger' \in BOOLEAN /\ (trigger => trigger')
  <2>1. CASE m = None
    BY <2>1, NoneIsNone DEF ReleaseFile, SchedTypes
  <2>2. CASE m # None
    <3> DEFINE v == [w EXCEPT !.wait = RemoveFirst(@, r),
                              !.active = [k \in DOMAIN @ |-> IF @[k] = r THEN None ELSE @[k]]]
    <3>1. r \in HeldBy(w) /\ m \in Mirror /\ w \in WorkerType
      BY <2>2, NoneIsNone DEF HeldOK, SchedTypes
    <3>2. w.state \in {"up", "dead"}
      <4>1. HeldBy(NoWorker) = {}
        BY DEF HeldBy, NoWorker, ToSet
      <4>2. w.state = "none" => w = NoWorker
        BY <3>1 DEF WorkersOK, WorkerOK
      <4> QED
        BY <3>1, <4>1, <4>2, WorkerFields
    <3>3. /\ workers' = [workers EXCEPT ![m] = v]
          /\ trigger' = (trigger \/ r \in ToSet(w.wait))
      BY <2>2 DEF ReleaseFile
    <3>4. workers'[m] = v /\ \A n \in Mirror \ {m} : workers'[n] = workers[n]
      BY <3>1, <3>3 DEF SchedTypes
    <3>5. v = Blanked(w, w.state, {r}, r)
      <4>1. v = [w EXCEPT !.wait = RemoveFirst(@, r),
                          !.active = [k \in DOMAIN @ |-> IF @[k] = r THEN None ELSE @[k]]]
        OBVIOUS
      <4> HIDE DEF v
      <4>2. v = [state |-> w.state,
                 active |-> [k \in DOMAIN w.active |-> IF w.active[k] = r THEN None ELSE w.active[k]],
                 wait |-> RemoveFirst(w.wait, r)]
        BY <3>1, <4>1, ReleasedWorker
      <4>3. [k \in DOMAIN w.active |-> IF w.active[k] = r THEN None ELSE w.active[k]]
              = [k \in DOMAIN w.active |-> IF w.active[k] \in {r} THEN None ELSE w.active[k]]
        OBVIOUS
      <4> QED
        BY <4>2, <4>3, Zenon DEF Blanked
    <3> HIDE DEF v
    <3>6. KeptOf(w, v, w.state, {r}, r)
      BY <3>1, <3>2, <3>5, BlankedHolds
    <3>7. v \in WorkerType
      BY <3>6 DEF KeptOf
    <3> QED
      BY <3>1, <3>2, <3>3, <3>4, <3>6, <3>7 DEF SchedTypes
  <2> QED
    BY <2>1, <2>2
<1> HIDE DEF w
<1>7. /\ m \in Mirror => /\ workers'[m].state = w.state
                         /\ HeldBy(workers'[m]) \subseteq HeldBy(w) \cup {None}
                         /\ HeldBy(w) \ {r} \subseteq HeldBy(workers'[m])
                         /\ ToSet(workers'[m].active) \subseteq ToSet(w.active) \cup {None}
                         /\ workers'[m].active = <<>> <=> w.active = <<>>
                         /\ HeldBy(w) # {} /\ r \notin ToSet(w.wait) => HeldBy(workers'[m]) # {}
                         /\ WorkerOK(w) => WorkerOK(workers'[m])
  BY <1>6 DEF KeptOf
<1>8. Existing' = Existing
  BY <1>6, <1>7 DEF Existing, w
<1>9. SchedTypes'
  BY <1>1, <1>2, <1>4, <1>5, <1>6, <1>8 DEF SchedTypes
<1>10. WorkersOK'
  <2> SUFFICES ASSUME NEW n \in Mirror
               PROVE  /\ WorkerOK(workers'[n])
                      /\ n \in Existing' /\ workers'[n].active = <<>> => n \in ToSet(idle')
    BY DEF WorkersOK
  <2>1. CASE n = m
    BY <2>1, <1>1, <1>7, <1>8 DEF WorkersOK, w
  <2>2. CASE n # m
    BY <2>2, <1>1, <1>6, <1>8 DEF WorkersOK
  <2> QED
    BY <2>1, <2>2
<1>11. HeldOK'
  <2>1. ASSUME NEW n \in Mirror, NEW s \in HeldBy(workers'[n]) \ {None}
        PROVE  item'[s] \notin {"none", "new"} /\ s \notin ToSet(requests')
    <3>1. s \in HeldBy(workers[n])
      BY <1>6, <1>7 DEF w
    <3>2. s \in Request
      BY <3>1, WorkerFields DEF SchedTypes, HeldBy
    <3> QED
      BY <3>1, <3>2, <1>1, <1>4 DEF HeldOK, SchedTypes
  <2>2. ASSUME NEW s \in Request, queueOf'[s] # None
        PROVE  s \in HeldBy(workers'[queueOf'[s]])
    <3>1. s # r /\ queueOf'[s] = queueOf[s]
      BY <2>2, <1>1 DEF SchedTypes
    <3>2. s \in HeldBy(workers[queueOf[s]]) /\ queueOf[s] \in Mirror
      BY <3>1, <2>2 DEF HeldOK, SchedTypes
    <3>3. CASE queueOf[s] = m
      BY <3>1, <3>2, <3>3, <1>7 DEF w
    <3>4. CASE queueOf[s] # m
      BY <3>1, <3>2, <3>4, <1>6
    <3> QED
      BY <3>3, <3>4
  <2> QED
    BY <2>1, <2>2 DEF HeldOK
<1>12. Noticed'
  <2>1. SomeBusy /\ ~trigger' => SomeBusy'
    BY <1>6, <1>7 DEF SomeBusy, w
  <2>2. ASSUME NEW k \in DOMAIN requests', IsDeferred(k)', tried'[requests'[k]] = {}
        PROVE  SomeBusy'
    <3>1. ~trigger' /\ ~trigger
      BY <2>2, <1>1, <1>6 DEF IsDeferred
    <3>2. requests'[k] \in ToSet(requests)
      BY <2>2, <1>4 DEF ToSet
    <3>3. PICK i \in DOMAIN requests : requests[i] = requests'[k]
      BY <3>2 DEF ToSet
    <3>4. SomeBusy
      BY <3>1, <3>3, <2>2, <1>1 DEF Noticed, IsDeferred
    <3> QED
      BY <3>1, <3>4, <2>1
  <2> QED
    BY <2>2, <1>3, <1>6 DEF Noticed
<1>13. LimitOK'
  <2>1. UnderWay' \subseteq UnderWay
    BY <1>6, <1>7, NoneIsNone DEF UnderWay, w
  <2> QED
    BY <2>1, NothingSent
<1> QED
  BY <1>9, <1>10, <1>11, <1>12, <1>13

LEMMA BeginScheduleHolds ==
    ASSUME SchedInv, BeginSchedule
    PROVE  SchedInv'
<1> USE DEF SchedInv
<1>1. /\ trigger' = FALSE /\ pos' = 1 /\ newItems' = <<>>
      /\ item' = [r \in Request |-> IF r \in ToSet(newItems) THEN "running" ELSE item[r]]
      /\ requests' = requests \o newItems
      /\ UNCHANGED <<tried, queueOf, workers, idle>>
  BY DEF BeginSchedule
<1>2. ToSet(newItems') = {} /\ newItems' \in Seq(Request) /\ IsInjective(newItems')
  BY <1>1 DEF ToSet, IsInjective
<1>3. /\ requests' \in Seq(Request) /\ IsInjective(requests')
      /\ ToSet(requests') = ToSet(requests) \cup ToSet(newItems)
      /\ Len(requests') \in Nat
  <2>1. ToSet(requests) \cap ToSet(newItems) = {}
    BY DEF SchedTypes
  <2>2. requests' \in Seq(Request) /\ IsInjective(requests')
        /\ ToSet(requests') = ToSet(requests) \cup ToSet(newItems)
    BY <1>1, <2>1, Joined DEF SchedTypes
  <2> QED
    BY <2>2
<1>4. SchedTypes'
  <2>1. item' \in [Request -> {"none", "new", "running", "ended", "gone"}]
    BY <1>1 DEF SchedTypes
  <2>2. \A s \in ToSet(requests') : item'[s] = "running"
    BY <1>1, <1>3, Members DEF SchedTypes
  <2>3. pos' \in 0..Len(requests') + 1
    BY <1>1, <1>3
  <2>4. Existing' = Existing
    BY <1>1 DEF Existing
  <2> QED
    BY <1>1, <1>2, <1>3, <2>1, <2>2, <2>3, <2>4 DEF SchedTypes
<1>5. WorkersOK'
  BY <1>1 DEF WorkersOK, Existing
<1>6. HeldOK'
  <2>1. ASSUME NEW n \in Mirror, NEW s \in HeldBy(workers[n]) \ {None}
        PROVE  item'[s] \notin {"none", "new"} /\ s \notin ToSet(requests')
    <3>1. s \in Request
      BY WorkerFields DEF SchedTypes, HeldBy
    <3>2. s \notin ToSet(newItems)
      BY DEF HeldOK, SchedTypes
    <3> QED
      BY <3>1, <3>2, <1>1, <1>3 DEF HeldOK
  <2> QED
    BY <2>1, <1>1 DEF HeldOK
<1>7. Noticed'
  BY <1>1, <1>3 DEF Noticed, IsDeferred
<1>8. LimitOK'
  BY <1>1 DEF LimitOK, UnderWay
<1> QED
  BY <1>4, <1>5, <1>6, <1>7, <1>8

LEMMA EndScheduleHolds ==
    ASSUME SchedInv, EndSchedule
    PROVE  SchedInv'
<1> USE DEF SchedInv
<1>1. /\ pos > Len(requests) /\ pos' = 0
      /\ UNCHANGED <<item, newItems, tried, requests, queueOf, workers, idle, trigger>>
      /\ Len(requests) \in Nat /\ DOMAIN requests = 1..Len(requests) /\ pos \in Nat
  BY DEF EndSchedule, SchedTypes
<1>2. SchedTypes'
  BY <1>1 DEF SchedTypes, Existing
<1>3. WorkersOK' /\ HeldOK'
  BY <1>1 DEF WorkersOK, HeldOK, Existing
<1>4. Noticed'
  <2>1. \A k \in DOMAIN requests : IsDeferred(k)
    BY <1>1 DEF IsDeferred
  <2> QED
    BY <2>1, <1>1 DEF Noticed, SomeBusy
<1>5. LimitOK'
  BY <1>1 DEF LimitOK, UnderWay
<1> QED
  BY <1>2, <1>3, <1>4, <1>5

LEMMA TooManyConnectionsHolds ==
    ASSUME SchedInv, TooManyConnections
    PROVE  SchedInv'
<1> USE DEF SchedInv
<1>1. /\ Connections >= MaxConn /\ pos' = 0
      /\ UNCHANGED <<item, newItems, tried, requests, queueOf, workers, idle, trigger>>
      /\ Len(requests) \in Nat
  BY DEF TooManyConnections, SchedTypes
<1>2. SchedTypes'
  BY <1>1 DEF SchedTypes, Existing
<1>3. WorkersOK' /\ HeldOK'
  BY <1>1 DEF WorkersOK, HeldOK, Existing
<1>4. Noticed'
  <2>1. SomeBusy
    BY <1>1, ConnectionsCount, LimitsArePositive
  <2> QED
    BY <2>1, <1>1 DEF Noticed, SomeBusy
<1>5. LimitOK'
  BY <1>1 DEF LimitOK, UnderWay
<1> QED
  BY <1>2, <1>3, <1>4, <1>5

\* The request that is scheduled, and the queue without it.
LEMMA CurrentRequest ==
    ASSUME SchedTypes, Scheduling
    PROVE  /\ Current \in Request /\ Current \in ToSet(requests) /\ item[Current] = "running"
           /\ pos \in Nat /\ pos > 0 /\ pos <= Len(requests) /\ Len(requests) \in Nat
           /\ DOMAIN requests = 1..Len(requests)
           /\ pos + 1 \in 0..Len(requests) + 1
           /\ Usable \subseteq Nat \ {0} /\ \A k \in Usable : MirrorAt(k) \in Mirror
<1>1. /\ pos \in 1..Len(requests) /\ Len(requests) \in Nat /\ DOMAIN requests = 1..Len(requests)
  BY DEF Scheduling, SchedTypes
<1>2. Current \in Request /\ Current \in ToSet(requests)
  <2>1. requests[pos] \in ToSet(requests)
    BY <1>1 DEF ToSet
  <2> QED
    BY <2>1, Members DEF Current, SchedTypes
<1>3. /\ Usable \subseteq DOMAIN Origin[Current] /\ Origin[Current] \in Seq(Mirror)
  BY <1>2, OriginType DEF Usable
<1>4. DOMAIN Origin[Current] \subseteq Nat \ {0}
  BY <1>3
<1>5. \A k \in Usable : MirrorAt(k) \in Mirror
  BY <1>3 DEF MirrorAt
<1> QED
  BY <1>1, <1>2, <1>3, <1>4, <1>5 DEF SchedTypes

LEMMA CurrentRemoved ==
    ASSUME SchedTypes, Scheduling, requests' = RemoveAt(requests, pos)
    PROVE  /\ requests' \in Seq(Request) /\ IsInjective(requests')
           /\ ToSet(requests') = ToSet(requests) \ {Current}
           /\ pos \in 0..Len(requests') + 1
           /\ DOMAIN requests' \subseteq DOMAIN requests \cap Nat
           /\ \A k \in DOMAIN requests' : k < pos => requests'[k] = requests[k]
<1>1. pos \in DOMAIN requests /\ requests \in Seq(Request) /\ IsInjective(requests)
  BY DEF Scheduling, SchedTypes
<1>2. /\ requests' \in Seq(Request) /\ Len(requests') = Len(requests) - 1
      /\ \A k \in 1..Len(requests) - 1 : requests'[k] = IF k < pos THEN requests[k] ELSE requests[k + 1]
  BY <1>1, Removed
<1>3. IsInjective(requests') /\ ToSet(requests') = ToSet(requests) \ {requests[pos]}
  BY <1>1, RemovedSet
<1>4. /\ Len(requests) \in Nat /\ DOMAIN requests = 1..Len(requests)
      /\ DOMAIN requests' = 1..Len(requests) - 1
  BY <1>1, <1>2
<1> QED
  BY <1>1, <1>2, <1>3, <1>4 DEF Current

LEMMA NoUsableURLHolds ==
    ASSUME SchedInv, NoUsableURL
    PROVE  SchedInv'
<1> USE DEF SchedInv
<1>1. /\ Scheduling
      /\ item' = [item EXCEPT ![Current] = IF @ = "running" THEN "ended" ELSE @]
      /\ requests' = RemoveAt(requests, pos)
      /\ UNCHANGED <<newItems, tried, queueOf, workers, idle, trigger, pos>>
  BY DEF NoUsableURL, End
<1>2. /\ requests' \in Seq(Request) /\ IsInjective(requests')
      /\ ToSet(requests') = ToSet(requests) \ {Current}
      /\ pos \in 0..Len(requests') + 1
      /\ DOMAIN requests' \subseteq DOMAIN requests \cap Nat
      /\ \A k \in DOMAIN requests' : k < pos => requests'[k] = requests[k]
  BY <1>1, CurrentRemoved
<1>3. /\ Current \in Request /\ Current \in ToSet(requests) /\ item[Current] = "running"
      /\ pos \in Nat /\ pos > 0
  BY <1>1, CurrentRequest
<1>4. SchedTypes'
  <2>1. item' \in [Request -> {"none", "new", "running", "ended", "gone"}]
    BY <1>1 DEF SchedTypes
  <2>2. \A s \in ToSet(newItems) : item'[s] = "new"
    BY <1>1, <1>3, Members DEF SchedTypes
  <2>3. \A s \in ToSet(requests') : item'[s] = "running"
    BY <1>1, <1>2, Members DEF SchedTypes
  <2>4. Existing' = Existing
    BY <1>1 DEF Existing
  <2> QED
    BY <1>1, <1>2, <2>1, <2>2, <2>3, <2>4 DEF SchedTypes
<1>5. WorkersOK'
  BY <1>1 DEF WorkersOK, Existing
<1>6. HeldOK'
  <2>1. ASSUME NEW n \in Mirror, NEW s \in HeldBy(workers[n]) \ {None}
        PROVE  item'[s] \notin {"none", "new"} /\ s \notin ToSet(requests')
    <3>1. s \in Request
      BY WorkerFields DEF SchedTypes, HeldBy
    <3> QED
      BY <3>1, <1>1, <1>2, <1>3 DEF HeldOK, SchedTypes
  <2> QED
    BY <2>1, <1>1 DEF HeldOK
<1>7. Noticed'
  <2>1. ASSUME NEW k \in DOMAIN requests', k < pos, tried[requests'[k]] = {}
        PROVE  SomeBusy
    BY <2>1, <1>2, <1>3 DEF Noticed, IsDeferred
  <2> QED
    BY <2>1, <1>1, <1>3 DEF Noticed, IsDeferred, SomeBusy
<1>8. LimitOK'
  BY <1>1 DEF LimitOK, UnderWay
<1> QED
  BY <1>4, <1>5, <1>6, <1>7, <1>8

\* The request goes to a worker that may have one more.
LEMMA SendToHolds ==
    ASSUME SchedInv, MayConnect, NEW m \in Mirror, SendTo(m),
           Load(workers[m]) < MaxConnPerHost, tried' \in [Request -> SUBSET Mirror]
    PROVE  SchedInv'
<1> USE DEF SchedInv
<1> DEFINE w == workers[m]
           v == Enqueued(w, Current)
<1>1. /\ Scheduling /\ Connections < MaxConn
      /\ workers' = [workers EXCEPT ![m] = v]
      /\ queueOf' = [queueOf EXCEPT ![Current] = m]
      /\ idle' = IF w.state = "dead" THEN idle ELSE RemoveFirst(idle, m)
      /\ requests' = RemoveAt(requests, pos)
      /\ UNCHANGED <<item, newItems, trigger, pos>>
      /\ w \in WorkerType
  BY DEF MayConnect, SendTo, SchedTypes
<1>2. /\ requests' \in Seq(Request) /\ IsInjective(requests')
      /\ ToSet(requests') = ToSet(requests) \ {Current}
      /\ pos \in 0..Len(requests') + 1
  BY <1>1, CurrentRemoved
<1>3. /\ Current \in Request /\ Current \in ToSet(requests) /\ item[Current] = "running"
  BY <1>1, CurrentRequest
<1>4. workers'[m] = v /\ \A n \in Mirror \ {m} : workers'[n] = workers[n]
  BY <1>1 DEF SchedTypes
<1>5. /\ v \in WorkerType
      /\ HeldBy(v) = HeldBy(w) \cup {Current}
      /\ ToSet(v.active) \subseteq ToSet(w.active) \cup {Current}
      /\ v.state # "none"
      /\ w.state # "dead" => v.active # <<>>
      /\ w.state = "dead" => v.active = w.active
      /\ WorkerOK(w) /\ Load(w) < MaxConnPerHost => WorkerOK(v)
  BY <1>1, <1>3, EnqueuedHolds
<1> HIDE DEF v
<1>6. Existing' = Existing \cup {m} /\ (w.state = "dead" => m \in Existing)
  BY <1>4, <1>5 DEF Existing
<1>7. /\ idle' \in Seq(Mirror) /\ IsInjective(idle') /\ ToSet(idle') \subseteq ToSet(idle)
      /\ ToSet(idle) \ {m} \subseteq ToSet(idle')
      /\ w.state = "dead" => idle' = idle
  BY <1>1, FirstRemoved DEF SchedTypes
<1>8. SchedTypes'
  <2>1. workers' \in [Mirror -> WorkerType] /\ queueOf' \in [Request -> Mirror \cup {None}]
    BY <1>1, <1>5 DEF SchedTypes
  <2> QED
    BY <1>1, <1>2, <1>6, <1>7, <2>1 DEF SchedTypes
<1>9. WorkersOK'
  <2> SUFFICES ASSUME NEW n \in Mirror
               PROVE  /\ WorkerOK(workers'[n])
                      /\ n \in Existing' /\ workers'[n].active = <<>> => n \in ToSet(idle')
    BY DEF WorkersOK
  <2>1. CASE n = m
    <3>1. WorkerOK(v)
      BY <1>5 DEF WorkersOK
    <3>2. v.active = <<>> => m \in ToSet(idle')
      BY <1>5, <1>6, <1>7 DEF WorkersOK
    <3> QED
      BY <2>1, <3>1, <3>2, <1>4
  <2>2. CASE n # m
    BY <2>2, <1>4, <1>6, <1>7 DEF WorkersOK
  <2> QED
    BY <2>1, <2>2
<1>10. HeldOK'
  <2>1. ASSUME NEW n \in Mirror, NEW s \in HeldBy(workers'[n]) \ {None}
        PROVE  item'[s] \notin {"none", "new"} /\ s \notin ToSet(requests')
    <3>1. CASE s = Current
      BY <3>1, <1>1, <1>2, <1>3
    <3>2. CASE s # Current
      <4>1. s \in HeldBy(workers[n])
        BY <3>2, <2>1, <1>4, <1>5
      <4> QED
        BY <4>1, <1>1, <1>2 DEF HeldOK
    <3> QED
      BY <3>1, <3>2
  <2>2. ASSUME NEW s \in Request, queueOf'[s] # None
        PROVE  s \in HeldBy(workers'[queueOf'[s]])
    <3>1. CASE s = Current
      <4>1. queueOf'[s] = m
        BY <3>1, <1>1 DEF SchedTypes
      <4> QED
        BY <3>1, <4>1, <1>4, <1>5
    <3>2. CASE s # Current
      <4>1. queueOf'[s] = queueOf[s]
        BY <3>2, <1>1 DEF SchedTypes
      <4>2. s \in HeldBy(workers[queueOf[s]]) /\ queueOf[s] \in Mirror
        BY <4>1, <2>2 DEF HeldOK, SchedTypes
      <4> QED
        BY <4>1, <4>2, <1>4, <1>5
    <3> QED
      BY <3>1, <3>2
  <2> QED
    BY <2>1, <2>2 DEF HeldOK
<1>11. Noticed'
  <2>1. SomeBusy'
    BY <1>4, <1>5 DEF SomeBusy
  <2> QED
    BY <2>1, <1>1 DEF Noticed
<1>12. LimitOK'
  <2>1. UnderWay' \subseteq UnderWay \cup {Current}
    BY <1>4, <1>5 DEF UnderWay
  <2> QED
    BY <2>1, <1>1, OneSent
<1> QED
  BY <1>8, <1>9, <1>10, <1>11, <1>12

LEMMA StartWorkerHolds ==
    ASSUME SchedInv, StartWorker
    PROVE  SchedInv'
<1> USE DEF SchedInv
<1>1. /\ MayConnect /\ Scheduling /\ WithoutWorker # {} /\ SendTo(FirstMirror)
      /\ tried' = [tried EXCEPT ![Current] = @ \cup {FirstMirror}]
  BY DEF StartWorker, MayConnect, FreeSlot
<1>2. FirstMirror \in Mirror /\ FirstMirror \notin Existing
  <2>1. WithoutWorker \subseteq Usable /\ WithoutWorker \subseteq Nat
    BY <1>1, CurrentRequest DEF WithoutWorker
  <2>2. Min(WithoutWorker) \in WithoutWorker
    BY <1>1, <2>1, SmallestExists
  <2> QED
    BY <1>1, <2>1, <2>2, CurrentRequest DEF FirstMirror, WithoutWorker
<1>3. Load(workers[FirstMirror]) < MaxConnPerHost
  <2>1. workers[FirstMirror] = NoWorker
    BY <1>2 DEF WorkersOK, WorkerOK, Existing
  <2>2. Load(NoWorker) = 0
    BY DEF NoWorker, Load
  <2> QED
    BY <2>1, <2>2, LimitsArePositive
<1>4. tried' \in [Request -> SUBSET Mirror]
  BY <1>1, <1>2 DEF SchedTypes
<1> QED
  BY <1>1, <1>2, <1>3, <1>4, SendToHolds

LEMMA TriedBeforeType ==
    ASSUME SchedTypes, Scheduling
    PROVE  /\ TriedBefore \subseteq SUBSET Mirror
           /\ {} \in TriedBefore => ~FreeSlot
<1>1. ASSUME FreeSlot PROVE FirstMirror \in Mirror
  <2>1. WithoutWorker \subseteq Usable /\ WithoutWorker \subseteq Nat /\ WithoutWorker # {}
    BY <1>1, CurrentRequest DEF WithoutWorker, FreeSlot
  <2>2. Min(WithoutWorker) \in WithoutWorker
    BY <2>1, SmallestExists
  <2> QED
    BY <2>1, <2>2, CurrentRequest DEF FirstMirror
<1> QED
  BY <1>1 DEF TriedBefore

LEMMA UseWorkerHolds ==
    ASSUME SchedInv, UseWorker
    PROVE  SchedInv'
<1> USE DEF SchedInv
<1>1. PICK t \in TriedBefore, m \in OpenQueues :
         /\ MayConnect /\ SendTo(m)
         /\ tried' = [tried EXCEPT ![Current] = @ \cup t \cup {m}]
  BY DEF UseWorker
<1>2. Scheduling
  BY <1>1 DEF MayConnect
<1>3. m \in Mirror /\ Load(workers[m]) < MaxConnPerHost
  BY DEF OpenQueues, Existing, RequestCount, Load
<1>4. t \subseteq Mirror
  BY <1>2, TriedBeforeType
<1>5. tried' \in [Request -> SUBSET Mirror]
  BY <1>1, <1>3, <1>4 DEF SchedTypes
<1> QED
  BY <1>1, <1>3, <1>5, SendToHolds

\* The queue that is stopped is idle; it exists and holds nothing.
LEMMA LaziestIsIdle ==
    ASSUME SchedTypes, IdleQueues # {}
    PROVE  Laziest \in Existing /\ HeldBy(workers[Laziest]) = {}
<1>1. IdleQueues \subseteq Nat
  BY DEF IdleQueues, SchedTypes
<1>2. Min(IdleQueues) \in IdleQueues
  BY <1>1, SmallestExists
<1>3. Laziest \in Existing /\ RequestCount(Laziest) = 0
  BY <1>2 DEF Laziest, IdleQueues, IsIdle
<1>4. workers[Laziest] \in WorkerType /\ Load(workers[Laziest]) = 0
  BY <1>3 DEF SchedTypes, Existing, RequestCount, Load
<1> QED
  BY <1>3, <1>4, WorkerFields

LEMMA ReplaceWorkerHolds ==
    ASSUME SchedInv, ReplaceWorker
    PROVE  SchedInv'
<1> USE DEF SchedInv
<1>1. /\ MayConnect /\ Scheduling /\ Connections < MaxConn
      /\ IdleQueues # {} /\ WithoutWorker # {}
      /\ UNCHANGED <<item, newItems, trigger>>
  BY DEF ReplaceWorker, MayConnect
<1> DEFINE Left(t)        == {k \in WithoutWorker : MirrorAt(k) \notin t}
           Started(t, f)  == {k \in Left(t) : f # 0 => k < f}
           Mirrors(S)     == {MirrorAt(k) : k \in S}
<1>2. PICK t \in TriedBefore :
        \E failed \in (IF "nostart" \in Failures THEN Left(t) ELSE {}) \cup {0} :
            /\ tried' = [tried EXCEPT ![Current] =
                            @ \cup t \cup Mirrors(Started(t, failed) \cup ({failed} \ {0}))]
            /\ workers' = [m \in Mirror |->
                            IF m \in Mirrors(Started(t, failed)) THEN Enqueued(NoWorker, Current)
                            ELSE IF m = Laziest THEN NoWorker ELSE workers[m]]
            /\ idle' = RemoveFirst(idle, Laziest)
            /\ \/ /\ Started(t, failed) = {}
                  /\ pos' = pos + 1
                  /\ UNCHANGED <<queueOf, requests>>
               \/ /\ Started(t, failed) # {}
                  /\ queueOf' = [queueOf EXCEPT ![Current] = MirrorAt(Max(Started(t, failed)))]
                  /\ requests' = RemoveAt(requests, pos)
                  /\ UNCHANGED pos
  BY DEF ReplaceWorker
<1>3. PICK failed \in (IF "nostart" \in Failures THEN Left(t) ELSE {}) \cup {0} :
            /\ tried' = [tried EXCEPT ![Current] =
                            @ \cup t \cup Mirrors(Started(t, failed) \cup ({failed} \ {0}))]
            /\ workers' = [m \in Mirror |->
                            IF m \in Mirrors(Started(t, failed)) THEN Enqueued(NoWorker, Current)
                            ELSE IF m = Laziest THEN NoWorker ELSE workers[m]]
            /\ idle' = RemoveFirst(idle, Laziest)
            /\ \/ /\ Started(t, failed) = {}
                  /\ pos' = pos + 1
                  /\ UNCHANGED <<queueOf, requests>>
               \/ /\ Started(t, failed) # {}
                  /\ queueOf' = [queueOf EXCEPT ![Current] = MirrorAt(Max(Started(t, failed)))]
                  /\ requests' = RemoveAt(requests, pos)
                  /\ UNCHANGED pos
  BY <1>2
<1> DEFINE left    == Left(t)
           started == Started(t, failed)
           new     == Mirrors(started)
           v       == Enqueued(NoWorker, Current)
<1>4. /\ Current \in Request /\ Current \in ToSet(requests) /\ item[Current] = "running"
      /\ pos \in Nat /\ pos > 0 /\ Len(requests) \in Nat /\ DOMAIN requests = 1..Len(requests)
      /\ pos + 1 \in 0..Len(requests) + 1
      /\ Usable \subseteq Nat \ {0} /\ \A k \in Usable : MirrorAt(k) \in Mirror
  BY <1>1, CurrentRequest
<1>5. /\ left \subseteq WithoutWorker /\ started \subseteq left
      /\ left \subseteq Usable
      /\ \A k \in left : MirrorAt(k) \in Mirror /\ MirrorAt(k) \notin Existing
      /\ failed = 0 => started = left
      /\ failed \in left \cup {0}
  BY <1>4 DEF WithoutWorker
<1>6. /\ new \subseteq Mirror /\ \A m \in new : m \notin Existing /\ workers[m] = NoWorker
  <2>1. \A m \in new : m \in Mirror /\ m \notin Existing
    BY <1>5
  <2>2. \A m \in Mirror : m \notin Existing => workers[m] = NoWorker
    BY DEF WorkersOK, WorkerOK, Existing
  <2> QED
    BY <2>1, <2>2
<1>7. /\ Laziest \in Existing /\ HeldBy(workers[Laziest]) = {} /\ Laziest \in Mirror
  BY <1>1, LaziestIsIdle DEF Existing
<1>8. /\ NoWorker \in WorkerType /\ HeldBy(NoWorker) = {} /\ NoWorker.active = <<>>
      /\ NoWorker.state = "none" /\ WorkerOK(NoWorker) /\ Load(NoWorker) = 0
      /\ ToSet(NoWorker.active) = {}
  <2>1. <<>> \in Seq(Request) /\ <<>> \in Seq(Request \cup {None}) /\ ToSet(<<>>) = {} /\ Len(<<>>) = 0
    BY DEF ToSet
  <2>2. /\ NoWorker \in WorkerType /\ NoWorker.active = <<>> /\ NoWorker.wait = <<>>
        /\ NoWorker.state = "none"
    BY <2>1 DEF NoWorker, WorkerType
  <2>3. HeldBy(NoWorker) = {}
    BY <2>1, <2>2, Zenon DEF HeldBy
  <2>4. Load(NoWorker) = 0
    BY <2>2, <2>3, WorkerFields
  <2> QED
    BY <2>1, <2>2, <2>3, <2>4, LimitsArePositive DEF WorkerOK
<1>9. /\ v \in WorkerType /\ HeldBy(v) = {Current} /\ ToSet(v.active) \subseteq {Current}
      /\ v.state # "none" /\ v.active # <<>> /\ WorkerOK(v)
  <2>1. /\ v \in WorkerType /\ HeldBy(v) = HeldBy(NoWorker) \cup {Current}
        /\ ToSet(v.active) \subseteq ToSet(NoWorker.active) \cup {Current}
        /\ v.state # "none"
        /\ NoWorker.state # "dead" => v.active # <<>>
        /\ WorkerOK(NoWorker) /\ Load(NoWorker) < MaxConnPerHost => WorkerOK(v)
    BY <1>4, <1>8, EnqueuedHolds
  <2> QED
    BY <2>1, <1>8, LimitsArePositive
<1> HIDE DEF v
<1>10. /\ \A m \in new : workers'[m] = v
       /\ workers'[Laziest] = NoWorker
       /\ \A m \in Mirror : m \notin new /\ m # Laziest => workers'[m] = workers[m]
       /\ workers' \in [Mirror -> WorkerType]
  <2>1. workers' = [m \in Mirror |-> IF m \in new THEN v
                                     ELSE IF m = Laziest THEN NoWorker ELSE workers[m]]
    BY <1>3 DEF v
  <2>2. Laziest \notin new
    BY <1>6, <1>7
  <2> HIDE DEF new
  <2> QED
    BY <2>1, <2>2, <1>6, <1>7, <1>8, <1>9 DEF SchedTypes
<1> HIDE DEF new
<1>11. Existing' = (Existing \ {Laziest}) \cup new
  BY <1>6, <1>7, <1>8, <1>9, <1>10 DEF Existing
<1>12. /\ idle' \in Seq(Mirror) /\ IsInjective(idle') /\ ToSet(idle') = ToSet(idle) \ {Laziest}
  BY <1>3, FirstRemoved DEF SchedTypes
<1>13. WorkersOK'
  <2> SUFFICES ASSUME NEW n \in Mirror
               PROVE  /\ WorkerOK(workers'[n])
                      /\ n \in Existing' /\ workers'[n].active = <<>> => n \in ToSet(idle')
    BY DEF WorkersOK
  <2>1. CASE n \in new
    BY <2>1, <1>9, <1>10
  <2>2. CASE n = Laziest
    BY <2>2, <1>6, <1>7, <1>8, <1>10, <1>11
  <2>3. CASE n \notin new /\ n # Laziest
    BY <2>3, <1>10, <1>11, <1>12 DEF WorkersOK
  <2> QED
    BY <2>1, <2>2, <2>3
<1>14. tried' \in [Request -> SUBSET Mirror]
  <2>1. t \subseteq Mirror
    BY <1>1, TriedBeforeType
  <2>2. Mirrors(started \cup ({failed} \ {0})) \subseteq Mirror
    BY <1>5
  <2> QED
    BY <2>1, <2>2, <1>3 DEF SchedTypes
\* What a queue holds then, and who was sent.
<1>15. /\ \A m \in Mirror : HeldBy(workers'[m]) \subseteq HeldBy(workers[m]) \cup {Current}
       /\ \A m \in Mirror : HeldBy(workers[m]) \subseteq HeldBy(workers'[m])
       /\ \A m \in Mirror : ToSet(workers'[m].active) \subseteq ToSet(workers[m].active) \cup {Current}
       /\ \A m \in new : Current \in HeldBy(workers'[m])
       /\ new = {} => \A m \in Mirror : /\ HeldBy(workers'[m]) = HeldBy(workers[m])
                                        /\ ToSet(workers'[m].active) \subseteq ToSet(workers[m].active)
  <2> SUFFICES ASSUME NEW m \in Mirror
               PROVE  /\ HeldBy(workers'[m]) \subseteq HeldBy(workers[m]) \cup {Current}
                      /\ HeldBy(workers[m]) \subseteq HeldBy(workers'[m])
                      /\ ToSet(workers'[m].active) \subseteq ToSet(workers[m].active) \cup {Current}
                      /\ m \in new => Current \in HeldBy(workers'[m])
                      /\ new = {} => /\ HeldBy(workers'[m]) = HeldBy(workers[m])
                                     /\ ToSet(workers'[m].active) \subseteq ToSet(workers[m].active)
    BY <1>6
  <2>1. CASE m \in new
    BY <2>1, <1>6, <1>8, <1>9, <1>10
  <2>2. CASE m = Laziest
    BY <2>2, <1>6, <1>7, <1>8, <1>10
  <2>3. CASE m \notin new /\ m # Laziest
    BY <2>3, <1>10
  <2> QED
    BY <2>1, <2>2, <2>3
<1>16. CASE started = {}
  <2>1. pos' = pos + 1 /\ UNCHANGED <<queueOf, requests>> /\ new = {}
    BY <1>16, <1>3 DEF new
  <2>2. SchedTypes'
    BY <2>1, <1>1, <1>4, <1>7, <1>10, <1>11, <1>12, <1>14 DEF SchedTypes
  <2>3. HeldOK'
    BY <2>1, <1>1, <1>15 DEF HeldOK, SchedTypes
  <2>4. tried'[Current] # {}
    <3>1. CASE failed # 0
      <4>1. MirrorAt(failed) \in tried'[Current]
        BY <3>1, <1>3, <1>4 DEF SchedTypes
      <4> QED
        BY <4>1
    <3>2. CASE failed = 0
      <4>1. left = {}
        BY <3>2, <1>5, <1>16
      <4>2. t # {}
        BY <4>1, <1>1
      <4>3. t \subseteq tried'[Current]
        BY <1>3, <1>4 DEF SchedTypes
      <4> QED
        BY <4>2, <4>3
    <3> QED
      BY <3>1, <3>2
  <2>5. Noticed'
    <3>1. SomeBusy => SomeBusy'
      BY <1>15, <2>1 DEF SomeBusy
    <3>2. ASSUME NEW k \in DOMAIN requests, k < pos + 1, tried'[requests[k]] = {}
          PROVE  SomeBusy
      <4>1. k # pos
        BY <3>2, <2>4 DEF Current
      <4>2. k < pos
        BY <3>2, <4>1, <1>4
      <4>3. requests[k] \in Request
        BY <1>4 DEF SchedTypes
      <4>4. tried[requests[k]] = {}
        BY <3>2, <4>3, <1>3 DEF SchedTypes
      <4> QED
        BY <4>2, <4>4, <1>4 DEF Noticed, IsDeferred
    <3> QED
      BY <3>1, <3>2, <2>1, <1>1, <1>4 DEF Noticed, IsDeferred
  <2>6. LimitOK'
    <3>1. UnderWay' \subseteq UnderWay
      BY <1>15, <2>1 DEF UnderWay
    <3> QED
      BY <3>1, NothingSent
  <2> QED
    BY <2>2, <2>3, <2>5, <2>6, <1>13
<1>17. CASE started # {}
  <2> DEFINE last == MirrorAt(Max(started))
  <2>1. /\ queueOf' = [queueOf EXCEPT ![Current] = last]
        /\ requests' = RemoveAt(requests, pos)
        /\ UNCHANGED pos
    BY <1>17, <1>3
  <2>2. last \in new /\ last \in Mirror
    <3>1. started \subseteq DOMAIN Origin[Current]
      BY <1>5 DEF Usable
    <3>2. Origin[Current] \in Seq(Mirror)
      BY <1>4, OriginType
    <3>3. started \subseteq 0..Len(Origin[Current]) /\ Len(Origin[Current]) \in Nat
      BY <3>1, <3>2
    <3>4. Max(started) \in started
      <4> HIDE DEF started
      <4> QED
        BY <1>17, <3>3, LargestExists
    <3> QED
      BY <3>4, <1>5 DEF new
  <2> HIDE DEF last
  <2>3. /\ requests' \in Seq(Request) /\ IsInjective(requests')
        /\ ToSet(requests') = ToSet(requests) \ {Current}
        /\ pos \in 0..Len(requests') + 1
    BY <2>1, <1>1, CurrentRemoved
  <2>4. SchedTypes'
    <3>1. queueOf' \in [Request -> Mirror \cup {None}]
      BY <2>1, <2>2 DEF SchedTypes
    <3> QED
      BY <3>1, <2>1, <2>3, <1>1, <1>7, <1>10, <1>11, <1>12, <1>14 DEF SchedTypes
  <2>5. HeldOK'
    <3>1. ASSUME NEW n \in Mirror, NEW s \in HeldBy(workers'[n]) \ {None}
          PROVE  item'[s] \notin {"none", "new"} /\ s \notin ToSet(requests')
      <4>1. CASE s = Current
        BY <4>1, <1>1, <1>4, <2>3
      <4>2. CASE s # Current
        <5>1. s \in HeldBy(workers[n])
          BY <4>2, <3>1, <1>15
        <5> QED
          BY <5>1, <1>1, <2>3 DEF HeldOK
      <4> QED
        BY <4>1, <4>2
    <3>2. ASSUME NEW s \in Request, queueOf'[s] # None
          PROVE  s \in HeldBy(workers'[queueOf'[s]])
      <4>1. CASE s = Current
        <5>1. queueOf'[s] = last
          BY <4>1, <2>1 DEF SchedTypes
        <5> QED
          BY <4>1, <5>1, <2>2, <1>15
      <4>2. CASE s # Current
        <5>1. queueOf'[s] = queueOf[s]
          BY <4>2, <2>1 DEF SchedTypes
        <5>2. s \in HeldBy(workers[queueOf[s]]) /\ queueOf[s] \in Mirror
          BY <5>1, <3>2 DEF HeldOK, SchedTypes
        <5> QED
          BY <5>1, <5>2, <1>15
      <4> QED
        BY <4>1, <4>2
    <3> QED
      BY <3>1, <3>2 DEF HeldOK
  <2>6. Noticed'
    <3>1. SomeBusy'
      BY <2>2, <1>15 DEF SomeBusy
    <3> QED
      BY <3>1, <1>1 DEF Noticed
  <2>7. LimitOK'
    <3>1. UnderWay' \subseteq UnderWay \cup {Current}
      BY <1>15 DEF UnderWay
    <3> QED
      BY <3>1, <1>1, OneSent
  <2> QED
    BY <2>4, <2>5, <2>6, <2>7, <1>13
<1> QED
  BY <1>16, <1>17

\* A request that has not been tried and has no queue it could be sent to finds a
\* queue that is busy: one of its mirrors has all it may have, or every worker
\* there may be exists and none of them is idle.
LEMMA NothingFree ==
    ASSUME SchedInv, Scheduling, tried[Current] = {}, ~FreeSlot, OpenQueues = {},
           IdleQueues = {} \/ WithoutWorker = {}
    PROVE  SomeBusy
<1> USE DEF SchedInv
<1>1. Current \in Request
  BY CurrentRequest
<1>2. CASE WithoutWorker = {}
  <2>1. PICK k \in DOMAIN Origin[Current] : TRUE
    <3>1. Origin[Current] \in Seq(Mirror) /\ Origin[Current] # <<>>
      BY <1>1, OriginType
    <3> QED
      BY <3>1
  <2>2. k \in Usable
    BY <2>1 DEF Usable
  <2>3. MirrorAt(k) \in Existing
    BY <2>2, <1>2, CurrentRequest DEF WithoutWorker
  <2>4. ~(RequestCount(MirrorAt(k)) < MaxConnPerHost)
    BY <2>2, <2>3 DEF OpenQueues
  <2>5. MirrorAt(k) \in Mirror /\ workers[MirrorAt(k)] \in WorkerType
    BY <2>3 DEF Existing, SchedTypes
  <2>6. Load(workers[MirrorAt(k)]) \in Nat /\ Load(workers[MirrorAt(k)]) # 0
    <3> DEFINE load == Load(workers[MirrorAt(k)])
    <3>1. load \in Nat
      BY <2>5, WorkerFields
    <3>2. ~(load < MaxConnPerHost)
      BY <2>4 DEF RequestCount, Load
    <3>3. load # 0
      <4> HIDE DEF load
      <4> QED
        BY <3>1, <3>2, LimitsArePositive
    <3> QED
      BY <3>1, <3>3
  <2>7. HeldBy(workers[MirrorAt(k)]) # {}
    BY <2>5, <2>6, WorkerFields
  <2> QED
    BY <2>5, <2>7 DEF SomeBusy
<1>3. CASE WithoutWorker # {}
  <2>1. ~(Cardinality(Existing) < MaxWorkers) /\ IdleQueues = {}
    BY <1>3 DEF FreeSlot
  <2>2. PICK m \in Existing : TRUE
    BY <2>1, FS_EmptySet, LimitsArePositive
  <2>3. m \in Mirror /\ workers[m] \in WorkerType
    BY <2>2 DEF Existing, SchedTypes
  <2>4. HeldBy(workers[m]) # {}
    <3>1. SUFFICES ASSUME HeldBy(workers[m]) = {} PROVE FALSE
      OBVIOUS
    <3>2. Load(workers[m]) = 0 /\ workers[m].active = <<>>
      <4>1. ToSet(workers[m].active) = {}
        BY <3>1 DEF HeldBy
      <4> QED
        BY <2>3, <3>1, <4>1, WorkerFields
    <3>3. m \in ToSet(idle)
      BY <2>2, <2>3, <3>2 DEF WorkersOK
    <3>4. PICK k \in DOMAIN idle : idle[k] = m
      BY <3>3 DEF ToSet
    <3>5. IsIdle(m)
      BY <2>2, <3>2 DEF IsIdle, RequestCount, Load
    <3>6. k \in IdleQueues
      BY <3>4, <3>5 DEF IdleQueues
    <3> QED
      BY <2>1, <3>6
  <2> QED
    BY <2>3, <2>4 DEF SomeBusy
<1> QED
  BY <1>2, <1>3

LEMMA DeferHolds ==
    ASSUME SchedInv, Defer
    PROVE  SchedInv'
<1> USE DEF SchedInv
<1>1. /\ Scheduling /\ OpenQueues = {} /\ (IdleQueues = {} \/ WithoutWorker = {})
      /\ pos' = pos + 1
      /\ UNCHANGED <<item, newItems, requests, queueOf, workers, idle, trigger>>
  BY DEF Defer, MayConnect
<1>2. PICK t \in TriedBefore : tried' = [tried EXCEPT ![Current] = @ \cup t]
  BY DEF Defer
<1>3. /\ Current \in Request /\ pos \in Nat /\ pos > 0 /\ DOMAIN requests = 1..Len(requests)
      /\ Len(requests) \in Nat /\ pos + 1 \in 0..Len(requests) + 1
  BY <1>1, CurrentRequest
<1>4. t \subseteq Mirror /\ ({} \in TriedBefore => ~FreeSlot)
  BY <1>1, TriedBeforeType
<1>5. SchedTypes'
  <2>1. tried' \in [Request -> SUBSET Mirror]
    BY <1>2, <1>4 DEF SchedTypes
  <2> QED
    BY <1>1, <1>3, <2>1 DEF SchedTypes, Existing
<1>6. WorkersOK' /\ HeldOK'
  BY <1>1 DEF WorkersOK, HeldOK, Existing
<1>7. Noticed'
  <2>1. ASSUME NEW k \in DOMAIN requests, k < pos + 1, tried'[requests[k]] = {}
        PROVE  SomeBusy
    <3>1. requests[k] \in Request
      BY <1>3 DEF SchedTypes
    <3>2. tried[requests[k]] = {}
      BY <2>1, <3>1, <1>2 DEF SchedTypes
    <3>3. CASE k < pos
      BY <3>2, <3>3, <1>3 DEF Noticed, IsDeferred
    <3>4. CASE k = pos
      <4>1. tried[Current] = {} /\ tried'[Current] = {}
        BY <2>1, <3>2, <3>4 DEF Current
      <4>2. t = {}
        BY <4>1, <1>2, <1>3 DEF SchedTypes
      <4>3. ~FreeSlot
        BY <4>2, <1>4
      <4> QED
        BY <4>1, <4>3, <1>1, NothingFree
    <3> QED
      BY <2>1, <3>3, <3>4, <1>3
  <2> QED
    BY <2>1, <1>1, <1>3 DEF Noticed, IsDeferred, SomeBusy
<1>8. LimitOK'
  BY <1>1 DEF LimitOK, UnderWay
<1> QED
  BY <1>5, <1>6, <1>7, <1>8

LEMMA StepHolds == SchedInv /\ [SchedNext]_schedVars => SchedInv'
<1> SUFFICES ASSUME SchedInv, [SchedNext]_schedVars PROVE SchedInv'
  OBVIOUS
<1>1. CASE \E r \in Request : ProvideFile(r) \/ ReleaseFile(r)
  BY <1>1, ProvideFileHolds, ReleaseFileHolds
<1>2. CASE \E m \in Mirror : Die(m) \/ \E r \in Request : Answer(m, r)
  BY <1>2, DieHolds, AnswerHolds
<1>3. CASE Schedule
  BY <1>3, BeginScheduleHolds, EndScheduleHolds, NoUsableURLHolds, TooManyConnectionsHolds,
     StartWorkerHolds, UseWorkerHolds, ReplaceWorkerHolds, DeferHolds DEF Schedule
<1>4. CASE UNCHANGED schedVars
  <2>1. UNCHANGED <<item, newItems, tried, requests, queueOf, workers, idle, trigger, pos>>
    BY <1>4 DEF schedVars
  <2>2. SchedTypes' /\ WorkersOK' /\ HeldOK' /\ LimitOK'
    BY <2>1 DEF SchedInv, SchedTypes, WorkersOK, HeldOK, LimitOK, UnderWay, Existing
  <2>3. Noticed'
    BY <2>1 DEF SchedInv, Noticed, IsDeferred, SomeBusy
  <2> QED
    BY <2>2, <2>3 DEF SchedInv
<1> QED
  BY <1>1, <1>2, <1>3, <1>4 DEF SchedNext

LEMMA SchedInvHolds == SchedSpec => []SchedInv
<1>1. SchedInit => SchedInv
  BY InitHolds
<1>2. SchedInv /\ [SchedNext]_schedVars => SchedInv'
  BY StepHolds
<1> QED
  BY <1>1, <1>2, PTL DEF SchedSpec

-----------------------------------------------------------------------------
(* The theorems.                                                            *)

\* Whatever fails, a request is queued once, only while its item waits, and the
\* queue it is said to be in exists.
THEOREM SchedTypeCorrect == SchedSpec => []SchedTypeOK
<1>1. SchedInv => SchedTypeOK
  <2> SUFFICES ASSUME SchedInv PROVE SchedTypeOK
    OBVIOUS
  <2> USE DEF SchedInv
  <2>1. newItems \in Seq({r \in Request : item[r] = "new"})
    <3>1. ToSet(newItems) \subseteq {r \in Request : item[r] = "new"}
      BY Members DEF SchedTypes
    <3> QED
      BY <3>1, MembersIn DEF SchedTypes
  <2>2. requests \in Seq({r \in Request : item[r] = "running"})
    <3>1. ToSet(requests) \subseteq {r \in Request : item[r] = "running"}
      BY Members DEF SchedTypes
    <3> QED
      BY <3>1, MembersIn DEF SchedTypes
  <2>3. idle \in Seq(Existing)
    BY MembersIn DEF SchedTypes
  <2>4. queueOf \in [Request -> Existing \cup {None}]
    <3>1. HeldBy(NoWorker) = {}
      BY DEF HeldBy, NoWorker, ToSet
    <3>2. \A r \in Request : queueOf[r] \in Existing \cup {None}
      BY <3>1 DEF HeldOK, WorkersOK, WorkerOK, Existing, SchedTypes
    <3> QED
      BY <3>2 DEF SchedTypes
  <2> QED
    BY <2>1, <2>2, <2>3, <2>4 DEF SchedTypes, SchedTypeOK
<1> QED
  BY <1>1, SchedInvHolds, PTL

\* No host is sent more than its limit at a time, and no more requests are under
\* way than there may be connections: for any number of hosts, requests and
\* workers, and although a request is only checked when it is scheduled.
THEOREM LimitsKept == SchedSpec => []ConnectionLimits
<1>1. SchedInv => ConnectionLimits
  BY DEF SchedInv, WorkersOK, WorkerOK, LimitOK, ConnectionLimits, RequestCount, Load
<1> QED
  BY <1>1, SchedInvHolds, PTL

\* Unless the case is one of Troubled, what was deferred has something that
\* starts the next run of the scheduler, in any state between two runs.
THEOREM DeferredIsWoken == SchedSpec => []DeferredHasWaker
<1>1. SchedInv => DeferredHasWaker
  <2> SUFFICES ASSUME SchedInv, pos = 0, requests \o newItems # <<>>, ~Troubled, ~trigger
               PROVE  \E m \in Mirror, r \in Request :
                        /\ workers[m].state = "up" /\ r \in ToSet(workers[m].active)
                        /\ queueOf[r] = m
    BY DEF DeferredHasWaker
  <2> USE DEF SchedInv
  <2>1. newItems = <<>>
    BY DEF Noticed
  <2>2. requests # <<>> /\ requests \in Seq(Request)
    BY <2>1 DEF SchedTypes
  <2>3. 1 \in DOMAIN requests /\ requests[1] \in ToSet(requests)
    BY <2>2 DEF ToSet
  <2>4. tried[requests[1]] = {}
    BY <2>3 DEF Troubled
  <2>5. SomeBusy
    BY <2>3, <2>4 DEF Noticed, IsDeferred
  <2>6. PICK m \in Mirror : HeldBy(workers[m]) # {}
    BY <2>5 DEF SomeBusy
  <2>7. workers[m] \in WorkerType /\ WorkerOK(workers[m]) /\ workers[m].state # "dead"
    BY <2>6 DEF SchedTypes, WorkersOK, Troubled
  <2>8. ToSet(workers[m].wait) = {}
    BY <2>7 DEF WorkerOK, ToSet
  <2>9. PICK x \in ToSet(workers[m].active) : TRUE
    BY <2>6, <2>8 DEF HeldBy
  <2>10. x # None /\ queueOf[x] = m
    BY <2>6, <2>9 DEF Troubled
  <2>11. x \in Request
    BY <2>7, <2>9, <2>10, WorkerFields
  <2>12. workers[m].state = "up"
    <3>1. workers[m].state # "none"
      <4>1. HeldBy(NoWorker) = {}
        BY DEF HeldBy, NoWorker, ToSet
      <4> QED
        BY <4>1, <2>6, <2>7 DEF WorkerOK
    <3> QED
      BY <3>1, <2>7, WorkerFields
  <2> QED
    BY <2>6, <2>9, <2>10, <2>11, <2>12
<1> QED
  BY <1>1, SchedInvHolds, PTL

-----------------------------------------------------------------------------
(* Nothing is lost, as long as no answer makes the provider try another mirror: *)
(* an item that waits has its request in the queue of the scheduler, or in the  *)
(* worker queue it was sent to last.  (With such an answer it is lost: see      *)
(* Recover.)                                                                *)

RunningPlaced == \A r \in Request : item[r] = "running" => r \in ToSet(requests) \/ queueOf[r] # None

LEMMA PlacedStep ==
    ASSUME "missing" \notin Failures, SchedInv, RunningPlaced, [SchedNext]_schedVars
    PROVE  RunningPlaced'
<1> USE DEF SchedInv
<1>1. ASSUME NEW r \in Request, ProvideFile(r) PROVE RunningPlaced'
  BY <1>1 DEF ProvideFile, RunningPlaced, SchedTypes
<1>2. ASSUME NEW r \in Request, ReleaseFile(r) PROVE RunningPlaced'
  <2>1. /\ item' = [item EXCEPT ![r] = "gone"] /\ queueOf' = [queueOf EXCEPT ![r] = None]
        /\ requests' \in {requests, RemoveFirst(requests, r)}
    BY <1>2 DEF ReleaseFile
  <2>2. ToSet(requests) \ {r} \subseteq ToSet(requests')
    BY <2>1, FirstRemoved DEF SchedTypes
  <2> QED
    BY <2>1, <2>2 DEF RunningPlaced, SchedTypes
<1>3. ASSUME NEW m \in Mirror, Die(m) PROVE RunningPlaced'
  BY <1>3 DEF Die, RunningPlaced, SchedTypes
<1>4. ASSUME NEW m \in Mirror, NEW r \in Request, Answer(m, r) PROVE RunningPlaced'
  <2>1. /\ item' = [item EXCEPT ![r] = IF @ = "running" THEN "ended" ELSE @]
        /\ queueOf' = [queueOf EXCEPT ![r] = None] /\ requests' = requests
    BY <1>4 DEF Answer, End, Dequeue
  <2> QED
    BY <2>1 DEF RunningPlaced, SchedTypes
<1>5. CASE BeginSchedule
  <2>1. ToSet(requests') = ToSet(requests) \cup ToSet(newItems)
    BY <1>5, Joined DEF BeginSchedule, SchedTypes
  <2> QED
    BY <1>5, <2>1 DEF BeginSchedule, RunningPlaced, SchedTypes
<1>6. CASE NoUsableURL
  <2>1. /\ Scheduling /\ requests' = RemoveAt(requests, pos) /\ queueOf' = queueOf
        /\ item' = [item EXCEPT ![Current] = IF @ = "running" THEN "ended" ELSE @]
    BY <1>6 DEF NoUsableURL, End
  <2>2. ToSet(requests') = ToSet(requests) \ {Current} /\ Current \in Request
    BY <2>1, CurrentRemoved, CurrentRequest
  <2> QED
    BY <2>1, <2>2 DEF RunningPlaced, SchedTypes
<1>7. ASSUME Scheduling, NEW m \in Mirror, item' = item, requests' = RemoveAt(requests, pos),
             queueOf' = [queueOf EXCEPT ![Current] = m]
      PROVE  RunningPlaced'
  <2>1. ToSet(requests') = ToSet(requests) \ {Current} /\ Current \in Request
    BY <1>7, CurrentRemoved, CurrentRequest
  <2> QED
    BY <1>7, <2>1, NoneIsNone DEF RunningPlaced, SchedTypes
<1>8. CASE UNCHANGED <<item, requests, queueOf>>
  BY <1>8 DEF RunningPlaced
<1>9. CASE StartWorker
  <2>1. SendTo(FirstMirror) /\ Scheduling /\ WithoutWorker # {}
    BY <1>9 DEF StartWorker, MayConnect, FreeSlot
  <2>2. FirstMirror \in Mirror
    <3>1. WithoutWorker \subseteq Usable /\ WithoutWorker \subseteq Nat
      BY <2>1, CurrentRequest DEF WithoutWorker
    <3>2. Min(WithoutWorker) \in WithoutWorker
      BY <2>1, <3>1, SmallestExists
    <3> QED
      BY <2>1, <3>1, <3>2, CurrentRequest DEF FirstMirror
  <2> QED
    BY <2>1, <2>2, <1>7 DEF SendTo
<1>10. CASE UseWorker
  <2>1. PICK m \in OpenQueues : SendTo(m) /\ Scheduling
    BY <1>10 DEF UseWorker, MayConnect
  <2>2. m \in Mirror
    BY DEF OpenQueues, Existing
  <2> QED
    BY <2>1, <2>2, <1>7 DEF SendTo
<1>11. CASE ReplaceWorker
  <2>1. Scheduling /\ item' = item
    BY <1>11 DEF ReplaceWorker, MayConnect
  <2>2. \/ UNCHANGED <<queueOf, requests>>
        \/ \E S \in SUBSET WithoutWorker :
              /\ S # {} /\ requests' = RemoveAt(requests, pos)
              /\ queueOf' = [queueOf EXCEPT ![Current] = MirrorAt(Max(S))]
    BY <1>11 DEF ReplaceWorker
  <2>3. ASSUME NEW S \in SUBSET WithoutWorker, S # {} PROVE MirrorAt(Max(S)) \in Mirror
    <3>1. Current \in Request
      BY <2>1, CurrentRequest
    <3>2. Origin[Current] \in Seq(Mirror)
      BY <3>1, OriginType
    <3>3. S \subseteq DOMAIN Origin[Current]
      BY DEF WithoutWorker, Usable
    <3>4. S \subseteq 0..Len(Origin[Current]) /\ Len(Origin[Current]) \in Nat
      BY <3>2, <3>3
    <3>5. Max(S) \in S
      BY <2>3, <3>4, LargestExists
    <3> QED
      BY <3>2, <3>3, <3>5 DEF MirrorAt
  <2> QED
    BY <2>1, <2>2, <2>3, <1>7, <1>8
<1> QED
  BY <1>1, <1>2, <1>3, <1>4, <1>5, <1>6, <1>8, <1>9, <1>10, <1>11
     DEF SchedNext, Schedule, EndSchedule, TooManyConnections, Defer, schedVars

\* Sending, deferring, replacing workers, failing to start them, their death and
\* owners that lose interest never lose the request of an item that waits.  The one
\* failure that does is excluded by name.
THEOREM NothingLost ==
    ASSUME "missing" \notin Failures
    PROVE  SchedSpec => []RunningIsPlaced
<1>1. SchedInit => RunningPlaced
  BY DEF SchedInit, RunningPlaced
<1>2. SchedInv /\ RunningPlaced /\ [SchedNext]_schedVars => RunningPlaced'
  BY PlacedStep
<1>3. SchedInv /\ RunningPlaced => RunningIsPlaced
  <2> SUFFICES ASSUME SchedInv, RunningPlaced, NEW r \in Request, item[r] = "running",
                      r \notin ToSet(requests)
               PROVE  \E m \in Mirror : r \in ToSet(workers[m].active \o workers[m].wait)
    BY DEF RunningIsPlaced
  <2> USE DEF SchedInv
  <2>1. queueOf[r] \in Mirror /\ r \in HeldBy(workers[queueOf[r]])
    BY DEF RunningPlaced, HeldOK, SchedTypes
  <2> DEFINE w == workers[queueOf[r]]
  <2>2. w \in WorkerType
    BY <2>1 DEF SchedTypes
  <2>3. w.active \in Seq(Request \cup {None}) /\ w.wait \in Seq(Request \cup {None})
    <3>1. w.active \in Seq(Request \cup {None}) /\ w.wait \in Seq(Request)
      BY <2>2, WorkerFields
    <3> HIDE DEF w
    <3> QED
      BY <3>1
  <2>4. ToSet(w.active \o w.wait) = HeldBy(w)
    <3> HIDE DEF w
    <3> QED
      BY <2>3, Joined DEF HeldBy
  <2> QED
    BY <2>1, <2>4
<1> QED
  BY <1>1, <1>2, <1>3, SchedInvHolds, PTL DEF SchedSpec

-----------------------------------------------------------------------------
(* Attaching media.                                                         *)

-----------------------------------------------------------------------------
(* Lists.                                                                   *)

LEMMA WithoutThem ==
    ASSUME NEW E, NEW s \in Seq(E), NEW B
    PROVE  Without(s, B) \in Seq(E) /\ ToSet(Without(s, B)) = ToSet(s) \ B
<1> DEFINE n == Len(s)
           kept[k \in 0..n] ==
               IF k = 0 THEN <<>>
               ELSE IF s[k] \in B THEN kept[k - 1] ELSE Append(kept[k - 1], s[k])
           G == [p \in Seq(E) \X (1..n) |-> IF s[p[2]] \in B THEN p[1] ELSE Append(p[1], s[p[2]])]
<1>1. n \in Nat /\ \A k \in 1..n : s[k] \in E
  OBVIOUS
<1>2. G \in [Seq(E) \X (1..n) -> Seq(E)]
  BY <1>1
<1>3. <<>> \in Seq(E)
  OBVIOUS
<1>4. PICK g : StepsOf(g, n, Seq(E), <<>>, G)
  <2> HIDE DEF G, n
  <2> QED
    BY <1>1, <1>2, <1>3, StepsExist
<1>5. g = [k \in 0..n |-> IF k = 0 THEN <<>>
                          ELSE IF s[k] \in B THEN g[k - 1] ELSE Append(g[k - 1], s[k])]
  <2>1. ASSUME NEW k \in 1..n
        PROVE  g[k] = IF s[k] \in B THEN g[k - 1] ELSE Append(g[k - 1], s[k])
    <3>1. k - 1 \in 0..n /\ g \in [0..n -> Seq(E)]
      BY <1>4 DEF StepsOf
    <3>2. g[k] = G[<<g[k - 1], k>>] /\ g[k - 1] \in Seq(E)
      BY <1>4, <3>1 DEF StepsOf
    <3> QED
      BY <3>2
  <2>2. g[0] = <<>> /\ DOMAIN g = 0..n /\ g = [k \in DOMAIN g |-> g[k]]
    BY <1>4 DEF StepsOf
  <2> DEFINE e(k) == IF k = 0 THEN <<>>
                     ELSE IF s[k] \in B THEN g[k - 1] ELSE Append(g[k - 1], s[k])
  <2>3. \A k \in 0..n : g[k] = e(k)
    <3> HIDE DEF G
    <3> TAKE k \in 0..n
    <3>1. CASE k = 0
      BY <2>2, <3>1
    <3>2. CASE k # 0
      <4>1. k \in 1..n
        BY <1>1, <3>2
      <4> QED
        BY <2>1, <3>2, <4>1
    <3> QED
      BY <3>1, <3>2
  <2>4. g = [k \in 0..n |-> e(k)]
    <3> HIDE DEF G, n, e
    <3> QED
      BY <2>2, <2>3
  <2> QED
    BY <2>4
<1>6. kept = [k \in 0..n |-> IF k = 0 THEN <<>>
                             ELSE IF s[k] \in B THEN kept[k - 1] ELSE Append(kept[k - 1], s[k])]
  BY <1>5
<1>7. Without(s, B) = kept[n]
  BY DEF Without
<1> HIDE DEF kept, G
<1> DEFINE Right(k) == kept[k] \in Seq(E) /\ ToSet(kept[k]) = {s[i] : i \in 1..k} \ B
           f == [k \in 0..n |-> IF Right(k) THEN 1 ELSE 0]
<1> DEFINE e(k) == IF k = 0 THEN <<>>
                   ELSE IF s[k] \in B THEN kept[k - 1] ELSE Append(kept[k - 1], s[k])
<1>8. \A k \in 0..n : kept[k] = e(k)
  <2>1. kept = [k \in 0..n |-> e(k)]
    BY <1>6
  <2> HIDE DEF e, n
  <2> QED
    BY <2>1
<1>9. kept[0] = <<>> /\ \A k \in 1..n : /\ s[k] \in B => kept[k] = kept[k - 1]
                                        /\ s[k] \notin B => kept[k] = Append(kept[k - 1], s[k])
  <2>1. 0 \in 0..n /\ \A k \in 1..n : k \in 0..n /\ k # 0
    BY <1>1
  <2>2. kept[0] = e(0) /\ \A k \in 1..n : kept[k] = e(k)
    BY <1>8, <2>1
  <2>3. e(0) = <<>>
    OBVIOUS
  <2>4. ASSUME NEW k \in 1..n
        PROVE  e(k) = IF s[k] \in B THEN kept[k - 1] ELSE Append(kept[k - 1], s[k])
    BY <2>1
  <2> HIDE DEF e
  <2> QED
    BY <2>2, <2>3, <2>4
<1>10. Right(0)
  BY <1>3, <1>9 DEF ToSet
<1>11. ASSUME NEW k \in 1..n, Right(k - 1)
       PROVE  Right(k)
  <2>1. {s[i] : i \in 1..k} = {s[i] : i \in 1..k - 1} \cup {s[k]}
    OBVIOUS
  <2>2. s[k] \in E /\ kept[k - 1] \in Seq(E) /\ ToSet(kept[k - 1]) = {s[i] : i \in 1..k - 1} \ B
    BY <1>1, <1>11
  <2>3. CASE s[k] \in B
    BY <1>9, <2>1, <2>2, <2>3
  <2>4. CASE s[k] \notin B
    <3>1. kept[k] = Append(kept[k - 1], s[k])
      BY <1>9, <2>4
    <3>2. kept[k] \in Seq(E) /\ ToSet(kept[k]) = ToSet(kept[k - 1]) \cup {s[k]}
      BY <2>2, <3>1, Appended
    <3> QED
      BY <2>1, <2>2, <2>4, <3>2
  <2> QED
    BY <2>3, <2>4
<1>12. \A k \in 0..n : f[k] \in {1}
  <2>1. \A k \in 1..n : f[k - 1] \in {1} => f[k] \in {1}
    <3> HIDE DEF Right
    <3> TAKE k \in 1..n
    <3>1. k - 1 \in 0..n /\ k \in 0..n
      OBVIOUS
    <3> QED
      BY <3>1, <1>11
  <2>2. f[0] \in {1}
    BY <1>1, <1>10
  <2> HIDE DEF f
  <2> QED
    BY <1>1, <2>1, <2>2, StepsStay
<1>13. Right(n)
  <2> HIDE DEF Right
  <2> QED
    BY <1>1, <1>12
<1>14. {s[i] : i \in 1..n} = ToSet(s)
  BY DEF ToSet
<1> QED
  BY <1>7, <1>13, <1>14

-----------------------------------------------------------------------------
(* The provider, and the end of items.                                       *)

StateName == {"absent", "Uninitialized", "Processing", "Downloading", "Finished"}

\* The type of a provider, with any number of values for an awaiter.
Provider ==
    [ list    : Seq(Item),
      state   : [Item -> StateName],
      request : [Item -> {"none", "queued", "sent"}],
      master  : [Item -> Item \cup {NoMaster}],
      value   : [Item -> Result],
      told    : [Item -> Nat],
      media   : Seq(Item),
      mirrors : [Item -> SUBSET Url],
      mounts  : BOOLEAN,
      file    : [Item -> File \cup {NoFile}],
      trigger : BOOLEAN ]

SameMedia(S, T) ==
    T.media = S.media /\ T.mirrors = S.mirrors /\ T.mounts = S.mounts /\ T.file = S.file

\* The items in B were given v.
Gives(S, T, B, v) ==
    /\ T \in Provider /\ SameMedia(S, T) /\ T.trigger = S.trigger
    /\ T.list = S.list /\ T.state = S.state /\ T.request = S.request /\ T.master = S.master
    /\ \A a \in Item : /\ T.value[a] = IF a \in B THEN v ELSE S.value[a]
                       /\ T.told[a] = IF a \in B THEN S.told[a] + 1 ELSE S.told[a]

\* The items in B have left.
Leaves(S, T, B) ==
    /\ T \in Provider /\ SameMedia(S, T) /\ T.trigger = S.trigger
    /\ ToSet(T.list) = ToSet(S.list) \ B
    /\ T.value = S.value /\ T.told = S.told
    /\ \A a \in Item : /\ T.state[a] = IF a \in B THEN "Finished" ELSE S.state[a]
                       /\ T.request[a] = IF a \in B THEN "none" ELSE S.request[a]
                       /\ T.master[a] = IF a \in B THEN NoMaster ELSE S.master[a]

\* The items in B ended with v; those in twice were told so twice.
EndsAs(S, T, B, v, twice) ==
    /\ T \in Provider /\ SameMedia(S, T) /\ T.trigger = S.trigger
    /\ ToSet(T.list) = ToSet(S.list) \ B
    /\ \A a \in B : /\ T.state[a] = "Finished" /\ T.request[a] = "none"
                    /\ T.master[a] = NoMaster /\ T.value[a] = v
                    /\ T.told[a] = IF a \in twice THEN S.told[a] + 2 ELSE S.told[a] + 1
    /\ \A a \in Item \ B : /\ T.state[a] = S.state[a] /\ T.request[a] = S.request[a]
                           /\ T.master[a] = S.master[a] /\ T.value[a] = S.value[a]
                           /\ T.told[a] = S.told[a]

LEMMA ProviderFields ==
    ASSUME NEW S \in Provider
    PROVE  /\ S.list \in Seq(Item) /\ S.state \in [Item -> StateName]
           /\ S.request \in [Item -> {"none", "queued", "sent"}]
           /\ S.master \in [Item -> Item \cup {NoMaster}]
           /\ S.value \in [Item -> Result] /\ S.told \in [Item -> Nat]
           /\ S.media \in Seq(Item) /\ S.mirrors \in [Item -> SUBSET Url]
           /\ S.mounts \in BOOLEAN /\ S.file \in [Item -> File \cup {NoFile}]
           /\ S.trigger \in BOOLEAN
  BY DEF Provider

LEMMA ValueGiven ==
    ASSUME NEW S \in Provider, NEW B \in SUBSET Item, NEW v \in Result
    PROVE  Gives(S, ReturnValue(S, B, v), B, v)
<1> DEFINE val == Set(S.value, B, v)
           num == [a \in Item |-> IF a \in B THEN S.told[a] + 1 ELSE S.told[a]]
           T   == ReturnValue(S, B, v)
<1>1. T = [S EXCEPT !.value = val, !.told = num]
  BY DEF ReturnValue
<1>2. /\ val \in [Item -> Result] /\ num \in [Item -> Nat]
      /\ \A a \in Item : val[a] = IF a \in B THEN v ELSE S.value[a]
      /\ \A a \in Item : num[a] = IF a \in B THEN S.told[a] + 1 ELSE S.told[a]
  BY ProviderFields DEF Set
<1> HIDE DEF val, num, T
<1>3. /\ T \in Provider /\ T.value = val /\ T.told = num
      /\ T.list = S.list /\ T.state = S.state /\ T.request = S.request /\ T.master = S.master
      /\ T.media = S.media /\ T.mirrors = S.mirrors /\ T.mounts = S.mounts
      /\ T.file = S.file /\ T.trigger = S.trigger
  BY <1>1, <1>2 DEF Provider
<1>4. Gives(S, T, B, v)
  BY <1>2, <1>3 DEF Gives, SameMedia
<1> QED
  BY <1>4 DEF T

LEMMA ItemsLeave ==
    ASSUME NEW S \in Provider, NEW B \in SUBSET Item
    PROVE  Leaves(S, Finished(S, B), B)
<1> DEFINE st  == Set(S.state, B, "Finished")
           req == Set(S.request, B, "none")
           mas == Set(S.master, B, NoMaster)
           lst == Without(S.list, B)
           T   == Finished(S, B)
<1>1. T = [S EXCEPT !.state = st, !.list = lst, !.request = req, !.master = mas]
  BY DEF Finished
<1>2. lst \in Seq(Item) /\ ToSet(lst) = ToSet(S.list) \ B
  BY ProviderFields, WithoutThem
<1>3. /\ st \in [Item -> StateName] /\ req \in [Item -> {"none", "queued", "sent"}]
      /\ mas \in [Item -> Item \cup {NoMaster}]
      /\ \A a \in Item : /\ st[a] = IF a \in B THEN "Finished" ELSE S.state[a]
                         /\ req[a] = IF a \in B THEN "none" ELSE S.request[a]
                         /\ mas[a] = IF a \in B THEN NoMaster ELSE S.master[a]
  BY ProviderFields DEF Set, StateName
<1> HIDE DEF st, req, mas, lst, T
<1>4. /\ T \in Provider /\ T.state = st /\ T.list = lst /\ T.request = req /\ T.master = mas
      /\ T.value = S.value /\ T.told = S.told
      /\ T.media = S.media /\ T.mirrors = S.mirrors /\ T.mounts = S.mounts
      /\ T.file = S.file /\ T.trigger = S.trigger
  BY <1>1, <1>2, <1>3 DEF Provider
<1>5. Leaves(S, T, B)
  BY <1>2, <1>3, <1>4 DEF Leaves, SameMedia
<1> QED
  BY <1>5 DEF T

LEMMA ValueAndLeave ==
    ASSUME NEW S \in Provider, NEW B \in SUBSET Item, NEW v \in Result
    PROVE  EndsAs(S, Finished(ReturnValue(S, B, v), B), B, v, {})
<1> DEFINE R == ReturnValue(S, B, v)
<1>1. Gives(S, R, B, v)
  BY ValueGiven
<1> HIDE DEF R
<1>2. Leaves(R, Finished(R, B), B)
  BY <1>1, ItemsLeave DEF Gives
<1>3. EndsAs(S, Finished(R, B), B, v, {})
  BY <1>1, <1>2 DEF Gives, Leaves, EndsAs, SameMedia
<1> QED
  BY <1>3 DEF R

-----------------------------------------------------------------------------
(* Who listens to whom.                                                      *)

Heard(S, a) == {a} \cup Listeners(S, a)

LEMMA HeardByMany ==
    ASSUME NEW S \in Provider, NEW a \in Item
    PROVE  /\ Heard(S, a) \subseteq Item /\ a \in Heard(S, a) /\ a \notin Listeners(S, a)
           /\ \A b \in Listeners(S, a) : S.master[b] # NoMaster
           /\ \A b \in Item : S.master[b] \in Heard(S, a) => b \in Heard(S, a)
           /\ \A C \in SUBSET Item :
                a \in C /\ (\A b \in Item : S.master[b] \in C => b \in C)
                    => Heard(S, a) \subseteq C
<1>1. Heard(S, a) = {b \in Item : \A C \in ClosedSets(S) : a \in C => b \in C}
  BY DEF Heard, Listeners
<1>2. \A C : C \in ClosedSets(S) <=> C \subseteq Item /\ \A b \in Item : S.master[b] \in C => b \in C
  BY DEF ClosedSets, Connected
<1>3. a \notin Listeners(S, a)
  BY DEF Listeners
<1>4. ASSUME NEW b \in Listeners(S, a)
      PROVE  S.master[b] # NoMaster
  <2> DEFINE C == {a} \cup {c \in Item : S.master[c] # NoMaster}
  <2>1. C \in ClosedSets(S)
    <3>1. NoMaster \notin C
      BY AttachAssumption
    <3> QED
      BY <3>1, <1>2
  <2>2. b \in C /\ b # a
    BY <2>1 DEF Listeners
  <2> QED
    BY <2>2
<1>5. ASSUME NEW b \in Item, S.master[b] \in Heard(S, a)
      PROVE  b \in Heard(S, a)
  BY <1>1, <1>2, <1>5
<1> QED
  BY <1>1, <1>2, <1>3, <1>4, <1>5

LEMMA SameMasters ==
    ASSUME NEW S, NEW T, S.master = T.master, NEW a
    PROVE  Listeners(S, a) = Listeners(T, a)
  BY DEF Listeners, ClosedSets, Connected
-----------------------------------------------------------------------------
(* What the handlers make of the end of an item.                             *)

LEMMA EndsLater ==
    ASSUME NEW S, NEW T, NEW U, NEW B \in SUBSET Item, NEW C \in SUBSET Item, NEW v,
           S \in Provider, EndsAs(S, T, B, v, {}), EndsAs(T, U, C, v, {})
    PROVE  EndsAs(S, U, B \cup C, v, B \cap C)
<1>1. U \in Provider /\ SameMedia(S, U) /\ U.trigger = S.trigger
  BY DEF EndsAs, SameMedia
<1>2. ToSet(U.list) = ToSet(S.list) \ (B \cup C)
  BY DEF EndsAs
<1>3. S.told \in [Item -> Nat]
  BY ProviderFields
<1>4. ASSUME NEW a \in B \cup C
      PROVE  /\ U.state[a] = "Finished" /\ U.request[a] = "none"
             /\ U.master[a] = NoMaster /\ U.value[a] = v
             /\ U.told[a] = IF a \in B \cap C THEN S.told[a] + 2 ELSE S.told[a] + 1
  <2>1. S.told[a] \in Nat
    BY <1>3
  <2> QED
    BY <2>1 DEF EndsAs
<1>5. \A a \in Item \ (B \cup C) :
        /\ U.state[a] = S.state[a] /\ U.request[a] = S.request[a]
        /\ U.master[a] = S.master[a] /\ U.value[a] = S.value[a] /\ U.told[a] = S.told[a]
  BY DEF EndsAs
<1> QED
  BY <1>1, <1>2, <1>4, <1>5 DEF EndsAs

LEMMA ReadyEmitted ==
    ASSUME NEW S \in Provider, NEW a \in Item, NEW v \in Result
    PROVE  EndsAs(S, EmitReady(S, a, v), Listeners(S, a), v, {})
  BY ValueAndLeave DEF EmitReady, Listeners

LEMMA SuccessEnds ==
    ASSUME NEW S \in Provider, NEW a \in Item, NEW m \in Item
    PROVE  EndsAs(S, FinishWithSuccess(S, a, m), Heard(S, a), m, {})
<1> DEFINE R == ReturnValue(S, {a}, m)
           E == EmitReady(R, a, m)
           T == Finished(E, {a})
           L == Listeners(S, a)
<1>1. m \in Result
  BY DEF Result
<1>2. Gives(S, R, {a}, m)
  BY <1>1, ValueGiven
<1>3. R \in Provider /\ Listeners(R, a) = L
  BY <1>2, SameMasters DEF Gives
<1> HIDE DEF R
<1>4. EndsAs(R, E, L, m, {})
  BY <1>1, <1>3, ReadyEmitted
<1> HIDE DEF E
<1>5. Leaves(E, T, {a})
  BY <1>4, ItemsLeave DEF EndsAs
<1>6. a \notin L /\ L \subseteq Item
  BY DEF Listeners
<1> HIDE DEF T, L
<1>7. EndsAs(S, T, {a} \cup L, m, {})
  <2>1. T \in Provider /\ SameMedia(S, T) /\ T.trigger = S.trigger
    BY <1>2, <1>4, <1>5 DEF Gives, EndsAs, Leaves, SameMedia
  <2>2. ToSet(T.list) = ToSet(S.list) \ ({a} \cup L)
    BY <1>2, <1>4, <1>5 DEF Gives, EndsAs, Leaves
  <2>3. ASSUME NEW b \in {a} \cup L
        PROVE  /\ T.state[b] = "Finished" /\ T.request[b] = "none"
               /\ T.master[b] = NoMaster /\ T.value[b] = m /\ T.told[b] = S.told[b] + 1
    BY <1>2, <1>4, <1>5, <1>6 DEF Gives, EndsAs, Leaves
  <2>4. ASSUME NEW b \in Item \ ({a} \cup L)
        PROVE  /\ T.state[b] = S.state[b] /\ T.request[b] = S.request[b]
               /\ T.master[b] = S.master[b] /\ T.value[b] = S.value[b] /\ T.told[b] = S.told[b]
    BY <1>2, <1>4, <1>5, <1>6 DEF Gives, EndsAs, Leaves
  <2> QED
    BY <2>1, <2>2, <2>3, <2>4 DEF EndsAs
<1> QED
  BY <1>7 DEF T, E, R, L, FinishWithSuccess, Heard

LEMMA FailureEnds ==
    ASSUME NEW S \in Provider, NEW a \in Item
    PROVE  EndsAs(S, FailItem(S, a), Heard(S, a), "error", {})
<1> DEFINE E == EmitReady(S, a, "error")
           T == Finished(ReturnValue(E, {a}, "error"), {a})
           L == Listeners(S, a)
<1>1. "error" \in Result /\ a \notin L /\ L \subseteq Item
  BY DEF Result, Listeners
<1>2. EndsAs(S, E, L, "error", {})
  BY <1>1, ReadyEmitted
<1> HIDE DEF E
<1>3. EndsAs(E, T, {a}, "error", {})
  <2>1. E \in Provider
    BY <1>2 DEF EndsAs
  <2> QED
    BY <1>1, <2>1, ValueAndLeave
<1> HIDE DEF T, L
<1>4. EndsAs(S, T, L \cup {a}, "error", L \cap {a})
  BY <1>1, <1>2, <1>3, EndsLater
<1>5. L \cup {a} = Heard(S, a) /\ L \cap {a} = {}
  BY <1>1 DEF L, Heard
<1> QED
  BY <1>4, <1>5 DEF T, E, FailItem

\* The signal is emitted twice for an item with a request, but the second
\* time nobody listens.
LEMMA CancelEnds ==
    ASSUME NEW S \in Provider, NEW a \in Item
    PROVE  EndsAs(S, CancelWithError(S, a), Heard(S, a), "error",
                  IF S.request[a] = "none" THEN {} ELSE {a})
<1> DEFINE E == EmitReady(S, a, "error")
           F == FailItem(E, a)
           T == Finished(ReturnValue(F, {a}, "error"), {a})
           L == Listeners(S, a)
<1>1. CASE S.request[a] = "none"
  BY <1>1, FailureEnds DEF CancelWithError
<1>2. CASE S.request[a] # "none"
  <2>1. "error" \in Result /\ a \notin L /\ L \subseteq Item
    BY DEF Result, Listeners
  <2>2. EndsAs(S, E, L, "error", {})
    BY <2>1, ReadyEmitted
  <2>3. CancelWithError(S, a) = T
    BY <1>2 DEF CancelWithError
  <2>4. Heard(S, a) = {a} \cup L
    BY DEF Heard
  <2> HIDE DEF E, L
  <2>5. Heard(E, a) = {a}
    <3>1. \A b \in Item : E.master[b] \in {a} => b \in {a}
      <4>1. \A b \in L : E.master[b] = NoMaster
        BY <2>2 DEF EndsAs
      <4>2. \A b \in Item \ L : E.master[b] = S.master[b]
        BY <2>2 DEF EndsAs
      <4>3. \A b \in Item : S.master[b] \in Heard(S, a) => b \in Heard(S, a)
        BY HeardByMany
      <4>4. a # NoMaster
        BY AttachAssumption
      <4> QED
        BY <4>1, <4>2, <4>3, <4>4, <2>4
    <3>2. E \in Provider
      BY <2>2 DEF EndsAs
    <3>3. /\ a \in Heard(E, a)
          /\ \A C \in SUBSET Item :
               a \in C /\ (\A b \in Item : E.master[b] \in C => b \in C)
                   => Heard(E, a) \subseteq C
      BY <3>2, HeardByMany
    <3>4. Heard(E, a) \subseteq {a}
      BY <3>1, <3>3
    <3> QED
      BY <3>3, <3>4
  <2>6. E \in Provider /\ EndsAs(E, F, {a}, "error", {})
    <3>1. E \in Provider
      BY <2>2 DEF EndsAs
    <3> QED
      BY <2>5, <3>1, FailureEnds
  <2> HIDE DEF F
  <2>7. EndsAs(F, T, {a}, "error", {})
    <3>1. F \in Provider
      BY <2>6 DEF EndsAs
    <3> QED
      BY <2>1, <3>1, ValueAndLeave
  <2> HIDE DEF T
  <2>8. EndsAs(S, F, L \cup {a}, "error", L \cap {a})
    BY <2>1, <2>2, <2>6, EndsLater
  <2>9. L \cap {a} = {} /\ (L \cup {a}) \cup {a} = Heard(S, a) /\ (L \cup {a}) \cap {a} = {a}
        /\ L \cup {a} \in SUBSET Item
    BY <2>1, <2>4
  <2>10. EndsAs(S, T, (L \cup {a}) \cup {a}, "error", (L \cup {a}) \cap {a})
    BY <2>7, <2>8, <2>9, EndsLater
  <2> QED
    BY <1>2, <2>3, <2>9, <2>10
<1> QED
  BY <1>1, <1>2

-----------------------------------------------------------------------------
(* The inductive invariant.                                                  *)

Open == {"Uninitialized", "Processing", "Downloading"}

\* Who waits for a master has no request; somebody it hears from has one.
WaitersOK(S) ==
    \A a \in Item : S.master[a] # NoMaster =>
        /\ S.state[a] = "Processing" /\ S.request[a] = "none"
        /\ \E b \in Item : S.request[b] # "none" /\ a \in Listeners(S, b)

\* Who is busy and waits for nobody has a request, but for those in X, which
\* are about to get one or to end.
RequestsOK(S, X) ==
    \A a \in Item :
        /\ S.request[a] # "none" => S.state[a] \in Busy
        /\ a \notin X /\ S.state[a] \in Busy /\ S.master[a] = NoMaster => S.request[a] # "none"

\* No two requests are for the same medium.
ApartOK(S) ==
    \A a, b \in Item :
        a # b /\ S.request[a] # "none" /\ S.request[b] # "none" => ~SameOrigin(S, a, b)

ListOK(S) == \A a \in Item : S.state[a] \in Open => a \in ToSet(S.list)

ItemsOK(S, X) ==
    S \in Provider /\ WaitersOK(S) /\ RequestsOK(S, X) /\ ApartOK(S) /\ ListOK(S)

\* What the owner of an item, a task in the state t[a], was told: nothing as long as the
\* item is open, one value when it has finished, and of a medium that value
\* refers to is attached.
OwnerOK(S, t, a) ==
    /\ S.state[a] \in Open => S.told[a] = 0 /\ S.value[a] = "none" /\ t[a] = "waits"
    /\ S.state[a] = "absent" => /\ S.told[a] = 0 /\ t[a] \in {"none", "attached", "gone"}
                                /\ t[a] = "none" => S.value[a] = "none"
    /\ S.state[a] = "Finished" => /\ S.value[a] # "none" /\ t[a] # "none"
                                  /\ S.told[a] \in {1, 2}
                                  /\ t[a] # "destroyed" => S.told[a] = 1
    /\ t[a] = "attached" => S.value[a] \in Item
    /\ t[a] = "woken" => S.state[a] = "Finished"
    /\ t[a] \in {"waits", "woken", "attached"} /\ S.value[a] \in Item
          => S.value[a] \in ToSet(S.media)

OwnersOK(S, t) == \A a \in Item : OwnerOK(S, t, a)

\* Between two steps a task that waits has an open item: it is woken in the same
\* step in which the item finishes.
AttachInv ==
    /\ ItemsOK(at, {}) /\ OwnersOK(at, task)
    /\ task \in [Item -> TaskState] /\ wake \subseteq Item
    /\ process \in {"stopped", "runs", "crashed"}
    /\ \A a \in Item : task[a] = "waits" => at.state[a] \in Open

-----------------------------------------------------------------------------
(* When items end.                                                           *)

\* A set of items that are not alone with somebody who listens to them.
LEMMA RestListens ==
    ASSUME NEW S \in Provider, NEW T, NEW B \in SUBSET Item, NEW v, NEW twice,
           \A b \in Item : S.master[b] \in B => b \in B,
           EndsAs(S, T, B, v, twice),
           NEW b \in Item \ B, NEW a \in Item \ B, a \in Listeners(S, b)
    PROVE  a \in Listeners(T, b)
<1>1. T \in Provider /\ \A c \in Item \ B : T.master[c] = S.master[c]
  BY DEF EndsAs
<1>2. /\ Heard(T, b) \subseteq Item /\ b \in Heard(T, b)
      /\ \A c \in Item : T.master[c] \in Heard(T, b) => c \in Heard(T, b)
  BY <1>1, HeardByMany
<1> DEFINE C == Heard(T, b) \cup B
<1>3. C \in SUBSET Item /\ b \in C /\ (\A c \in Item : S.master[c] \in C => c \in C)
  BY <1>1, <1>2
<1>4. Heard(S, b) \subseteq C
  BY <1>3, HeardByMany
<1>5. a \in Heard(T, b)
  BY <1>4 DEF Heard
<1>6. a # b
  BY DEF Listeners
<1> QED
  BY <1>5, <1>6 DEF Heard

LEMMA EndedItems ==
    ASSUME NEW S, NEW X, ItemsOK(S, X), NEW T, NEW B \in SUBSET Item, X \subseteq B,
           NEW v, NEW twice,
           \A b \in Item : S.master[b] \in B => b \in B,
           EndsAs(S, T, B, v, twice)
    PROVE  ItemsOK(T, {})
<1>1. S \in Provider /\ T \in Provider
  BY DEF ItemsOK, EndsAs
<1>2. /\ \A a \in B : T.state[a] = "Finished" /\ T.request[a] = "none" /\ T.master[a] = NoMaster
      /\ \A a \in Item \ B : /\ T.state[a] = S.state[a] /\ T.request[a] = S.request[a]
                             /\ T.master[a] = S.master[a]
      /\ ToSet(T.list) = ToSet(S.list) \ B /\ T.file = S.file
  BY DEF EndsAs, SameMedia
<1>3. WaitersOK(T)
  <2> SUFFICES ASSUME NEW a \in Item, T.master[a] # NoMaster
               PROVE  /\ T.state[a] = "Processing" /\ T.request[a] = "none"
                      /\ \E b \in Item : T.request[b] # "none" /\ a \in Listeners(T, b)
    BY DEF WaitersOK
  <2>1. a \in Item \ B /\ S.master[a] # NoMaster
    BY <1>2
  <2>2. /\ S.state[a] = "Processing" /\ S.request[a] = "none"
    BY <2>1 DEF ItemsOK, WaitersOK
  <2>3. PICK b \in Item : S.request[b] # "none" /\ a \in Listeners(S, b)
    BY <2>1 DEF ItemsOK, WaitersOK
  <2>4. b \notin B
    <3> SUFFICES ASSUME b \in B PROVE FALSE
      OBVIOUS
    <3>1. Heard(S, b) \subseteq B
      BY <1>1, HeardByMany
    <3> QED
      BY <2>1, <2>3, <3>1 DEF Heard
  <2>5. a \in Listeners(T, b)
    BY <1>1, <2>1, <2>3, <2>4, RestListens
  <2> QED
    BY <1>2, <2>1, <2>2, <2>3, <2>4, <2>5
<1>4. RequestsOK(T, {})
  <2> SUFFICES ASSUME NEW a \in Item
               PROVE  /\ T.request[a] # "none" => T.state[a] \in Busy
                      /\ T.state[a] \in Busy /\ T.master[a] = NoMaster => T.request[a] # "none"
    BY DEF RequestsOK
  <2>1. CASE a \in B
    BY <1>2, <2>1 DEF Busy
  <2>2. CASE a \notin B
    BY <1>2, <2>2 DEF ItemsOK, RequestsOK
  <2> QED
    BY <2>1, <2>2
<1>5. ApartOK(T)
  BY <1>2 DEF ItemsOK, ApartOK, SameOrigin
<1>6. ListOK(T)
  BY <1>2 DEF ItemsOK, ListOK, Open
<1> QED
  BY <1>1, <1>3, <1>4, <1>5, <1>6 DEF ItemsOK

LEMMA EndedOwners ==
    ASSUME NEW S \in Provider, NEW T, NEW t, NEW B \in SUBSET Item, NEW v,
           OwnersOK(S, t), EndsAs(S, T, B, v, {}),
           v \in Item \cup {"error"}, v \in Item => v \in ToSet(S.media),
           \A a \in B : S.state[a] \in Open
    PROVE  OwnersOK(T, t)
<1> SUFFICES ASSUME NEW a \in Item PROVE OwnerOK(T, t, a)
  BY DEF OwnersOK
<1>1. OwnerOK(S, t, a)
  BY DEF OwnersOK
<1>2. T.media = S.media
  BY DEF EndsAs, SameMedia
<1>3. CASE a \in B
  <2>1. /\ T.state[a] = "Finished" /\ T.value[a] = v /\ T.told[a] = S.told[a] + 1
    BY <1>3 DEF EndsAs
  <2>2. S.told[a] = 0 /\ t[a] = "waits"
    BY <1>1, <1>3 DEF OwnerOK
  <2>3. v # "none"
    BY AttachAssumption
  <2> QED
    BY <1>2, <2>1, <2>2, <2>3 DEF OwnerOK, Open
<1>4. CASE a \notin B
  <2>1. T.state[a] = S.state[a] /\ T.value[a] = S.value[a] /\ T.told[a] = S.told[a]
    BY <1>4 DEF EndsAs
  <2> QED
    BY <1>1, <1>2, <2>1 DEF OwnerOK
<1> QED
  BY <1>3, <1>4

\* An item that ends with those who hear it.
LEMMA OneEnds ==
    ASSUME NEW S, NEW X, ItemsOK(S, X), NEW a \in Item, X \subseteq {a}, NEW T, NEW v,
           NEW t, OwnersOK(S, t), EndsAs(S, T, Heard(S, a), v, {}),
           v \in Item \cup {"error"}, v \in Item => v \in ToSet(S.media),
           S.state[a] \in Open
    PROVE  ItemsOK(T, {}) /\ OwnersOK(T, t)
<1>1. S \in Provider
  BY DEF ItemsOK
<1>2. /\ Heard(S, a) \in SUBSET Item /\ a \in Heard(S, a)
      /\ \A b \in Item : S.master[b] \in Heard(S, a) => b \in Heard(S, a)
      /\ \A b \in Listeners(S, a) : S.master[b] # NoMaster
  BY <1>1, HeardByMany
<1>3. \A b \in Heard(S, a) : S.state[b] \in Open
  <2>1. \A b \in Listeners(S, a) : S.state[b] = "Processing"
    BY <1>2 DEF ItemsOK, WaitersOK, Heard
  <2> QED
    BY <2>1 DEF Heard, Open
<1>4. ItemsOK(T, {})
  BY <1>2, EndedItems
<1>5. OwnersOK(T, t)
  BY <1>1, <1>2, <1>3, EndedOwners
<1> QED
  BY <1>4, <1>5

-----------------------------------------------------------------------------
(* Media.                                                                    *)

SameItems(S, T) ==
    /\ T \in Provider /\ T.list = S.list /\ T.state = S.state /\ T.request = S.request
    /\ T.master = S.master /\ T.file = S.file /\ T.value = S.value /\ T.told = S.told

LEMMA ItemsStay ==
    ASSUME NEW S, NEW T, NEW X, SameItems(S, T), ItemsOK(S, X)
    PROVE  ItemsOK(T, X)
<1>1. \A b : Listeners(T, b) = Listeners(S, b)
  BY SameMasters DEF SameItems
<1>2. WaitersOK(T)
  BY <1>1 DEF SameItems, ItemsOK, WaitersOK
<1>3. RequestsOK(T, X) /\ ApartOK(T) /\ ListOK(T)
  BY DEF SameItems, ItemsOK, RequestsOK, ApartOK, ListOK, SameOrigin
<1> QED
  BY <1>2, <1>3 DEF SameItems, ItemsOK

LEMMA OwnersStay ==
    ASSUME NEW S, NEW T, NEW t, SameItems(S, T), OwnersOK(S, t),
           \A a \in Item : /\ t[a] \in {"waits", "woken", "attached"}
                           /\ S.value[a] \in Item /\ S.value[a] \in ToSet(S.media)
                           => S.value[a] \in ToSet(T.media)
    PROVE  OwnersOK(T, t)
<1> SUFFICES ASSUME NEW a \in Item PROVE OwnerOK(T, t, a)
  BY DEF OwnersOK
<1>1. OwnerOK(S, t, a)
  BY DEF OwnersOK
<1> QED
  BY <1>1 DEF SameItems, OwnerOK

LEMMA MediumAdded ==
    ASSUME NEW S \in Provider, NEW a \in Item, NEW U \in SUBSET Url
    PROVE  /\ SameItems(S, AddMedium(S, a, U))
           /\ ToSet(AddMedium(S, a, U).media) = ToSet(S.media) \cup {a}
<1> DEFINE T   == AddMedium(S, a, U)
           mir == [S.mirrors EXCEPT ![a] = U]
           med == Append(S.media, a)
<1>1. T = [S EXCEPT !.media = med, !.mirrors = mir]
  BY DEF AddMedium
<1>2. mir \in [Item -> SUBSET Url] /\ med \in Seq(Item) /\ ToSet(med) = ToSet(S.media) \cup {a}
  BY ProviderFields, Appended
<1> HIDE DEF T, mir, med
<1>3. /\ T \in Provider /\ T.media = med
      /\ T.list = S.list /\ T.state = S.state /\ T.request = S.request /\ T.master = S.master
      /\ T.value = S.value /\ T.told = S.told /\ T.file = S.file
  BY <1>1, <1>2 DEF Provider
<1>4. SameItems(S, T) /\ ToSet(T.media) = ToSet(S.media) \cup {a}
  BY <1>2, <1>3 DEF SameItems
<1> QED
  BY <1>4 DEF T

\* What is forgotten is no medium an owner has, or is going to have.
LEMMA CleanedUp ==
    ASSUME NEW S \in Provider, NEW expired, ItemsOK(S, {}), OwnersOK(S, task)
    PROVE  ItemsOK(CleanUp(S, expired), {}) /\ OwnersOK(CleanUp(S, expired), task)
<1> DEFINE T    == CleanUp(S, expired)
           gone == {m \in Item : ~Referenced(S, m) /\ (S.mounts \/ m \in expired)}
           med  == Without(S.media, gone)
<1>1. T = [S EXCEPT !.media = med]
  BY DEF CleanUp
<1>2. med \in Seq(Item) /\ ToSet(med) = ToSet(S.media) \ gone
  BY ProviderFields, WithoutThem
<1>3. \A a \in Item : task[a] \in {"waits", "woken", "attached"} => S.value[a] \notin gone
  BY DEF Referenced
<1> HIDE DEF T, med, gone
<1>4. /\ T \in Provider /\ T.media = med
      /\ T.list = S.list /\ T.state = S.state /\ T.request = S.request /\ T.master = S.master
      /\ T.value = S.value /\ T.told = S.told /\ T.file = S.file
  BY <1>1, <1>2 DEF Provider
<1>5. SameItems(S, T)
  BY <1>4 DEF SameItems
<1>6. ItemsOK(T, {})
  BY <1>5, ItemsStay
<1>7. OwnersOK(T, task)
  BY <1>2, <1>3, <1>4, <1>5, OwnersStay
<1> QED
  BY <1>6, <1>7 DEF T

LEMMA MediumFound ==
    ASSUME NEW S \in Provider, NEW a \in Item
    PROVE  /\ AttachedFor(S, a) \in Nat
           /\ AttachedFor(S, a) # 0 => /\ S.media[AttachedFor(S, a)] \in ToSet(S.media)
                                       /\ S.media[AttachedFor(S, a)] \in Item
<1> DEFINE I == {i \in 1..Len(S.media) : SameMedium(S.file[S.media[i]], S.mirrors[S.media[i]],
                                                    S.file[a], UrlsOf[a])}
<1>1. AttachedFor(S, a) = IF I # {} THEN Min(I) ELSE 0
  BY DEF AttachedFor, SelectInSeq
<1>2. S.media \in Seq(Item)
  BY ProviderFields
<1>3. I # {} => Min(I) \in I
  <2>1. I \subseteq Nat
    BY <1>2
  <2> HIDE DEF I
  <2> QED
    BY <2>1, SmallestExists
<1>4. \A i \in I : i \in Nat /\ i # 0 /\ S.media[i] \in ToSet(S.media) /\ S.media[i] \in Item
  BY <1>2 DEF ToSet
<1> HIDE DEF I
<1> QED
  BY <1>1, <1>3, <1>4

LEMMA MasterFound ==
    ASSUME NEW S \in Provider, NEW a \in Item
    PROVE  /\ MasterOf(S, a) \in Nat
           /\ MasterOf(S, a) # 0 =>
                 LET b == S.list[MasterOf(S, a)]
                 IN  b \in Item /\ b # a /\ S.state[b] \in Busy
           /\ MasterOf(S, a) = 0 =>
                 \A b \in ToSet(S.list) : b # a /\ S.state[b] \in Busy => ~SameOrigin(S, a, b)
<1> DEFINE I == {i \in 1..Len(S.list) : /\ S.list[i] # a /\ S.state[S.list[i]] \in Busy
                                        /\ SameOrigin(S, a, S.list[i])}
<1>1. MasterOf(S, a) = IF I # {} THEN Min(I) ELSE 0
  BY DEF MasterOf, SelectInSeq
<1>2. S.list \in Seq(Item)
  BY ProviderFields
<1>3. I # {} => Min(I) \in I
  <2>1. I \subseteq Nat
    BY <1>2
  <2> HIDE DEF I
  <2> QED
    BY <2>1, SmallestExists
<1>4. I = {} => \A b \in ToSet(S.list) : b # a /\ S.state[b] \in Busy => ~SameOrigin(S, a, b)
  BY <1>2 DEF ToSet
<1>5. \A i \in I : /\ i \in Nat /\ i # 0
                    /\ S.list[i] \in Item /\ S.list[i] # a /\ S.state[S.list[i]] \in Busy
  BY <1>2
<1> HIDE DEF I
<1> DEFINE m == MasterOf(S, a)
<1>6. m = IF I # {} THEN Min(I) ELSE 0
  BY <1>1
<1> HIDE DEF m
<1>7. m \in Nat /\ (m # 0 => m \in I) /\ (m = 0 => I = {})
  BY <1>3, <1>5, <1>6
<1>8. m # 0 => S.list[m] \in Item /\ S.list[m] # a /\ S.state[S.list[m]] \in Busy
  BY <1>5, <1>7
<1> QED
  BY <1>4, <1>7, <1>8 DEF m

-----------------------------------------------------------------------------
(* initialize()                                                              *)

\* Only the state, the request and the master of a may have changed.
Changed(S, T, a, st, req, mas) ==
    /\ T \in Provider /\ T.list = S.list /\ T.value = S.value /\ T.told = S.told
    /\ T.media = S.media /\ T.mounts = S.mounts /\ T.file = S.file
    /\ T.state[a] = st /\ T.request[a] = req /\ T.master[a] = mas
    /\ \A b \in Item \ {a} : /\ T.state[b] = S.state[b] /\ T.request[b] = S.request[b]
                             /\ T.master[b] = S.master[b]

LEMMA ProcessingChanged ==
    ASSUME NEW S \in Provider, NEW a \in Item
    PROVE  Changed(S, [S EXCEPT !.state[a] = "Processing"], a, "Processing", S.request[a], S.master[a])
<1> DEFINE st == [S.state EXCEPT ![a] = "Processing"]
           T  == [S EXCEPT !.state[a] = "Processing"]
<1>1. T = [S EXCEPT !.state = st]
  OBVIOUS
<1>2. /\ st \in [Item -> StateName] /\ st[a] = "Processing"
      /\ \A b \in Item \ {a} : st[b] = S.state[b]
  BY ProviderFields DEF StateName
<1> HIDE DEF T, st
<1>3. /\ T \in Provider /\ T.state = st /\ T.list = S.list /\ T.value = S.value
      /\ T.told = S.told /\ T.media = S.media /\ T.mounts = S.mounts /\ T.file = S.file
      /\ T.request = S.request /\ T.master = S.master
  BY <1>1, <1>2 DEF Provider
<1>4. Changed(S, T, a, "Processing", S.request[a], S.master[a])
  BY <1>2, <1>3 DEF Changed
<1> QED
  BY <1>4 DEF T

LEMMA MasterChanged ==
    ASSUME NEW S \in Provider, NEW a \in Item, NEW b \in Item
    PROVE  Changed(S, [S EXCEPT !.master[a] = b], a, S.state[a], S.request[a], b)
<1> DEFINE mas == [S.master EXCEPT ![a] = b]
           T   == [S EXCEPT !.master[a] = b]
<1>1. T = [S EXCEPT !.master = mas]
  OBVIOUS
<1>2. /\ mas \in [Item -> Item \cup {NoMaster}] /\ mas[a] = b
      /\ \A c \in Item \ {a} : mas[c] = S.master[c]
  BY ProviderFields
<1> HIDE DEF T, mas
<1>3. /\ T \in Provider /\ T.master = mas /\ T.list = S.list /\ T.value = S.value
      /\ T.told = S.told /\ T.media = S.media /\ T.mounts = S.mounts /\ T.file = S.file
      /\ T.request = S.request /\ T.state = S.state
  BY <1>1, <1>2 DEF Provider
<1>4. Changed(S, T, a, S.state[a], S.request[a], b)
  BY <1>2, <1>3 DEF Changed
<1> QED
  BY <1>4 DEF T

LEMMA RequestChanged ==
    ASSUME NEW S \in Provider, NEW a \in Item
    PROVE  Changed(S, EnqueueRequest(S, a), a,
                   IF S.mounts THEN S.state[a] ELSE "Downloading", "queued", S.master[a])
<1> DEFINE new == IF S.mounts THEN S.state[a] ELSE "Downloading"
           st  == [S.state EXCEPT ![a] = new]
           req == [S.request EXCEPT ![a] = "queued"]
           T   == EnqueueRequest(S, a)
<1>1. T = [S EXCEPT !.request = req, !.state = st]
  BY DEF EnqueueRequest
<1>2. /\ st \in [Item -> StateName] /\ st[a] = new
      /\ req \in [Item -> {"none", "queued", "sent"}] /\ req[a] = "queued"
      /\ \A b \in Item \ {a} : st[b] = S.state[b] /\ req[b] = S.request[b]
  BY ProviderFields DEF StateName
<1> HIDE DEF T, st, req, new
<1>3. /\ T \in Provider /\ T.state = st /\ T.list = S.list /\ T.value = S.value
      /\ T.told = S.told /\ T.media = S.media /\ T.mounts = S.mounts /\ T.file = S.file
      /\ T.request = req /\ T.master = S.master
  BY <1>1, <1>2 DEF Provider
<1>4. Changed(S, T, a, new, "queued", S.master[a])
  BY <1>2, <1>3 DEF Changed
<1> QED
  BY <1>4 DEF T, new

LEMMA ChangedOwners ==
    ASSUME NEW S, NEW T, NEW a \in Item, NEW st \in Open, NEW req, NEW mas, NEW t,
           Changed(S, T, a, st, req, mas), OwnersOK(S, t), S.state[a] \in Open
    PROVE  OwnersOK(T, t)
<1> SUFFICES ASSUME NEW b \in Item PROVE OwnerOK(T, t, b)
  BY DEF OwnersOK
<1>1. OwnerOK(S, t, b)
  BY DEF OwnersOK
<1>2. T.value = S.value /\ T.told = S.told /\ T.media = S.media
  BY DEF Changed
<1>3. CASE b = a
  <2>1. T.state[a] \in Open
    BY DEF Changed
  <2> QED
    BY <1>1, <1>2, <1>3, <2>1 DEF OwnerOK, Open
<1>4. CASE b # a
  <2>1. T.state[b] = S.state[b]
    BY <1>4 DEF Changed
  <2> QED
    BY <1>1, <1>2, <2>1 DEF OwnerOK
<1> QED
  BY <1>3, <1>4

\* An item without master that is given one more listener keeps the others.
LEMMA StillHeard ==
    ASSUME NEW S \in Provider, NEW T \in Provider, NEW a \in Item, S.master[a] = NoMaster,
           \A c \in Item \ {a} : T.master[c] = S.master[c],
           NEW b \in Item
    PROVE  Listeners(S, b) \subseteq Listeners(T, b)
<1>1. /\ Heard(T, b) \subseteq Item /\ b \in Heard(T, b)
      /\ \A c \in Item : T.master[c] \in Heard(T, b) => c \in Heard(T, b)
  BY HeardByMany
<1>2. \A c \in Item : S.master[c] \in Heard(T, b) => c \in Heard(T, b)
  <2>1. NoMaster \notin Heard(T, b)
    BY <1>1, AttachAssumption
  <2> QED
    BY <1>1, <2>1
<1>3. Heard(S, b) \subseteq Heard(T, b)
  BY <1>1, <1>2, HeardByMany
<1>4. b \notin Listeners(S, b)
  BY DEF Listeners
<1> QED
  BY <1>3, <1>4 DEF Heard

\* The item has left the state Uninitialized, and nothing else has happened.
LEMMA ItemStarts ==
    ASSUME NEW S, NEW a \in Item, ItemsOK(S, {}), S.state[a] = "Uninitialized",
           NEW T, Changed(S, T, a, "Processing", S.request[a], S.master[a])
    PROVE  ItemsOK(T, {a}) /\ T.request[a] = "none" /\ T.master[a] = NoMaster
<1>1. S \in Provider /\ T \in Provider
  BY DEF ItemsOK, Changed
<1>2. S.request[a] = "none" /\ S.master[a] = NoMaster
  BY DEF ItemsOK, WaitersOK, RequestsOK, Busy
<1>3. S.master = T.master
  <2>1. S.master \in [Item -> Item \cup {NoMaster}] /\ T.master \in [Item -> Item \cup {NoMaster}]
    BY <1>1, ProviderFields
  <2>2. \A b \in Item : S.master[b] = T.master[b]
    BY DEF Changed
  <2> QED
    BY <2>1, <2>2
<1>4. \A b : Listeners(T, b) = Listeners(S, b)
  BY <1>3, SameMasters
<1>5. WaitersOK(T)
  BY <1>2, <1>4 DEF ItemsOK, WaitersOK, Changed
<1>6. RequestsOK(T, {a})
  BY <1>2 DEF ItemsOK, RequestsOK, Changed
<1>7. ApartOK(T)
  <2>1. \A b \in Item : T.request[b] = S.request[b]
    BY DEF Changed
  <2>2. T.file = S.file
    BY DEF Changed
  <2> QED
    BY <2>1, <2>2 DEF ItemsOK, ApartOK, SameOrigin
<1>8. ListOK(T)
  BY DEF ItemsOK, ListOK, Changed, Open
<1> QED
  BY <1>1, <1>2, <1>5, <1>6, <1>7, <1>8 DEF ItemsOK, Changed

LEMMA ItemWaits ==
    ASSUME NEW S, NEW a \in Item, ItemsOK(S, {a}), S.state[a] = "Processing",
           S.request[a] = "none", S.master[a] = NoMaster,
           NEW c \in Item, c # a, S.state[c] \in Busy,
           NEW T, Changed(S, T, a, S.state[a], S.request[a], c)
    PROVE  ItemsOK(T, {})
<1>1. S \in Provider /\ T \in Provider
  BY DEF ItemsOK, Changed
<1>2. \A b \in Item : S.state[b] = T.state[b] /\ S.request[b] = T.request[b]
  BY DEF Changed
<1>3. \A b \in Item \ {a} : T.master[b] = S.master[b]
  BY DEF Changed
<1>4. \A b \in Item : Listeners(S, b) \subseteq Listeners(T, b)
  BY <1>1, <1>3, StillHeard
<1>5. \E b \in Item : T.request[b] # "none" /\ c \in Heard(T, b)
  <2>1. CASE S.master[c] = NoMaster
    <3>1. S.request[c] # "none"
      BY <2>1 DEF ItemsOK, RequestsOK
    <3> QED
      BY <1>2, <3>1 DEF Heard
  <2>2. CASE S.master[c] # NoMaster
    <3>1. PICK b \in Item : S.request[b] # "none" /\ c \in Listeners(S, b)
      BY <2>2 DEF ItemsOK, WaitersOK
    <3> QED
      BY <1>2, <1>4, <3>1 DEF Heard
  <2> QED
    BY <2>1, <2>2
<1>6. WaitersOK(T)
  <2> SUFFICES ASSUME NEW b \in Item, T.master[b] # NoMaster
               PROVE  /\ T.state[b] = "Processing" /\ T.request[b] = "none"
                      /\ \E d \in Item : T.request[d] # "none" /\ b \in Listeners(T, d)
    BY DEF WaitersOK
  <2>1. CASE b = a
    <3>1. PICK d \in Item : T.request[d] # "none" /\ c \in Heard(T, d)
      BY <1>5
    <3>2. T.master[a] = c
      BY DEF Changed
    <3>3. a \in Heard(T, d)
      BY <1>1, <3>1, <3>2, HeardByMany
    <3>4. a # d
      BY <1>2, <3>1
    <3> QED
      BY <1>2, <2>1, <3>1, <3>3, <3>4 DEF Heard
  <2>2. CASE b # a
    <3>1. S.master[b] # NoMaster
      BY <1>3, <2>2
    <3> QED
      BY <1>2, <1>4, <3>1 DEF ItemsOK, WaitersOK
  <2> QED
    BY <2>1, <2>2
<1>7. RequestsOK(T, {})
  <2>1. T.master[a] # NoMaster
    BY AttachAssumption DEF Changed
  <2> QED
    BY <1>2, <1>3, <2>1 DEF ItemsOK, RequestsOK
<1>8. ApartOK(T)
  <2>1. T.file = S.file
    BY DEF Changed
  <2> QED
    BY <1>2, <2>1 DEF ItemsOK, ApartOK, SameOrigin
<1>9. ListOK(T)
  BY <1>2 DEF ItemsOK, ListOK, Changed
<1> QED
  BY <1>1, <1>6, <1>7, <1>8, <1>9 DEF ItemsOK

LEMMA SameOriginBoth ==
    ASSUME NEW S, NEW a, NEW b, SameOrigin(S, a, b)
    PROVE  SameOrigin(S, b, a)
  BY DEF SameOrigin, SameMedium

LEMMA ItemAsks ==
    ASSUME NEW S, NEW a \in Item, ItemsOK(S, {a}), S.state[a] = "Processing",
           S.master[a] = NoMaster,
           \A b \in ToSet(S.list) : b # a /\ S.state[b] \in Busy => ~SameOrigin(S, a, b),
           NEW T, NEW st \in Busy, Changed(S, T, a, st, "queued", S.master[a])
    PROVE  ItemsOK(T, {})
<1>1. S \in Provider /\ T \in Provider
  BY DEF ItemsOK, Changed
<1>2. /\ T.state[a] = st /\ T.request[a] = "queued" /\ T.master[a] = NoMaster
      /\ \A b \in Item \ {a} : T.state[b] = S.state[b] /\ T.request[b] = S.request[b]
      /\ T.list = S.list /\ T.file = S.file
  BY DEF Changed
<1>3. S.master = T.master
  <2>1. S.master \in [Item -> Item \cup {NoMaster}] /\ T.master \in [Item -> Item \cup {NoMaster}]
    BY <1>1, ProviderFields
  <2>2. \A b \in Item : S.master[b] = T.master[b]
    BY DEF Changed
  <2> QED
    BY <2>1, <2>2
<1>4. \A b : Listeners(T, b) = Listeners(S, b)
  BY <1>3, SameMasters
<1>5. WaitersOK(T)
  <2> SUFFICES ASSUME NEW b \in Item, T.master[b] # NoMaster
               PROVE  /\ T.state[b] = "Processing" /\ T.request[b] = "none"
                      /\ \E d \in Item : T.request[d] # "none" /\ b \in Listeners(T, d)
    BY DEF WaitersOK
  <2>1. b # a /\ S.master[b] # NoMaster
    BY <1>2, <1>3
  <2>2. PICK d \in Item : S.request[d] # "none" /\ b \in Listeners(S, d)
    BY <2>1 DEF ItemsOK, WaitersOK
  <2>3. T.request[d] # "none"
    BY <1>2, <2>2
  <2>4. S.state[b] = "Processing" /\ S.request[b] = "none"
    BY <2>1 DEF ItemsOK, WaitersOK
  <2> QED
    BY <1>2, <1>4, <2>1, <2>2, <2>3, <2>4
<1>6. RequestsOK(T, {})
  BY <1>2, <1>3 DEF ItemsOK, RequestsOK
<1>7. \A b \in Item : b # a /\ T.request[b] # "none" => ~SameOrigin(S, a, b) /\ ~SameOrigin(S, b, a)
  <2> TAKE b \in Item
  <2> HAVE b # a /\ T.request[b] # "none"
  <2>1. S.state[b] \in Busy
    BY <1>2 DEF ItemsOK, RequestsOK
  <2>2. b \in ToSet(S.list)
    BY <2>1 DEF ItemsOK, ListOK, Busy, Open
  <2> QED
    BY <2>1, <2>2, SameOriginBoth
<1>8. ApartOK(T)
  <2>1. \A b, c : SameOrigin(T, b, c) <=> SameOrigin(S, b, c)
    BY <1>2 DEF SameOrigin
  <2> SUFFICES ASSUME NEW b \in Item, NEW c \in Item, b # c, T.request[b] # "none",
                      T.request[c] # "none"
               PROVE  ~SameOrigin(S, b, c)
    BY <2>1 DEF ApartOK
  <2>2. CASE b = a \/ c = a
    BY <1>7, <2>2
  <2>3. CASE b # a /\ c # a
    BY <1>2, <2>3 DEF ItemsOK, ApartOK
  <2> QED
    BY <2>2, <2>3
<1>9. ListOK(T)
  BY <1>2 DEF ItemsOK, ListOK, Open
<1> QED
  BY <1>1, <1>5, <1>6, <1>8, <1>9 DEF ItemsOK

Fine(S, t) == ItemsOK(S, {}) /\ OwnersOK(S, t)

LEMMA SuccessFine ==
    ASSUME NEW S, NEW X, NEW t, NEW a \in Item, ItemsOK(S, X), X \subseteq {a}, OwnersOK(S, t),
           S.state[a] \in Open, NEW m \in Item, m \in ToSet(S.media)
    PROVE  Fine(FinishWithSuccess(S, a, m), t)
<1> DEFINE T == FinishWithSuccess(S, a, m)
<1>1. EndsAs(S, T, Heard(S, a), m, {})
  BY SuccessEnds DEF ItemsOK
<1> HIDE DEF T
<1>2. ItemsOK(T, {}) /\ OwnersOK(T, t)
  BY <1>1, OneEnds
<1> QED
  BY <1>2 DEF Fine, T

LEMMA FailureFine ==
    ASSUME NEW S, NEW X, NEW t, NEW a \in Item, ItemsOK(S, X), X \subseteq {a}, OwnersOK(S, t),
           S.state[a] \in Open
    PROVE  Fine(FailItem(S, a), t)
<1> DEFINE T == FailItem(S, a)
<1>1. EndsAs(S, T, Heard(S, a), "error", {})
  BY FailureEnds DEF ItemsOK
<1>2. "error" \in Item \cup {"error"} /\ ("error" \in Item => "error" \in ToSet(S.media))
  BY AttachAssumption
<1> HIDE DEF T
<1>3. ItemsOK(T, {}) /\ OwnersOK(T, t)
  BY <1>1, <1>2, OneEnds
<1> QED
  BY <1>3 DEF Fine, T

\* A medium of the item's own is attached.
LEMMA MediumFine ==
    ASSUME NEW S, NEW X, NEW t, NEW a \in Item, ItemsOK(S, X), X \subseteq {a}, OwnersOK(S, t),
           S.state[a] \in Open, NEW U \in SUBSET Url
    PROVE  Fine(FinishWithSuccess(AddMedium(S, a, U), a, a), t)
<1> DEFINE M == AddMedium(S, a, U)
<1>1. SameItems(S, M) /\ ToSet(M.media) = ToSet(S.media) \cup {a}
  BY MediumAdded DEF ItemsOK
<1> HIDE DEF M
<1>2. ItemsOK(M, X)
  BY <1>1, ItemsStay
<1>3. OwnersOK(M, t)
  BY <1>1, OwnersStay
<1>4. M.state[a] \in Open /\ a \in ToSet(M.media)
  BY <1>1 DEF SameItems
<1>5. Fine(FinishWithSuccess(M, a, a), t)
  BY <1>2, <1>3, <1>4, SuccessFine
<1> QED
  BY <1>5 DEF M

LEMMA StartAttachFine ==
    ASSUME NEW S, NEW a \in Item, NEW t, ItemsOK(S, {a}), OwnersOK(S, t),
           S.state[a] = "Processing", S.request[a] = "none", S.master[a] = NoMaster,
           \A b \in ToSet(S.list) : b # a /\ S.state[b] \in Busy => ~SameOrigin(S, a, b)
    PROVE  Fine(StartAttach(S, a), t)
<1>1. S.state[a] \in Open /\ S \in Provider /\ {a} \subseteq {a}
  BY DEF Open, ItemsOK
<1>2. Fine(EnqueueRequest(S, a), t)
  <2> DEFINE T  == EnqueueRequest(S, a)
             st == IF S.mounts THEN S.state[a] ELSE "Downloading"
  <2>1. Changed(S, T, a, st, "queued", S.master[a])
    BY <1>1, RequestChanged
  <2>2. st \in Busy /\ st \in Open
    BY DEF Busy, Open
  <2> HIDE DEF T, st
  <2>3. ItemsOK(T, {})
    BY <2>1, <2>2, ItemAsks
  <2>4. OwnersOK(T, t)
    BY <1>1, <2>1, <2>2, ChangedOwners
  <2> QED
    BY <2>3, <2>4 DEF Fine, T
<1>3. Fine(FinishWithSuccess(AddMedium(S, a, UrlsOf[a]), a, a), t)
  <2>1. UrlsOf[a] \in SUBSET Url
    BY AttachAssumption
  <2> QED
    BY <1>1, <2>1, MediumFine
<1>4. Fine(FailItem(S, a), t)
  BY <1>1, FailureFine
<1>5. StartAttach(S, a) \in { EnqueueRequest(S, a), FailItem(S, a),
                             FinishWithSuccess(AddMedium(S, a, UrlsOf[a]), a, a) }
  BY DEF StartAttach
<1> QED
  BY <1>2, <1>3, <1>4, <1>5

LEMMA InitializeFine ==
    ASSUME NEW S, NEW a \in Item, NEW t, Fine(S, t)
    PROVE  Fine(Initialize(S, a), t)
<1> DEFINE P == [S EXCEPT !.state[a] = "Processing"]
           m == AttachedFor(S, a)
           b == MasterOf(S, a)
<1>1. CASE S.state[a] # "Uninitialized"
  <2>1. Initialize(S, a) = S
    BY <1>1 DEF Initialize
  <2> QED
    BY <2>1
<1>2. CASE S.state[a] = "Uninitialized"
  <2>1. S \in Provider /\ ItemsOK(S, {}) /\ OwnersOK(S, t)
    BY DEF Fine, ItemsOK
  <2>2. Changed(S, P, a, "Processing", S.request[a], S.master[a])
    BY <2>1, ProcessingChanged
  <2>3. Initialize(S, a) = IF m # 0 THEN FinishWithSuccess(P, a, S.media[m])
                           ELSE IF b # 0 THEN [P EXCEPT !.master[a] = S.list[b]]
                           ELSE StartAttach(P, a)
    BY <1>2 DEF Initialize
  <2>4. m # 0 => S.media[m] \in ToSet(S.media) /\ S.media[m] \in Item
    BY <2>1, MediumFound
  <2>5. b # 0 => S.list[b] \in Item /\ S.list[b] # a /\ S.state[S.list[b]] \in Busy
    BY <2>1, MasterFound
  <2>6. b = 0 => \A c \in ToSet(S.list) : c # a /\ S.state[c] \in Busy => ~SameOrigin(S, a, c)
    BY <2>1, MasterFound
  <2> HIDE DEF P, m, b
  <2>7. ItemsOK(P, {a}) /\ P.request[a] = "none" /\ P.master[a] = NoMaster
    BY <1>2, <2>1, <2>2, ItemStarts
  <2>8. OwnersOK(P, t)
    <3>1. "Processing" \in Open /\ S.state[a] \in Open
      BY <1>2 DEF Open
    <3> QED
      BY <2>1, <2>2, <3>1, ChangedOwners
  <2>9. /\ P.state[a] = "Processing" /\ P.state[a] \in Open /\ P.media = S.media
        /\ P.list = S.list /\ P.file = S.file /\ P \in Provider
        /\ \A c \in Item \ {a} : P.state[c] = S.state[c]
    BY <2>2 DEF Changed, Open
  <2>10. CASE m # 0
    <3>1. Fine(FinishWithSuccess(P, a, S.media[m]), t)
      BY <2>4, <2>7, <2>8, <2>9, <2>10, SuccessFine
    <3> QED
      BY <2>3, <2>10, <3>1
  <2>11. CASE m = 0 /\ b # 0
    <3> DEFINE c == S.list[b]
               T == [P EXCEPT !.master[a] = c]
    <3>1. c \in Item /\ c # a /\ P.state[c] \in Busy
      BY <2>5, <2>9, <2>11
    <3> HIDE DEF c
    <3>2. Changed(P, T, a, P.state[a], P.request[a], c)
      BY <2>9, <3>1, MasterChanged
    <3> HIDE DEF T
    <3>3. ItemsOK(T, {})
      BY <2>7, <2>9, <3>1, <3>2, ItemWaits
    <3>4. OwnersOK(T, t)
      BY <2>8, <2>9, <3>2, ChangedOwners
    <3>5. Initialize(S, a) = T
      BY <2>3, <2>11 DEF T, c
    <3> QED
      BY <3>3, <3>4, <3>5 DEF Fine
  <2>12. CASE m = 0 /\ b = 0
    <3>1. \A c \in ToSet(P.list) : c # a /\ P.state[c] \in Busy => ~SameOrigin(P, a, c)
      <4>1. \A c : SameOrigin(P, a, c) <=> SameOrigin(S, a, c)
        BY <2>9 DEF SameOrigin
      <4>2. ToSet(S.list) \subseteq Item
        BY <2>1, ProviderFields, Members
      <4> QED
        BY <2>6, <2>9, <2>12, <4>1, <4>2
    <3>2. Fine(StartAttach(P, a), t)
      BY <2>7, <2>8, <2>9, <3>1, StartAttachFine
    <3> QED
      BY <2>3, <2>12, <3>2
  <2> QED
    BY <2>10, <2>11, <2>12
<1> QED
  BY <1>1, <1>2

-----------------------------------------------------------------------------
(* doSchedule()                                                              *)

\* Only the trigger, or a value of the requests, may have changed.
LEMMA TriggerFine ==
    ASSUME NEW S, NEW t, Fine(S, t), NEW on \in BOOLEAN
    PROVE  Fine([S EXCEPT !.trigger = on], t)
<1> DEFINE T == [S EXCEPT !.trigger = on]
<1>1. S \in Provider
  BY DEF Fine, ItemsOK
<1>2. SameItems(S, T) /\ T.media = S.media
  BY <1>1 DEF SameItems, Provider
<1> HIDE DEF T
<1>3. ItemsOK(T, {}) /\ OwnersOK(T, t)
  BY <1>2, ItemsStay, OwnersStay DEF Fine
<1> QED
  BY <1>3 DEF Fine, T

LEMMA BumpedFine ==
    ASSUME Fine(at, task), NEW T \in Bumped
    PROVE  Fine(T, task)
<1> DEFINE n       == Len(at.list)
           cleaned == {CleanUp(at, expired) : expired \in SUBSET ToSet(at.media)}
           after[k \in 0 .. n] ==
               IF k = 0 THEN cleaned ELSE {Initialize(S, at.list[k]) : S \in after[k - 1]}
           All == {S \in Provider : Fine(S, task)}
           G   == [p \in (SUBSET All) \X (1..n) |-> {Initialize(S, at.list[p[2]]) : S \in p[1]}]
<1>1. at \in Provider /\ at.list \in Seq(Item) /\ n \in Nat /\ \A k \in 1..n : at.list[k] \in Item
  BY ProviderFields DEF Fine, ItemsOK
<1>2. cleaned \in SUBSET All
  BY <1>1, CleanedUp DEF Fine, ItemsOK
<1>3. \A k \in 1..n, S \in All : Initialize(S, at.list[k]) \in All
  BY <1>1, InitializeFine DEF Fine, ItemsOK
<1>4. Bumped = {[S EXCEPT !.trigger = FALSE] : S \in after[n]}
  BY DEF Bumped
<1> HIDE DEF All, cleaned
<1>5. G \in [(SUBSET All) \X (1..n) -> SUBSET All]
  BY <1>3
<1>6. PICK g : StepsOf(g, n, SUBSET All, cleaned, G)
  <2> HIDE DEF G, n
  <2> QED
    BY <1>1, <1>2, <1>5, StepsExist
<1> DEFINE e(h, k) == IF k = 0 THEN cleaned ELSE {Initialize(S, at.list[k]) : S \in h[k - 1]}
<1>7. g = [k \in 0..n |-> e(g, k)]
  <2>1. ASSUME NEW k \in 1..n
        PROVE  g[k] = {Initialize(S, at.list[k]) : S \in g[k - 1]}
    <3>1. k - 1 \in 0..n /\ g \in [0..n -> SUBSET All]
      BY <1>1, <1>6 DEF StepsOf
    <3>2. g[k] = G[<<g[k - 1], k>>] /\ g[k - 1] \in SUBSET All
      BY <1>6, <3>1 DEF StepsOf
    <3> QED
      BY <3>2
  <2>2. g[0] = cleaned /\ DOMAIN g = 0..n /\ g = [k \in DOMAIN g |-> g[k]]
    BY <1>6 DEF StepsOf
  <2>3. \A k \in 0..n : g[k] = e(g, k)
    <3> HIDE DEF G, n
    <3> TAKE k \in 0..n
    <3>1. CASE k = 0
      BY <2>2, <3>1
    <3>2. CASE k # 0
      <4>1. k \in 1..n
        BY <1>1, <3>2
      <4> QED
        BY <2>1, <3>2, <4>1
    <3> QED
      BY <3>1, <3>2
  <2> HIDE DEF G, n, e
  <2> QED
    BY <2>2, <2>3
<1>8. after = [k \in 0..n |-> e(after, k)]
  BY <1>7
<1> HIDE DEF after, G
<1>9. \A k \in 0..n : after[k] = e(after, k)
  <2> HIDE DEF e, n
  <2> QED
    BY <1>8
<1>10. after[0] \in SUBSET All
  <2>1. 0 \in 0..n /\ e(after, 0) = cleaned
    BY <1>1
  <2> HIDE DEF e, n
  <2> QED
    BY <1>2, <1>9, <2>1
<1>11. ASSUME NEW k \in 1..n, after[k - 1] \in SUBSET All
       PROVE  after[k] \in SUBSET All
  <2>1. k \in 0..n /\ k # 0
    BY <1>1
  <2>2. after[k] = {Initialize(S, at.list[k]) : S \in after[k - 1]}
    BY <1>9, <2>1
  <2> QED
    BY <1>3, <1>11, <2>2
<1>12. after[n] \in SUBSET All
  <2>1. n \in 0..n
    BY <1>1
  <2> HIDE DEF n
  <2> QED
    BY <1>1, <1>10, <1>11, <2>1, StepsStay
<1>13. PICK S \in All : T = [S EXCEPT !.trigger = FALSE]
  BY <1>4, <1>12
<1> QED
  BY <1>13, TriggerFine DEF All

LEMMA SentFine ==
    ASSUME NEW S, NEW t, Fine(S, t), NEW Q \in SUBSET {a \in Item : S.request[a] = "queued"}
    PROVE  LET T == [S EXCEPT !.request = Set(@, Q, "sent")]
           IN  Fine(T, t) /\ \A a \in Q : T.request[a] = "sent"
<1> DEFINE req == Set(S.request, Q, "sent")
           T   == [S EXCEPT !.request = req]
<1>1. S \in Provider
  BY DEF Fine, ItemsOK
<1>2. /\ req \in [Item -> {"none", "queued", "sent"}]
      /\ \A a \in Item : req[a] # "none" <=> S.request[a] # "none"
      /\ \A a \in Q : req[a] = "sent"
  BY <1>1, ProviderFields DEF Set
<1> HIDE DEF req
<1>3. /\ T \in Provider /\ T.request = req
      /\ T.list = S.list /\ T.state = S.state /\ T.master = S.master /\ T.value = S.value
      /\ T.told = S.told /\ T.media = S.media /\ T.file = S.file
  BY <1>1, <1>2 DEF Provider
<1> HIDE DEF T
<1>4. \A b : Listeners(T, b) = Listeners(S, b)
  BY <1>3, SameMasters
<1>5. WaitersOK(T)
  BY <1>2, <1>3, <1>4 DEF Fine, ItemsOK, WaitersOK
<1>6. RequestsOK(T, {}) /\ ApartOK(T) /\ ListOK(T)
  BY <1>2, <1>3 DEF Fine, ItemsOK, RequestsOK, ApartOK, ListOK, SameOrigin
<1>7. OwnersOK(T, t)
  BY <1>3 DEF Fine, OwnersOK, OwnerOK
<1>8. Fine(T, t) /\ \A a \in Q : T.request[a] = "sent"
  BY <1>2, <1>3, <1>5, <1>6, <1>7 DEF Fine, ItemsOK
<1> QED
  BY <1>8 DEF T, req

LEMMA FailAllFine ==
    ASSUME NEW S, NEW t, Fine(S, t), NEW B \in SUBSET Item,
           \A a \in B : S.request[a] # "none"
    PROVE  Fine(FailAll(S, B), t)
<1> DEFINE ended == B \cup UNION {Listeners(S, a) : a \in B}
           T     == FailAll(S, B)
<1>1. S \in Provider /\ ItemsOK(S, {}) /\ OwnersOK(S, t)
  BY DEF Fine, ItemsOK
<1>2. ended \in SUBSET Item /\ ended = UNION {Heard(S, a) : a \in B}
  BY <1>1, HeardByMany DEF Heard
<1>3. \A b \in Item : S.master[b] \in ended => b \in ended
  <2> SUFFICES ASSUME NEW b \in Item, S.master[b] \in ended PROVE b \in ended
    OBVIOUS
  <2>1. PICK a \in B : S.master[b] \in Heard(S, a)
    BY <1>2
  <2>2. b \in Heard(S, a)
    BY <1>1, <2>1, HeardByMany
  <2> QED
    BY <1>2, <2>2
<1>4. \A b \in ended : S.state[b] \in Open
  <2> TAKE b \in ended
  <2>1. CASE b \in B
    <3>1. S.state[b] \in Busy
      BY <1>1, <2>1 DEF ItemsOK, RequestsOK
    <3> QED
      BY <3>1 DEF Busy, Open
  <2>2. CASE b \notin B
    <3>1. b \in Item /\ S.master[b] # NoMaster
      BY <1>1, <1>2, <2>2, HeardByMany
    <3> QED
      BY <1>1, <3>1 DEF ItemsOK, WaitersOK, Open
  <2> QED
    BY <2>1, <2>2
<1>5. "error" \in Result /\ "error" \in Item \cup {"error"} /\ "error" \notin Item
  BY AttachAssumption DEF Result
<1>6. EndsAs(S, T, ended, "error", {})
  BY <1>1, <1>2, <1>5, ValueAndLeave DEF FailAll
<1> HIDE DEF T, ended
<1>7. ItemsOK(T, {})
  BY <1>1, <1>2, <1>3, <1>6, EndedItems
<1>8. OwnersOK(T, t)
  BY <1>1, <1>2, <1>4, <1>5, <1>6, EndedOwners
<1> QED
  BY <1>7, <1>8 DEF Fine, T

LEMMA PlacedFine ==
    ASSUME NEW S, Fine(S, task), NEW T \in Placed(S)
    PROVE  Fine(T, task)
<1>1. PICK Q \in SUBSET {a \in Item : S.request[a] = "queued"} : \E bad \in SUBSET Q :
        T = FailAll([S EXCEPT !.request = Set(@, Q, "sent")], bad)
  BY DEF Placed
<1>2. PICK bad \in SUBSET Q : T = FailAll([S EXCEPT !.request = Set(@, Q, "sent")], bad)
  BY <1>1
<1> DEFINE M == [S EXCEPT !.request = Set(@, Q, "sent")]
<1>3. Fine(M, task) /\ \A a \in Q : M.request[a] = "sent"
  BY SentFine
<1> HIDE DEF M
<1>4. bad \in SUBSET Item /\ \A a \in bad : M.request[a] # "none"
  BY <1>3
<1>5. Fine(FailAll(M, bad), task)
  BY <1>3, <1>4, FailAllFine
<1> QED
  BY <1>5, <1>2 DEF M

\* The coroutines of the items that have finished are woken.
LEMMA WokenInv ==
    ASSUME AttachInv, NEW S, Fine(S, task), Woken(S), process' = process
    PROVE  AttachInv'
<1> DEFINE new == {a \in Item : at.told[a] < S.told[a] /\ task[a] = "waits"}
<1>1. at' = S /\ task' = Set(task, new, "woken") /\ wake' = wake \cup new
  BY DEF Woken
<1>2. task \in [Item -> TaskState] /\ S \in Provider /\ at \in Provider
  BY DEF AttachInv, Fine, ItemsOK
<1>3. /\ task' \in [Item -> TaskState]
      /\ \A a \in Item : task'[a] = IF a \in new THEN "woken" ELSE task[a]
  BY <1>1, <1>2 DEF Set, TaskState
<1>4. ASSUME NEW a \in Item, task[a] = "waits"
      PROVE  at.told[a] = 0
  BY <1>4 DEF AttachInv, OwnersOK, OwnerOK
<1>5. ASSUME NEW a \in Item
      PROVE  OwnerOK(S, task', a) /\ (task'[a] = "waits" => S.state[a] \in Open)
  <2>1. OwnerOK(S, task, a)
    BY DEF Fine, OwnersOK
  <2>2. S.state[a] \in StateName /\ S.told[a] \in Nat
    BY <1>2, ProviderFields
  <2>3. CASE a \in new
    <3>1. task[a] = "waits" /\ S.told[a] > 0 /\ task'[a] = "woken"
      BY <1>3, <1>4, <2>3
    <3>2. S.state[a] = "Finished"
      BY <2>1, <2>2, <3>1 DEF OwnerOK, StateName, Open
    <3> QED
      BY <2>1, <3>1, <3>2 DEF OwnerOK, Open
  <2>4. CASE a \notin new
    <3>1. task'[a] = task[a]
      BY <1>3, <2>4
    <3>2. OwnerOK(S, task', a)
      BY <2>1, <3>1 DEF OwnerOK
    <3>3. ASSUME task[a] = "waits"
          PROVE  S.state[a] \in Open
      <4>1. at.told[a] = 0 /\ ~(0 < S.told[a])
        BY <1>4, <2>4, <3>3
      <4>2. S.told[a] = 0
        BY <2>2, <4>1
      <4> QED
        BY <2>1, <2>2, <3>3, <4>2 DEF OwnerOK, StateName, Open
    <3> QED
      BY <3>1, <3>2, <3>3
  <2> QED
    BY <2>3, <2>4
<1>6. wake' \subseteq Item
  BY <1>1 DEF AttachInv
<1> HIDE DEF new
<1>7. ItemsOK(at', {}) /\ OwnersOK(at', task')
  BY <1>1, <1>5 DEF Fine, OwnersOK
<1>8. ItemsOK(at, {})' /\ OwnersOK(at, task)'
  BY <1>7
<1> QED
  BY <1>1, <1>3, <1>5, <1>6, <1>8 DEF AttachInv

-----------------------------------------------------------------------------
(* The steps.                                                                *)

LEMMA AttachInvInit == AttachInit => AttachInv
<1> SUFFICES ASSUME AttachInit PROVE AttachInv
  OBVIOUS
<1>1. PICK setup \in Setup : at = EmptyProvider(setup)
  BY DEF AttachInit
<1>2. setup.mounts \in BOOLEAN /\ setup.file \in [Item -> File \cup {NoFile}]
  BY AttachAssumption
<1>3. /\ at \in Provider
      /\ \A a \in Item : /\ at.state[a] = "absent" /\ at.request[a] = "none"
                         /\ at.master[a] = NoMaster /\ at.value[a] = "none" /\ at.told[a] = 0
  BY <1>1, <1>2 DEF EmptyProvider, Provider, StateName, Result
<1>4. ItemsOK(at, {})
  BY <1>3 DEF ItemsOK, WaitersOK, RequestsOK, ApartOK, ListOK, Busy, Open
<1>5. \A a \in Item : task[a] = "none"
  BY DEF AttachInit
<1>6. OwnersOK(at, task)
  BY <1>3, <1>5, AttachAssumption DEF OwnersOK, OwnerOK, Open
<1> QED
  BY <1>4, <1>5, <1>6 DEF AttachInit, AttachInv, TaskState

LEMMA StartInv == AttachInv /\ Start => AttachInv'
<1> SUFFICES ASSUME AttachInv, Start PROVE AttachInv'
  OBVIOUS
<1> DEFINE T == [at EXCEPT !.trigger = TRUE]
<1>1. Fine(T, task)
  BY TriggerFine DEF AttachInv, Fine
<1>2. T.state = at.state
  OBVIOUS
<1>3. at' = T /\ task' = task /\ wake' = wake /\ process' = "runs"
  BY DEF Start
<1> HIDE DEF T
<1>4. ItemsOK(at', {}) /\ OwnersOK(at', task')
  BY <1>1, <1>3 DEF Fine
<1>5. ItemsOK(at, {})' /\ OwnersOK(at, task)'
  BY <1>4
<1> QED
  BY <1>2, <1>3, <1>5 DEF AttachInv

LEMMA ScheduleInv == AttachInv /\ DoSchedule => AttachInv'
<1> SUFFICES ASSUME AttachInv, DoSchedule PROVE AttachInv'
  OBVIOUS
<1>1. Fine(at, task)
  BY DEF AttachInv, Fine
<1>2. CASE process = "stopped"
  <2> DEFINE T == [at EXCEPT !.trigger = FALSE]
  <2>1. Fine(T, task)
    BY <1>1, TriggerFine
  <2>2. T.state = at.state
    OBVIOUS
  <2>3. at' = T /\ task' = task /\ wake' = wake /\ process' = process
    BY <1>2 DEF DoSchedule
  <2> HIDE DEF T
  <2>4. ItemsOK(at', {}) /\ OwnersOK(at', task')
    BY <2>1, <2>3 DEF Fine
  <2>5. ItemsOK(at, {})' /\ OwnersOK(at, task)'
    BY <2>4
  <2> QED
    BY <2>2, <2>3, <2>5 DEF AttachInv
<1>3. CASE process # "stopped"
  <2>1. PICK T \in Bumped : \E S \in Placed(T) : Woken(S)
    BY <1>3 DEF DoSchedule
  <2>2. PICK S \in Placed(T) : Woken(S)
    BY <2>1
  <2>3. Fine(T, task)
    BY <1>1, BumpedFine
  <2>4. Fine(S, task)
    BY <2>3, PlacedFine
  <2>5. process' = process
    BY DEF DoSchedule
  <2> QED
    BY <2>2, <2>4, <2>5, WokenInv
<1> QED
  BY <1>2, <1>3

LEMMA QueueGetsFreeInv == AttachInv /\ QueueGetsFree => AttachInv'
<1> SUFFICES ASSUME AttachInv, QueueGetsFree PROVE AttachInv'
  OBVIOUS
<1> DEFINE T == [at EXCEPT !.trigger = TRUE]
<1>1. Fine(T, task)
  BY TriggerFine DEF AttachInv, Fine
<1>2. T.state = at.state
  OBVIOUS
<1>3. at' = T /\ task' = task /\ wake' = wake /\ process' = process
  BY DEF QueueGetsFree
<1> HIDE DEF T
<1>4. ItemsOK(at', {}) /\ OwnersOK(at', task')
  BY <1>1, <1>3 DEF Fine
<1>5. ItemsOK(at, {})' /\ OwnersOK(at, task)'
  BY <1>4
<1> QED
  BY <1>2, <1>3, <1>5 DEF AttachInv

LEMMA AnswersInv ==
    ASSUME NEW a \in Item, AttachInv, Attached(a) \/ Failed(a)
    PROVE  AttachInv'
<1> DEFINE T == [at EXCEPT !.trigger = TRUE]
<1>1. Fine(T, task)
  BY TriggerFine DEF AttachInv, Fine
<1>2. T.state = at.state /\ at.request[a] = "sent" /\ T.mounts = at.mounts
  BY DEF Attached, Failed
<1>3. T.state[a] \in Open
  BY <1>2 DEF AttachInv, ItemsOK, RequestsOK, Busy, Open
<1>4. process' = process
  BY DEF Attached, Failed
<1>5. CASE Attached(a)
  <2>1. PICK U \in IF at.mounts THEN {{u} : u \in UrlsOf[a]} ELSE {UrlsOf[a]} :
          Woken(FinishWithSuccess(AddMedium(T, a, U), a, a))
    BY <1>5 DEF Attached
  <2>2. U \in SUBSET Url
    BY AttachAssumption
  <2> HIDE DEF T
  <2>3. Fine(FinishWithSuccess(AddMedium(T, a, U), a, a), task)
    BY <1>1, <1>3, <2>2, MediumFine DEF Fine
  <2> QED
    BY <1>4, <2>1, <2>3, WokenInv
<1>6. CASE Failed(a)
  <2>1. Woken(FailItem(T, a))
    BY <1>6 DEF Failed, RequestFailed
  <2> HIDE DEF T
  <2>2. Fine(FailItem(T, a), task)
    BY <1>1, <1>3, FailureFine DEF Fine
  <2> QED
    BY <1>4, <2>1, <2>2, WokenInv
<1> QED
  BY <1>5, <1>6

LEMMA ResumeInv ==
    ASSUME NEW a \in Item, AttachInv, Resume(a)
    PROVE  AttachInv'
<1>1. /\ at' = at /\ process' = process /\ wake' \subseteq wake /\ task[a] = "woken"
      /\ task' = [task EXCEPT ![a] = IF at.value[a] = "error" THEN "failed" ELSE "attached"]
  BY DEF Resume
<1>2. task \in [Item -> TaskState] /\ at \in Provider
  BY DEF AttachInv, ItemsOK
<1>3. /\ task' \in [Item -> TaskState]
      /\ task'[a] = IF at.value[a] = "error" THEN "failed" ELSE "attached"
      /\ \A b \in Item \ {a} : task'[b] = task[b]
  BY <1>1, <1>2 DEF TaskState
<1>4. at.state[a] = "Finished" /\ at.value[a] \in Item \cup {"error"}
  <2>1. at.state[a] = "Finished" /\ at.value[a] # "none"
    BY <1>1 DEF AttachInv, OwnersOK, OwnerOK
  <2>2. at.value[a] \in Result
    BY <1>2, ProviderFields
  <2> QED
    BY <2>1, <2>2 DEF Result
<1>5. ASSUME NEW b \in Item
      PROVE  OwnerOK(at, task', b)
  <2>1. OwnerOK(at, task, b)
    BY DEF AttachInv, OwnersOK
  <2>2. CASE b = a
    BY <1>1, <1>3, <1>4, <2>1, <2>2 DEF OwnerOK, Open
  <2>3. CASE b # a
    <3>1. task'[b] = task[b]
      BY <1>3, <2>3
    <3> QED
      BY <2>1, <3>1 DEF OwnerOK
  <2> QED
    BY <2>2, <2>3
<1>6. ItemsOK(at', {}) /\ OwnersOK(at', task')
  BY <1>1, <1>5 DEF AttachInv, OwnersOK
<1>7. ItemsOK(at, {})' /\ OwnersOK(at, task)'
  BY <1>6
<1>8. \A b \in Item : task'[b] = "waits" => at'.state[b] \in Open
  BY <1>1, <1>3 DEF AttachInv
<1> QED
  BY <1>1, <1>3, <1>7, <1>8 DEF AttachInv

LEMMA ResumeDestroyedInv ==
    ASSUME NEW a \in Item, AttachInv, ResumeDestroyed(a)
    PROVE  AttachInv'
<1>1. CASE wake' = wake \ {a} /\ UNCHANGED <<at, task, process>>
  <2>1. ItemsOK(at', {}) /\ OwnersOK(at', task')
    BY <1>1 DEF AttachInv
  <2>2. ItemsOK(at, {})' /\ OwnersOK(at, task)'
    BY <2>1
  <2> QED
    BY <1>1, <2>2 DEF AttachInv
<1>2. CASE /\ process' = "crashed"
           /\ at' = EmptyProvider(at) /\ wake' = {} /\ task' = [b \in Item |-> "gone"]
  <2>1. at.mounts \in BOOLEAN /\ at.file \in [Item -> File \cup {NoFile}]
    BY ProviderFields DEF AttachInv, ItemsOK
  <2> DEFINE T == EmptyProvider(at)
  <2>2. /\ T \in Provider
        /\ \A b \in Item : /\ T.state[b] = "absent" /\ T.request[b] = "none"
                           /\ T.master[b] = NoMaster /\ T.value[b] = "none" /\ T.told[b] = 0
    BY <2>1 DEF EmptyProvider, Provider, StateName, Result
  <2> HIDE DEF T
  <2>3. ItemsOK(T, {})
    BY <2>2 DEF ItemsOK, WaitersOK, RequestsOK, ApartOK, ListOK, Busy, Open
  <2>4. \A b \in Item : task'[b] = "gone"
    BY <1>2
  <2>5. OwnersOK(T, task')
    BY <2>2, <2>4, AttachAssumption DEF OwnersOK, OwnerOK, Open
  <2>6. ItemsOK(at', {}) /\ OwnersOK(at', task')
    BY <1>2, <2>3, <2>5 DEF T
  <2>7. ItemsOK(at, {})' /\ OwnersOK(at, task)'
    BY <2>6
  <2> QED
    BY <1>2, <2>4, <2>7 DEF AttachInv, TaskState
<1> QED
  BY <1>1, <1>2 DEF ResumeDestroyed

LEMMA DetachInv ==
    ASSUME NEW a \in Item, AttachInv, Detach(a)
    PROVE  AttachInv'
<1>1. /\ at' = at /\ process' = process /\ wake' = wake /\ task[a] = "attached"
      /\ task' = [task EXCEPT ![a] = "gone"]
  BY DEF Detach
<1>2. /\ task' \in [Item -> TaskState] /\ task'[a] = "gone"
      /\ \A b \in Item \ {a} : task'[b] = task[b]
  BY <1>1 DEF TaskState, AttachInv
<1>3. ASSUME NEW b \in Item
      PROVE  OwnerOK(at, task', b)
  <2>1. OwnerOK(at, task, b)
    BY DEF AttachInv, OwnersOK
  <2>2. CASE b = a
    BY <1>1, <1>2, <2>1, <2>2 DEF OwnerOK, Open
  <2>3. CASE b # a
    <3>1. task'[b] = task[b]
      BY <1>2, <2>3
    <3> QED
      BY <2>1, <3>1 DEF OwnerOK
  <2> QED
    BY <2>2, <2>3
<1>4. ItemsOK(at', {}) /\ OwnersOK(at', task')
  BY <1>1, <1>3 DEF AttachInv, OwnersOK
<1>5. ItemsOK(at, {})' /\ OwnersOK(at, task)'
  BY <1>4
<1>6. \A b \in Item : task'[b] = "waits" => at'.state[b] \in Open
  BY <1>1, <1>2 DEF AttachInv
<1> QED
  BY <1>1, <1>2, <1>5, <1>6 DEF AttachInv

LEMMA AttachMediaInv ==
    ASSUME NEW a \in Item, AttachInv, AttachMedia(a)
    PROVE  AttachInv'
<1> DEFINE m == AttachedFor(at, a)
<1>1. process' = process /\ wake' = wake /\ task[a] = "none"
  BY DEF AttachMedia
<1>2. at \in Provider /\ ItemsOK(at, {}) /\ OwnersOK(at, task) /\ task \in [Item -> TaskState]
  BY DEF AttachInv, ItemsOK
<1>3. at.state[a] = "absent" /\ at.told[a] = 0 /\ at.value[a] = "none"
  <2>1. OwnerOK(at, task, a) /\ at.state[a] \in StateName
    BY <1>2, ProviderFields DEF OwnersOK
  <2> QED
    BY <1>1, <2>1 DEF OwnerOK, StateName, Open
<1>4. CASE m # 0
  <2> DEFINE c   == at.media[m]
             val == [at.value EXCEPT ![a] = c]
             T   == [at EXCEPT !.value[a] = c]
  <2>1. c \in Item /\ c \in ToSet(at.media)
    BY <1>2, <1>4, MediumFound
  <2>2. at' = T /\ task' = [task EXCEPT ![a] = "attached"]
    BY <1>4 DEF AttachMedia
  <2>3. T = [at EXCEPT !.value = val]
    OBVIOUS
  <2> HIDE DEF c, m
  <2>4. /\ val \in [Item -> Result] /\ val[a] = c /\ \A b \in Item \ {a} : val[b] = at.value[b]
    BY <1>2, <2>1, ProviderFields DEF Result
  <2> HIDE DEF val, T
  <2>5. /\ T \in Provider /\ T.value = val
        /\ T.list = at.list /\ T.state = at.state /\ T.request = at.request
        /\ T.master = at.master /\ T.told = at.told /\ T.media = at.media /\ T.file = at.file
    BY <1>2, <2>3, <2>4 DEF Provider
  <2>6. \A b : Listeners(T, b) = Listeners(at, b)
    BY <2>5, SameMasters
  <2>7. WaitersOK(T)
    BY <1>2, <2>5, <2>6 DEF ItemsOK, WaitersOK
  <2>8. RequestsOK(T, {}) /\ ApartOK(T) /\ ListOK(T)
    BY <1>2, <2>5 DEF ItemsOK, RequestsOK, ApartOK, ListOK, SameOrigin
  <2>9. /\ task' \in [Item -> TaskState] /\ task'[a] = "attached"
        /\ \A b \in Item \ {a} : task'[b] = task[b]
    BY <1>2, <2>2 DEF TaskState
  <2>10. ASSUME NEW b \in Item
         PROVE  OwnerOK(T, task', b)
    <3>1. OwnerOK(at, task, b)
      BY <1>2 DEF OwnersOK
    <3>2. CASE b = a
      BY <1>3, <2>1, <2>4, <2>5, <2>9, <3>2 DEF OwnerOK, Open
    <3>3. CASE b # a
      <4>1. task'[b] = task[b] /\ T.value[b] = at.value[b]
        BY <2>4, <2>5, <2>9, <3>3
      <4> QED
        BY <2>5, <3>1, <4>1 DEF OwnerOK
    <3> QED
      BY <3>2, <3>3
  <2>11. ItemsOK(at', {}) /\ OwnersOK(at', task')
    BY <2>2, <2>5, <2>7, <2>8, <2>10 DEF ItemsOK, OwnersOK
  <2>12. ItemsOK(at, {})' /\ OwnersOK(at, task)'
    BY <2>11
  <2>13. \A b \in Item : task'[b] = "waits" => at'.state[b] \in Open
    BY <2>2, <2>5, <2>9 DEF AttachInv
  <2> QED
    BY <1>1, <2>9, <2>12, <2>13 DEF AttachInv
<1>5. CASE m = 0
  <2> DEFINE st  == [at.state EXCEPT ![a] = "Uninitialized"]
             lst == Append(at.list, a)
             T   == [at EXCEPT !.state[a] = "Uninitialized", !.list = Append(@, a),
                               !.trigger = TRUE]
  <2>1. at' = T /\ task' = [task EXCEPT ![a] = "waits"]
    BY <1>5 DEF AttachMedia
  <2>2. T = [at EXCEPT !.state = st, !.list = lst, !.trigger = TRUE]
    OBVIOUS
  <2>3. /\ st \in [Item -> StateName] /\ st[a] = "Uninitialized"
        /\ \A b \in Item \ {a} : st[b] = at.state[b]
        /\ lst \in Seq(Item) /\ ToSet(lst) = ToSet(at.list) \cup {a}
    BY <1>2, ProviderFields, Appended DEF StateName
  <2> HIDE DEF st, lst, T, m
  <2>4. /\ T \in Provider /\ T.state = st /\ T.list = lst
        /\ T.value = at.value /\ T.request = at.request /\ T.master = at.master
        /\ T.told = at.told /\ T.media = at.media /\ T.file = at.file
    BY <1>2, <2>2, <2>3 DEF Provider
  <2>5. \A b : Listeners(T, b) = Listeners(at, b)
    BY <2>4, SameMasters
  <2>6. at.master[a] = NoMaster /\ at.request[a] = "none"
    BY <1>2, <1>3 DEF ItemsOK, WaitersOK, RequestsOK, Busy
  <2>7. WaitersOK(T)
    <3> SUFFICES ASSUME NEW b \in Item, T.master[b] # NoMaster
                 PROVE  /\ T.state[b] = "Processing" /\ T.request[b] = "none"
                        /\ \E d \in Item : T.request[d] # "none" /\ b \in Listeners(T, d)
      BY DEF WaitersOK
    <3>1. b # a
      BY <2>4, <2>6
    <3> QED
      BY <1>2, <2>3, <2>4, <2>5, <3>1 DEF ItemsOK, WaitersOK
  <2>8. RequestsOK(T, {})
    BY <1>2, <2>3, <2>4, <2>6 DEF ItemsOK, RequestsOK, Busy
  <2>9. ApartOK(T)
    BY <1>2, <2>4 DEF ItemsOK, ApartOK, SameOrigin
  <2>10. ListOK(T)
    BY <1>2, <2>3, <2>4 DEF ItemsOK, ListOK
  <2>11. /\ task' \in [Item -> TaskState] /\ task'[a] = "waits"
         /\ \A b \in Item \ {a} : task'[b] = task[b]
    BY <1>2, <2>1 DEF TaskState
  <2>12. ASSUME NEW b \in Item
         PROVE  OwnerOK(T, task', b)
    <3>1. OwnerOK(at, task, b)
      BY <1>2 DEF OwnersOK
    <3>2. CASE b = a
      BY <1>3, <2>3, <2>4, <2>11, <3>2, AttachAssumption DEF OwnerOK, Open
    <3>3. CASE b # a
      <4>1. task'[b] = task[b] /\ T.state[b] = at.state[b]
        BY <2>3, <2>4, <2>11, <3>3
      <4> QED
        BY <2>4, <3>1, <4>1 DEF OwnerOK
    <3> QED
      BY <3>2, <3>3
  <2>13. ItemsOK(at', {}) /\ OwnersOK(at', task')
    BY <2>1, <2>4, <2>7, <2>8, <2>9, <2>10, <2>12 DEF ItemsOK, OwnersOK
  <2>14. ItemsOK(at, {})' /\ OwnersOK(at, task)'
    BY <2>13
  <2>15. \A b \in Item : task'[b] = "waits" => at'.state[b] \in Open
    <3> TAKE b \in Item
    <3> HAVE task'[b] = "waits"
    <3>1. CASE b = a
      BY <2>1, <2>3, <2>4, <3>1 DEF Open
    <3>2. CASE b # a
      <4>1. at.state[b] \in Open
        BY <2>11, <3>2 DEF AttachInv
      <4> QED
        BY <2>1, <2>3, <2>4, <3>2, <4>1
    <3> QED
      BY <3>1, <3>2
  <2> QED
    BY <1>1, <2>11, <2>14, <2>15 DEF AttachInv
<1> QED
  BY <1>4, <1>5

LEMMA DestroyInv ==
    ASSUME NEW a \in Item, AttachInv, Destroy(a)
    PROVE  AttachInv'
<1> DEFINE S   == IF at.state[a] = "Finished" THEN at ELSE CancelWithError(at, a)
           new == {b \in Item : at.told[b] < S.told[b] /\ task[b] = "waits"}
<1>1. /\ process' = process /\ wake' = wake \cup new /\ task[a] \in {"waits", "woken"}
      /\ task' = [Set(task, new, "woken") EXCEPT ![a] = "destroyed"]
      /\ \E free \in BOOLEAN : at' = [S EXCEPT !.trigger = @ \/ free]
  BY DEF Destroy
<1>2. at \in Provider /\ ItemsOK(at, {}) /\ OwnersOK(at, task) /\ task \in [Item -> TaskState]
  BY DEF AttachInv, ItemsOK
<1>3. \A b \in Item : at.told[b] \in Nat
  BY <1>2, ProviderFields
<1>4. /\ task' \in [Item -> TaskState] /\ task'[a] = "destroyed"
      /\ \A b \in Item \ {a} : task'[b] = IF b \in new THEN "woken" ELSE task[b]
  <2> DEFINE set == Set(task, new, "woken")
  <2>1. set \in [Item -> TaskState] /\ \A b \in Item : set[b] = IF b \in new THEN "woken" ELSE task[b]
    BY <1>2 DEF Set, TaskState
  <2>2. task' = [set EXCEPT ![a] = "destroyed"]
    BY <1>1
  <2> HIDE DEF set, new
  <2>3. task' \in [Item -> TaskState]
    BY <2>1, <2>2 DEF TaskState
  <2> QED
    BY <2>1, <2>2, <2>3
<1>5. CASE at.state[a] = "Finished"
  <2>1. S = at /\ new = {}
    BY <1>3, <1>5
  <2> HIDE DEF S, new
  <2>2. PICK free \in BOOLEAN : at' = [at EXCEPT !.trigger = @ \/ free]
    BY <1>1, <2>1
  <2> DEFINE T == [at EXCEPT !.trigger = @ \/ free]
  <2>3. SameItems(at, T) /\ T.media = at.media
    BY <1>2 DEF SameItems, Provider
  <2> HIDE DEF T
  <2>4. ItemsOK(T, {})
    BY <1>2, <2>3, ItemsStay
  <2>5. ASSUME NEW b \in Item
        PROVE  OwnerOK(T, task', b)
    <3>1. OwnerOK(at, task, b)
      BY <1>2 DEF OwnersOK
    <3>2. CASE b = a
      <4>1. T.state[a] = "Finished" /\ T.value[a] = at.value[a] /\ T.told[a] = at.told[a]
        BY <1>5, <2>3 DEF SameItems
      <4> QED
        BY <1>4, <1>5, <3>1, <3>2, <4>1 DEF OwnerOK, Open
    <3>3. CASE b # a
      <4>1. task'[b] = task[b]
        BY <1>4, <2>1, <3>3
      <4> QED
        BY <2>3, <3>1, <4>1 DEF OwnerOK, SameItems
    <3> QED
      BY <3>2, <3>3
  <2>6. at' = T
    BY <2>2 DEF T
  <2>7. ItemsOK(at', {}) /\ OwnersOK(at', task')
    BY <2>4, <2>5, <2>6 DEF OwnersOK
  <2>8. ItemsOK(at, {})' /\ OwnersOK(at, task)'
    BY <2>7
  <2>9. \A b \in Item : task'[b] = "waits" => at'.state[b] \in Open
    BY <1>4, <2>1, <2>3, <2>6 DEF AttachInv, SameItems
  <2>10. wake' \subseteq Item
    BY <1>1, <2>1 DEF AttachInv
  <2> QED
    BY <1>1, <1>4, <2>8, <2>9, <2>10 DEF AttachInv
<1>6. CASE at.state[a] # "Finished"
  <2>1. task[a] = "waits" /\ at.state[a] \in Open
    BY <1>1, <1>2, <1>6 DEF AttachInv, OwnersOK, OwnerOK
  <2>2. EndsAs(at, S, Heard(at, a), "error", IF at.request[a] = "none" THEN {} ELSE {a})
    BY <1>2, <1>6, CancelEnds
  <2> HIDE DEF S
  <2> DEFINE twice == IF at.request[a] = "none" THEN {} ELSE {a}
             H     == Heard(at, a)
  <2>3. twice \subseteq {a} /\ EndsAs(at, S, H, "error", twice)
    BY <2>2
  <2>4. /\ H \in SUBSET Item /\ a \in H
        /\ \A b \in Item : at.master[b] \in H => b \in H
        /\ \A b \in H \ {a} : at.master[b] # NoMaster
    BY <1>2, HeardByMany DEF Heard
  <2> HIDE DEF H, twice
  <2>5. ItemsOK(S, {})
    BY <1>2, <2>3, <2>4, EndedItems
  <2>6. PICK free \in BOOLEAN : at' = [S EXCEPT !.trigger = @ \/ free]
    BY <1>1
  <2> DEFINE T == [S EXCEPT !.trigger = @ \/ free]
  <2>7. SameItems(S, T) /\ T.media = S.media
    BY <2>5 DEF ItemsOK, SameItems, Provider
  <2> HIDE DEF T
  <2>8. ItemsOK(T, {})
    BY <2>5, <2>7, ItemsStay
  <2>9. T.media = at.media
    BY <2>3, <2>7 DEF EndsAs, SameMedia
  <2>10. ASSUME NEW b \in Item
         PROVE  OwnerOK(T, task', b) /\ (task'[b] = "waits" => T.state[b] \in Open)
    <3>1. OwnerOK(at, task, b)
      BY <1>2 DEF OwnersOK
    <3>2. CASE b \in H
      <4>1. at.state[b] \in Open
        <5>1. b # a => at.state[b] = "Processing"
          BY <1>2, <2>4, <3>2 DEF ItemsOK, WaitersOK
        <5> QED
          BY <2>1, <5>1 DEF Open
      <4>2. at.told[b] = 0 /\ task[b] = "waits"
        BY <3>1, <4>1 DEF OwnerOK
      <4>3. /\ S.state[b] = "Finished" /\ S.value[b] = "error"
            /\ S.told[b] = IF b \in twice THEN 2 ELSE 1
        BY <2>3, <3>2, <4>2 DEF EndsAs
      <4>4. b \in new
        BY <4>2, <4>3
      <4>5. b # a => task'[b] = "woken" /\ S.told[b] = 1
        BY <1>4, <2>3, <4>3, <4>4
      <4>6. T.state[b] = "Finished" /\ T.value[b] = "error" /\ T.told[b] = S.told[b]
        BY <2>7, <4>3 DEF SameItems
      <4>7. "error" \notin Item
        BY AttachAssumption
      <4>8. CASE b = a
        BY <1>4, <4>3, <4>6, <4>7, <4>8 DEF OwnerOK, Open
      <4>9. CASE b # a
        BY <4>5, <4>6, <4>7, <4>9 DEF OwnerOK, Open
      <4> QED
        BY <4>8, <4>9
    <3>3. CASE b \notin H
      <4>1. S.state[b] = at.state[b] /\ S.value[b] = at.value[b] /\ S.told[b] = at.told[b]
        BY <2>3, <3>3 DEF EndsAs
      <4>2. b \notin new /\ b # a
        BY <1>3, <2>4, <3>3, <4>1
      <4>3. task'[b] = task[b]
        BY <1>4, <4>2
      <4>4. T.state[b] = at.state[b] /\ T.value[b] = at.value[b] /\ T.told[b] = at.told[b]
        BY <2>7, <4>1 DEF SameItems
      <4>5. task[b] = "waits" => at.state[b] \in Open
        BY DEF AttachInv
      <4> QED
        BY <2>9, <3>1, <4>3, <4>4, <4>5 DEF OwnerOK
    <3> QED
      BY <3>2, <3>3
  <2>11. at' = T
    BY <2>6 DEF T
  <2>12. ItemsOK(at', {}) /\ OwnersOK(at', task')
    BY <2>8, <2>10, <2>11 DEF OwnersOK
  <2>13. ItemsOK(at, {})' /\ OwnersOK(at, task)'
    BY <2>12
  <2>14. wake' \subseteq Item
    BY <1>1 DEF AttachInv
  <2>15. \A b \in Item : task'[b] = "waits" => at'.state[b] \in Open
    BY <2>10, <2>11
  <2> QED
    BY <1>1, <1>4, <2>13, <2>14, <2>15 DEF AttachInv
<1> QED
  BY <1>5, <1>6

LEMMA AttachInvStep == AttachInv /\ [AttachNext]_attachVars => AttachInv'
<1> SUFFICES ASSUME AttachInv, [AttachNext]_attachVars PROVE AttachInv'
  OBVIOUS
<1>1. CASE UNCHANGED attachVars
  <2>1. at' = at /\ task' = task /\ wake' = wake /\ process' = process
    BY <1>1 DEF attachVars
  <2>2. ItemsOK(at', {}) /\ OwnersOK(at', task')
    BY <2>1 DEF AttachInv
  <2>3. ItemsOK(at, {})' /\ OwnersOK(at, task)'
    BY <2>2
  <2> QED
    BY <2>1, <2>3 DEF AttachInv
<1>2. CASE Start
  BY <1>2, StartInv
<1>3. CASE DoSchedule
  BY <1>3, ScheduleInv
<1>4. CASE QueueGetsFree
  BY <1>4, QueueGetsFreeInv
<1>5. ASSUME NEW a \in Item, AttachStep(a)
      PROVE  AttachInv'
  BY <1>5, AttachMediaInv, AnswersInv, ResumeInv, ResumeDestroyedInv, DetachInv, DestroyInv
     DEF AttachStep
<1> QED
  BY <1>1, <1>2, <1>3, <1>4, <1>5 DEF AttachNext

-----------------------------------------------------------------------------
(* The theorems.                                                             *)

LEMMA AttachInvHolds == AttachSpec => []AttachInv
  BY AttachInvInit, AttachInvStep, PTL DEF AttachSpec

\* Items, their requests and results, tasks and media keep their types; no awaiter gets
\* more than two values.
THEOREM AttachTypeCorrect == AttachSpec => []AttachTypeOK
<1>1. AttachInv => AttachTypeOK
  <2> SUFFICES ASSUME AttachInv PROVE AttachTypeOK
    OBVIOUS
  <2>1. at \in Provider
    BY DEF AttachInv, ItemsOK
  <2>2. \A a \in Item : at.told[a] \in 0..2
    <3> TAKE a \in Item
    <3>1. OwnerOK(at, task, a) /\ at.state[a] \in StateName
      BY <2>1, ProviderFields DEF AttachInv, OwnersOK
    <3> QED
      BY <3>1 DEF OwnerOK, StateName, Open
  <2>3. at.told \in [Item -> 0..2]
    BY <2>1, <2>2, ProviderFields
  <2>4. at \in ProviderType
    BY <2>1, <2>3 DEF Provider, ProviderType, StateName
  <2> QED
    BY <2>4 DEF AttachInv, AttachTypeOK
<1> QED
  BY <1>1, AttachInvHolds, PTL

\* However requests come and masters end, fail or are cancelled: no medium is
\* requested twice at a time, and nobody waits for an item that has no request.
THEOREM OneMasterEach == AttachSpec => []OneMaster
<1>1. AttachInv => OneMaster
  <2> SUFFICES ASSUME AttachInv PROVE OneMaster
    OBVIOUS
  <2>1. ItemsOK(at, {})
    BY DEF AttachInv
  <2>2. \A a \in Item : Active(a) => at.request[a] # "none"
    BY <2>1 DEF ItemsOK, RequestsOK, Active
  <2>3. \A a \in Item : at.request[a] # "none" => Active(a)
    BY <2>1 DEF ItemsOK, RequestsOK, WaitersOK, Active
  <2>4. \A a, b \in Item : a # b /\ Active(a) /\ Active(b) => ~SameOrigin(at, a, b)
    BY <2>1, <2>2 DEF ItemsOK, ApartOK
  <2>5. \A a \in Item : at.master[a] # NoMaster =>
          \E b \in Item : Active(b) /\ at.request[b] # "none" /\ a \in Listeners(at, b)
    BY <2>1, <2>3 DEF ItemsOK, WaitersOK
  <2> QED
    BY <2>4, <2>5 DEF OneMaster
<1> QED
  BY <1>1, AttachInvHolds, PTL

\* The owners of an item and of its listeners get one value, although a
\* cancelled item emits its signal twice.
THEOREM OwnersToldOnce == AttachSpec => []ToldOnce
<1>1. AttachInv => ToldOnce
  <2> SUFFICES ASSUME AttachInv, NEW a \in Item, task[a] # "destroyed" PROVE at.told[a] <= 1
    BY DEF ToldOnce
  <2>1. OwnerOK(at, task, a) /\ at.state[a] \in StateName
    BY ProviderFields DEF AttachInv, OwnersOK, ItemsOK
  <2> QED
    BY <2>1 DEF OwnerOK, StateName, Open
<1> QED
  BY <1>1, AttachInvHolds, PTL

\* doSchedule() never forgets a medium somebody has a handle of, or is about to get.
THEOREM HandlesStayAttached == AttachSpec => []HandleIsAttached
<1>1. AttachInv => HandleIsAttached
  BY DEF AttachInv, OwnersOK, OwnerOK, HandleIsAttached
<1> QED
  BY <1>1, AttachInvHolds, PTL
=============================================================================
