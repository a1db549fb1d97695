--------------------------- MODULE Selectable_proofs ---------------------------
(***************************************************************************)
(* Proofs about the requests for packages, for all names, versions and      *)
(* causers: whatever a request, the solver or its undo does, it leaves what *)
(* stronger causers decided, and a request that is refused leaves all.      *)
(***************************************************************************)
EXTENDS Selectable, ListLemmas

-----------------------------------------------------------------------------
(* Setters.                                                                 *)

Setter == [StatusType -> StatusType \cup {Refused}]

\* It leaves what a stronger causer decided, or is refused.
Modest(F, c) ==
    F \in Setter /\ \A s \in StatusType : Outranked(s, c) => F[s] \in {s, Refused}

Level(c) == c \in Causer

LEMMA StatusFields ==
    /\ \A s \in StatusType :
        /\ s.value \in {"keep", "locked", "transact"} /\ s.by \in Causer
        /\ s = [value |-> s.value, by |-> s.by] /\ s # Refused
    /\ NoDecision \in StatusType
    /\ \A n, b : n \in {"keep", "locked", "transact"} /\ b \in Causer
            => [value |-> n, by |-> b] \in StatusType
    /\ \A b \in Causer : b \in Int /\ SOLVER <= b /\ b <= USER
    /\ {SOLVER, APPL_LOW, APPL_HIGH, USER} \subseteq Causer
  BY DEF StatusType, Refused, NoDecision, Causer, SOLVER, APPL_LOW, APPL_HIGH, USER

LEMMA Raised ==
    ASSUME NEW s \in StatusType, NEW c \in Causer
    PROVE  /\ RaisedTo(s, c) \in StatusType /\ RaisedTo(s, c).value = s.value
           /\ RaisedTo(s, c).by >= c /\ RaisedTo(s, c).by >= s.by
           /\ c <= s.by => RaisedTo(s, c) = s
<1> DEFINE b == IF c > s.by THEN c ELSE s.by
<1>1. b \in Causer /\ b >= c /\ b >= s.by /\ (c <= s.by => b = s.by)
  BY StatusFields
<1>2. RaisedTo(s, c) = [s EXCEPT !.by = b]
  BY DEF RaisedTo
<1> HIDE DEF b
<1>3. [s EXCEPT !.by = b] = [value |-> s.value, by |-> b]
  BY DEF StatusType
<1> QED
  BY <1>1, <1>2, <1>3, StatusFields

LEMMA SetTransactDoes ==
    ASSUME NEW s \in StatusType, NEW c \in Causer, NEW yes \in BOOLEAN
    PROVE  LET t == SetTransact(s, yes, c) IN
           /\ t \in StatusType \cup {Refused}
           /\ t # Refused => Transacts(t) = yes
           /\ t # Refused /\ yes => t.by >= c
           /\ ~ yes /\ t # Refused => t = s \/ t.value = "keep"
           /\ t = Refused => Outranked(s, c) /\ Transacts(s) # yes
           /\ Outranked(s, c) => t \in {s, Refused}
<1> DEFINE t == SetTransact(s, yes, c)
<1>1. s # Refused /\ s.by \in Causer
  BY StatusFields
<1>6. Outranked(s, c) => c <= s.by
  BY <1>1, StatusFields DEF Outranked
<1>7. /\ RaisedTo(s, c) \in StatusType /\ RaisedTo(s, c).value = s.value
      /\ RaisedTo(s, c).by >= c /\ (Outranked(s, c) => RaisedTo(s, c) = s)
  BY Raised, <1>6
<1>2. CASE Transacts(s) # yes /\ Outranked(s, c)
  <2>1. t = Refused
    BY <1>2 DEF SetTransact
  <2> QED
    BY <2>1, <1>2
<1>3. CASE Transacts(s) # yes /\ ~ Outranked(s, c)
  <2>1. t = [value |-> IF yes THEN "transact" ELSE "keep", by |-> c]
    BY <1>1, <1>3 DEF SetTransact
  <2>2. t \in StatusType /\ Transacts(t) = yes /\ t.by = c /\ (~ yes => t.value = "keep")
    BY <2>1, StatusFields DEF Transacts
  <2> QED
    BY <2>2, <1>3, StatusFields
<1>4. CASE Transacts(s) = yes /\ yes
  <2>1. t = RaisedTo(s, c)
    BY <1>1, <1>4 DEF SetTransact
  <2>2. Outranked(s, c) => t = s
    BY <2>1, <1>7
  <2> HIDE DEF t
  <2>3. t \in StatusType /\ t # Refused /\ Transacts(t) = yes /\ t.by >= c
    BY <2>1, <1>4, <1>7, StatusFields DEF Transacts
  <2>4. Outranked(s, c) => t \in {s, Refused}
    BY <2>2
  <2> QED
    BY <2>3, <2>4, <1>4 DEF t
<1>5. CASE Transacts(s) = yes /\ ~ yes
  <2>1. t = s
    BY <1>1, <1>5 DEF SetTransact
  <2> QED
    BY <2>1, <1>5, <1>1
<1> QED
  BY <1>2, <1>3, <1>4, <1>5

LEMMA SetLockDoes ==
    ASSUME NEW s \in StatusType, NEW c \in Causer, NEW yes \in BOOLEAN
    PROVE  LET t == SetLock(s, yes, c) IN
           /\ t \in StatusType \cup {Refused}
           /\ t # Refused => IsLocked(t) = yes
           /\ ~ yes /\ t # Refused => t = s \/ t = NoDecision
           /\ t = Refused => Outranked(s, c) \/ c \notin {USER, APPL_HIGH}
           /\ Outranked(s, c) => t \in {s, Refused}
<1> DEFINE t == SetLock(s, yes, c)
<1>1. s # Refused /\ s.by \in Causer
  BY StatusFields
<1>6. Outranked(s, c) => c <= s.by
  BY <1>1, StatusFields DEF Outranked
<1>7. /\ RaisedTo(s, c) \in StatusType /\ RaisedTo(s, c).value = s.value
      /\ RaisedTo(s, c).by >= c /\ (Outranked(s, c) => RaisedTo(s, c) = s)
  BY Raised, <1>6
<1>2. CASE IsLocked(s) = yes /\ yes
  <2>1. t = RaisedTo(s, c)
    BY <1>1, <1>2 DEF SetLock
  <2>2. Outranked(s, c) => t = s
    BY <2>1, <1>7
  <2> HIDE DEF t
  <2>3. t \in StatusType /\ t # Refused /\ IsLocked(t) = yes
    BY <2>1, <1>2, <1>7, StatusFields DEF IsLocked
  <2>4. Outranked(s, c) => t \in {s, Refused}
    BY <2>2
  <2> QED
    BY <2>3, <2>4, <1>2 DEF t
<1>3. CASE IsLocked(s) = yes /\ ~ yes
  <2>1. t = s
    BY <1>1, <1>3 DEF SetLock
  <2> QED
    BY <2>1, <1>3, <1>1
<1>4. CASE IsLocked(s) # yes /\ (c \notin {USER, APPL_HIGH} \/ Outranked(s, c))
  <2>1. t = Refused
    BY <1>1, <1>4 DEF SetLock
  <2> QED
    BY <2>1, <1>4
<1>5. CASE IsLocked(s) # yes /\ ~ (c \notin {USER, APPL_HIGH} \/ Outranked(s, c))
  <2>1. t = IF yes THEN [value |-> "locked", by |-> c] ELSE NoDecision
    BY <1>1, <1>5 DEF SetLock
  <2>2. t \in StatusType /\ IsLocked(t) = yes
    BY <2>1, StatusFields DEF IsLocked, NoDecision
  <2> QED
    BY <2>1, <2>2, <1>5, StatusFields
<1> QED
  BY <1>2, <1>3, <1>4, <1>5

LEMMA RefusedStays ==
    \A yes, c : SetTransact(Refused, yes, c) = Refused /\ SetLock(Refused, yes, c) = Refused
  BY DEF SetTransact, SetLock

LEMMA LockDoes ==
    ASSUME NEW s \in StatusType, NEW c \in Causer
    PROVE  LET t == Lock(s, c) IN
           /\ t \in StatusType \cup {Refused}
           /\ t # Refused => IsLocked(t)
           /\ c = USER => t # Refused
           /\ Outranked(s, c) => t \in {s, Refused}
<1> DEFINE u == SetTransact(s, FALSE, c)
           t == SetLock(u, TRUE, c)
<1>1. CASE u = Refused
  <2>1. t = Refused
    BY <1>1, RefusedStays
  <2>3. Outranked(s, c)
    BY <1>1, SetTransactDoes
  <2>4. c # USER
    BY <2>3, StatusFields DEF Outranked
  <2> QED
    BY <2>1, <2>4 DEF Lock
<1>2. CASE u # Refused
  <2>1. u \in StatusType /\ (Outranked(s, c) => u = s)
    BY <1>2, SetTransactDoes
  <2> HIDE DEF u
  <2>2. /\ t \in StatusType \cup {Refused} /\ (t # Refused => IsLocked(t))
        /\ t = Refused => Outranked(u, c) \/ c \notin {USER, APPL_HIGH}
        /\ Outranked(u, c) => t \in {u, Refused}
    BY <2>1, SetLockDoes
  <2>3. c = USER => ~ Outranked(u, c)
    BY <2>1, StatusFields DEF Outranked
  <2> QED
    BY <2>1, <2>2, <2>3 DEF Lock, u
<1> QED
  BY <1>1, <1>2

LEMMA UnlockDoes ==
    ASSUME NEW s \in StatusType, NEW c \in Causer
    PROVE  LET t == Unlock(s, c) IN
           /\ t \in StatusType \cup {Refused}
           /\ t # Refused => t.value = "keep"
           /\ Outranked(s, c) => t \in {s, Refused}
<1> DEFINE u == SetTransact(s, FALSE, c)
           t == SetLock(u, FALSE, c)
<1>1. CASE u = Refused
  BY <1>1, RefusedStays DEF Unlock
<1>2. CASE u # Refused
  <2>1. u \in StatusType /\ ~ Transacts(u) /\ (Outranked(s, c) => u = s)
    BY <1>2, SetTransactDoes
  <2> HIDE DEF u
  <2>2. /\ t \in StatusType \cup {Refused} /\ (t # Refused => ~ IsLocked(t))
        /\ t # Refused => t = u \/ t = NoDecision
        /\ Outranked(u, c) => t \in {u, Refused}
    BY <2>1, SetLockDoes
  <2>3. t # Refused => t.value = "keep"
    BY <2>1, <2>2, StatusFields DEF Transacts, IsLocked, NoDecision
  <2> QED
    BY <2>1, <2>2, <2>3 DEF Unlock, u
<1> QED
  BY <1>1, <1>2

\* What the setters do when they are not refused.
LEMMA Setters ==
    ASSUME NEW c \in Causer
    PROVE  /\ Modest(Ending(c), c) /\ Modest(Starting(c), c) /\ Modest(Locking(c), c)
           /\ Modest(Unlocking(c), c) /\ Modest(Forcing(c), c) /\ Modest(Starting(SOLVER), c)
           /\ \A s \in StatusType :
                /\ Ending(c)[s] # Refused => ~ Transacts(Ending(c)[s])
                /\ Starting(c)[s] # Refused => Transacts(Starting(c)[s]) /\ Starting(c)[s].by >= c
                /\ Forcing(c)[s] # Refused => Transacts(Forcing(c)[s]) /\ Forcing(c)[s].by >= c
                /\ Locking(c)[s] # Refused => IsLocked(Locking(c)[s])
                /\ Unlocking(c)[s] # Refused => Unlocking(c)[s].value = "keep"
                /\ c = USER => Ending(c)[s] # Refused /\ Locking(c)[s] # Refused
<1>1. \A s \in StatusType :
        /\ Ending(c)[s] = SetTransact(s, FALSE, c) /\ Starting(c)[s] = SetTransact(s, TRUE, c)
        /\ Starting(SOLVER)[s] = SetTransact(s, TRUE, SOLVER)
        /\ Locking(c)[s] = Lock(s, c) /\ Unlocking(c)[s] = Unlock(s, c)
        /\ Forcing(c)[s] = SetTransact(SetLock(s, FALSE, c), TRUE, c)
  BY DEF Ending, Starting, Locking, Unlocking, Forcing
<1>2. Modest(Ending(c), c) /\ Modest(Starting(c), c)
  BY <1>1, SetTransactDoes DEF Modest, Setter, Ending, Starting
<1>3. Modest(Locking(c), c)
  BY <1>1, LockDoes DEF Modest, Setter, Locking
<1>4. Modest(Unlocking(c), c)
  BY <1>1, UnlockDoes DEF Modest, Setter, Unlocking
<1>5. Modest(Starting(SOLVER), c)
  <2>1. \A s \in StatusType : Outranked(s, c) => Outranked(s, SOLVER)
    BY StatusFields DEF Outranked
  <2> QED
    BY <2>1, <1>1, SetTransactDoes, StatusFields DEF Modest, Setter, Starting
<1>6. ASSUME NEW s \in StatusType
      PROVE  /\ Forcing(c)[s] \in StatusType \cup {Refused}
             /\ Outranked(s, c) => Forcing(c)[s] \in {s, Refused}
             /\ Forcing(c)[s] # Refused => Transacts(Forcing(c)[s]) /\ Forcing(c)[s].by >= c
  <2> DEFINE u == SetLock(s, FALSE, c)
  <2>1. CASE u = Refused
    BY <2>1, <1>1, RefusedStays
  <2>2. CASE u # Refused
    <3>1. u \in StatusType /\ (Outranked(s, c) => u = s)
      BY <2>2, SetLockDoes
    <3> HIDE DEF u
    <3>2. /\ SetTransact(u, TRUE, c) \in StatusType \cup {Refused}
          /\ SetTransact(u, TRUE, c) # Refused =>
                Transacts(SetTransact(u, TRUE, c)) /\ SetTransact(u, TRUE, c).by >= c
          /\ Outranked(u, c) => SetTransact(u, TRUE, c) \in {u, Refused}
      BY <3>1, SetTransactDoes
    <3> QED
      BY <3>1, <3>2, <1>1 DEF u
  <2> QED
    BY <2>1, <2>2
<1>7. Modest(Forcing(c), c)
  BY <1>6 DEF Modest, Setter, Forcing
<1>8. ASSUME NEW s \in StatusType
      PROVE  /\ Ending(c)[s] # Refused => ~ Transacts(Ending(c)[s])
             /\ Starting(c)[s] # Refused => Transacts(Starting(c)[s]) /\ Starting(c)[s].by >= c
             /\ c = USER => Ending(c)[s] # Refused
  <2>1. ~ Outranked(s, USER)
    BY StatusFields DEF Outranked
  <2> DEFINE e == SetTransact(s, FALSE, c)  t == SetTransact(s, TRUE, c)
  <2>2. /\ e # Refused => ~ Transacts(e)
        /\ e = Refused => Outranked(s, c)
    BY SetTransactDoes
  <2>3. t # Refused => Transacts(t) /\ t.by >= c
    BY SetTransactDoes
  <2> HIDE DEF e, t
  <2> QED
    BY <1>1, <2>1, <2>2, <2>3 DEF e, t
<1>9. ASSUME NEW s \in StatusType
      PROVE  /\ Locking(c)[s] # Refused => IsLocked(Locking(c)[s])
             /\ Unlocking(c)[s] # Refused => Unlocking(c)[s].value = "keep"
             /\ c = USER => Locking(c)[s] # Refused
  <2> DEFINE l == Lock(s, c)  u == Unlock(s, c)
  <2>1. (l # Refused => IsLocked(l)) /\ (c = USER => l # Refused)
    BY LockDoes
  <2>2. u # Refused => u.value = "keep"
    BY UnlockDoes
  <2> HIDE DEF l, u
  <2> QED
    BY <1>1, <2>1, <2>2 DEF l, u
<1> QED
  BY <1>2, <1>3, <1>4, <1>5, <1>6, <1>7, <1>8, <1>9

-----------------------------------------------------------------------------
(* A name, and lists of versions.                                            *)

Sel(x) ==
    /\ x \in SelectableType
    /\ DOMAIN x.status = VersionsOf(x)
    /\ x.candidate \in AvailableOf(x) \cup {NoneChosen}

LEMMA SelFields ==
    ASSUME NEW x, Sel(x)
    PROVE  /\ x.catalog \in CatalogType /\ x.catalog \in UNION Pools
           /\ x.catalog.installed \in Seq(PoolItem) /\ x.catalog.available \in Seq(PoolItem)
           /\ x.catalog.installed # <<>> \/ x.catalog.available # <<>>
           /\ x.catalog.default \in AvailableOf(x) \cup {NoneChosen}
           /\ InstalledOf(x) \cap AvailableOf(x) = {}
           /\ InstalledOf(x) \subseteq VersionsOf(x) /\ AvailableOf(x) \subseteq VersionsOf(x)
           /\ VersionsOf(x) \subseteq PoolItem /\ NoneChosen \notin VersionsOf(x)
           /\ x.status \in [VersionsOf(x) -> StatusType]
           /\ x.candidate \in AvailableOf(x) \cup {NoneChosen}
           /\ x.candidate \in PoolItem \cup {NoneChosen}
           /\ x = [catalog |-> x.catalog, status |-> x.status, candidate |-> x.candidate]
<1>1. /\ x.catalog \in UNION Pools /\ x.candidate \in PoolItem \cup {NoneChosen}
      /\ x = [catalog |-> x.catalog, status |-> x.status, candidate |-> x.candidate]
      /\ \E S \in SUBSET PoolItem : x.status \in [S -> StatusType]
  BY DEF Sel, SelectableType
<1>2. /\ x.catalog \in CatalogType
      /\ x.catalog.installed # <<>> \/ x.catalog.available # <<>>
      /\ VersionsIn(x.catalog.installed) \cap VersionsIn(x.catalog.available) = {}
      /\ x.catalog.default \in VersionsIn(x.catalog.available) \cup {NoneChosen}
  BY <1>1, PoolAssumption
<1>3. x.catalog.installed \in Seq(PoolItem) /\ x.catalog.available \in Seq(PoolItem)
  BY <1>2 DEF CatalogType
<1>4. \A q \in Seq(PoolItem) : VersionsIn(q) \subseteq PoolItem
  BY DEF VersionsIn
<1>5. VersionsOf(x) \subseteq PoolItem /\ NoneChosen \notin VersionsOf(x)
  BY <1>3, <1>4, PoolAssumption DEF VersionsOf, InstalledOf, AvailableOf
<1>6. x.status \in [VersionsOf(x) -> StatusType]
  BY <1>1 DEF Sel
<1> QED
  BY <1>1, <1>2, <1>3, <1>5, <1>6 DEF Sel, VersionsOf, InstalledOf, AvailableOf

\* A name with other status, and with another choice.
LEMMA WithStatus ==
    ASSUME NEW x, Sel(x), NEW st \in [VersionsOf(x) -> StatusType],
           NEW y, y = [x EXCEPT !.status = st]
    PROVE  /\ Sel(y) /\ y.status = st /\ y.catalog = x.catalog /\ y.candidate = x.candidate
           /\ VersionsOf(y) = VersionsOf(x)
           /\ InstalledOf(y) = InstalledOf(x) /\ AvailableOf(y) = AvailableOf(x)
<1>1. y = [catalog |-> x.catalog, status |-> st, candidate |-> x.candidate]
  BY SelFields
<1>2. y.status = st /\ y.catalog = x.catalog /\ y.candidate = x.candidate
  BY <1>1
<1>3. /\ VersionsOf(y) = VersionsOf(x)
      /\ InstalledOf(y) = InstalledOf(x) /\ AvailableOf(y) = AvailableOf(x)
  BY <1>2 DEF VersionsOf, InstalledOf, AvailableOf
<1>4. st \in UNION {[S -> StatusType] : S \in SUBSET PoolItem} /\ DOMAIN st = VersionsOf(x)
  BY SelFields
<1>5. y \in SelectableType
  BY <1>1, <1>4, SelFields DEF SelectableType
<1> QED
  BY <1>2, <1>3, <1>4, <1>5, SelFields DEF Sel

LEMMA WithChoice ==
    ASSUME NEW x, Sel(x), NEW v \in AvailableOf(x) \cup {NoneChosen},
           NEW y, y = [x EXCEPT !.candidate = v]
    PROVE  /\ Sel(y) /\ y.status = x.status /\ y.catalog = x.catalog /\ y.candidate = v
           /\ VersionsOf(y) = VersionsOf(x)
           /\ InstalledOf(y) = InstalledOf(x) /\ AvailableOf(y) = AvailableOf(x)
<1>1. y = [catalog |-> x.catalog, status |-> x.status, candidate |-> v]
  BY SelFields
<1>2. y.status = x.status /\ y.catalog = x.catalog /\ y.candidate = v
  BY <1>1
<1>3. /\ VersionsOf(y) = VersionsOf(x)
      /\ InstalledOf(y) = InstalledOf(x) /\ AvailableOf(y) = AvailableOf(x)
  BY <1>2 DEF VersionsOf, InstalledOf, AvailableOf
<1>4. v \in PoolItem \cup {NoneChosen}
  BY SelFields
<1>5. y \in SelectableType
  BY <1>1, <1>4, SelFields DEF SelectableType, Sel
<1> QED
  BY <1>2, <1>3, <1>5, SelFields DEF Sel

LEMMA FirstInIs ==
    ASSUME NEW q \in Seq(PoolItem), NEW S, NEW o
    PROVE  /\ VersionsIn(q) \cap S = {} => FirstIn(q, S, o) = o
           /\ VersionsIn(q) \cap S # {} => FirstIn(q, S, o) \in VersionsIn(q) \cap S
<1> DEFINE K == {k \in DOMAIN q : q[k] \in S}
<1>1. ASSUME VersionsIn(q) \cap S # {} PROVE FirstIn(q, S, o) \in VersionsIn(q) \cap S
  <2>1. K # {} /\ K \subseteq Nat
    BY <1>1 DEF VersionsIn
  <2>2. Min(K) \in K
    BY <2>1, SmallestExists
  <2>3. FirstIn(q, S, o) = q[Min(K)]
    BY <1>1 DEF FirstIn
  <2> QED
    BY <2>2, <2>3 DEF VersionsIn
<1> QED
  BY <1>1 DEF FirstIn

LEMMA Candidates ==
    ASSUME NEW x, Sel(x)
    PROVE  /\ Transacting(x) \cap AvailableOf(x) = Going(x)
           /\ Going(x) = {} => /\ TransactingCandidate(x) = NoneChosen
                               /\ CandidateObj(x) = IF x.candidate = NoneChosen
                                                    THEN x.catalog.default ELSE x.candidate
           /\ Going(x) # {} => /\ TransactingCandidate(x) \in Going(x)
                               /\ CandidateObj(x) = TransactingCandidate(x)
           /\ TransactingCandidate(x) \in AvailableOf(x) \cup {NoneChosen}
           /\ CandidateObj(x) \in AvailableOf(x) \cup {NoneChosen}
           /\ InstalledObj(x) = NoneChosen <=> InstalledOf(x) = {}
           /\ InstalledOf(x) # {} => InstalledObj(x) \in InstalledOf(x)
           /\ InstalledOf(x) \cap Transacting(x) # {} => InstalledObj(x) \in Transacting(x)
<1> DEFINE av == x.catalog.available  in == x.catalog.installed  T == Transacting(x)
           other == IF x.candidate = NoneChosen THEN x.catalog.default ELSE x.candidate
           first == FirstIn(in, VersionsOf(x), NoneChosen)
<1>1. av \in Seq(PoolItem) /\ in \in Seq(PoolItem)
  BY SelFields
<1>2. T \cap AvailableOf(x) = Going(x)
  BY DEF Transacting, Going, VersionsOf
<1>3. VersionsIn(av) = AvailableOf(x) /\ VersionsIn(in) = InstalledOf(x)
  BY DEF AvailableOf, InstalledOf
<1>4. /\ Going(x) = {} => FirstIn(av, T, NoneChosen) = NoneChosen /\ FirstIn(av, T, other) = other
      /\ Going(x) # {} => FirstIn(av, T, NoneChosen) \in Going(x)
  BY <1>1, <1>2, <1>3, FirstInIs
<1>5. Going(x) # {} => FirstIn(av, T, other) = FirstIn(av, T, NoneChosen)
  BY <1>2, <1>3 DEF FirstIn
<1>6. Going(x) \subseteq AvailableOf(x)
  BY DEF Going
<1>7. other \in AvailableOf(x) \cup {NoneChosen}
  BY SelFields
<1>8. /\ InstalledOf(x) \cap VersionsOf(x) = {} => first = NoneChosen
      /\ InstalledOf(x) \cap VersionsOf(x) # {} => first \in InstalledOf(x)
  BY <1>1, <1>3, FirstInIs
<1>9. InstalledOf(x) \cap VersionsOf(x) = InstalledOf(x)
  BY DEF VersionsOf
<1>10. /\ InstalledOf(x) \cap T = {} => FirstIn(in, T, first) = first
       /\ InstalledOf(x) \cap T # {} => FirstIn(in, T, first) \in InstalledOf(x) \cap T
  BY <1>1, <1>3, FirstInIs
<1>11. NoneChosen \notin InstalledOf(x)
  BY SelFields
<1>12. /\ TransactingCandidate(x) = FirstIn(av, T, NoneChosen)
       /\ CandidateObj(x) = FirstIn(av, T, other)
       /\ InstalledObj(x) = FirstIn(in, T, first)
  BY DEF TransactingCandidate, CandidateObj, InstalledObj
<1> HIDE DEF T, first, other, av, in
<1>13. /\ InstalledObj(x) = NoneChosen <=> InstalledOf(x) = {}
       /\ InstalledOf(x) # {} => InstalledObj(x) \in InstalledOf(x)
       /\ InstalledOf(x) \cap T # {} => InstalledObj(x) \in T
  BY <1>8, <1>9, <1>10, <1>11, <1>12
<1>14. /\ Going(x) = {} => TransactingCandidate(x) = NoneChosen /\ CandidateObj(x) = other
       /\ Going(x) # {} => /\ TransactingCandidate(x) \in Going(x)
                           /\ CandidateObj(x) = TransactingCandidate(x)
       /\ TransactingCandidate(x) \in AvailableOf(x) \cup {NoneChosen}
       /\ CandidateObj(x) \in AvailableOf(x) \cup {NoneChosen}
  BY <1>4, <1>5, <1>6, <1>7, <1>12
<1> QED
  BY <1>2, <1>13, <1>14 DEF T, other

-----------------------------------------------------------------------------
(* Requests under way, for a name and a causer.                              *)

Req(x, r) ==
    /\ r = [ok |-> r.ok, backup |-> r.backup, now |-> r.now]
    /\ r.ok \in BOOLEAN /\ Sel(r.now) /\ r.now.catalog = x.catalog

\* What the request has changed is in the backup, and is not what a stronger
\* causer decided unless the request is refused.
Kept(x, r, c) ==
    /\ Req(x, r)
    /\ DOMAIN r.backup \subseteq VersionsOf(x)
    /\ \A v \in VersionsOf(x) :
        IF v \in DOMAIN r.backup THEN r.backup[v] = x.status[v]
                                 ELSE r.now.status[v] = x.status[v]
    /\ r.ok => \A v \in VersionsOf(x) :
                    Outranked(x.status[v], c) => r.now.status[v] = x.status[v]

LEMMA SameVersions ==
    ASSUME NEW x, NEW y, y.catalog = x.catalog
    PROVE  /\ VersionsOf(y) = VersionsOf(x) /\ InstalledOf(y) = InstalledOf(x)
           /\ AvailableOf(y) = AvailableOf(x)
  BY DEF VersionsOf, InstalledOf, AvailableOf

LEMMA RequestBegins ==
    ASSUME NEW x, Sel(x), NEW c
    PROVE  Kept(x, Begin(x), c) /\ Req(x, Reject(x))
<1>1. Begin(x) = [ok |-> TRUE, backup |-> <<>>, now |-> x]
  BY DEF Begin
<1>2. Reject(x) = [ok |-> FALSE, backup |-> <<>>, now |-> x]
  BY DEF Reject
<1>3. Req(x, Begin(x)) /\ Req(x, Reject(x))
  BY <1>1, <1>2 DEF Req
<1>4. DOMAIN <<>> = {} /\ <<>> = [v \in {} |-> <<>>[v]]
  OBVIOUS
<1> QED
  BY <1>1, <1>3, <1>4 DEF Kept

\* The backup is made of the versions that are not in it.
LEMMA BackupIs ==
    ASSUME NEW x, NEW r, Req(x, r), NEW S, NEW q, q = Backup(r, S)
    PROVE  /\ q = [ok |-> r.ok, backup |-> q.backup, now |-> r.now]
           /\ q.ok = r.ok /\ q.now = r.now
           /\ q.backup = Extended(r.backup, S, r.now.status)
<1> DEFINE b == Extended(r.backup, S, r.now.status)
<1>1. q = [r EXCEPT !.backup = b]
  BY DEF Backup
<1> HIDE DEF b
<1>2. q = [ok |-> r.ok, backup |-> b, now |-> r.now]
  BY <1>1 DEF Req
<1>3. q.ok = r.ok /\ q.now = r.now /\ q.backup = b
  BY <1>2
<1> QED
  BY <1>2, <1>3 DEF b

LEMMA BackupKeeps ==
    ASSUME NEW x, Sel(x), NEW c, NEW r, Kept(x, r, c), NEW S \in SUBSET VersionsOf(x),
           NEW q, q = Backup(r, S)
    PROVE  /\ Kept(x, q, c) /\ q.ok = r.ok /\ q.now = r.now
           /\ DOMAIN q.backup = DOMAIN r.backup \cup S
<1> DEFINE b == Extended(r.backup, S, r.now.status)
<1>1. /\ q = [ok |-> r.ok, backup |-> q.backup, now |-> r.now]
      /\ q.ok = r.ok /\ q.now = r.now /\ q.backup = b
  BY BackupIs DEF Kept
<1>2. /\ DOMAIN b = DOMAIN r.backup \cup S
      /\ \A v \in DOMAIN b : b[v] = IF v \in DOMAIN r.backup THEN r.backup[v] ELSE r.now.status[v]
  BY DEF Extended
<1> HIDE DEF b
<1>3. Req(x, q)
  BY <1>1 DEF Kept, Req
<1> QED
  BY <1>1, <1>2, <1>3 DEF Kept

\* What the setter F does to the versions in S.
Applied(x, r, S, F, q) ==
    /\ Req(x, q) /\ q.now.candidate = r.now.candidate
    /\ q.ok <=> \A v \in S : F[r.now.status[v]] # Refused
    /\ q.backup = Backup(r, S).backup
    /\ \A v \in VersionsOf(x) :
         q.now.status[v] = IF v \in S THEN Try(r.now.status[v], F[r.now.status[v]])
                           ELSE r.now.status[v]

LEMMA ForEachDoes ==
    ASSUME NEW x, Sel(x), NEW r, Req(x, r), r.ok,
           NEW S \in SUBSET VersionsOf(x), NEW F \in Setter
    PROVE  Applied(x, r, S, F, ForEach(r, S, F))
<1> DEFINE old == r.now.status
           q   == ForEach(r, S, F)
           ok  == \A v \in S : F[old[v]] # Refused
           st  == [v \in DOMAIN old |-> IF v \in S THEN Try(old[v], F[old[v]]) ELSE old[v]]
           b   == Backup(r, S).backup
           y   == [r.now EXCEPT !.status = st]
<1>1. q = [ok |-> ok, backup |-> b, now |-> y]
  BY DEF ForEach
<1>3. Sel(r.now) /\ VersionsOf(r.now) = VersionsOf(x) /\ old \in [VersionsOf(x) -> StatusType]
  BY SameVersions, SelFields DEF Req
<1>4. st \in [VersionsOf(r.now) -> StatusType]
  <2>1. \A s \in StatusType : Try(s, F[s]) \in StatusType
    BY DEF Try, Setter
  <2> QED
    BY <1>3, <2>1
<1>5. \A v \in VersionsOf(x) : st[v] = IF v \in S THEN Try(old[v], F[old[v]]) ELSE old[v]
  BY <1>3
<1>9. ok \in BOOLEAN
  OBVIOUS
<1> HIDE DEF b, ok, st, q
<1>7. Sel(y) /\ y.status = st /\ y.catalog = r.now.catalog /\ y.candidate = r.now.candidate
  BY <1>3, <1>4, WithStatus
<1> HIDE DEF y
<1>8. q.ok = ok /\ q.backup = b /\ q.now = y
  BY <1>1
<1>10. Req(x, q)
  BY <1>1, <1>7, <1>8, <1>9 DEF Req
<1> QED
  BY <1>5, <1>7, <1>8, <1>10 DEF ok, b, q, Applied

LEMMA ForEachKeeps ==
    ASSUME NEW x, Sel(x), NEW c, NEW r, Kept(x, r, c),
           NEW S \in SUBSET VersionsOf(x), NEW F, Modest(F, c), NEW q, q = ForEach(r, S, F)
    PROVE  Kept(x, q, c)
<1>1. CASE ~ r.ok
  BY <1>1 DEF ForEach
<1>2. CASE r.ok
  <2>1. F \in Setter /\ Req(x, r)
    BY DEF Modest, Kept
  <2>2. /\ Req(x, q) /\ (q.ok <=> \A v \in S : F[r.now.status[v]] # Refused)
        /\ q.backup = Backup(r, S).backup
        /\ \A v \in VersionsOf(x) :
             q.now.status[v] = IF v \in S THEN Try(r.now.status[v], F[r.now.status[v]])
                               ELSE r.now.status[v]
    BY <1>2, <2>1, ForEachDoes DEF Applied
  <2>3. /\ Kept(x, Backup(r, S), c) /\ Backup(r, S).now = r.now
        /\ DOMAIN Backup(r, S).backup = DOMAIN r.backup \cup S
    BY BackupKeeps
  <2>4. ASSUME NEW v \in VersionsOf(x), v \notin DOMAIN q.backup
        PROVE  q.now.status[v] = x.status[v]
    BY <2>2, <2>3, <2>4 DEF Kept
  <2>5. ASSUME q.ok, NEW v \in VersionsOf(x), Outranked(x.status[v], c)
        PROVE  q.now.status[v] = x.status[v]
    <3>1. r.now.status[v] = x.status[v] /\ x.status[v] \in StatusType
      BY <1>2, <2>5, SelFields DEF Kept
    <3>2. v \in S => F[x.status[v]] = x.status[v]
      BY <2>2, <2>5, <3>1 DEF Modest
    <3> QED
      BY <2>2, <3>1, <3>2 DEF Try
  <2> QED
    BY <2>2, <2>3, <2>4, <2>5 DEF Kept
<1> QED
  BY <1>1, <1>2

\* A request that failed has changed nothing.
LEMMA OutcomeStands ==
    ASSUME NEW x, Sel(x), NEW c, NEW r, Kept(x, r, c), NEW q, q = Outcome(r)
    PROVE  /\ Req(x, q) /\ Unharmed(x, q, c) /\ q.ok = r.ok
           /\ r.ok => q = r
           /\ q.now.candidate = r.now.candidate
<1>1. CASE r.ok
  BY <1>1 DEF Outcome, Unharmed, Kept
<1>2. CASE ~ r.ok
  <2> DEFINE st == Extended(r.backup, DOMAIN r.now.status, r.now.status)
             y  == [r.now EXCEPT !.status = st]
  <2>1. q = [r EXCEPT !.now.status = st]
    BY <1>2 DEF Outcome
  <2>2. q = [ok |-> r.ok, backup |-> r.backup, now |-> y]
    <3> HIDE DEF st
    <3> QED
      BY <2>1 DEF Kept, Req
  <2>3. VersionsOf(r.now) = VersionsOf(x) /\ r.now.status \in [VersionsOf(x) -> StatusType]
    BY SameVersions, SelFields DEF Kept, Req
  <2>4. st = x.status
    <3>1. /\ DOMAIN st = DOMAIN r.backup \cup VersionsOf(x)
          /\ \A v \in DOMAIN st :
                st[v] = IF v \in DOMAIN r.backup THEN r.backup[v] ELSE r.now.status[v]
          /\ st = [v \in DOMAIN st |-> st[v]]
      BY <2>3 DEF Extended
    <3> HIDE DEF st
    <3>2. DOMAIN st = VersionsOf(x) /\ \A v \in VersionsOf(x) : st[v] = x.status[v]
      BY <3>1 DEF Kept
    <3>3. x.status = [v \in VersionsOf(x) |-> x.status[v]]
      BY SelFields
    <3> QED
      BY <3>1, <3>2, <3>3
  <2>5. x.status \in [VersionsOf(r.now) -> StatusType]
    BY <2>3, SelFields
  <2> HIDE DEF st
  <2>6. /\ Sel(y) /\ y.status = x.status /\ y.catalog = r.now.catalog
        /\ y.candidate = r.now.candidate
    BY <2>4, <2>5, WithStatus DEF Kept, Req
  <2> HIDE DEF y
  <2>7. q.ok = r.ok /\ q.now = y /\ Req(x, q)
    BY <2>2, <2>6 DEF Req, Kept
  <2> QED
    BY <1>2, <2>6, <2>7 DEF Unharmed
<1> QED
  BY <1>1, <1>2

-----------------------------------------------------------------------------
(* Requests for the name.                                                     *)

\* What one of them has to do: to change nothing, or only what it may.
Allowed(x, q, c) == Req(x, q) /\ Unharmed(x, q, c)

LEMMA VersionSets ==
    ASSUME NEW x, Sel(x)
    PROVE  /\ InstalledOf(x) \in SUBSET VersionsOf(x) /\ AvailableOf(x) \in SUBSET VersionsOf(x)
           /\ \A v \in VersionsOf(x) : {v} \in SUBSET VersionsOf(x)
           /\ \A v, S : /\ Identical(x, v, S) \subseteq S
                        /\ S \subseteq VersionsOf(x) => Identical(x, v, S) \in SUBSET VersionsOf(x)
           /\ \A S : AvailableOf(x) \cap S \in SUBSET VersionsOf(x)
  BY DEF VersionsOf, Identical

LEMMA MakingWay ==
    ASSUME NEW c \in Causer, NEW multi \in BOOLEAN,
           NEW F, F = [s \in StatusType |-> MakeWay(s, c, multi)]
    PROVE  Modest(F, c)
<1>1. \A s \in StatusType : F[s] = MakeWay(s, c, multi)
  OBVIOUS
<1>2. ASSUME NEW s \in StatusType
      PROVE  F[s] \in StatusType \cup {Refused} /\ (Outranked(s, c) => F[s] \in {s, Refused})
  <2> DEFINE u == Unlock(s, c)
  <2>1. u \in StatusType \cup {Refused} /\ (Outranked(s, c) => u \in {s, Refused})
    BY UnlockDoes
  <2>2. CASE multi
    BY <2>1, <2>2, <1>1 DEF MakeWay
  <2>3. CASE ~ multi /\ u = Refused
    BY <2>1, <2>3, <1>1, RefusedStays DEF MakeWay
  <2>4. CASE ~ multi /\ u # Refused
    <3> HIDE DEF u
    <3>1. F[s] = SetTransact(u, TRUE, SOLVER)
      BY <2>4, <1>1 DEF MakeWay, u
    <3>2. u \in StatusType /\ SOLVER \in Causer
      BY <2>1, <2>4, StatusFields
    <3>3. /\ SetTransact(u, TRUE, SOLVER) \in StatusType \cup {Refused}
          /\ Outranked(u, SOLVER) => SetTransact(u, TRUE, SOLVER) \in {u, Refused}
      BY <3>2, SetTransactDoes
    <3>4. Outranked(s, c) => Outranked(s, SOLVER)
      BY StatusFields DEF Outranked
    <3> QED
      BY <2>1, <2>4, <3>1, <3>3, <3>4
  <2> QED
    BY <2>2, <2>3, <2>4
<1>3. F \in Setter
  BY <1>2 DEF Setter
<1> QED
  BY <1>2, <1>3 DEF Modest

LEMMA InstallAllowed ==
    ASSUME NEW x, Sel(x), NEW c \in Causer, CandidateObj(x) # NoneChosen
    PROVE  Allowed(x, SetInstall(x, c), c)
<1> DEFINE cand == CandidateObj(x)
           multi == cand \in x.catalog.multi
           F    == [s \in StatusType |-> MakeWay(s, c, multi)]
           ready    == ForEach(Begin(x), InstalledOf(x), F)
           unlocked == ForEach(ready, AvailableOf(x), Unlocking(c))
           started  == ForEach(unlocked, {cand}, Starting(c))
<1>1. Modest(F, c)
  <2>1. multi \in BOOLEAN
    OBVIOUS
  <2> HIDE DEF multi
  <2> QED
    BY <2>1, MakingWay
<1>2. cand \in VersionsOf(x)
  BY Candidates, SelFields
<1> HIDE DEF F, cand
<1>3. Kept(x, ready, c)
  BY <1>1, RequestBegins, ForEachKeeps, VersionSets
<1> HIDE DEF ready
<1>4. Kept(x, unlocked, c)
  BY <1>3, Setters, ForEachKeeps, VersionSets
<1> HIDE DEF unlocked
<1>5. Kept(x, started, c)
  BY <1>2, <1>4, Setters, ForEachKeeps, VersionSets
<1> HIDE DEF started
<1>6. SetInstall(x, c) = Outcome(started)
  BY DEF SetInstall, started, unlocked, ready, F, cand, multi
<1> QED
  BY <1>5, <1>6, OutcomeStands DEF Allowed

LEMMA DeleteAllowed ==
    ASSUME NEW x, Sel(x), NEW c \in Causer
    PROVE  Allowed(x, SetDelete(x, c), c)
<1> DEFINE ready == ForEach(Begin(x), AvailableOf(x), Ending(c))
           last  == ForEach(ready, InstalledOf(x), Forcing(c))
<1>1. Kept(x, ready, c)
  BY Setters, RequestBegins, ForEachKeeps, VersionSets
<1> HIDE DEF ready
<1>2. Kept(x, last, c)
  BY <1>1, Setters, ForEachKeeps, VersionSets
<1> HIDE DEF last
<1>3. SetDelete(x, c) = Outcome(last)
  BY DEF SetDelete, last, ready
<1> QED
  BY <1>2, <1>3, OutcomeStands DEF Allowed

LEMMA UnsetAllowed ==
    ASSUME NEW x, Sel(x), NEW c \in Causer
    PROVE  Allowed(x, Unset(x, c), c)
<1> DEFINE ready == ForEach(Begin(x), InstalledOf(x), Unlocking(c))
           last  == ForEach(ready, AvailableOf(x), Unlocking(c))
<1>1. Kept(x, ready, c)
  BY Setters, RequestBegins, ForEachKeeps, VersionSets
<1> HIDE DEF ready
<1>2. Kept(x, last, c)
  BY <1>1, Setters, ForEachKeeps, VersionSets
<1> HIDE DEF last
<1>3. Unset(x, c) = Outcome(last)
  BY DEF Unset, last, ready
<1> QED
  BY <1>2, <1>3, OutcomeStands DEF Allowed

\* Nothing outranks the user.
LEMMA UserMay ==
    ASSUME NEW x, Sel(x), NEW q, Req(x, q), q.ok
    PROVE  Allowed(x, q, USER)
<1>1. \A v \in VersionsOf(x) : ~ Outranked(x.status[v], USER)
  BY SelFields, StatusFields DEF Outranked
<1> QED
  BY <1>1 DEF Allowed, Unharmed

LEMMA ReqSaysOk ==
    ASSUME NEW x, NEW r, Req(x, r), NEW q, q = [r EXCEPT !.ok = TRUE]
    PROVE  Req(x, q) /\ q.ok /\ q.now = r.now
<1>1. q = [ok |-> TRUE, backup |-> r.backup, now |-> r.now]
  BY DEF Req
<1>2. q.ok = TRUE /\ q.backup = r.backup /\ q.now = r.now
  BY <1>1
<1> QED
  BY <1>1, <1>2 DEF Req

LEMMA ProtectedAllowed ==
    ASSUME NEW x, Sel(x)
    PROVE  Allowed(x, SetProtected(x, USER), USER)
<1> DEFINE ready == ForEach(Begin(x), AvailableOf(x), Ending(USER))
           again == [ready EXCEPT !.ok = TRUE]
           last  == ForEach(again, InstalledOf(x), Locking(USER))
           done  == [last EXCEPT !.ok = TRUE]
<1>0. Modest(Ending(USER), USER) /\ Modest(Locking(USER), USER)
  BY StatusFields, Setters
<1>1. Req(x, ready)
  <2>1. Kept(x, ready, USER)
    BY <1>0, RequestBegins, ForEachKeeps, VersionSets
  <2> QED
    BY <2>1 DEF Kept
<1> HIDE DEF ready
<1>2. Req(x, again) /\ again.ok
  BY <1>1, ReqSaysOk
<1> HIDE DEF again
<1>3. Locking(USER) \in Setter
  BY <1>0 DEF Modest
<1>4. Req(x, last)
  BY <1>2, <1>3, ForEachDoes, VersionSets DEF Applied
<1> HIDE DEF last
<1>5. Req(x, done) /\ done.ok
  BY <1>4, ReqSaysOk
<1> HIDE DEF done
<1>6. SetProtected(x, USER) = done
  BY DEF SetProtected, done, last, again, ready
<1> QED
  BY <1>5, <1>6, UserMay

LEMMA TabooAllowed ==
    ASSUME NEW x, Sel(x)
    PROVE  Allowed(x, SetTaboo(x, USER), USER)
<1> DEFINE last  == ForEach(Begin(x), AvailableOf(x), Locking(USER))
           done  == [last EXCEPT !.ok = TRUE]
<1>0. Modest(Locking(USER), USER)
  BY StatusFields, Setters
<1>1. Req(x, last)
  <2>1. Kept(x, last, USER)
    BY <1>0, RequestBegins, ForEachKeeps, VersionSets
  <2> QED
    BY <2>1 DEF Kept
<1> HIDE DEF last
<1>2. Req(x, done) /\ done.ok
  BY <1>1, ReqSaysOk
<1> HIDE DEF done
<1>3. SetTaboo(x, USER) = done
  BY DEF SetTaboo, done, last
<1> QED
  BY <1>2, <1>3, UserMay

LEMMA RejectAllowed ==
    ASSUME NEW x, Sel(x), NEW c
    PROVE  Allowed(x, Reject(x), c)
  BY RequestBegins DEF Allowed, Unharmed, Reject

LEMMA StatusAllowed ==
    ASSUME NEW x, Sel(x), NEW c \in Causer, NEW want \in Want
    PROVE  Allowed(x, SetStatus(x, want, c), c)
<1>1. CASE want = "Protected" /\ c = USER /\ InstalledObj(x) # NoneChosen
  BY <1>1, ProtectedAllowed DEF SetStatus
<1>2. CASE want = "Taboo" /\ c = USER /\ CandidateObj(x) # NoneChosen
  BY <1>2, TabooAllowed DEF SetStatus
<1>3. CASE want = "Del" /\ InstalledObj(x) # NoneChosen
  BY <1>3, DeleteAllowed DEF SetStatus
<1>4. CASE want = "Install" /\ CandidateObj(x) # NoneChosen /\ InstalledObj(x) = NoneChosen
  BY <1>4, InstallAllowed DEF SetStatus
<1>5. CASE want = "Update" /\ CandidateObj(x) # NoneChosen /\ InstalledObj(x) # NoneChosen
  BY <1>5, InstallAllowed DEF SetStatus
<1>6. CASE want = "KeepInstalled" /\ InstalledObj(x) # NoneChosen
  BY <1>6, UnsetAllowed DEF SetStatus
<1>7. CASE want = "NoInst" /\ InstalledObj(x) = NoneChosen
  BY <1>7, UnsetAllowed DEF SetStatus
<1>8. ASSUME /\ ~(want = "Protected" /\ c = USER /\ InstalledObj(x) # NoneChosen)
             /\ ~(want = "Taboo" /\ c = USER /\ CandidateObj(x) # NoneChosen)
             /\ ~(want = "Del" /\ InstalledObj(x) # NoneChosen)
             /\ ~(want = "Install" /\ CandidateObj(x) # NoneChosen /\ InstalledObj(x) = NoneChosen)
             /\ ~(want = "Update" /\ CandidateObj(x) # NoneChosen /\ InstalledObj(x) # NoneChosen)
             /\ ~(want = "KeepInstalled" /\ InstalledObj(x) # NoneChosen)
             /\ ~(want = "NoInst" /\ InstalledObj(x) = NoneChosen)
      PROVE  SetStatus(x, want, c) = Reject(x)
  BY <1>8 DEF SetStatus
<1> QED
  BY <1>1, <1>2, <1>3, <1>4, <1>5, <1>6, <1>7, <1>8, RejectAllowed

-----------------------------------------------------------------------------
(* The choice of the candidate, and requests for one version.                *)

\* What the choice of v does to the transaction of the present candidate.
Chosen(x, v, c, q) ==
    /\ Req(x, q)
    /\ q.ok => v \in AvailableOf(x) /\ q.now.candidate = v
    /\ \/ /\ q.now.status = x.status
          /\ q.ok => TransactingCandidate(x) \in {NoneChosen, v}
       \/ /\ q.ok /\ TransactingCandidate(x) \in AvailableOf(x) \ {v}
          /\ q.now.status[TransactingCandidate(x)] = SetTransact(x.status[TransactingCandidate(x)], FALSE, c)
          /\ q.now.status[v] = SetTransact(x.status[v], TRUE, c)
          /\ Refused \notin {q.now.status[TransactingCandidate(x)], q.now.status[v]}
          /\ \A w \in VersionsOf(x) \ {v, TransactingCandidate(x)} :
                q.now.status[w] = x.status[w]

LEMMA CandidateDoes ==
    ASSUME NEW x, Sel(x), NEW v, NEW c \in Causer
    PROVE  Chosen(x, v, c, SetCandidate(x, v, c))
<1> DEFINE new    == IF v \in AvailableOf(x) THEN v ELSE NoneChosen
           trans  == TransactingCandidate(x)
           ended  == SetTransact(x.status[trans], FALSE, c)
           begun  == SetTransact(x.status[new], TRUE, c)
           y      == [x EXCEPT !.candidate = new]
           chosen == [Begin(y) EXCEPT !.ok = (new # NoneChosen)]
           q      == SetCandidate(x, v, c)
<1>0. NoneChosen \notin AvailableOf(x)
  BY SelFields
<1>1. /\ Sel(y) /\ y.status = x.status /\ y.catalog = x.catalog /\ y.candidate = new
  BY WithChoice
<1>2. chosen = [ok |-> (new # NoneChosen), backup |-> <<>>, now |-> y]
  BY DEF Begin
<1>3. trans \in AvailableOf(x) \cup {NoneChosen}
  BY Candidates
<1> HIDE DEF y, trans
<1>4. /\ Req(x, chosen) /\ chosen.now = y /\ (chosen.ok <=> new # NoneChosen)
      /\ chosen.backup = <<>>
  BY <1>1, <1>2 DEF Req
<1>5. CASE new = NoneChosen \/ trans \in {NoneChosen, new}
  <2>1. q = chosen
    BY <1>5 DEF SetCandidate, trans, y
  <2> HIDE DEF chosen, q
  <2> QED
    BY <2>1, <1>0, <1>1, <1>4, <1>5 DEF Chosen, trans, q
<1>6. CASE ~(new = NoneChosen \/ trans \in {NoneChosen, new}) /\ Refused \in {ended, begun}
  <2>1. q = Reject(x)
    BY <1>6 DEF SetCandidate, trans, y
  <2>2. Req(x, Reject(x)) /\ ~ Reject(x).ok /\ Reject(x).now = x
    BY RequestBegins DEF Reject
  <2> HIDE DEF q
  <2> QED
    BY <2>1, <2>2 DEF Chosen, q
<1>7. CASE ~(new = NoneChosen \/ trans \in {NoneChosen, new}) /\ Refused \notin {ended, begun}
  <2> DEFINE st == [x.status EXCEPT ![trans] = ended, ![new] = begun]
             z  == [y EXCEPT !.status = st]
  <2>1. q = [chosen EXCEPT !.now.status = [@ EXCEPT ![trans] = ended, ![new] = begun]]
    BY <1>7 DEF SetCandidate, trans, y
  <2>2. new = v /\ v \in AvailableOf(x) /\ trans \in AvailableOf(x) /\ trans # v
    BY <1>3, <1>7
  <2>3. x.status \in [VersionsOf(x) -> StatusType] /\ v \in VersionsOf(x) /\ trans \in VersionsOf(x)
    BY <2>2, SelFields
  <2>4. ended \in StatusType /\ begun \in StatusType
    <3> DEFINE a == x.status[trans]  b == x.status[v]
    <3>1. a \in StatusType /\ b \in StatusType
      BY <2>3
    <3>2. ended = SetTransact(a, FALSE, c) /\ begun = SetTransact(b, TRUE, c)
      BY <2>2
    <3>3. Refused # ended /\ Refused # begun
      BY <1>7
    <3> HIDE DEF a, b, ended, begun
    <3>4. SetTransact(a, FALSE, c) \in StatusType \cup {Refused}
      BY <3>1, SetTransactDoes
    <3>5. SetTransact(b, TRUE, c) \in StatusType \cup {Refused}
      BY <3>1, SetTransactDoes
    <3> QED
      BY <3>2, <3>3, <3>4, <3>5
  <2> HIDE DEF ended, begun, chosen
  <2>5. /\ st \in [VersionsOf(x) -> StatusType] /\ st[trans] = ended /\ st[v] = begun
        /\ \A w \in VersionsOf(x) \ {v, trans} : st[w] = x.status[w]
    BY <2>2, <2>3, <2>4
  <2>6. q = [chosen EXCEPT !.now.status = st]
    BY <2>1, <1>1, <1>4
  <2> HIDE DEF st
  <2>7. q = [ok |-> TRUE, backup |-> <<>>, now |-> z]
    <3>1. chosen = [ok |-> TRUE, backup |-> <<>>, now |-> y]
      BY <1>2, <1>7 DEF chosen
    <3> HIDE DEF q
    <3> QED
      BY <2>6, <3>1
  <2>8. VersionsOf(y) = VersionsOf(x)
    BY <1>1, SameVersions
  <2>9. Sel(z) /\ z.status = st /\ z.catalog = y.catalog /\ z.candidate = y.candidate
    BY <1>1, <2>5, <2>8, WithStatus
  <2> HIDE DEF z, q
  <2>10. q.ok = TRUE /\ q.backup = <<>> /\ q.now = z
    BY <2>7
  <2>11. Req(x, q)
    BY <2>7, <2>9, <2>10, <1>1 DEF Req
  <2>12. ended = SetTransact(x.status[trans], FALSE, c) /\ begun = SetTransact(x.status[v], TRUE, c)
    BY <2>2 DEF ended, begun
  <2>13. /\ v \in AvailableOf(x) /\ q.now.candidate = v
         /\ trans \in AvailableOf(x) \ {v}
         /\ q.now.status[trans] = ended /\ q.now.status[v] = begun
         /\ Refused \notin {ended, begun}
         /\ \A w \in VersionsOf(x) \ {v, trans} : q.now.status[w] = x.status[w]
    BY <1>1, <1>7, <2>2, <2>5, <2>9, <2>10
  <2> QED
    BY <2>10, <2>11, <2>12, <2>13 DEF Chosen, trans, q
<1> QED
  BY <1>5, <1>6, <1>7

LEMMA CandidateAllowed ==
    ASSUME NEW x, Sel(x), NEW v, NEW c \in Causer, NEW q, q = SetCandidate(x, v, c)
    PROVE  /\ Allowed(x, q, c)
           /\ \A w \in VersionsOf(x) \ AvailableOf(x) : q.now.status[w] = x.status[w]
<1> DEFINE trans == TransactingCandidate(x)
<1>1. Chosen(x, v, c, q)
  BY CandidateDoes
<1>2. CASE q.now.status = x.status
  BY <1>1, <1>2 DEF Allowed, Unharmed, Chosen
<1>3. CASE q.now.status # x.status
  <2>1. /\ q.ok /\ trans \in AvailableOf(x) /\ v \in AvailableOf(x)
        /\ q.now.status[trans] = SetTransact(x.status[trans], FALSE, c)
        /\ q.now.status[v] = SetTransact(x.status[v], TRUE, c)
        /\ Refused \notin {q.now.status[trans], q.now.status[v]}
        /\ \A w \in VersionsOf(x) \ {v, trans} : q.now.status[w] = x.status[w]
    BY <1>1, <1>3 DEF Chosen
  <2>2. x.status[trans] \in StatusType /\ x.status[v] \in StatusType
    BY <2>1, SelFields
  <2>3. /\ Outranked(x.status[trans], c) => q.now.status[trans] = x.status[trans]
        /\ Outranked(x.status[v], c) => q.now.status[v] = x.status[v]
    <3> DEFINE a == x.status[trans]  b == x.status[v]
    <3>1. a \in StatusType /\ b \in StatusType
      BY <2>2
    <3> HIDE DEF a, b
    <3>2. Outranked(a, c) => SetTransact(a, FALSE, c) \in {a, Refused}
      BY <3>1, SetTransactDoes
    <3>3. Outranked(b, c) => SetTransact(b, TRUE, c) \in {b, Refused}
      BY <3>1, SetTransactDoes
    <3> QED
      BY <2>1, <3>2, <3>3 DEF a, b
  <2> QED
    BY <2>1, <2>3, <1>1 DEF Allowed, Unharmed, Chosen
<1> QED
  BY <1>2, <1>3

\* What a request is after the step p.
After(x, r, p, q) == Req(x, q) /\ q.ok = p.ok /\ q.backup = r.backup /\ q.now = p.now

LEMMA NestedIs ==
    ASSUME NEW x, NEW r, Req(x, r), r.ok, NEW p, Req(x, p)
    PROVE  After(x, r, p, Nested(r, p))
<1> DEFINE q == Nested(r, p)
<1>1. q = [r EXCEPT !.ok = p.ok, !.now = p.now]
  BY DEF Nested
<1>2. q = [ok |-> p.ok, backup |-> r.backup, now |-> p.now]
  BY <1>1 DEF Req
<1> HIDE DEF q
<1>3. q.ok = p.ok /\ q.backup = r.backup /\ q.now = p.now
  BY <1>2
<1>4. Req(x, q)
  BY <1>2, <1>3 DEF Req
<1> QED
  BY <1>3, <1>4 DEF After, q

\* A request is about the name as well as about what has become of it.
LEMMA ReqOfNow ==
    ASSUME NEW x, NEW r, Req(x, r), NEW p, Req(r.now, p)
    PROVE  Req(x, p)
  BY DEF Req

LEMMA BackupAllKeeps ==
    ASSUME NEW x, Sel(x), NEW c, NEW r, Kept(x, r, c), NEW q, q = BackupAll(r)
    PROVE  /\ Kept(x, q, c) /\ q.ok = r.ok
           /\ q.ok => AvailableOf(x) \subseteq DOMAIN q.backup
<1>1. CASE r.ok
  <2>1. AvailableOf(r.now) = AvailableOf(x)
    BY SameVersions DEF Kept, Req
  <2>2. q = Backup(r, AvailableOf(x))
    BY <1>1, <2>1 DEF BackupAll
  <2>3. AvailableOf(x) \in SUBSET VersionsOf(x)
    BY VersionSets
  <2> QED
    BY <2>2, <2>3, BackupKeeps
<1>2. CASE ~ r.ok
  BY <1>2 DEF BackupAll
<1> QED
  BY <1>1, <1>2

\* The backup only grows.
LEMMA ForEachBacksUp ==
    ASSUME NEW x, Sel(x), NEW r, Req(x, r), r.ok, NEW S, NEW F
    PROVE  DOMAIN r.backup \subseteq DOMAIN ForEach(r, S, F).backup
<1> DEFINE q == ForEach(r, S, F)
           b == Backup(r, S)
<1>1. q.backup = b.backup
  BY DEF ForEach
<1> HIDE DEF b, q
<1>2. b.backup = Extended(r.backup, S, r.now.status)
  BY BackupIs DEF b
<1>3. DOMAIN b.backup = DOMAIN r.backup \cup S
  BY <1>2 DEF Extended
<1> QED
  BY <1>1, <1>3 DEF q

\* A step that changes only what is in the backup.
LEMMA NestedKeeps ==
    ASSUME NEW x, Sel(x), NEW c, NEW r, Kept(x, r, c), r.ok, NEW p, Allowed(r.now, p, c),
           \A w \in VersionsOf(x) \ DOMAIN r.backup : p.now.status[w] = r.now.status[w],
           NEW q, q = Nested(r, p)
    PROVE  Kept(x, q, c)
<1>1. Req(x, r) /\ Req(r.now, p) /\ Req(x, p)
  BY ReqOfNow DEF Kept, Allowed
<1>2. Req(x, q) /\ q.ok = p.ok /\ q.backup = r.backup /\ q.now = p.now
  BY <1>1, NestedIs DEF After
<1>3. VersionsOf(r.now) = VersionsOf(x)
  BY <1>1, SameVersions DEF Req
<1>4. ASSUME q.ok, NEW v \in VersionsOf(x), Outranked(x.status[v], c)
      PROVE  q.now.status[v] = x.status[v]
  <2>1. r.now.status[v] = x.status[v]
    BY <1>4 DEF Kept
  <2>2. p.now.status[v] = r.now.status[v]
    BY <1>2, <1>3, <1>4, <2>1 DEF Allowed, Unharmed
  <2> QED
    BY <1>2, <2>1, <2>2
<1> QED
  BY <1>2, <1>4 DEF Kept

\* The request for the name, in the end, may change what is not in the backup
\* if it is granted.
Sound(x, q, c) ==
    /\ Req(x, q)
    /\ ~ q.ok => Kept(x, q, c)
    /\ q.ok => \A v \in VersionsOf(x) : Outranked(x.status[v], c) => q.now.status[v] = x.status[v]

LEMMA KeptIsSound == \A x, q, c : Kept(x, q, c) => Sound(x, q, c)
  BY DEF Sound, Kept

LEMMA NestedSound ==
    ASSUME NEW x, Sel(x), NEW c, NEW r, Kept(x, r, c), r.ok, NEW p, Allowed(r.now, p, c),
           NEW q, q = Nested(r, p)
    PROVE  Sound(x, q, c)
<1>1. Req(x, r) /\ Req(r.now, p) /\ Req(x, p)
  BY ReqOfNow DEF Kept, Allowed
<1>2. Req(x, q) /\ q.ok = p.ok /\ q.backup = r.backup /\ q.now = p.now
  BY <1>1, NestedIs DEF After
<1>3. VersionsOf(r.now) = VersionsOf(x)
  BY <1>1, SameVersions DEF Req
<1>4. ASSUME q.ok, NEW v \in VersionsOf(x), Outranked(x.status[v], c)
      PROVE  q.now.status[v] = x.status[v]
  <2>1. r.now.status[v] = x.status[v]
    BY <1>4 DEF Kept
  <2>2. p.now.status[v] = r.now.status[v]
    BY <1>2, <1>3, <1>4, <2>1 DEF Allowed, Unharmed
  <2> QED
    BY <1>2, <2>1, <2>2
<1>5. ASSUME ~ q.ok PROVE Kept(x, q, c)
  <2>1. p.now.status = r.now.status
    BY <1>2, <1>5 DEF Allowed, Unharmed
  <2> QED
    BY <1>2, <1>5, <2>1 DEF Kept
<1> QED
  BY <1>2, <1>4, <1>5 DEF Sound

LEMMA OutcomeSound ==
    ASSUME NEW x, Sel(x), NEW c, NEW r, Sound(x, r, c), NEW q, q = Outcome(r)
    PROVE  Allowed(x, q, c)
<1>1. CASE r.ok
  BY <1>1 DEF Outcome, Sound, Allowed, Unharmed
<1>2. CASE ~ r.ok
  BY <1>2, OutcomeStands DEF Sound, Allowed
<1> QED
  BY <1>1, <1>2

LEMMA AmongKept ==
    ASSUME NEW x, Sel(x), NEW c \in Causer, NEW r, Kept(x, r, c),
           NEW cand \in VersionsOf(x), NEW avs \in SUBSET VersionsOf(x), cand \in x.catalog.multi
    PROVE  Kept(x, PickCandidate(r, x, cand, avs, c), c)
<1> DEFINE S       == AvailableOf(x) \cap (VersionsOf(x) \ x.catalog.multi)
           all     == BackupAll(r)
           cleared == ForEach(all, S, Ending(c))
           among   == ForEach(cleared, avs, Unlocking(c))
           last    == ForEach(among, {cand}, Starting(c))
<1>1. PickCandidate(r, x, cand, avs, c) = last
  BY DEF PickCandidate
<1>2. S \in SUBSET VersionsOf(x) /\ {cand} \in SUBSET VersionsOf(x)
  BY VersionSets
<1>3. Modest(Ending(c), c) /\ Modest(Unlocking(c), c) /\ Modest(Starting(c), c)
  BY Setters
<1> HIDE DEF S
<1>4. Kept(x, all, c)
  BY BackupAllKeeps
<1> HIDE DEF all
<1>5. Kept(x, cleared, c)
  BY <1>2, <1>3, <1>4, ForEachKeeps
<1> HIDE DEF cleared
<1>6. Kept(x, among, c)
  BY <1>3, <1>5, ForEachKeeps
<1> HIDE DEF among
<1> QED
  BY <1>1, <1>2, <1>3, <1>6, ForEachKeeps

LEMMA AloneSound ==
    ASSUME NEW x, Sel(x), NEW c \in Causer, NEW r, Kept(x, r, c),
           NEW cand \in VersionsOf(x), NEW avs, cand \notin x.catalog.multi
    PROVE  Sound(x, PickCandidate(r, x, cand, avs, c), c)
<1> DEFINE S       == AvailableOf(x) \cap x.catalog.multi
           all     == BackupAll(r)
           alone   == ForEach(all, S, Ending(c))
           choice  == SetCandidate(alone.now, cand, c)
           chosen  == Nested(alone, choice)
           request == IF x.catalog.installed = <<>> THEN "Install" ELSE "Update"
           last    == SetStatus(chosen.now, request, c)
<1>1. PickCandidate(r, x, cand, avs, c) = Nested(chosen, last)
  BY DEF PickCandidate
<1>2. S \in SUBSET VersionsOf(x)
  BY VersionSets
<1>3. Modest(Ending(c), c)
  BY Setters
<1>4. request \in Want
  BY DEF Want
<1> HIDE DEF S, request
<1>5. Kept(x, all, c) /\ (all.ok => AvailableOf(x) \subseteq DOMAIN all.backup)
  BY BackupAllKeeps
<1>6. all.ok => DOMAIN all.backup \subseteq DOMAIN alone.backup
  <2> HIDE DEF all
  <2> QED
    BY <1>5, ForEachBacksUp DEF Kept
<1>7. alone.ok => all.ok
  BY DEF ForEach
<1> HIDE DEF all
<1>8. Kept(x, alone, c)
  BY <1>2, <1>3, <1>5, ForEachKeeps
<1> HIDE DEF alone
<1>9. Sel(alone.now) /\ VersionsOf(alone.now) = VersionsOf(x) /\ AvailableOf(alone.now) = AvailableOf(x)
  BY <1>8, SameVersions DEF Kept, Req
<1>10. /\ Allowed(alone.now, choice, c)
       /\ \A w \in VersionsOf(alone.now) \ AvailableOf(alone.now) :
            choice.now.status[w] = alone.now.status[w]
  BY <1>9, CandidateAllowed
<1> HIDE DEF choice
<1>11. Kept(x, chosen, c)
  <2>1. CASE alone.ok
    BY <2>1, <1>5, <1>6, <1>7, <1>8, <1>9, <1>10, NestedKeeps
  <2>2. CASE ~ alone.ok
    BY <2>2, <1>8 DEF Nested
  <2> QED
    BY <2>1, <2>2
<1> HIDE DEF chosen
<1>12. Allowed(chosen.now, last, c)
  BY <1>4, <1>11, StatusAllowed DEF Kept, Req
<1> HIDE DEF last
<1>13. CASE chosen.ok
  BY <1>1, <1>11, <1>12, <1>13, NestedSound
<1>14. CASE ~ chosen.ok
  BY <1>1, <1>11, <1>14, KeptIsSound DEF Nested
<1> QED
  BY <1>13, <1>14

LEMMA PickSound ==
    ASSUME NEW x, Sel(x), NEW v \in VersionsOf(x), NEW want \in Want, NEW c \in Causer
    PROVE  Sound(x, PickSteps(x, v, want, c), c)
<1> DEFINE ins      == Identical(x, v, InstalledOf(x))
           avs      == Identical(x, v, AvailableOf(x))
           cand     == IF v \in AvailableOf(x) THEN v
                       ELSE FirstIn(x.catalog.available, avs, NoneChosen)
           lock(S)   == ForEach(Begin(x), S, Locking(c))
           unlock(S) == ForEach(Begin(x), S, Unlocking(c))
           remove   == ForEach(Begin(x), ins, Forcing(c))
           only(r)  == ForEach(r, avs, Ending(c))
           replace  == ForEach(unlock(ins), ins, Starting(SOLVER))
           from     == IF cand \in x.catalog.multi THEN replace ELSE Begin(x)
           q ==
             CASE want = "Protected" /\ c = USER /\ ins # {} -> only(lock(ins))
               [] want = "Taboo" /\ c = USER /\ avs # {}     -> lock(avs)
               [] want = "Del" /\ ins # {}                   -> only(remove)
               [] want = "Install" /\ ins = {} /\ avs # {}   -> PickCandidate(Begin(x), x, cand, avs, c)
               [] want = "Update" /\ ins # {} /\ avs # {}    -> PickCandidate(from, x, cand, avs, c)
               [] want = "KeepInstalled" /\ ins # {}         -> ForEach(unlock(ins), avs, Unlocking(c))
               [] want = "NoInst" /\ ins = {}                -> unlock(avs)
               [] OTHER                                      -> Reject(x)
<1>1. PickSteps(x, v, want, c) = q
  BY DEF PickSteps
<1>2. ins \in SUBSET VersionsOf(x) /\ avs \in SUBSET VersionsOf(x) /\ avs \subseteq AvailableOf(x)
  BY VersionSets
<1>3. avs # {} => cand \in VersionsOf(x)
  <2>1. x.catalog.available \in Seq(PoolItem) /\ VersionsIn(x.catalog.available) = AvailableOf(x)
    BY SelFields DEF AvailableOf
  <2>2. AvailableOf(x) \cap avs # {} => FirstIn(x.catalog.available, avs, NoneChosen) \in AvailableOf(x) \cap avs
    <3> HIDE DEF avs
    <3> QED
      BY <2>1, FirstInIs
  <2> QED
    BY <1>2, <2>2
<1>4. /\ Modest(Ending(c), c) /\ Modest(Locking(c), c) /\ Modest(Unlocking(c), c)
      /\ Modest(Forcing(c), c) /\ Modest(Starting(SOLVER), c)
  BY Setters
<1>5. Kept(x, Begin(x), c) /\ Req(x, Reject(x))
  BY RequestBegins
<1> HIDE DEF ins, avs, cand
<1>6. /\ Kept(x, lock(ins), c) /\ Kept(x, lock(avs), c)
      /\ Kept(x, unlock(ins), c) /\ Kept(x, unlock(avs), c) /\ Kept(x, remove, c)
  BY <1>2, <1>4, <1>5, ForEachKeeps
<1> HIDE DEF remove, lock, unlock
<1>7. /\ Kept(x, only(lock(ins)), c) /\ Kept(x, only(remove), c) /\ Kept(x, replace, c)
      /\ Kept(x, ForEach(unlock(ins), avs, Unlocking(c)), c)
  BY <1>2, <1>4, <1>6, ForEachKeeps
<1>8. Kept(x, from, c)
  BY <1>5, <1>7
<1> HIDE DEF only, replace, from
<1>9. avs # {} => /\ Sound(x, PickCandidate(Begin(x), x, cand, avs, c), c)
                  /\ Sound(x, PickCandidate(from, x, cand, avs, c), c)
  BY <1>2, <1>3, <1>5, <1>8, AmongKept, AloneSound, KeptIsSound
<1>10. Sound(x, q, c) \/ q = Reject(x)
  BY <1>6, <1>7, <1>9, KeptIsSound
<1> HIDE DEF q
<1>11. Sound(x, Reject(x), c)
  <2>1. Reject(x) = [ok |-> FALSE, backup |-> <<>>, now |-> x]
    BY DEF Reject
  <2>2. Reject(x).ok = FALSE /\ Reject(x).backup = <<>> /\ Reject(x).now = x
    BY <2>1
  <2>3. DOMAIN <<>> = {}
    OBVIOUS
  <2>4. Kept(x, Reject(x), c)
    BY <1>5, <2>2, <2>3 DEF Kept
  <2> QED
    BY <2>4, KeptIsSound
<1> QED
  BY <1>1, <1>10, <1>11

LEMMA PickAllowed ==
    ASSUME NEW x, Sel(x), NEW v \in VersionsOf(x), NEW want \in Want, NEW c \in Causer
    PROVE  Allowed(x, SetPickStatus(x, v, want, c), c)
  BY PickSound, OutcomeSound DEF SetPickStatus

-----------------------------------------------------------------------------
(* The solver, its undo, the locks of the file and the solutions of problems. *)

LEMMA TryDoes ==
    ASSUME NEW s \in StatusType, NEW t \in StatusType \cup {Refused}
    PROVE  Try(s, t) \in StatusType /\ (t \in {s, Refused} => Try(s, t) = s)
  BY DEF Try

LEMMA ResetDoes ==
    ASSUME NEW s \in StatusType, NEW c \in Causer
    PROVE  /\ ResetTransact(s, c) \in StatusType \cup {Refused}
           /\ Outranked(s, c) => ResetTransact(s, c) \in {s, Refused}
<1> DEFINE t == SetTransact(s, FALSE, c)
<1>1. t \in StatusType \cup {Refused} /\ (Outranked(s, c) => t \in {s, Refused})
  BY SetTransactDoes
<1>2. ResetTransact(s, c) = IF t.value = "keep" THEN NoDecision ELSE t
  BY DEF ResetTransact
<1> HIDE DEF t
<1>3. Refused.value = "refused"
  BY DEF Refused
<1>4. Outranked(s, c) => s.value # "keep"
  BY DEF Outranked
<1> QED
  BY <1>1, <1>2, <1>3, <1>4, StatusFields

\* The solver's levels.
LEMMA ClearedDoes ==
    ASSUME NEW s \in StatusType
    PROVE  Cleared(s) \in StatusType /\ (Outranked(s, APPL_LOW) => Cleared(s) = s)
<1>1. APPL_LOW \in Causer
  BY StatusFields
<1>2. ResetTransact(s, APPL_LOW) \in StatusType \cup {Refused}
  BY <1>1, ResetDoes
<1>3. Try(s, ResetTransact(s, APPL_LOW)) \in StatusType
  BY <1>2, TryDoes
<1>4. Outranked(s, APPL_LOW) => s.by \notin {SOLVER, APPL_LOW}
  BY StatusFields DEF Outranked, SOLVER, APPL_LOW
<1> QED
  BY <1>3, <1>4 DEF Cleared

LEMMA CopiedDoes ==
    ASSUME NEW s \in StatusType, NEW level \in {SOLVER, APPL_LOW}
    PROVE  Copied(s, level) \in StatusType /\ (Outranked(s, APPL_LOW) => Copied(s, level) = s)
<1> DEFINE p == ResetTransact(s, SOLVER)
           t == Try(s, p)
           w == SetTransact(t, TRUE, SOLVER)
           u == Try(t, w)
<1>1. SOLVER \in Causer /\ level \in Causer
  BY StatusFields
<1>2. Copied(s, level) = IF Transacts(u) THEN RaisedTo(u, level) ELSE u
  BY DEF Copied
<1>3. Outranked(s, APPL_LOW) => Outranked(s, SOLVER) /\ level <= s.by
  BY StatusFields DEF Outranked, SOLVER, APPL_LOW
<1>4. p \in StatusType \cup {Refused} /\ (Outranked(s, SOLVER) => p \in {s, Refused})
  BY <1>1, ResetDoes
<1> HIDE DEF p
<1>5. t \in StatusType /\ (Outranked(s, SOLVER) => t = s)
  BY <1>4, TryDoes
<1> HIDE DEF t
<1>6. w \in StatusType \cup {Refused} /\ (Outranked(t, SOLVER) => w \in {t, Refused})
  BY <1>1, <1>5, SetTransactDoes
<1> HIDE DEF w
<1>7. u \in StatusType /\ (Outranked(t, SOLVER) => u = t)
  BY <1>5, <1>6, TryDoes
<1> HIDE DEF u
<1>8. /\ RaisedTo(u, level) \in StatusType /\ (level <= u.by => RaisedTo(u, level) = u)
  BY <1>1, <1>7, Raised
<1> QED
  BY <1>2, <1>3, <1>5, <1>7, <1>8

LEMMA SolvedAllowed ==
    ASSUME NEW x, Sel(x), NEW S, NEW level \in {SOLVER, APPL_LOW}
    PROVE  Sel(Solved(x, S, level)) /\ Unharmed(x, Begin(Solved(x, S, level)), APPL_LOW)
<1> DEFINE new(s, v) == IF v \in S THEN Copied(Cleared(s), level) ELSE Cleared(s)
           st == [v \in VersionsOf(x) |-> new(x.status[v], v)]
           y  == [x EXCEPT !.status = st]
<1>1. Solved(x, S, level) = y
  BY DEF Solved
<1>2. ASSUME NEW s \in StatusType, NEW v
      PROVE  new(s, v) \in StatusType /\ (Outranked(s, APPL_LOW) => new(s, v) = s)
  <2> DEFINE d == Cleared(s)
  <2>1. d \in StatusType /\ (Outranked(s, APPL_LOW) => d = s)
    BY ClearedDoes
  <2>2. new(s, v) = IF v \in S THEN Copied(d, level) ELSE d
    OBVIOUS
  <2> HIDE DEF d, new
  <2>3. Copied(d, level) \in StatusType /\ (Outranked(d, APPL_LOW) => Copied(d, level) = d)
    BY <2>1, CopiedDoes
  <2> QED
    BY <2>1, <2>2, <2>3
<1> HIDE DEF new
<1>3. x.status \in [VersionsOf(x) -> StatusType]
  BY SelFields
<1>4. st \in [VersionsOf(x) -> StatusType] /\ \A v \in VersionsOf(x) : st[v] = new(x.status[v], v)
  BY <1>2, <1>3
<1> HIDE DEF st
<1>5. Sel(y) /\ y.status = st
  BY <1>4, WithStatus
<1> HIDE DEF y
<1>6. Begin(y) = [ok |-> TRUE, backup |-> <<>>, now |-> y]
  BY DEF Begin
<1>7. Begin(y).ok /\ Begin(y).now = y
  BY <1>6
<1> QED
  BY <1>1, <1>2, <1>3, <1>4, <1>5, <1>7 DEF Unharmed

LEMMA UndoneAllowed ==
    ASSUME NEW x, Sel(x)
    PROVE  Sel(Undone(x)) /\ Unharmed(x, Begin(Undone(x)), APPL_LOW)
<1> DEFINE new(s) == IF Transacts(s) THEN Try(s, ResetTransact(s, APPL_LOW)) ELSE s
           st == [v \in VersionsOf(x) |-> new(x.status[v])]
           y  == [x EXCEPT !.status = st]
<1>1. Undone(x) = y
  BY DEF Undone
<1>2. ASSUME NEW s \in StatusType
      PROVE  new(s) \in StatusType /\ (Outranked(s, APPL_LOW) => new(s) = s)
  <2> DEFINE d == ResetTransact(s, APPL_LOW)
  <2>1. d \in StatusType \cup {Refused} /\ (Outranked(s, APPL_LOW) => d \in {s, Refused})
    BY StatusFields, ResetDoes
  <2>2. new(s) = IF Transacts(s) THEN Try(s, d) ELSE s
    OBVIOUS
  <2> HIDE DEF d, new
  <2>3. Try(s, d) \in StatusType /\ (d \in {s, Refused} => Try(s, d) = s)
    BY <2>1, TryDoes
  <2> QED
    BY <2>1, <2>2, <2>3
<1> HIDE DEF new
<1>3. x.status \in [VersionsOf(x) -> StatusType]
  BY SelFields
<1>4. st \in [VersionsOf(x) -> StatusType] /\ \A v \in VersionsOf(x) : st[v] = new(x.status[v])
  BY <1>2, <1>3
<1> HIDE DEF st
<1>5. Sel(y) /\ y.status = st
  BY <1>4, WithStatus
<1> HIDE DEF y
<1>6. Begin(y) = [ok |-> TRUE, backup |-> <<>>, now |-> y]
  BY DEF Begin
<1>7. Begin(y).ok /\ Begin(y).now = y
  BY <1>6
<1> QED
  BY <1>1, <1>2, <1>3, <1>4, <1>5, <1>7 DEF Unharmed

\* The user is never refused.
LEMMA UserSets ==
    ASSUME NEW s \in StatusType, NEW yes \in BOOLEAN
    PROVE  SetTransact(s, yes, USER) \in StatusType /\ SetLock(s, yes, USER) \in StatusType
<1>1. ~ Outranked(s, USER) /\ USER \in Causer
  BY StatusFields DEF Outranked
<1> DEFINE t == SetTransact(s, yes, USER)  l == SetLock(s, yes, USER)
<1>2. t \in StatusType \cup {Refused} /\ (t = Refused => Outranked(s, USER))
  BY <1>1, SetTransactDoes
<1>3. l \in StatusType \cup {Refused} /\ (l = Refused => Outranked(s, USER) \/ USER \notin {USER, APPL_HIGH})
  BY <1>1, SetLockDoes
<1> HIDE DEF t, l
<1> QED
  BY <1>1, <1>2, <1>3 DEF t, l

LEMMA LocksKeepSel ==
    ASSUME NEW x, Sel(x), NEW S
    PROVE  Sel(HardLocked(x, S))
<1> DEFINE st == [v \in VersionsOf(x) |-> SetLock(x.status[v], v \in S, USER)]
           y  == [x EXCEPT !.status = st]
<1>1. HardLocked(x, S) = y
  BY DEF HardLocked
<1>2. ASSUME NEW v \in VersionsOf(x) PROVE SetLock(x.status[v], v \in S, USER) \in StatusType
  <2> DEFINE yes == v \in S
  <2>1. x.status[v] \in StatusType /\ yes \in BOOLEAN
    BY SelFields
  <2> HIDE DEF yes
  <2>2. SetLock(x.status[v], yes, USER) \in StatusType
    BY <2>1, UserSets
  <2> QED
    BY <2>2 DEF yes
<1>3. st \in [VersionsOf(x) -> StatusType]
  BY <1>2
<1> HIDE DEF st
<1>4. Sel(y)
  BY <1>3, WithStatus
<1> QED
  BY <1>1, <1>4

LEMMA ExecutedIs ==
    ASSUME NEW s \in StatusType, NEW action, NEW installed \in BOOLEAN
    PROVE  Executed(s, action, installed) \in StatusType
<1> DEFINE kept == Try(s, ResetTransact(s, USER))
           k1 == Try(kept, SetTransact(kept, FALSE, APPL_HIGH))
           k2 == Try(kept, SetLock(kept, TRUE, APPL_HIGH))
           e  == Executed(s, action, installed)
<1>0. USER \in Causer /\ APPL_HIGH \in Causer
  BY StatusFields
<1>1. kept \in StatusType
  BY <1>0, ResetDoes, TryDoes
<1>2. \/ e = k1 \/ e = k2 \/ e = s
      \/ e = SetTransact(s, FALSE, USER) \/ e = SetTransact(s, TRUE, USER)
      \/ e = Lock(s, USER) \/ e = SetLock(s, FALSE, USER)
  <2> HIDE DEF kept
  <2>1. e = CASE action = "keep" -> k1
          [] action = "install" /\ installed /\ Transacts(s) -> SetTransact(s, FALSE, USER)
          [] action = "install" /\ ~ installed               -> SetTransact(s, TRUE, USER)
          [] action = "remove"  /\ installed                 -> SetTransact(s, TRUE, USER)
          [] action = "remove"  /\ ~ installed               -> Lock(s, USER)
          [] action = "unlock"                               -> SetLock(s, FALSE, USER)
          [] action = "lock"                                 -> k2
          [] OTHER                                           -> s
    BY DEF Executed, kept
  <2> HIDE DEF e, k1, k2
  <2> QED
    BY <2>1
<1> HIDE DEF kept
<1>3. SetTransact(kept, FALSE, APPL_HIGH) \in StatusType \cup {Refused}
  BY <1>0, <1>1, SetTransactDoes
<1>4. SetLock(kept, TRUE, APPL_HIGH) \in StatusType \cup {Refused}
  BY <1>0, <1>1, SetLockDoes
<1>5. k1 \in StatusType /\ k2 \in StatusType
  BY <1>1, <1>3, <1>4, TryDoes
<1>6. /\ SetTransact(s, FALSE, USER) \in StatusType /\ SetTransact(s, TRUE, USER) \in StatusType
      /\ SetLock(s, FALSE, USER) \in StatusType
  BY UserSets
<1>7. Lock(s, USER) \in StatusType
  <2> DEFINE l == Lock(s, USER)
  <2>1. l \in StatusType \cup {Refused} /\ l # Refused
    BY <1>0, LockDoes
  <2> HIDE DEF l
  <2> QED
    BY <2>1 DEF l
<1> HIDE DEF k1, k2, e
<1> QED
  BY <1>2, <1>5, <1>6, <1>7 DEF e

-----------------------------------------------------------------------------
(* Every step keeps the type of the pool.                                    *)

LEMMA TypeIs == SelectableTypeOK <=> \A x \in pool : Sel(x)
  BY DEF SelectableTypeOK, Sel

LEMMA LoadedIs ==
    ASSUME NEW names \in Pools, NEW c \in names
    PROVE  Sel(Loaded(c))
<1> DEFINE S  == VersionsIn(c.installed) \cup VersionsIn(c.available)
           st == [v \in S |-> NoDecision]
           x  == Loaded(c)
<1>1. c \in CatalogType /\ c \in UNION Pools
  BY PoolAssumption
<1>2. S \subseteq PoolItem
  <2>1. c.installed \in Seq(PoolItem) /\ c.available \in Seq(PoolItem)
    BY <1>1 DEF CatalogType
  <2>2. \A q \in Seq(PoolItem) : VersionsIn(q) \subseteq PoolItem
    BY DEF VersionsIn
  <2> QED
    BY <2>1, <2>2
<1> HIDE DEF S
<1>3. st \in [S -> StatusType] /\ DOMAIN st = S
  BY StatusFields
<1> HIDE DEF st
<1>4. x = [catalog |-> c, status |-> st, candidate |-> NoneChosen]
  BY DEF Loaded, st, S
<1> HIDE DEF x
<1>5. x.catalog = c /\ x.status = st /\ x.candidate = NoneChosen
  BY <1>4
<1>6. x \in SelectableType
  BY <1>1, <1>2, <1>3, <1>4 DEF SelectableType
<1>7. VersionsOf(x) = S
  BY <1>5 DEF VersionsOf, InstalledOf, AvailableOf, S
<1> QED
  BY <1>3, <1>5, <1>6, <1>7 DEF Sel, x

LEMMA ReplacedKeeps ==
    ASSUME SelectableTypeOK, NEW x \in pool, NEW y, Sel(y), Replaced(x, y)
    PROVE  SelectableTypeOK'
<1>1. \A z \in pool' : Sel(z)
  BY TypeIs DEF Replaced
<1> QED
  BY <1>1 DEF SelectableTypeOK, Sel, SelectableType, VersionsOf, InstalledOf, AvailableOf

\* Every request leaves a selectable behind.
LEMMA StepKeepsType ==
    ASSUME SelectableTypeOK, SelectableNext
    PROVE  SelectableTypeOK'
<1>0. \A x \in pool : Sel(x)
  BY TypeIs
<1>1. ASSUME NEW x \in pool, NEW want \in Want, NEW c \in Causer, RequestStatus(x, want, c)
      PROVE  SelectableTypeOK'
  <2>1. Sel(SetStatus(x, want, c).now)
    BY <1>0, StatusAllowed DEF Allowed, Req
  <2> QED
    BY <1>1, <2>1, ReplacedKeeps DEF RequestStatus
<1>2. ASSUME NEW x \in pool, NEW c \in Causer, NEW v \in VersionsOf(x) \cup {NoneChosen},
             ChooseCandidate(x, v, c)
      PROVE  SelectableTypeOK'
  <2>1. Sel(SetCandidate(x, v, c).now)
    BY <1>0, CandidateDoes DEF Chosen, Req
  <2> QED
    BY <1>2, <2>1, ReplacedKeeps DEF ChooseCandidate
<1>3. ASSUME NEW x \in pool, NEW want \in Want, NEW c \in Causer, NEW v \in VersionsOf(x),
             RequestPick(x, v, want, c)
      PROVE  SelectableTypeOK'
  <2>1. Sel(SetPickStatus(x, v, want, c).now)
    BY <1>0, PickAllowed DEF Allowed, Req
  <2> QED
    BY <1>3, <2>1, ReplacedKeeps DEF RequestPick
<1>4. ASSUME NEW x \in pool, NEW action, NEW v \in VersionsOf(x), ExecuteSolution(x, v, action)
      PROVE  SelectableTypeOK'
  <2> DEFINE e  == Executed(x.status[v], action, v \in InstalledOf(x))
             st == [x.status EXCEPT ![v] = e]
             y  == [x EXCEPT !.status = st]
  <2>1. Sel(x) /\ x.status \in [VersionsOf(x) -> StatusType]
    BY <1>0, SelFields
  <2>2. e \in StatusType
    <3> DEFINE s == x.status[v]  installed == v \in InstalledOf(x)
    <3>1. s \in StatusType /\ installed \in BOOLEAN
      BY <2>1
    <3> HIDE DEF s, installed
    <3>2. Executed(s, action, installed) \in StatusType
      BY <3>1, ExecutedIs
    <3> QED
      BY <3>2 DEF s, installed
  <2>3. [x EXCEPT !.status[v] = Executed(@, action, v \in InstalledOf(x))] = y
    OBVIOUS
  <2> HIDE DEF e
  <2>4. st \in [VersionsOf(x) -> StatusType]
    BY <2>1, <2>2
  <2> HIDE DEF st
  <2>5. Sel(y)
    BY <2>1, <2>4, WithStatus
  <2> HIDE DEF y
  <2>6. Replaced(x, y)
    BY <1>4, <2>3 DEF ExecuteSolution
  <2> QED
    BY <2>5, <2>6, ReplacedKeeps
<1>5. ASSUME NEW S, NEW level \in {SOLVER, APPL_LOW}, ResolvePool(S, level)
      PROVE  SelectableTypeOK'
  <2>1. \A y \in pool' : Sel(y)
    BY <1>0, <1>5, SolvedAllowed DEF ResolvePool
  <2> QED
    BY <2>1 DEF SelectableTypeOK, Sel, SelectableType, VersionsOf, InstalledOf, AvailableOf
<1>6. ASSUME UndoSolution PROVE SelectableTypeOK'
  <2>1. \A y \in pool' : Sel(y)
    BY <1>0, <1>6, UndoneAllowed DEF UndoSolution
  <2> QED
    BY <2>1 DEF SelectableTypeOK, Sel, SelectableType, VersionsOf, InstalledOf, AvailableOf
<1>7. ASSUME NEW S, SetHardLocks(S) PROVE SelectableTypeOK'
  <2>1. \A y \in pool' : Sel(y)
    BY <1>0, <1>7, LocksKeepSel DEF SetHardLocks
  <2> QED
    BY <2>1 DEF SelectableTypeOK, Sel, SelectableType, VersionsOf, InstalledOf, AvailableOf
<1> QED
  BY <1>1, <1>2, <1>3, <1>4, <1>5, <1>6, <1>7 DEF SelectableNext

LEMMA DecisionsFollow == SelectableTypeOK => DecisionsStand
<1> SUFFICES ASSUME SelectableTypeOK, NEW x \in pool
    PROVE  /\ \A c \in Causer, want \in Want : Unharmed(x, SetStatus(x, want, c), c)
           /\ \A c \in Causer, v \in VersionsOf(x) :
                /\ Unharmed(x, SetCandidate(x, v, c), c)
                /\ \A want \in Want : Unharmed(x, SetPickStatus(x, v, want, c), c)
           /\ \A S \in Solutions : Unharmed(x, Begin(Solved(x, S, SOLVER)), APPL_LOW)
           /\ Unharmed(x, Begin(Undone(x)), APPL_LOW)
  BY DEF DecisionsStand
<1>1. Sel(x)
  BY TypeIs
<1>2. \A c \in Causer, want \in Want : Unharmed(x, SetStatus(x, want, c), c)
  BY <1>1, StatusAllowed DEF Allowed
<1>3. \A c \in Causer, v \in VersionsOf(x) : Unharmed(x, SetCandidate(x, v, c), c)
  BY <1>1, CandidateAllowed DEF Allowed
<1>4. \A c \in Causer, v \in VersionsOf(x), want \in Want : Unharmed(x, SetPickStatus(x, v, want, c), c)
  BY <1>1, PickAllowed DEF Allowed
<1>5. \A S \in Solutions : Unharmed(x, Begin(Solved(x, S, SOLVER)), APPL_LOW)
  BY <1>1, SolvedAllowed
<1>6. Unharmed(x, Begin(Undone(x)), APPL_LOW)
  BY <1>1, UndoneAllowed
<1> QED
  BY <1>2, <1>3, <1>4, <1>5, <1>6

\* Every version of every name has one status, and the candidate that was
\* chosen is available, whatever was requested, solved, undone and locked.
THEOREM SelectableTypeCorrect == SelectableSpec => []SelectableTypeOK
<1>1. SelectableInit => SelectableTypeOK
  <2> SUFFICES ASSUME NEW names \in Pools, pool = {Loaded(c) : c \in names}
               PROVE  SelectableTypeOK
    BY DEF SelectableInit
  <2> QED
    BY LoadedIs, TypeIs
<1>2. SelectableTypeOK /\ [SelectableNext]_poolVars => SelectableTypeOK'
  <2>1. CASE SelectableNext
    BY <2>1, StepKeepsType
  <2>2. CASE UNCHANGED poolVars
    BY <2>2 DEF SelectableTypeOK, poolVars
  <2> QED
    BY <2>1, <2>2
<1> QED
  BY <1>1, <1>2, PTL DEF SelectableSpec

\* Nobody changes what a stronger causer locked or let transact, and a request
\* that is refused in the middle changes nothing.
THEOREM DecisionsAreKept == SelectableSpec => []DecisionsStand
  BY SelectableTypeCorrect, DecisionsFollow, PTL

-----------------------------------------------------------------------------
(* What is granted is what the name, or the version, shows.                   *)

LEMMA ByShows ==
    ASSUME NEW s \in StatusType, NEW c \in Causer, s.by >= c
    PROVE  /\ Shown(By(s, "Del", "AutoDel"), "Del", c)
           /\ Shown(By(s, "Install", "AutoInstall"), "Install", c)
           /\ Shown(By(s, "Update", "AutoUpdate"), "Update", c)
<1>1. c = USER => s.by = USER
  BY StatusFields
<1> QED
  BY <1>1 DEF Shown, By, AutoOf

LEMMA ValuesDiffer ==
    \A s : /\ s.value = "keep" => ~ Transacts(s) /\ ~ IsLocked(s)
           /\ IsLocked(s) => ~ Transacts(s)
  BY DEF Transacts, IsLocked

\* The status of a name, from that of its versions.
LEMMA NoneGoing ==
    ASSUME NEW y, Sel(y), Going(y) = {}
    PROVE  StatusOf(y) =
             IF InstalledOf(y) = {}
             THEN IF \A v \in AvailableOf(y) : IsLocked(y.status[v]) THEN "Taboo" ELSE "NoInst"
             ELSE IF Transacts(y.status[InstalledObj(y)])
                  THEN By(y.status[InstalledObj(y)], "Del", "AutoDel")
             ELSE IF \A v \in InstalledOf(y) : IsLocked(y.status[v]) THEN "Protected"
             ELSE "KeepInstalled"
<1>1. ~(CandidateObj(y) # NoneChosen /\ Transacts(y.status[CandidateObj(y)]))
  BY Candidates DEF Going
<1>2. InstalledObj(y) = NoneChosen <=> InstalledOf(y) = {}
  BY Candidates
<1> QED
  BY <1>1, <1>2 DEF StatusOf

LEMMA OneGoes ==
    ASSUME NEW y, Sel(y), NEW cand, Going(y) = {cand}
    PROVE  /\ CandidateObj(y) = cand
           /\ StatusOf(y) = IF InstalledOf(y) = {}
                            THEN By(y.status[cand], "Install", "AutoInstall")
                            ELSE By(y.status[cand], "Update", "AutoUpdate")
<1>1. CandidateObj(y) = cand
  BY Candidates
<1>2. cand # NoneChosen /\ Transacts(y.status[cand])
  BY SelFields DEF Going
<1>3. InstalledObj(y) = NoneChosen <=> InstalledOf(y) = {}
  BY Candidates
<1> QED
  BY <1>1, <1>2, <1>3 DEF StatusOf

\* What is granted was not restored.
LEMMA OutcomeOk ==
    ASSUME NEW x, NEW r, Req(x, r), Outcome(r).ok
    PROVE  r.ok /\ Outcome(r) = r
<1>1. CASE ~ r.ok
  <2> DEFINE st == Extended(r.backup, DOMAIN r.now.status, r.now.status)
             y  == [r.now EXCEPT !.status = st]
  <2>1. Outcome(r) = [r EXCEPT !.now.status = st]
    BY <1>1 DEF Outcome
  <2>2. Outcome(r) = [ok |-> r.ok, backup |-> r.backup, now |-> y]
    <3> HIDE DEF st
    <3> QED
      BY <2>1 DEF Req
  <2> HIDE DEF y
  <2> QED
    BY <1>1, <2>2
<1> QED
  BY <1>1 DEF Outcome

\* A request for the name was granted and y is the name.
NameShows(x, y, want, c) ==
    /\ Shown(StatusOf(y), want, c) \/ (want = "Taboo" /\ InstalledOf(x) # {})
    /\ want \in {"Install", "Update"} =>
         /\ Going(y) = {CandidateObj(x)}
         /\ y.status[CandidateObj(x)].by >= c /\ y.status[CandidateObj(x)] \in StatusType

\* What is known after one setter for all versions in S.
GrantedTo(x, r, S, F, q) ==
    /\ r.ok
    /\ \A v \in S : /\ q.now.status[v] = F[r.now.status[v]] /\ F[r.now.status[v]] # Refused
                   /\ r.now.status[v] \in StatusType /\ q.now.status[v] \in StatusType
    /\ \A v \in VersionsOf(x) \ S : q.now.status[v] = r.now.status[v]
    /\ r.now.status \in [VersionsOf(x) -> StatusType]

LEMMA StepGranted ==
    ASSUME NEW x, Sel(x), NEW c, NEW r, Kept(x, r, c), NEW S \in SUBSET VersionsOf(x),
           NEW F, Modest(F, c), ForEach(r, S, F).ok
    PROVE  GrantedTo(x, r, S, F, ForEach(r, S, F))
<1> DEFINE q == ForEach(r, S, F)
<1>1. F \in Setter /\ Req(x, r) /\ r.ok
  BY DEF Modest, Kept, ForEach
<1>2. Applied(x, r, S, F, q)
  BY <1>1, ForEachDoes
<1>5. r.now.status \in [VersionsOf(x) -> StatusType]
  BY <1>1, SameVersions, SelFields DEF Req
<1> HIDE DEF q
<1>4. /\ \A v \in S : F[r.now.status[v]] # Refused /\ q.now.status[v] = F[r.now.status[v]]
      /\ \A v \in VersionsOf(x) \ S : q.now.status[v] = r.now.status[v]
  BY <1>2 DEF Applied, Try, q
<1>3. \A v \in S : r.now.status[v] \in StatusType /\ F[r.now.status[v]] \in StatusType
  BY <1>1, <1>4, <1>5 DEF Setter
<1> QED
  BY <1>1, <1>3, <1>4, <1>5 DEF GrantedTo, q

LEMMA InstallShows ==
    ASSUME NEW x, Sel(x), NEW c \in Causer, CandidateObj(x) # NoneChosen, SetInstall(x, c).ok,
           NEW want, want = IF InstalledOf(x) = {} THEN "Install" ELSE "Update"
    PROVE  NameShows(x, SetInstall(x, c).now, want, c)
<1> DEFINE cand == CandidateObj(x)
           multi == cand \in x.catalog.multi
           F    == [s \in StatusType |-> MakeWay(s, c, multi)]
           ready    == ForEach(Begin(x), InstalledOf(x), F)
           unlocked == ForEach(ready, AvailableOf(x), Unlocking(c))
           started  == ForEach(unlocked, {cand}, Starting(c))
           y        == started.now
<1>1. Modest(F, c)
  <2>1. multi \in BOOLEAN
    OBVIOUS
  <2> HIDE DEF multi
  <2> QED
    BY <2>1, MakingWay
<1>2. cand \in AvailableOf(x) /\ cand \in VersionsOf(x)
  BY Candidates, SelFields
<1> HIDE DEF F, cand
<1>3. Kept(x, ready, c)
  BY <1>1, RequestBegins, ForEachKeeps, VersionSets
<1> HIDE DEF ready
<1>4. Kept(x, unlocked, c)
  BY <1>3, Setters, ForEachKeeps, VersionSets
<1>5. Kept(x, started, c)
  <2> HIDE DEF unlocked
  <2> QED
    BY <1>2, <1>4, Setters, ForEachKeeps, VersionSets
<1>6. SetInstall(x, c) = Outcome(started)
  BY DEF SetInstall, started, unlocked, ready, F, cand, multi
<1>7. started.ok /\ SetInstall(x, c) = started
  <2> HIDE DEF started
  <2> QED
    BY <1>5, <1>6, OutcomeOk DEF Kept
<1>8. GrantedTo(x, unlocked, {cand}, Starting(c), started)
  <2>1. {cand} \in SUBSET VersionsOf(x) /\ Modest(Starting(c), c)
    BY <1>2, Setters
  <2> HIDE DEF unlocked
  <2> QED
    BY <1>4, <1>7, <2>1, StepGranted
<1>9. GrantedTo(x, ready, AvailableOf(x), Unlocking(c), unlocked)
  <2>1. AvailableOf(x) \in SUBSET VersionsOf(x) /\ Modest(Unlocking(c), c)
    BY VersionSets, Setters
  <2>2. unlocked.ok
    BY <1>8 DEF GrantedTo
  <2> QED
    BY <1>3, <2>1, <2>2, StepGranted
<1>10. Sel(y) /\ AvailableOf(y) = AvailableOf(x) /\ InstalledOf(y) = InstalledOf(x)
  BY <1>5, SameVersions DEF Kept, Req
<1> HIDE DEF started, unlocked
<1>11. \A v \in AvailableOf(x) \ {cand} : ~ Transacts(y.status[v])
  <2> SUFFICES ASSUME NEW v \in AvailableOf(x) \ {cand} PROVE ~ Transacts(y.status[v])
    OBVIOUS
  <2>1. y.status[v] = Unlocking(c)[ready.now.status[v]] /\ v \in VersionsOf(x)
    BY <1>8, <1>9, SelFields DEF GrantedTo
  <2>2. y.status[v].value = "keep"
    BY <1>9, <2>1, Setters DEF GrantedTo
  <2> QED
    BY <2>2, ValuesDiffer
<1>12. /\ Transacts(y.status[cand]) /\ y.status[cand].by >= c
       /\ y.status[cand] \in StatusType
  <2> DEFINE u == unlocked.now.status[cand]
  <2>1. u \in StatusType /\ y.status[cand] = Starting(c)[u] /\ Starting(c)[u] # Refused
        /\ y.status[cand] \in StatusType
    BY <1>8 DEF GrantedTo
  <2> HIDE DEF u, y
  <2> QED
    BY <2>1, Setters
<1>13. Going(y) = {cand}
  BY <1>2, <1>10, <1>11, <1>12 DEF Going
<1>14. StatusOf(y) = IF InstalledOf(x) = {}
                     THEN By(y.status[cand], "Install", "AutoInstall")
                     ELSE By(y.status[cand], "Update", "AutoUpdate")
  <2> HIDE DEF y
  <2> QED
    BY <1>10, <1>13, OneGoes
<1>15. Shown(StatusOf(y), want, c)
  <2> DEFINE s == y.status[cand]
  <2> HIDE DEF y, s
  <2>1. s \in StatusType /\ s.by >= c
    BY <1>12 DEF y, s
  <2> QED
    BY <1>14, <2>1, ByShows DEF y, s
<1> HIDE DEF y
<1>16. SetInstall(x, c).now = y
  BY <1>7 DEF y
<1> QED
  BY <1>12, <1>13, <1>15, <1>16 DEF NameShows, cand

LEMMA DeleteShows ==
    ASSUME NEW x, Sel(x), NEW c \in Causer, InstalledOf(x) # {}, SetDelete(x, c).ok
    PROVE  NameShows(x, SetDelete(x, c).now, "Del", c)
<1> DEFINE ready == ForEach(Begin(x), AvailableOf(x), Ending(c))
           last  == ForEach(ready, InstalledOf(x), Forcing(c))
           y     == last.now
           inst  == InstalledObj(y)
<1>1. Modest(Ending(c), c) /\ Modest(Forcing(c), c)
  BY Setters
<1>2. Kept(x, ready, c)
  BY <1>1, RequestBegins, ForEachKeeps, VersionSets
<1>3. Kept(x, last, c)
  <2> HIDE DEF ready
  <2> QED
    BY <1>1, <1>2, ForEachKeeps, VersionSets
<1>4. last.ok /\ SetDelete(x, c) = last
  <2>1. SetDelete(x, c) = Outcome(last)
    BY DEF SetDelete
  <2> HIDE DEF last
  <2> QED
    BY <1>3, <2>1, OutcomeOk DEF Kept
<1>5. GrantedTo(x, ready, InstalledOf(x), Forcing(c), last)
  <2> HIDE DEF ready
  <2> QED
    BY <1>1, <1>2, <1>4, StepGranted, VersionSets
<1>6. GrantedTo(x, Begin(x), AvailableOf(x), Ending(c), ready)
  <2>1. ready.ok
    BY <1>5 DEF GrantedTo
  <2> QED
    BY <1>1, <2>1, RequestBegins, StepGranted, VersionSets
<1>7. Sel(y) /\ AvailableOf(y) = AvailableOf(x) /\ InstalledOf(y) = InstalledOf(x)
  BY <1>3, SameVersions DEF Kept, Req
<1> HIDE DEF ready, last
<1>8. \A v \in AvailableOf(x) : ~ Transacts(y.status[v])
  <2> SUFFICES ASSUME NEW v \in AvailableOf(x) PROVE ~ Transacts(y.status[v])
    OBVIOUS
  <2>1. v \in VersionsOf(x) \ InstalledOf(x)
    BY SelFields
  <2>2. y.status[v] = ready.now.status[v]
    BY <1>5, <2>1 DEF GrantedTo
  <2> QED
    BY <1>6, <2>2, Setters DEF GrantedTo
<1>9. \A v \in InstalledOf(x) : Transacts(y.status[v]) /\ y.status[v].by >= c /\ y.status[v] \in StatusType
  BY <1>5, Setters DEF GrantedTo
<1>10. inst \in InstalledOf(x)
  <2> HIDE DEF y
  <2> QED
    BY <1>7, Candidates
<1>11. Going(y) = {}
  BY <1>7, <1>8 DEF Going
<1>12. StatusOf(y) = By(y.status[inst], "Del", "AutoDel")
  <2> HIDE DEF y
  <2> QED
    BY <1>7, <1>9, <1>10, <1>11, NoneGoing DEF inst
<1> HIDE DEF y, inst
<1>13. Shown(StatusOf(y), "Del", c)
  BY <1>9, <1>10, <1>12, ByShows
<1> QED
  BY <1>4, <1>13 DEF NameShows, y

LEMMA UnsetShows ==
    ASSUME NEW x, Sel(x), NEW c \in Causer, Unset(x, c).ok
    PROVE  NameShows(x, Unset(x, c).now, IF InstalledOf(x) = {} THEN "NoInst" ELSE "KeepInstalled", c)
<1> DEFINE ready == ForEach(Begin(x), InstalledOf(x), Unlocking(c))
           last  == ForEach(ready, AvailableOf(x), Unlocking(c))
           y     == last.now
           inst  == InstalledObj(y)
<1>1. Modest(Unlocking(c), c)
  BY Setters
<1>2. Kept(x, ready, c)
  BY <1>1, RequestBegins, ForEachKeeps, VersionSets
<1>3. Kept(x, last, c)
  <2> HIDE DEF ready
  <2> QED
    BY <1>1, <1>2, ForEachKeeps, VersionSets
<1>4. last.ok /\ Unset(x, c) = last
  <2>1. Unset(x, c) = Outcome(last)
    BY DEF Unset
  <2> HIDE DEF last
  <2> QED
    BY <1>3, <2>1, OutcomeOk DEF Kept
<1>5. GrantedTo(x, ready, AvailableOf(x), Unlocking(c), last)
  <2> HIDE DEF ready
  <2> QED
    BY <1>1, <1>2, <1>4, StepGranted, VersionSets
<1>6. GrantedTo(x, Begin(x), InstalledOf(x), Unlocking(c), ready)
  <2>1. ready.ok
    BY <1>5 DEF GrantedTo
  <2> QED
    BY <1>1, <2>1, RequestBegins, StepGranted, VersionSets
<1>7. Sel(y) /\ AvailableOf(y) = AvailableOf(x) /\ InstalledOf(y) = InstalledOf(x)
  BY <1>3, SameVersions DEF Kept, Req
<1> HIDE DEF ready, last
<1>8. \A v \in AvailableOf(x) : y.status[v].value = "keep"
  BY <1>5, Setters DEF GrantedTo
<1>9. \A v \in InstalledOf(x) : y.status[v].value = "keep"
  <2> SUFFICES ASSUME NEW v \in InstalledOf(x) PROVE y.status[v].value = "keep"
    OBVIOUS
  <2>1. v \in VersionsOf(x) \ AvailableOf(x)
    BY SelFields
  <2>2. y.status[v] = ready.now.status[v]
    BY <1>5, <2>1 DEF GrantedTo
  <2> QED
    BY <1>6, <2>2, Setters DEF GrantedTo
<1>10. InstalledOf(x) # {} => inst \in InstalledOf(x)
  <2> HIDE DEF y
  <2> QED
    BY <1>7, Candidates
<1>11. Going(y) = {}
  BY <1>7, <1>8, ValuesDiffer DEF Going
<1>12. InstalledOf(x) = {} => AvailableOf(x) # {}
  <2>1. ASSUME NEW q \in Seq(PoolItem), q # <<>> PROVE VersionsIn(q) # {}
    <3>1. Len(q) # 0 /\ DOMAIN q = 1..Len(q) /\ Len(q) \in Nat
      BY <2>1
    <3>2. 1 \in DOMAIN q
      BY <3>1
    <3> QED
      BY <3>2 DEF VersionsIn
  <2> QED
    BY <2>1, SelFields DEF InstalledOf, AvailableOf
<1> HIDE DEF y
<1>13. StatusOf(y) = IF InstalledOf(x) = {} THEN "NoInst" ELSE "KeepInstalled"
  <2>1. CASE InstalledOf(x) = {}
    BY <2>1, <1>7, <1>8, <1>11, <1>12, NoneGoing, ValuesDiffer
  <2>2. CASE InstalledOf(x) # {}
    <3>1. ~ Transacts(y.status[InstalledObj(y)]) /\ ~ \A v \in InstalledOf(x) : IsLocked(y.status[v])
      BY <1>9, <1>10, <2>2, ValuesDiffer DEF inst
    <3> QED
      BY <2>2, <3>1, <1>7, <1>11, NoneGoing
  <2> QED
    BY <2>1, <2>2
<1> QED
  BY <1>4, <1>13 DEF NameShows, Shown, y

\* The user's locks are never refused.
LEMMA UserGranted ==
    ASSUME NEW x, Sel(x), NEW r, Kept(x, r, USER), r.ok, NEW S \in SUBSET VersionsOf(x),
           NEW F \in {Ending(USER), Locking(USER)}
    PROVE  LET q == ForEach(r, S, F)
           IN  q.ok /\ Kept(x, q, USER) /\ GrantedTo(x, r, S, F, q) /\ [q EXCEPT !.ok = TRUE] = q
<1> DEFINE q == ForEach(r, S, F)
<1>1. Modest(F, USER) /\ F \in Setter /\ \A s \in StatusType : F[s] # Refused
  BY Setters, StatusFields DEF Modest
<1>2. Applied(x, r, S, F, q)
  BY <1>1, ForEachDoes DEF Kept
<1>3. r.now.status \in [VersionsOf(x) -> StatusType]
  BY SameVersions, SelFields DEF Kept, Req
<1>4. q.ok
  <2> HIDE DEF q
  <2> QED
    BY <1>1, <1>2, <1>3 DEF Applied
<1>5. Kept(x, q, USER)
  BY <1>1, ForEachKeeps
<1>6. GrantedTo(x, r, S, F, q)
  BY <1>1, <1>4, StepGranted
<1> HIDE DEF q
<1>7. [q EXCEPT !.ok = TRUE] = q
  <2>1. q = [ok |-> TRUE, backup |-> q.backup, now |-> q.now]
    BY <1>4, <1>5 DEF Kept, Req
  <2> QED
    BY <2>1
<1> QED
  BY <1>4, <1>5, <1>6, <1>7 DEF q

LEMMA ProtectedShows ==
    ASSUME NEW x, Sel(x), InstalledOf(x) # {}
    PROVE  NameShows(x, SetProtected(x, USER).now, "Protected", USER)
<1> DEFINE ready == ForEach(Begin(x), AvailableOf(x), Ending(USER))
           last  == ForEach(ready, InstalledOf(x), Locking(USER))
           y     == last.now
           inst  == InstalledObj(y)
<1>1. /\ ready.ok /\ Kept(x, ready, USER) /\ [ready EXCEPT !.ok = TRUE] = ready
      /\ GrantedTo(x, Begin(x), AvailableOf(x), Ending(USER), ready)
  <2>1. Kept(x, Begin(x), USER) /\ Begin(x).ok
    BY RequestBegins DEF Begin
  <2>2. Ending(USER) \in {Ending(USER), Locking(USER)}
    OBVIOUS
  <2> QED
    BY <2>1, <2>2, UserGranted, VersionSets
<1>2. SetProtected(x, USER) = [last EXCEPT !.ok = TRUE]
  BY <1>1 DEF SetProtected
<1>3. /\ Kept(x, last, USER) /\ [last EXCEPT !.ok = TRUE] = last
      /\ GrantedTo(x, ready, InstalledOf(x), Locking(USER), last)
  <2>1. Locking(USER) \in {Ending(USER), Locking(USER)}
    OBVIOUS
  <2> HIDE DEF ready
  <2> QED
    BY <1>1, <2>1, UserGranted, VersionSets
<1>7. Sel(y) /\ AvailableOf(y) = AvailableOf(x) /\ InstalledOf(y) = InstalledOf(x)
  BY <1>3, SameVersions DEF Kept, Req
<1> HIDE DEF ready, last
<1>8. \A v \in AvailableOf(x) : ~ Transacts(y.status[v])
  <2> SUFFICES ASSUME NEW v \in AvailableOf(x) PROVE ~ Transacts(y.status[v])
    OBVIOUS
  <2>1. v \in VersionsOf(x) \ InstalledOf(x)
    BY SelFields
  <2>2. y.status[v] = ready.now.status[v]
    BY <1>3, <2>1 DEF GrantedTo
  <2> QED
    BY <1>1, <2>2, Setters, StatusFields DEF GrantedTo
<1>9. \A v \in InstalledOf(x) : IsLocked(y.status[v]) /\ ~ Transacts(y.status[v])
  BY <1>3, Setters, StatusFields, ValuesDiffer DEF GrantedTo
<1>11. Going(y) = {}
  BY <1>7, <1>8 DEF Going
<1> HIDE DEF y
<1>12. StatusOf(y) = "Protected"
  BY <1>7, <1>9, <1>11, NoneGoing, Candidates
<1> QED
  BY <1>2, <1>3, <1>12 DEF NameShows, Shown, y

LEMMA TabooShows ==
    ASSUME NEW x, Sel(x)
    PROVE  NameShows(x, SetTaboo(x, USER).now, "Taboo", USER)
<1> DEFINE last  == ForEach(Begin(x), AvailableOf(x), Locking(USER))
           y     == last.now
<1>1. SetTaboo(x, USER) = [last EXCEPT !.ok = TRUE]
  BY DEF SetTaboo
<1>2. /\ Kept(x, last, USER) /\ [last EXCEPT !.ok = TRUE] = last
      /\ GrantedTo(x, Begin(x), AvailableOf(x), Locking(USER), last)
  <2>1. Kept(x, Begin(x), USER) /\ Begin(x).ok
    BY RequestBegins DEF Begin
  <2>2. Locking(USER) \in {Ending(USER), Locking(USER)}
    OBVIOUS
  <2> QED
    BY <2>1, <2>2, UserGranted, VersionSets
<1>3. Sel(y) /\ AvailableOf(y) = AvailableOf(x) /\ InstalledOf(y) = InstalledOf(x)
  BY <1>2, SameVersions DEF Kept, Req
<1> HIDE DEF last
<1>4. \A v \in AvailableOf(x) : IsLocked(y.status[v]) /\ ~ Transacts(y.status[v])
  BY <1>2, Setters, StatusFields, ValuesDiffer DEF GrantedTo
<1>5. Going(y) = {}
  BY <1>3, <1>4 DEF Going
<1> HIDE DEF y
<1>6. InstalledOf(x) = {} => StatusOf(y) = "Taboo"
  BY <1>3, <1>4, <1>5, NoneGoing
<1> QED
  BY <1>1, <1>2, <1>6 DEF NameShows, Shown, y

LEMMA StatusShows ==
    ASSUME NEW x, Sel(x), NEW c \in Causer, NEW want \in Want, SetStatus(x, want, c).ok
    PROVE  NameShows(x, SetStatus(x, want, c).now, want, c)
<1>0. InstalledObj(x) = NoneChosen <=> InstalledOf(x) = {}
  BY Candidates
<1>1. CASE want = "Protected" /\ c = USER /\ InstalledObj(x) # NoneChosen
  BY <1>0, <1>1, ProtectedShows DEF SetStatus
<1>2. CASE want = "Taboo" /\ c = USER /\ CandidateObj(x) # NoneChosen
  BY <1>2, TabooShows DEF SetStatus
<1>3. CASE want = "Del" /\ InstalledObj(x) # NoneChosen
  BY <1>0, <1>3, DeleteShows DEF SetStatus
<1>4. CASE want = "Install" /\ CandidateObj(x) # NoneChosen /\ InstalledObj(x) = NoneChosen
  BY <1>0, <1>4, InstallShows DEF SetStatus
<1>5. CASE want = "Update" /\ CandidateObj(x) # NoneChosen /\ InstalledObj(x) # NoneChosen
  BY <1>0, <1>5, InstallShows DEF SetStatus
<1>6. CASE want = "KeepInstalled" /\ InstalledObj(x) # NoneChosen
  BY <1>0, <1>6, UnsetShows DEF SetStatus
<1>7. CASE want = "NoInst" /\ InstalledObj(x) = NoneChosen
  BY <1>0, <1>7, UnsetShows DEF SetStatus
<1>8. ASSUME /\ ~(want = "Protected" /\ c = USER /\ InstalledObj(x) # NoneChosen)
             /\ ~(want = "Taboo" /\ c = USER /\ CandidateObj(x) # NoneChosen)
             /\ ~(want = "Del" /\ InstalledObj(x) # NoneChosen)
             /\ ~(want = "Install" /\ CandidateObj(x) # NoneChosen /\ InstalledObj(x) = NoneChosen)
             /\ ~(want = "Update" /\ CandidateObj(x) # NoneChosen /\ InstalledObj(x) # NoneChosen)
             /\ ~(want = "KeepInstalled" /\ InstalledObj(x) # NoneChosen)
             /\ ~(want = "NoInst" /\ InstalledObj(x) = NoneChosen)
      PROVE  FALSE
  <2>1. SetStatus(x, want, c) = Reject(x)
    BY <1>8 DEF SetStatus
  <2> QED
    BY <2>1 DEF Reject
<1> QED
  BY <1>1, <1>2, <1>3, <1>4, <1>5, <1>6, <1>7, <1>8

-----------------------------------------------------------------------------
(* A request for one version was granted and y is the name.                   *)
PickShows(x, v, y, want, c) ==
    /\ \/ Shown(PickStatusOf(y, v), want, c)
       \/ want = "Taboo" /\ Identical(x, v, InstalledOf(x)) # {}
    /\ want \in {"Install", "Update"} =>
           /\ Identical(x, v, Going(y)) # {}
           /\ Going(y) \subseteq x.catalog.multi \/ \A w, u \in Going(y) : w = u

\* The status of a version, from that of those identical to it.
LEMMA PickStatusIs ==
    ASSUME NEW y, Sel(y), NEW v \in VersionsOf(y),
           NEW ins, ins = Identical(y, v, InstalledOf(y)),
           NEW avs, avs = Identical(y, v, AvailableOf(y))
    PROVE  /\ avs \cap Going(y) = {} =>
                \/ /\ \E w \in ins : Transacts(y.status[w]) /\ PickStatusOf(y, v) = By(y.status[w], "Del", "AutoDel")
                \/ /\ \A w \in ins : ~ Transacts(y.status[w])
                   /\ PickStatusOf(y, v) =
                        IF \E w \in ins : IsLocked(y.status[w]) THEN "Protected"
                        ELSE IF ins # {} THEN "KeepInstalled"
                        ELSE IF \A w \in avs : IsLocked(y.status[w]) THEN "Taboo" ELSE "NoInst"
           /\ \A cand : avs \cap Going(y) = {cand} =>
                PickStatusOf(y, v) = IF ins = {} THEN By(y.status[cand], "Install", "AutoInstall")
                                     ELSE By(y.status[cand], "Update", "AutoUpdate")
<1> DEFINE T  == Transacting(y)
           ta == FirstIn(y.catalog.available, avs \cap T, NoneChosen)
           ti == FirstIn(y.catalog.installed, ins \cap T, NoneChosen)
<1>1. PickStatusOf(y, v) =
        IF ta # NoneChosen
        THEN IF ins = {} THEN By(y.status[ta], "Install", "AutoInstall")
                         ELSE By(y.status[ta], "Update", "AutoUpdate")
        ELSE IF ti # NoneChosen THEN By(y.status[ti], "Del", "AutoDel")
        ELSE IF \E w \in ins : IsLocked(y.status[w]) THEN "Protected"
        ELSE IF ins # {} THEN "KeepInstalled"
        ELSE IF \A w \in avs : IsLocked(y.status[w]) THEN "Taboo" ELSE "NoInst"
  BY DEF PickStatusOf
<1>2. ins \subseteq InstalledOf(y) /\ avs \subseteq AvailableOf(y)
  BY DEF Identical
<1>3. avs \cap T = avs \cap Going(y)
  BY <1>2 DEF Going, Transacting, VersionsOf
<1>4. \A w \in ins : w \in T <=> Transacts(y.status[w])
  BY <1>2 DEF Transacting, VersionsOf
<1>5. /\ y.catalog.available \in Seq(PoolItem) /\ y.catalog.installed \in Seq(PoolItem)
      /\ VersionsIn(y.catalog.available) = AvailableOf(y)
      /\ VersionsIn(y.catalog.installed) = InstalledOf(y)
      /\ NoneChosen \notin AvailableOf(y) /\ NoneChosen \notin InstalledOf(y)
  BY SelFields DEF AvailableOf, InstalledOf, VersionsOf
<1> HIDE DEF T
<1>6. /\ avs \cap T = {} => ta = NoneChosen
      /\ avs \cap T # {} => ta \in avs \cap T /\ ta # NoneChosen
  <2> DEFINE S == avs \cap T
  <2>1. AvailableOf(y) \cap S = S
    BY <1>2
  <2> HIDE DEF S
  <2>2. /\ AvailableOf(y) \cap S = {} => FirstIn(y.catalog.available, S, NoneChosen) = NoneChosen
        /\ AvailableOf(y) \cap S # {} => FirstIn(y.catalog.available, S, NoneChosen) \in AvailableOf(y) \cap S
    BY <1>5, FirstInIs
  <2> QED
    BY <1>5, <2>1, <2>2 DEF S
<1>7. /\ ins \cap T = {} => ti = NoneChosen
      /\ ins \cap T # {} => ti \in ins \cap T /\ ti # NoneChosen
  <2> DEFINE S == ins \cap T
  <2>1. InstalledOf(y) \cap S = S
    BY <1>2
  <2> HIDE DEF S
  <2>2. /\ InstalledOf(y) \cap S = {} => FirstIn(y.catalog.installed, S, NoneChosen) = NoneChosen
        /\ InstalledOf(y) \cap S # {} => FirstIn(y.catalog.installed, S, NoneChosen) \in InstalledOf(y) \cap S
    BY <1>5, FirstInIs
  <2> QED
    BY <1>5, <2>1, <2>2 DEF S
<1> HIDE DEF ta, ti
<1>8. ASSUME avs \cap Going(y) = {}
      PROVE  \/ /\ \E w \in ins : Transacts(y.status[w]) /\ PickStatusOf(y, v) = By(y.status[w], "Del", "AutoDel")
             \/ /\ \A w \in ins : ~ Transacts(y.status[w])
                /\ PickStatusOf(y, v) =
                        IF \E w \in ins : IsLocked(y.status[w]) THEN "Protected"
                        ELSE IF ins # {} THEN "KeepInstalled"
                        ELSE IF \A w \in avs : IsLocked(y.status[w]) THEN "Taboo" ELSE "NoInst"
  <2>1. CASE ins \cap T = {}
    BY <1>1, <1>3, <1>4, <1>6, <1>7, <1>8, <2>1
  <2>2. CASE ins \cap T # {}
    BY <1>1, <1>3, <1>4, <1>6, <1>7, <1>8, <2>2
  <2> QED
    BY <2>1, <2>2
<1>9. ASSUME NEW cand, avs \cap Going(y) = {cand}
      PROVE  PickStatusOf(y, v) = IF ins = {} THEN By(y.status[cand], "Install", "AutoInstall")
                                  ELSE By(y.status[cand], "Update", "AutoUpdate")
  BY <1>1, <1>3, <1>6, <1>9
<1> QED
  BY <1>8, <1>9

\* Requests for a version that change it and those identical to it only.
LEMMA LockingPicks ==
    ASSUME NEW x, Sel(x), NEW v \in VersionsOf(x),
           NEW ins, ins = Identical(x, v, InstalledOf(x)),
           NEW avs, avs = Identical(x, v, AvailableOf(x)),
           NEW y, Sel(y), y.catalog = x.catalog, NEW c \in Causer
    PROVE  /\ ins # {} /\ (\A w \in avs : ~ Transacts(y.status[w])) /\ (\A w \in ins : IsLocked(y.status[w]))
              => PickShows(x, v, y, "Protected", c)
           /\ (\A w \in avs : IsLocked(y.status[w])) => PickShows(x, v, y, "Taboo", c)
           /\ /\ ins # {} /\ \A w \in avs : ~ Transacts(y.status[w])
              /\ \A w \in ins : Transacts(y.status[w]) /\ y.status[w].by >= c /\ y.status[w] \in StatusType
              => PickShows(x, v, y, "Del", c)
           /\ ins # {} /\ (\A w \in avs \cup ins : y.status[w].value = "keep")
              => PickShows(x, v, y, "KeepInstalled", c)
           /\ ins = {} /\ (\A w \in avs : y.status[w].value = "keep")
              => PickShows(x, v, y, "NoInst", c)
<1>1. /\ ins = Identical(y, v, InstalledOf(y)) /\ avs = Identical(y, v, AvailableOf(y))
      /\ v \in VersionsOf(y)
  BY SameVersions DEF Identical
<1> DEFINE P == PickStatusOf(y, v)
           G == avs \cap Going(y)
           rest == IF \E w \in ins : IsLocked(y.status[w]) THEN "Protected"
                   ELSE IF ins # {} THEN "KeepInstalled"
                   ELSE IF \A w \in avs : IsLocked(y.status[w]) THEN "Taboo" ELSE "NoInst"
<1>2. G = {} => \/ \E w \in ins : Transacts(y.status[w]) /\ P = By(y.status[w], "Del", "AutoDel")
                \/ (\A w \in ins : ~ Transacts(y.status[w])) /\ P = rest
  <2> HIDE DEF P
  <2> QED
    BY <1>1, PickStatusIs DEF P
<1>3. (\A w \in avs : ~ Transacts(y.status[w])) => G = {}
  BY DEF Going
<1>4. ins = {} => v \in avs
  BY DEF Identical, VersionsOf
<1>5. ins = Identical(x, v, InstalledOf(x))
  OBVIOUS
<1> HIDE DEF P, G
<1>6. ASSUME ins # {}, \A w \in avs : ~ Transacts(y.status[w]), \A w \in ins : IsLocked(y.status[w])
      PROVE  PickShows(x, v, y, "Protected", c)
  BY <1>2, <1>3, <1>6, ValuesDiffer DEF PickShows, Shown, P
<1>7. ASSUME \A w \in avs : IsLocked(y.status[w])
      PROVE  PickShows(x, v, y, "Taboo", c)
  <2>1. ins = {} => P = "Taboo"
    BY <1>2, <1>3, <1>7, ValuesDiffer
  <2> QED
    BY <1>5, <2>1 DEF PickShows, Shown, P
<1>8. ASSUME ins # {}, \A w \in avs : ~ Transacts(y.status[w]),
             \A w \in ins : Transacts(y.status[w]) /\ y.status[w].by >= c /\ y.status[w] \in StatusType
      PROVE  PickShows(x, v, y, "Del", c)
  <2>1. \E w \in ins : P = By(y.status[w], "Del", "AutoDel")
    BY <1>2, <1>3, <1>8
  <2>2. Shown(P, "Del", c)
    BY <1>8, <2>1, ByShows
  <2> QED
    BY <2>2 DEF PickShows, P
<1>9. ASSUME ins # {}, \A w \in avs \cup ins : y.status[w].value = "keep"
      PROVE  PickShows(x, v, y, "KeepInstalled", c)
  <2>1. P = "KeepInstalled"
    BY <1>2, <1>3, <1>9, ValuesDiffer
  <2> QED
    BY <2>1 DEF PickShows, Shown, P
<1>10. ASSUME ins = {}, \A w \in avs : y.status[w].value = "keep"
       PROVE  PickShows(x, v, y, "NoInst", c)
  <2>1. P = "NoInst"
    BY <1>2, <1>3, <1>4, <1>10, ValuesDiffer
  <2> QED
    BY <2>1 DEF PickShows, Shown, P
<1> QED
  BY <1>6, <1>7, <1>8, <1>9, <1>10

\* The version picked transacts, and what else does is right.
LEMMA TransactingPick ==
    ASSUME NEW x, Sel(x), NEW v \in VersionsOf(x), NEW y, Sel(y), y.catalog = x.catalog,
           NEW c \in Causer, NEW cand \in Identical(x, v, AvailableOf(x)),
           Identical(x, v, AvailableOf(x)) \cap Going(y) = {cand}, y.status[cand].by >= c,
           Going(y) \subseteq x.catalog.multi \/ Going(y) = {cand}
    PROVE  PickShows(x, v, y, IF Identical(x, v, InstalledOf(x)) = {} THEN "Install" ELSE "Update", c)
<1> DEFINE ins == Identical(x, v, InstalledOf(x))
           avs == Identical(x, v, AvailableOf(x))
<1>1. /\ ins = Identical(y, v, InstalledOf(y)) /\ avs = Identical(y, v, AvailableOf(y))
      /\ v \in VersionsOf(y) /\ VersionsOf(y) = VersionsOf(x)
  BY SameVersions DEF Identical
<1>2. y.status[cand] \in StatusType
  <2>1. cand \in AvailableOf(x) /\ cand \in VersionsOf(x)
    BY SelFields DEF Identical
  <2>2. y.status \in [VersionsOf(x) -> StatusType]
    BY <1>1, SelFields
  <2> QED
    BY <2>1, <2>2
<1>3. cand \in Identical(x, v, Going(y))
  BY DEF Identical
<1>4. PickStatusOf(y, v) = IF ins = {} THEN By(y.status[cand], "Install", "AutoInstall")
                           ELSE By(y.status[cand], "Update", "AutoUpdate")
  <2> DEFINE P == PickStatusOf(y, v)
  <2> HIDE DEF ins, avs, P
  <2>1. avs \cap Going(y) = {cand}
    BY DEF avs
  <2> QED
    BY <1>1, <2>1, PickStatusIs DEF P
<1> HIDE DEF ins, avs
<1>5. Shown(PickStatusOf(y, v), IF ins = {} THEN "Install" ELSE "Update", c)
  <2> DEFINE s == y.status[cand]
  <2> HIDE DEF s
  <2>1. s \in StatusType /\ s.by >= c
    BY <1>2 DEF s
  <2> QED
    BY <1>4, <2>1, ByShows DEF s
<1> QED
  BY <1>3, <1>5 DEF PickShows, ins

LEMMA AmongShows ==
    ASSUME NEW x, Sel(x), NEW c \in Causer, NEW r, Kept(x, r, c), NEW v \in VersionsOf(x),
           NEW cand \in Identical(x, v, AvailableOf(x)), cand \in x.catalog.multi,
           PickCandidate(r, x, cand, Identical(x, v, AvailableOf(x)), c).ok
    PROVE  PickShows(x, v, PickCandidate(r, x, cand, Identical(x, v, AvailableOf(x)), c).now,
                     IF Identical(x, v, InstalledOf(x)) = {} THEN "Install" ELSE "Update", c)
<1> DEFINE avs     == Identical(x, v, AvailableOf(x))
           S       == AvailableOf(x) \cap (VersionsOf(x) \ x.catalog.multi)
           all     == BackupAll(r)
           cleared == ForEach(all, S, Ending(c))
           among   == ForEach(cleared, avs, Unlocking(c))
           last    == ForEach(among, {cand}, Starting(c))
           y       == last.now
<1>1. PickCandidate(r, x, cand, avs, c) = last
  BY DEF PickCandidate
<1>2. /\ S \in SUBSET VersionsOf(x) /\ avs \in SUBSET VersionsOf(x)
      /\ cand \in avs /\ avs \subseteq AvailableOf(x)
      /\ cand \in VersionsOf(x) /\ {cand} \in SUBSET VersionsOf(x)
  BY VersionSets, SelFields
<1>3. Modest(Ending(c), c) /\ Modest(Unlocking(c), c) /\ Modest(Starting(c), c)
  BY Setters
<1>4. Kept(x, all, c)
  BY BackupAllKeeps
<1>14. last.ok
  BY <1>1
<1> HIDE DEF all
<1>5. Kept(x, cleared, c)
  <2> HIDE DEF S
  <2> QED
    BY <1>2, <1>3, <1>4, ForEachKeeps
<1>6. Kept(x, among, c)
  <2> HIDE DEF cleared, avs
  <2> QED
    BY <1>2, <1>3, <1>5, ForEachKeeps
<1>7. GrantedTo(x, among, {cand}, Starting(c), last) /\ Kept(x, last, c)
  <2> HIDE DEF among
  <2> QED
    BY <1>2, <1>3, <1>6, <1>14, ForEachKeeps, StepGranted
<1>8. GrantedTo(x, cleared, avs, Unlocking(c), among)
  <2>1. among.ok
    BY <1>7 DEF GrantedTo
  <2> HIDE DEF cleared, avs
  <2> QED
    BY <1>2, <1>3, <1>5, <2>1, StepGranted
<1>9. GrantedTo(x, all, S, Ending(c), cleared)
  <2>1. cleared.ok
    BY <1>8 DEF GrantedTo
  <2> HIDE DEF S
  <2> QED
    BY <1>2, <1>3, <1>4, <2>1, StepGranted
<1>10. Sel(y) /\ y.catalog = x.catalog /\ AvailableOf(y) = AvailableOf(x)
  BY <1>7, SameVersions DEF Kept, Req
<1> HIDE DEF cleared, among, last
<1>11. /\ Transacts(y.status[cand]) /\ y.status[cand].by >= c
  BY <1>7, Setters DEF GrantedTo
<1>12. ASSUME NEW w \in avs \ {cand} PROVE ~ Transacts(y.status[w])
  <2>1. y.status[w] = among.now.status[w]
    BY <1>2, <1>7 DEF GrantedTo
  <2>2. among.now.status[w].value = "keep"
    BY <1>8, Setters DEF GrantedTo
  <2> QED
    BY <2>1, <2>2, ValuesDiffer
<1>13. ASSUME NEW w \in S PROVE ~ Transacts(y.status[w])
  <2>1. CASE w \in avs
    BY <2>1, <1>12
  <2>2. CASE w \notin avs
    <3>1. w \in VersionsOf(x) \ avs /\ w # cand
      BY <1>2, <2>2
    <3>2. y.status[w] = among.now.status[w] /\ among.now.status[w] = cleared.now.status[w]
      BY <1>7, <1>8, <3>1 DEF GrantedTo
    <3>3. ~ Transacts(cleared.now.status[w])
      BY <1>9, Setters DEF GrantedTo
    <3> QED
      BY <3>2, <3>3
  <2> QED
    BY <2>1, <2>2
<1> HIDE DEF y
<1>15. avs \cap Going(y) = {cand}
  <2> HIDE DEF avs
  <2> QED
    BY <1>2, <1>10, <1>11, <1>12 DEF Going
<1>16. Going(y) \subseteq x.catalog.multi
  <2>1. \A w \in AvailableOf(x) : w \notin S => w \in x.catalog.multi
    BY DEF VersionsOf
  <2> HIDE DEF S
  <2> QED
    BY <1>10, <1>13, <2>1 DEF Going
<1> QED
  BY <1>1, <1>10, <1>11, <1>15, <1>16, TransactingPick DEF y

\* Of the versions that do not install beside others only the choice transacts.
LEMMA ChoiceGoes ==
    ASSUME NEW x, Sel(x), NEW c \in Causer, NEW v \in AvailableOf(x), SetCandidate(x, v, c).ok,
           \A w, u \in Going(x) : w = u
    PROVE  CandidateObj(SetCandidate(x, v, c).now) = v
<1> DEFINE q == SetCandidate(x, v, c)
           y == q.now
           trans == TransactingCandidate(x)
<1>1. Chosen(x, v, c, q)
  BY CandidateDoes
<1>2. q.ok /\ v # NoneChosen
  BY SelFields
<1> HIDE DEF q
<1>3. /\ Sel(y) /\ AvailableOf(y) = AvailableOf(x) /\ y.candidate = v
      /\ \/ y.status = x.status /\ trans \in {NoneChosen, v}
         \/ /\ trans \in AvailableOf(x) \ {v}
            /\ y.status[trans] = SetTransact(x.status[trans], FALSE, c)
            /\ y.status[v] = SetTransact(x.status[v], TRUE, c)
            /\ Refused \notin {y.status[trans], y.status[v]}
            /\ \A w \in VersionsOf(x) \ {v, trans} : y.status[w] = x.status[w]
  BY <1>1, <1>2, SameVersions DEF Chosen, Req
<1> HIDE DEF y
<1>4. CASE y.status = x.status /\ trans = NoneChosen
  <2>1. Going(x) = {}
    BY <1>4, Candidates, SelFields DEF Going, VersionsOf
  <2>2. Going(y) = {}
    BY <1>3, <1>4, <2>1 DEF Going
  <2>3. CandidateObj(y) = v
    BY <1>2, <1>3, <2>2, Candidates
  <2> QED
    BY <2>3 DEF y, q
<1>5. CASE y.status = x.status /\ trans = v
  <2>1. Going(x) # {}
    BY <1>2, <1>5, Candidates
  <2>2. v \in Going(x)
    BY <1>5, <2>1, Candidates
  <2>3. Going(y) = {v}
    BY <1>3, <1>5, <2>2 DEF Going
  <2>4. CandidateObj(y) = v
    BY <1>3, <2>3, OneGoes
  <2> QED
    BY <2>4 DEF y, q
<1>6. CASE /\ trans \in AvailableOf(x) \ {v}
           /\ y.status[trans] = SetTransact(x.status[trans], FALSE, c)
           /\ y.status[v] = SetTransact(x.status[v], TRUE, c)
           /\ Refused \notin {y.status[trans], y.status[v]}
           /\ \A w \in VersionsOf(x) \ {v, trans} : y.status[w] = x.status[w]
  <2>1. trans \in Going(x)
    <3>1. trans # NoneChosen
      BY <1>6, SelFields
    <3>2. Going(x) # {}
      BY <3>1, Candidates
    <3> QED
      BY <3>2, Candidates
  <2>2. \A w \in AvailableOf(x) \ {trans} : ~ Transacts(x.status[w])
    BY <2>1 DEF Going
  <2>3. x.status[trans] \in StatusType /\ x.status[v] \in StatusType
    BY <1>6, SelFields
  <2>4. ~ Transacts(y.status[trans]) /\ Transacts(y.status[v])
    <3> DEFINE a == x.status[trans]  b == x.status[v]
               e == SetTransact(a, FALSE, c)  t == SetTransact(b, TRUE, c)
    <3>1. a \in StatusType /\ b \in StatusType /\ e # Refused /\ t # Refused
          /\ y.status[trans] = e /\ y.status[v] = t
      BY <1>6, <2>3
    <3> HIDE DEF a, b
    <3>2. e # Refused => Transacts(e) = FALSE
      BY <3>1, SetTransactDoes
    <3>3. t # Refused => Transacts(t) = TRUE
      BY <3>1, SetTransactDoes
    <3> QED
      BY <3>1, <3>2, <3>3
  <2>5. \A w \in AvailableOf(x) \ {v, trans} : y.status[w] = x.status[w]
    BY <1>6, SelFields
  <2>6. Going(y) = {v}
    BY <1>3, <2>2, <2>4, <2>5 DEF Going
  <2>7. CandidateObj(y) = v
    BY <1>3, <2>6, OneGoes
  <2> QED
    BY <2>7 DEF y, q
<1> QED
  BY <1>3, <1>4, <1>5, <1>6

LEMMA AloneShows ==
    ASSUME NEW x, Sel(x), NEW c \in Causer, NEW v \in VersionsOf(x), OneGoing(x),
           NEW cand \in Identical(x, v, AvailableOf(x)), cand \notin x.catalog.multi, NEW avs,
           PickCandidate(Begin(x), x, cand, avs, c).ok
    PROVE  PickShows(x, v, PickCandidate(Begin(x), x, cand, avs, c).now,
                     IF Identical(x, v, InstalledOf(x)) = {} THEN "Install" ELSE "Update", c)
<1> DEFINE S       == AvailableOf(x) \cap x.catalog.multi
           all     == BackupAll(Begin(x))
           alone   == ForEach(all, S, Ending(c))
           choice  == SetCandidate(alone.now, cand, c)
           chosen  == Nested(alone, choice)
           request == IF x.catalog.installed = <<>> THEN "Install" ELSE "Update"
           z       == chosen.now
           last    == SetStatus(z, request, c)
           q       == Nested(chosen, last)
           y       == last.now
<1>1. PickCandidate(Begin(x), x, cand, avs, c) = q
  BY DEF PickCandidate
<1>2. S \in SUBSET VersionsOf(x) /\ Modest(Ending(c), c) /\ request \in Want
  BY VersionSets, Setters DEF Want
<1>3. cand \in AvailableOf(x)
  BY DEF Identical
<1> HIDE DEF request
<1>4. Kept(x, all, c) /\ all.ok /\ all.now = x
  <2>1. Begin(x) = [ok |-> TRUE, backup |-> <<>>, now |-> x]
    BY DEF Begin
  <2>2. Begin(x).ok /\ Begin(x).now = x
    BY <2>1
  <2>3. all = Backup(Begin(x), AvailableOf(x))
    BY <2>2 DEF BackupAll
  <2>4. Kept(x, Begin(x), c)
    BY RequestBegins
  <2> HIDE DEF all
  <2> QED
    BY <2>2, <2>3, <2>4, BackupKeeps, VersionSets
<1>5. Kept(x, alone, c)
  <2> HIDE DEF S, all
  <2> QED
    BY <1>2, <1>4, ForEachKeeps
<1>6. q.ok
  BY <1>1
<1>7. /\ alone.ok /\ choice.ok /\ last.ok /\ chosen.now = choice.now /\ q.now = y
      /\ Sel(alone.now) /\ Sel(chosen.now) /\ chosen.now.catalog = x.catalog
  <2>1. Sel(alone.now) /\ alone.now.catalog = x.catalog
    BY <1>5 DEF Kept, Req
  <2> HIDE DEF alone
  <2>2. Req(alone.now, choice)
    BY <2>1, CandidateDoes DEF Chosen
  <2>3. alone.ok /\ chosen.ok
    BY <1>6 DEF Nested
  <2> HIDE DEF choice
  <2>4. Req(x, chosen) /\ chosen.ok = choice.ok /\ chosen.now = choice.now
    <3>1. Req(x, alone) /\ Req(x, choice)
      <4>1. Req(x, alone)
        BY <1>5 DEF Kept, alone
      <4> QED
        BY <2>2, <4>1, ReqOfNow
    <3>2. chosen = Nested(alone, choice)
      OBVIOUS
    <3> HIDE DEF chosen
    <3>3. After(x, alone, choice, Nested(alone, choice))
      <4>1. alone.ok
        BY <2>3
      <4> QED
        BY <3>1, <4>1, NestedIs
    <3> QED
      BY <3>2, <3>3 DEF After
  <2> HIDE DEF chosen
  <2>5. Req(chosen.now, last)
    BY <1>2, <2>4, StatusAllowed DEF Allowed, Req
  <2> HIDE DEF last
  <2>6. q.ok = last.ok /\ q.now = last.now
    BY <2>3, <2>4, <2>5, ReqOfNow, NestedIs DEF After
  <2> QED
    BY <1>6, <2>1, <2>3, <2>4, <2>6 DEF Req
<1>8. GrantedTo(x, all, S, Ending(c), alone)
  <2> HIDE DEF S, all
  <2> QED
    BY <1>2, <1>4, <1>7, StepGranted
<1>9. /\ VersionsOf(alone.now) = VersionsOf(x) /\ AvailableOf(alone.now) = AvailableOf(x)
      /\ VersionsOf(chosen.now) = VersionsOf(x) /\ AvailableOf(chosen.now) = AvailableOf(x)
      /\ InstalledOf(chosen.now) = InstalledOf(x)
  BY <1>5, <1>7, SameVersions DEF Kept, Req
<1> HIDE DEF all, alone, chosen
<1>10. \A w, u \in Going(alone.now) : w = u
  <2>1. \A w \in Going(alone.now) : w \in AvailableOf(x) /\ w \notin x.catalog.multi
    BY <1>8, <1>9, Setters DEF Going, GrantedTo
  <2>2. \A w \in Going(alone.now) : w \in Going(x)
    BY <1>4, <1>8, <1>9, <2>1, SelFields DEF Going, GrantedTo
  <2> QED
    BY <2>1, <2>2 DEF OneGoing
<1>11. CandidateObj(chosen.now) = cand
  <2> DEFINE base == alone.now
  <2> HIDE DEF base
  <2>1. /\ Sel(base) /\ cand \in AvailableOf(base) /\ SetCandidate(base, cand, c).ok
        /\ \A w, u \in Going(base) : w = u
    BY <1>3, <1>7, <1>9, <1>10 DEF base
  <2>2. CandidateObj(SetCandidate(base, cand, c).now) = cand
    BY <2>1, ChoiceGoes
  <2> QED
    BY <1>7, <2>2 DEF base
<1> HIDE DEF choice, q
<1>12. NameShows(z, y, request, c) /\ Req(z, last)
  <2>1. Sel(z) /\ last.ok
    BY <1>7
  <2> HIDE DEF z
  <2> QED
    BY <1>2, <2>1, StatusShows, StatusAllowed DEF Allowed
<1> HIDE DEF last
<1>13. Sel(y) /\ y.catalog = x.catalog
  BY <1>7, <1>12 DEF Req
<1>14. Going(y) = {cand} /\ y.status[cand].by >= c
  <2>1. request \in {"Install", "Update"}
    BY DEF request
  <2> HIDE DEF y
  <2> QED
    BY <1>11, <1>12, <2>1 DEF NameShows
<1>15. Identical(x, v, AvailableOf(x)) \cap Going(y) = {cand}
  BY <1>14
<1> HIDE DEF y
<1>16. PickShows(x, v, y, IF Identical(x, v, InstalledOf(x)) = {} THEN "Install" ELSE "Update", c)
  BY <1>13, <1>14, <1>15, TransactingPick
<1> QED
  BY <1>1, <1>7, <1>16

\* A version and those identical to it: the candidate of a request for it.
LEMMA PickedCandidate ==
    ASSUME NEW x, Sel(x), NEW v \in VersionsOf(x), Identical(x, v, AvailableOf(x)) # {}
    PROVE  (IF v \in AvailableOf(x) THEN v
            ELSE FirstIn(x.catalog.available, Identical(x, v, AvailableOf(x)), NoneChosen))
           \in Identical(x, v, AvailableOf(x))
<1> DEFINE avs == Identical(x, v, AvailableOf(x))
<1>1. x.catalog.available \in Seq(PoolItem) /\ VersionsIn(x.catalog.available) = AvailableOf(x)
  BY SelFields DEF AvailableOf
<1>2. avs \subseteq AvailableOf(x) /\ (v \in AvailableOf(x) => v \in avs)
  BY DEF Identical
<1> HIDE DEF avs
<1>3. AvailableOf(x) \cap avs # {} => FirstIn(x.catalog.available, avs, NoneChosen) \in AvailableOf(x) \cap avs
  BY <1>1, FirstInIs
<1>4. avs # {}
  BY DEF avs
<1> QED
  BY <1>2, <1>3, <1>4 DEF avs

LEMMA DelPickShows ==
    ASSUME NEW x, Sel(x), NEW v \in VersionsOf(x), NEW c \in Causer,
           NEW ins, ins = Identical(x, v, InstalledOf(x)), ins # {},
           NEW avs, avs = Identical(x, v, AvailableOf(x)),
           ForEach(ForEach(Begin(x), ins, Forcing(c)), avs, Ending(c)).ok
    PROVE  PickShows(x, v, ForEach(ForEach(Begin(x), ins, Forcing(c)), avs, Ending(c)).now, "Del", c)
<1> DEFINE first == ForEach(Begin(x), ins, Forcing(c))
           last  == ForEach(first, avs, Ending(c))
           y     == last.now
<1>0. last.ok
  OBVIOUS
<1>1. Modest(Ending(c), c) /\ Modest(Forcing(c), c)
  BY Setters
<1>2. ins \in SUBSET VersionsOf(x) /\ avs \in SUBSET VersionsOf(x) /\ ins \cap avs = {}
  BY VersionSets, SelFields
<1>3. Kept(x, first, c)
  BY <1>1, <1>2, RequestBegins, ForEachKeeps
<1>4. GrantedTo(x, first, avs, Ending(c), last) /\ Kept(x, last, c)
  <2> HIDE DEF first
  <2> QED
    BY <1>0, <1>1, <1>2, <1>3, ForEachKeeps, StepGranted
<1>5. GrantedTo(x, Begin(x), ins, Forcing(c), first)
  <2>1. first.ok
    BY <1>4 DEF GrantedTo
  <2> QED
    BY <1>1, <1>2, <2>1, RequestBegins, StepGranted
<1>6. Sel(y) /\ y.catalog = x.catalog
  BY <1>4 DEF Kept, Req
<1> HIDE DEF first, last
<1>7. \A w \in avs : ~ Transacts(y.status[w])
  BY <1>4, Setters DEF GrantedTo
<1>8. \A w \in ins : Transacts(y.status[w]) /\ y.status[w].by >= c /\ y.status[w] \in StatusType
  <2> SUFFICES ASSUME NEW w \in ins
               PROVE  Transacts(y.status[w]) /\ y.status[w].by >= c /\ y.status[w] \in StatusType
    OBVIOUS
  <2>1. y.status[w] = first.now.status[w]
    BY <1>2, <1>4 DEF GrantedTo
  <2> QED
    BY <1>5, <2>1, Setters DEF GrantedTo
<1> HIDE DEF y
<1>9. PickShows(x, v, y, "Del", c)
  BY <1>6, <1>7, <1>8, LockingPicks
<1> QED
  BY <1>9 DEF y, last, first

LEMMA KeepPickShows ==
    ASSUME NEW x, Sel(x), NEW v \in VersionsOf(x), NEW c \in Causer,
           NEW ins, ins = Identical(x, v, InstalledOf(x)), ins # {},
           NEW avs, avs = Identical(x, v, AvailableOf(x)),
           ForEach(ForEach(Begin(x), ins, Unlocking(c)), avs, Unlocking(c)).ok
    PROVE  PickShows(x, v, ForEach(ForEach(Begin(x), ins, Unlocking(c)), avs, Unlocking(c)).now,
                     "KeepInstalled", c)
<1> DEFINE first == ForEach(Begin(x), ins, Unlocking(c))
           last  == ForEach(first, avs, Unlocking(c))
           y     == last.now
<1>0. last.ok
  OBVIOUS
<1>1. Modest(Unlocking(c), c)
  BY Setters
<1>2. ins \in SUBSET VersionsOf(x) /\ avs \in SUBSET VersionsOf(x) /\ ins \cap avs = {}
  BY VersionSets, SelFields
<1>3. Kept(x, first, c)
  BY <1>1, <1>2, RequestBegins, ForEachKeeps
<1>4. GrantedTo(x, first, avs, Unlocking(c), last) /\ Kept(x, last, c)
  <2> HIDE DEF first
  <2> QED
    BY <1>0, <1>1, <1>2, <1>3, ForEachKeeps, StepGranted
<1>5. GrantedTo(x, Begin(x), ins, Unlocking(c), first)
  <2>1. first.ok
    BY <1>4 DEF GrantedTo
  <2> QED
    BY <1>1, <1>2, <2>1, RequestBegins, StepGranted
<1>6. Sel(y) /\ y.catalog = x.catalog
  BY <1>4 DEF Kept, Req
<1> HIDE DEF first, last
<1>7. \A w \in avs : y.status[w].value = "keep"
  BY <1>4, Setters DEF GrantedTo
<1>8. \A w \in ins : y.status[w].value = "keep"
  <2> SUFFICES ASSUME NEW w \in ins PROVE y.status[w].value = "keep"
    OBVIOUS
  <2>1. y.status[w] = first.now.status[w]
    BY <1>2, <1>4 DEF GrantedTo
  <2> QED
    BY <1>5, <2>1, Setters DEF GrantedTo
<1> HIDE DEF y
<1>9. PickShows(x, v, y, "KeepInstalled", c)
  BY <1>6, <1>7, <1>8, LockingPicks
<1> QED
  BY <1>9 DEF y, last, first

LEMMA ProtectedPickShows ==
    ASSUME NEW x, Sel(x), NEW v \in VersionsOf(x),
           NEW ins, ins = Identical(x, v, InstalledOf(x)), ins # {},
           NEW avs, avs = Identical(x, v, AvailableOf(x)),
           ForEach(ForEach(Begin(x), ins, Locking(USER)), avs, Ending(USER)).ok
    PROVE  PickShows(x, v, ForEach(ForEach(Begin(x), ins, Locking(USER)), avs, Ending(USER)).now,
                     "Protected", USER)
<1> DEFINE first == ForEach(Begin(x), ins, Locking(USER))
           last  == ForEach(first, avs, Ending(USER))
           y     == last.now
<1>0. last.ok
  OBVIOUS
<1>1. Modest(Locking(USER), USER) /\ Modest(Ending(USER), USER) /\ USER \in Causer
  BY StatusFields, Setters
<1>2. ins \in SUBSET VersionsOf(x) /\ avs \in SUBSET VersionsOf(x) /\ ins \cap avs = {}
  BY VersionSets, SelFields
<1>3. Kept(x, first, USER)
  BY <1>1, <1>2, RequestBegins, ForEachKeeps
<1>4. GrantedTo(x, first, avs, Ending(USER), last) /\ Kept(x, last, USER)
  <2> HIDE DEF first
  <2> QED
    BY <1>0, <1>1, <1>2, <1>3, ForEachKeeps, StepGranted
<1>5. GrantedTo(x, Begin(x), ins, Locking(USER), first)
  <2>1. first.ok
    BY <1>4 DEF GrantedTo
  <2> QED
    BY <1>1, <1>2, <2>1, RequestBegins, StepGranted
<1>6. Sel(y) /\ y.catalog = x.catalog
  BY <1>4 DEF Kept, Req
<1> HIDE DEF first, last
<1>7. \A w \in avs : ~ Transacts(y.status[w])
  BY <1>1, <1>4, Setters DEF GrantedTo
<1>8. \A w \in ins : IsLocked(y.status[w])
  <2> SUFFICES ASSUME NEW w \in ins PROVE IsLocked(y.status[w])
    OBVIOUS
  <2>1. y.status[w] = first.now.status[w]
    BY <1>2, <1>4 DEF GrantedTo
  <2> QED
    BY <1>1, <1>5, <2>1, Setters DEF GrantedTo
<1> HIDE DEF y
<1>9. PickShows(x, v, y, "Protected", USER)
  BY <1>1, <1>6, <1>7, <1>8, LockingPicks
<1> QED
  BY <1>9 DEF y, last, first

LEMMA TabooPickShows ==
    ASSUME NEW x, Sel(x), NEW v \in VersionsOf(x),
           NEW avs, avs = Identical(x, v, AvailableOf(x)),
           ForEach(Begin(x), avs, Locking(USER)).ok
    PROVE  PickShows(x, v, ForEach(Begin(x), avs, Locking(USER)).now, "Taboo", USER)
<1> DEFINE last == ForEach(Begin(x), avs, Locking(USER))
           y    == last.now
<1>1. Modest(Locking(USER), USER) /\ USER \in Causer
  BY StatusFields, Setters
<1>2. avs \in SUBSET VersionsOf(x)
  BY VersionSets
<1>3. GrantedTo(x, Begin(x), avs, Locking(USER), last) /\ Kept(x, last, USER)
  BY <1>1, <1>2, RequestBegins, ForEachKeeps, StepGranted
<1>4. Sel(y) /\ y.catalog = x.catalog
  BY <1>3 DEF Kept, Req
<1> HIDE DEF last
<1>5. \A w \in avs : IsLocked(y.status[w])
  BY <1>1, <1>3, Setters DEF GrantedTo
<1> HIDE DEF y
<1>6. PickShows(x, v, y, "Taboo", USER)
  BY <1>1, <1>4, <1>5, LockingPicks
<1> QED
  BY <1>6 DEF y, last

LEMMA NoInstPickShows ==
    ASSUME NEW x, Sel(x), NEW v \in VersionsOf(x), NEW c \in Causer,
           Identical(x, v, InstalledOf(x)) = {},
           NEW avs, avs = Identical(x, v, AvailableOf(x)),
           ForEach(Begin(x), avs, Unlocking(c)).ok
    PROVE  PickShows(x, v, ForEach(Begin(x), avs, Unlocking(c)).now, "NoInst", c)
<1> DEFINE last == ForEach(Begin(x), avs, Unlocking(c))
           y    == last.now
<1>1. Modest(Unlocking(c), c)
  BY Setters
<1>2. avs \in SUBSET VersionsOf(x)
  BY VersionSets
<1>3. GrantedTo(x, Begin(x), avs, Unlocking(c), last) /\ Kept(x, last, c)
  BY <1>1, <1>2, RequestBegins, ForEachKeeps, StepGranted
<1>4. Sel(y) /\ y.catalog = x.catalog
  BY <1>3 DEF Kept, Req
<1> HIDE DEF last
<1>5. \A w \in avs : y.status[w].value = "keep"
  BY <1>3, Setters DEF GrantedTo
<1> HIDE DEF y
<1>6. PickShows(x, v, y, "NoInst", c)
  BY <1>4, <1>5, LockingPicks
<1> QED
  BY <1>6 DEF y, last

LEMMA PickedShows ==
    ASSUME NEW x, Sel(x), NEW v \in VersionsOf(x), NEW want \in Want, NEW c \in Causer,
           want \in {"Install", "Update"} => OneGoing(x), SetPickStatus(x, v, want, c).ok
    PROVE  PickShows(x, v, SetPickStatus(x, v, want, c).now, want, c)
<1> DEFINE ins      == Identical(x, v, InstalledOf(x))
           avs      == Identical(x, v, AvailableOf(x))
           cand     == IF v \in AvailableOf(x) THEN v
                       ELSE FirstIn(x.catalog.available, avs, NoneChosen)
           lock(S)   == ForEach(Begin(x), S, Locking(c))
           unlock(S) == ForEach(Begin(x), S, Unlocking(c))
           remove   == ForEach(Begin(x), ins, Forcing(c))
           only(r)  == ForEach(r, avs, Ending(c))
           replace  == ForEach(unlock(ins), ins, Starting(SOLVER))
           from     == IF cand \in x.catalog.multi THEN replace ELSE Begin(x)
           pickI    == PickCandidate(Begin(x), x, cand, avs, c)
           pickU    == PickCandidate(from, x, cand, avs, c)
           q ==
             CASE want = "Protected" /\ c = USER /\ ins # {} -> only(lock(ins))
               [] want = "Taboo" /\ c = USER /\ avs # {}     -> lock(avs)
               [] want = "Del" /\ ins # {}                   -> only(remove)
               [] want = "Install" /\ ins = {} /\ avs # {}   -> pickI
               [] want = "Update" /\ ins # {} /\ avs # {}    -> pickU
               [] want = "KeepInstalled" /\ ins # {}         -> ForEach(unlock(ins), avs, Unlocking(c))
               [] want = "NoInst" /\ ins = {}                -> unlock(avs)
               [] OTHER                                      -> Reject(x)
           P(r) == PickShows(x, v, r.now, want, c)
<1>1. PickSteps(x, v, want, c) = q
  BY DEF PickSteps
<1>2. ins \in SUBSET VersionsOf(x) /\ avs \in SUBSET VersionsOf(x)
  BY VersionSets
<1>3. avs # {} => cand \in avs /\ cand \in VersionsOf(x)
  BY PickedCandidate, VersionSets
<1>4. Modest(Unlocking(c), c) /\ Modest(Starting(SOLVER), c)
  BY Setters
<1>5. Kept(x, Begin(x), c)
  BY RequestBegins
<1>6. Kept(x, replace, c)
  <2> HIDE DEF ins
  <2>1. Kept(x, unlock(ins), c)
    BY <1>2, <1>4, <1>5, ForEachKeeps
  <2> HIDE DEF unlock
  <2> QED
    BY <1>2, <1>4, <2>1, ForEachKeeps
<1>7. Kept(x, from, c)
  <2> HIDE DEF replace
  <2> QED
    BY <1>5, <1>6
<1>8. want = "Install" /\ ins = {} /\ avs # {} /\ pickI.ok => P(pickI)
  <2> HIDE DEF cand
  <2> QED
    BY <1>3, <1>5, AmongShows, AloneShows
<1>9. want = "Update" /\ ins # {} /\ avs # {} /\ pickU.ok => P(pickU)
  <2>1. cand \notin x.catalog.multi => from = Begin(x)
    OBVIOUS
  <2> HIDE DEF cand, from
  <2> QED
    BY <1>3, <1>7, <2>1, AmongShows, AloneShows
<1>10. want = "Protected" /\ c = USER /\ ins # {} /\ only(lock(ins)).ok => P(only(lock(ins)))
  BY ProtectedPickShows
<1>11. want = "Taboo" /\ c = USER /\ lock(avs).ok => P(lock(avs))
  BY TabooPickShows
<1>12. want = "Del" /\ ins # {} /\ only(remove).ok => P(only(remove))
  BY DelPickShows
<1>13. want = "KeepInstalled" /\ ins # {} /\ ForEach(unlock(ins), avs, Unlocking(c)).ok
         => P(ForEach(unlock(ins), avs, Unlocking(c)))
  BY KeepPickShows
<1>14. want = "NoInst" /\ ins = {} /\ unlock(avs).ok => P(unlock(avs))
  BY NoInstPickShows
<1>15. ~ Reject(x).ok
  BY DEF Reject
<1> HIDE DEF ins, avs, lock, unlock, remove, only, pickI, pickU, P
<1>16. q.ok => P(q)
  BY <1>8, <1>9, <1>10, <1>11, <1>12, <1>13, <1>14, <1>15
<1> HIDE DEF q
<1>17. SetPickStatus(x, v, want, c) = Outcome(q) /\ Req(x, q)
  BY <1>1, PickSound DEF SetPickStatus, Sound
<1> QED
  BY <1>16, <1>17, OutcomeOk DEF P

LEMMA GrantsFollow == SelectableTypeOK => GrantTakesEffect
<1> SUFFICES ASSUME SelectableTypeOK, NEW x \in pool, NEW c \in Causer, NEW want \in Want
    PROVE
        /\ LET r == SetStatus(x, want, c)
           IN  r.ok => /\ Shown(StatusOf(r.now), want, c) \/ (want = "Taboo" /\ InstalledOf(x) # {})
                       /\ want \in {"Install", "Update"} => Going(r.now) = {CandidateObj(x)}
        /\ \A v \in VersionsOf(x) :
            LET r     == SetPickStatus(x, v, want, c)
                going == Going(r.now)
            IN  r.ok /\ (want \in {"Install", "Update"} => OneGoing(x)) =>
                        /\ \/ Shown(PickStatusOf(r.now, v), want, c)
                           \/ want = "Taboo" /\ Identical(x, v, InstalledOf(x)) # {}
                        /\ want \in {"Install", "Update"} =>
                               /\ Identical(x, v, going) # {}
                               /\ going \subseteq x.catalog.multi \/ \A w, u \in going : w = u
  BY DEF GrantTakesEffect
<1>1. Sel(x)
  BY TypeIs
<1>2. SetStatus(x, want, c).ok => NameShows(x, SetStatus(x, want, c).now, want, c)
  BY <1>1, StatusShows
<1>3. ASSUME NEW v \in VersionsOf(x), SetPickStatus(x, v, want, c).ok,
             want \in {"Install", "Update"} => OneGoing(x)
      PROVE  PickShows(x, v, SetPickStatus(x, v, want, c).now, want, c)
  BY <1>1, <1>3, PickedShows
<1> QED
  BY <1>2, <1>3 DEF NameShows, PickShows

\* A request that is granted is what the name, or the version, shows, and the
\* version that was asked for transacts.
THEOREM GrantsAreShown == SelectableSpec => []GrantTakesEffect
  BY SelectableTypeCorrect, GrantsFollow, PTL
==============================================================================
