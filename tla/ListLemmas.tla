------------------------------ MODULE ListLemmas ------------------------------
(***************************************************************************)
(* Facts about lists and sets of numbers that the proofs about several       *)
(* components need: the smallest and the largest of some numbers, and what   *)
(* is in a list after an element was appended or erased.                     *)
(***************************************************************************)
EXTENDS Integers, Sequences, SequencesExt, SequenceTheorems, FiniteSetTheorems,
        WellFoundedInduction, TLAPS

-----------------------------------------------------------------------------
(* Numbers.                                                                 *)

LEMMA NatLessIsWellFounded == IsWellFoundedOn({p \in Nat \X Nat : p[1] < p[2]}, Nat)
  BY NatLessThanWellFounded DEF OpToRel

LEMMA SmallestExists ==
    ASSUME NEW S, S \subseteq Nat, S # {}
    PROVE  Min(S) \in S /\ \A n \in S : Min(S) <= n
<1> DEFINE Less == {p \in Nat \X Nat : p[1] < p[2]}
<1>1. IsWellFoundedOn(Less, Nat)
  BY NatLessIsWellFounded
<1> HIDE DEF Less
<1>2. PICK x \in S : \A y \in S : <<y, x>> \notin Less
  BY <1>1, WFMin
<1>3. \A y \in S : ~(y < x)
  BY <1>2 DEF Less
<1>4. \A y \in S : x <= y
  BY <1>3
<1> QED
  BY <1>4 DEF Min

LEMMA LargestExists ==
    ASSUME NEW n \in Nat, NEW S, S \subseteq 0..n, S # {}
    PROVE  Max(S) \in S /\ \A k \in S : k <= Max(S)
<1> DEFINE T == {i \in Nat : n - i \in S}
<1>1. T \subseteq Nat /\ T # {}
  <2>1. PICK k \in S : TRUE
    OBVIOUS
  <2>2. n - k \in Nat /\ n - (n - k) = k
    OBVIOUS
  <2> QED
    BY <2>2
<1>2. Min(T) \in T /\ \A i \in T : Min(T) <= i
  BY <1>1, SmallestExists
<1> DEFINE x == n - Min(T)
<1>3. x \in S
  BY <1>2
<1>4. \A k \in S : k <= x
  <2> TAKE k \in S
  <2>1. n - k \in T
    OBVIOUS
  <2>2. Min(T) <= n - k /\ Min(T) \in Nat /\ k \in Int
    BY <2>1, <1>2
  <2> QED
    BY <2>2
<1> HIDE DEF x
<1> QED
  BY <1>3, <1>4 DEF Max

-----------------------------------------------------------------------------
(* The elements of lists.                                                   *)

LEMMA Members ==
    ASSUME NEW T, NEW s \in Seq(T)
    PROVE  /\ Len(s) \in Nat /\ DOMAIN s = 1..Len(s) /\ ToSet(s) \subseteq T
           /\ s = <<>> <=> ToSet(s) = {}
           /\ s = <<>> <=> Len(s) = 0
  BY DEF ToSet

LEMMA MembersIn ==
    ASSUME NEW T, NEW s \in Seq(T), NEW S, ToSet(s) \subseteq S
    PROVE  s \in Seq(S)
  BY DEF ToSet

LEMMA Appended ==
    ASSUME NEW T, NEW s \in Seq(T), NEW x \in T
    PROVE  /\ Append(s, x) \in Seq(T) /\ ToSet(Append(s, x)) = ToSet(s) \cup {x}
           /\ Len(Append(s, x)) = Len(s) + 1
           /\ IsInjective(s) /\ x \notin ToSet(s) => IsInjective(Append(s, x))
<1> DEFINE t == Append(s, x)
<1>1. /\ t \in Seq(T) /\ Len(t) = Len(s) + 1 /\ DOMAIN t = 1..Len(s) + 1 /\ Len(s) \in Nat
      /\ DOMAIN s = 1..Len(s)
      /\ \A k \in 1..Len(s) : t[k] = s[k]
      /\ t[Len(s) + 1] = x
  OBVIOUS
<1> HIDE DEF t
<1>2. ToSet(t) = ToSet(s) \cup {x}
  <2>1. ToSet(t) \subseteq ToSet(s) \cup {x}
    <3>1. \A k \in DOMAIN t : k = Len(s) + 1 \/ k \in DOMAIN s
      BY <1>1
    <3> QED
      BY <3>1, <1>1 DEF ToSet
  <2>2. ToSet(s) \cup {x} \subseteq ToSet(t)
    <3>1. \A k \in DOMAIN s : k \in DOMAIN t /\ s[k] = t[k]
      BY <1>1
    <3>2. Len(s) + 1 \in DOMAIN t
      BY <1>1
    <3> QED
      BY <3>1, <3>2, <1>1 DEF ToSet
  <2> QED
    BY <2>1, <2>2
<1>3. IsInjective(s) /\ x \notin ToSet(s) => IsInjective(t)
  <2> SUFFICES ASSUME IsInjective(s), x \notin ToSet(s), NEW a \in DOMAIN t, NEW b \in DOMAIN t,
                      t[a] = t[b]
               PROVE  a = b
    BY DEF IsInjective
  <2>1. \A k \in DOMAIN s : s[k] # x
    BY DEF ToSet
  <2>2. (a \in DOMAIN s \/ a = Len(s) + 1) /\ (b \in DOMAIN s \/ b = Len(s) + 1)
    BY <1>1
  <2> QED
    BY <2>1, <2>2, <1>1 DEF IsInjective
<1> QED
  BY <1>1, <1>2, <1>3 DEF t

LEMMA Joined ==
    ASSUME NEW T, NEW s \in Seq(T), NEW t \in Seq(T)
    PROVE  /\ s \o t \in Seq(T) /\ Len(s \o t) = Len(s) + Len(t)
           /\ \A k \in 1..Len(s) + Len(t) :
                 (s \o t)[k] = IF k <= Len(s) THEN s[k] ELSE t[k - Len(s)]
           /\ ToSet(s \o t) = ToSet(s) \cup ToSet(t)
           /\ IsInjective(s) /\ IsInjective(t) /\ ToSet(s) \cap ToSet(t) = {}
                => IsInjective(s \o t)
<1> DEFINE u == s \o t
<1>1. /\ u \in Seq(T) /\ Len(u) = Len(s) + Len(t)
      /\ \A k \in 1..Len(s) + Len(t) :
            u[k] = IF k <= Len(s) THEN s[k] ELSE t[k - Len(s)]
  BY ConcatProperties
<1> HIDE DEF u
<1>2. /\ Len(s) \in Nat /\ Len(t) \in Nat /\ DOMAIN u = 1..Len(s) + Len(t)
      /\ DOMAIN s = 1..Len(s) /\ DOMAIN t = 1..Len(t)
  BY <1>1
<1>3. \A k \in DOMAIN s : k \in DOMAIN u /\ u[k] = s[k]
  BY <1>1, <1>2
<1>4. \A k \in DOMAIN t : k + Len(s) \in DOMAIN u /\ u[k + Len(s)] = t[k]
  <2> TAKE k \in DOMAIN t
  <2>1. /\ k + Len(s) \in 1..Len(s) + Len(t) /\ ~(k + Len(s) <= Len(s))
        /\ k + Len(s) - Len(s) = k
    BY <1>2
  <2> QED
    BY <2>1, <1>1, <1>2
<1>5. ASSUME NEW k \in DOMAIN u
      PROVE  \/ k \in DOMAIN s /\ u[k] = s[k]
             \/ ~(k <= Len(s)) /\ k - Len(s) \in DOMAIN t /\ u[k] = t[k - Len(s)]
  BY <1>1, <1>2
<1>6. ToSet(u) = ToSet(s) \cup ToSet(t)
  <2>1. ToSet(u) \subseteq ToSet(s) \cup ToSet(t)
    BY <1>5 DEF ToSet
  <2>2. ToSet(s) \subseteq ToSet(u)
    BY <1>3 DEF ToSet
  <2>3. ToSet(t) \subseteq ToSet(u)
    <3> SUFFICES ASSUME NEW k \in DOMAIN t PROVE t[k] \in ToSet(u)
      BY DEF ToSet
    <3>1. k + Len(s) \in DOMAIN u /\ u[k + Len(s)] = t[k]
      BY <1>4
    <3> HIDE DEF u
    <3> QED
      BY <3>1, Zenon DEF ToSet
  <2> QED
    BY <2>1, <2>2, <2>3
<1>7. ASSUME IsInjective(s), IsInjective(t), ToSet(s) \cap ToSet(t) = {}
      PROVE  IsInjective(u)
  <2> SUFFICES ASSUME NEW a \in DOMAIN u, NEW b \in DOMAIN u, u[a] = u[b] PROVE a = b
    BY DEF IsInjective
  <2>1. \A i \in DOMAIN s, j \in DOMAIN t : s[i] # t[j]
    BY <1>7 DEF ToSet
  <2>2. CASE a \in DOMAIN s /\ b \in DOMAIN s
    BY <2>2, <1>3, <1>7 DEF IsInjective
  <2>3. CASE a \notin DOMAIN s /\ b \notin DOMAIN s
    <3>1. a - Len(s) = b - Len(s)
      BY <2>3, <1>5, <1>7 DEF IsInjective
    <3> QED
      BY <3>1, <1>2
  <2>4. CASE a \in DOMAIN s /\ b \notin DOMAIN s
    <3>1. b - Len(s) \in DOMAIN t /\ u[b] = t[b - Len(s)] /\ u[a] = s[a]
      BY <2>4, <1>3, <1>5
    <3> QED
      BY <3>1, <2>1, <2>4
  <2>5. CASE a \notin DOMAIN s /\ b \in DOMAIN s
    <3>1. a - Len(s) \in DOMAIN t /\ u[a] = t[a - Len(s)] /\ u[b] = s[b]
      BY <2>5, <1>3, <1>5
    <3> QED
      BY <3>1, <2>1, <2>5
  <2> QED
    BY <2>2, <2>3, <2>4, <2>5
<1> QED
  BY <1>1, <1>6, <1>7 DEF u

-----------------------------------------------------------------------------
(* Erasing.                                                                 *)

LEMMA Removed ==
    ASSUME NEW T, NEW s \in Seq(T), NEW i \in DOMAIN s
    PROVE  /\ RemoveAt(s, i) \in Seq(T) /\ Len(RemoveAt(s, i)) = Len(s) - 1
           /\ \A k \in 1..Len(s) - 1 :
                 RemoveAt(s, i)[k] = IF k < i THEN s[k] ELSE s[k + 1]
<1> DEFINE before == SubSeq(s, 1, i - 1)
           after  == SubSeq(s, i + 1, Len(s))
<1>1. i \in 1..Len(s) /\ Len(s) \in Nat
  OBVIOUS
<1>2. /\ before \in Seq(T) /\ Len(before) = i - 1
      /\ \A k \in 1..i - 1 : before[k] = s[k]
  BY <1>1
<1>3. /\ after \in Seq(T) /\ Len(after) = Len(s) - i
      /\ \A k \in 1..Len(s) - i : after[k] = s[k + i]
  BY <1>1
<1> HIDE DEF before, after
<1>4. before \o after \in Seq(T) /\ Len(before \o after) = Len(s) - 1
  BY <1>1, <1>2, <1>3
<1>5. \A k \in 1..Len(s) - 1 : (before \o after)[k] = IF k < i THEN s[k] ELSE s[k + 1]
  <2> TAKE k \in 1..Len(s) - 1
  <2>1. CASE k < i
    BY <2>1, <1>1, <1>2, <1>3
  <2>2. CASE ~(k < i)
    <3>1. k - (i - 1) \in 1..Len(s) - i /\ k - (i - 1) + i = k + 1
      BY <2>2, <1>1
    <3>2. (before \o after)[k] = after[k - (i - 1)]
      <4>1. k \in 1..Len(before) + Len(after) /\ ~(k <= Len(before))
        BY <2>2, <1>1, <1>2, <1>3
      <4>2. (before \o after)[k] = after[k - Len(before)]
        BY <4>1, <1>2, <1>3, ConcatProperties
      <4> QED
        BY <4>2, <1>2
    <3> QED
      BY <3>1, <3>2, <2>2, <1>3
  <2> QED
    BY <2>1, <2>2
<1> QED
  BY <1>4, <1>5 DEF RemoveAt, before, after

\* What a list without its element i still contains.
LEMMA RemovedSet ==
    ASSUME NEW T, NEW s \in Seq(T), NEW i \in DOMAIN s
    PROVE  /\ ToSet(RemoveAt(s, i)) \subseteq ToSet(s)
           /\ ToSet(s) \ {s[i]} \subseteq ToSet(RemoveAt(s, i))
           /\ IsInjective(s) => /\ IsInjective(RemoveAt(s, i))
                                /\ ToSet(RemoveAt(s, i)) = ToSet(s) \ {s[i]}
<1> DEFINE t == RemoveAt(s, i)
<1>1. /\ Len(s) \in Nat /\ DOMAIN s = 1..Len(s) /\ i \in 1..Len(s)
      /\ t \in Seq(T) /\ Len(t) = Len(s) - 1 /\ DOMAIN t = 1..Len(s) - 1
      /\ \A k \in 1..Len(s) - 1 : t[k] = IF k < i THEN s[k] ELSE s[k + 1]
  <2>1. /\ t \in Seq(T) /\ Len(t) = Len(s) - 1
        /\ \A k \in 1..Len(s) - 1 : t[k] = IF k < i THEN s[k] ELSE s[k + 1]
    BY Removed
  <2>2. DOMAIN t = 1..Len(t)
    BY <2>1
  <2> QED
    BY <2>1, <2>2
<1> HIDE DEF t
<1> DEFINE old(k) == IF k < i THEN k ELSE k + 1
<1>2. \A k \in DOMAIN t : old(k) \in DOMAIN s /\ old(k) # i /\ t[k] = s[old(k)]
  BY <1>1
<1>3. \A k, l \in DOMAIN t : old(k) = old(l) => k = l
  BY <1>1
<1>4. \A k \in DOMAIN s \ {i} : \E l \in DOMAIN t : old(l) = k
  <2> TAKE k \in DOMAIN s \ {i}
  <2>1. CASE k < i
    <3>1. k \in DOMAIN t /\ old(k) = k
      BY <2>1, <1>1
    <3> QED
      BY <3>1
  <2>2. CASE k > i
    <3>1. k - 1 \in DOMAIN t /\ old(k - 1) = k
      BY <2>2, <1>1
    <3> QED
      BY <3>1
  <2> QED
    BY <2>1, <2>2, <1>1
<1> HIDE DEF old
<1>5. ToSet(t) \subseteq ToSet(s)
  BY <1>2 DEF ToSet
<1>6. ToSet(s) \ {s[i]} \subseteq ToSet(t)
  BY <1>2, <1>4 DEF ToSet
<1>7. ASSUME IsInjective(s) PROVE IsInjective(t) /\ s[i] \notin ToSet(t)
  BY <1>2, <1>3, <1>7 DEF IsInjective, ToSet
<1> QED
  BY <1>5, <1>6, <1>7 DEF t

\* An element is erased where it is found first.
LEMMA FirstRemoved ==
    ASSUME NEW T, NEW s \in Seq(T), NEW x
    PROVE  /\ RemoveFirst(s, x) \in Seq(T)
           /\ x \notin ToSet(s) => RemoveFirst(s, x) = s
           /\ x \in ToSet(s) => Len(RemoveFirst(s, x)) = Len(s) - 1
           /\ ToSet(RemoveFirst(s, x)) \subseteq ToSet(s)
           /\ ToSet(s) \ {x} \subseteq ToSet(RemoveFirst(s, x))
           /\ IsInjective(s) => /\ IsInjective(RemoveFirst(s, x))
                                /\ ToSet(RemoveFirst(s, x)) = ToSet(s) \ {x}
<1> DEFINE I == {k \in 1..Len(s) : s[k] = x}
<1>1. Len(s) \in Nat /\ DOMAIN s = 1..Len(s)
  OBVIOUS
<1>2. CASE I = {}
  <2>1. x \notin ToSet(s)
    BY <1>1, <1>2 DEF ToSet
  <2>2. RemoveFirst(s, x) = s
    BY <1>2 DEF RemoveFirst
  <2> QED
    BY <2>1, <2>2
<1>3. CASE I # {}
  <2>1. I \subseteq Nat
    OBVIOUS
  <2>2. Min(I) \in I
    BY <2>1, <1>3, SmallestExists
  <2>3. PICK i \in DOMAIN s : i = Min(I) /\ s[i] = x
    BY <2>2, <1>1
  <2>4. RemoveFirst(s, x) = RemoveAt(s, i)
    BY <1>3, <2>3 DEF RemoveFirst, SelectInSeq
  <2>5. x \in ToSet(s)
    BY <2>3 DEF ToSet
  <2>6. RemoveAt(s, i) \in Seq(T) /\ Len(RemoveAt(s, i)) = Len(s) - 1
    BY Removed
  <2>7. /\ ToSet(RemoveAt(s, i)) \subseteq ToSet(s)
        /\ ToSet(s) \ {s[i]} \subseteq ToSet(RemoveAt(s, i))
        /\ IsInjective(s) => /\ IsInjective(RemoveAt(s, i))
                             /\ ToSet(RemoveAt(s, i)) = ToSet(s) \ {s[i]}
    BY RemovedSet
  <2> HIDE DEF I
  <2> QED
    BY <2>3, <2>4, <2>5, <2>6, <2>7
<1> QED
  BY <1>2, <1>3

-----------------------------------------------------------------------------
(* Steps: what is computed from one value to the next, for the numbers 1..n.    *)

LEMMA StepsStay ==
    ASSUME NEW n \in Nat, NEW f, NEW T, f[0] \in T,
           \A k \in 1..n : f[k - 1] \in T => f[k] \in T
    PROVE  \A k \in 0..n : f[k] \in T
<1> DEFINE Bad == {k \in 0..n : f[k] \notin T}
<1>1. SUFFICES ASSUME Bad # {} PROVE FALSE
  OBVIOUS
<1>2. Min(Bad) \in Bad /\ \A k \in Bad : Min(Bad) <= k
  <2>1. Bad \subseteq Nat
    OBVIOUS
  <2> QED
    BY <1>1, <2>1, SmallestExists
<1> DEFINE m == Min(Bad)
<1>3. m \in 1..n /\ m - 1 \in 0..n /\ ~(m <= m - 1)
  BY <1>2
<1>4. f[m - 1] \in T
  BY <1>2, <1>3
<1> QED
  BY <1>2, <1>3, <1>4

StepsOf(g, n, T, base, G) ==
    g \in [0..n -> T] /\ g[0] = base /\ \A k \in 1..n : g[k] = G[<<g[k - 1], k>>]

LEMMA StepsExist ==
    ASSUME NEW n \in Nat, NEW T, NEW base \in T, NEW G \in [T \X (1..n) -> T]
    PROVE  \E g : StepsOf(g, n, T, base, G)
<1> DEFINE Good == {k \in 0..n : \E g : StepsOf(g, k, T, base, G)}
           f    == [k \in 0..n |-> IF k \in Good THEN 1 ELSE 0]
<1>1. 0 \in Good
  <2> DEFINE g == [k \in 0..0 |-> base]
  <2>1. StepsOf(g, 0, T, base, G)
    BY DEF StepsOf
  <2> HIDE DEF g
  <2> QED
    BY <2>1
<1>2. ASSUME NEW k \in 1..n, k - 1 \in Good
      PROVE  k \in Good
  <2>1. PICK g : StepsOf(g, k - 1, T, base, G)
    BY <1>2
  <2> DEFINE h == [i \in 0..k |-> IF i < k THEN g[i] ELSE G[<<g[k - 1], k>>]]
  <2>2. k - 1 \in Nat /\ g[k - 1] \in T /\ g \in [0..k - 1 -> T]
    BY <2>1 DEF StepsOf
  <2>3. G[<<g[k - 1], k>>] \in T
    BY <2>2
  <2>4. h \in [0..k -> T]
    BY <2>2, <2>3
  <2>5. h[0] = base
    BY <2>1, <2>2 DEF StepsOf
  <2>6. ASSUME NEW i \in 1..k
        PROVE  h[i] = G[<<h[i - 1], i>>]
    <3>1. i - 1 \in 0..k - 1 /\ h[i - 1] = g[i - 1]
      OBVIOUS
    <3>2. CASE i < k
      <4>1. i \in 1..k - 1 /\ h[i] = g[i]
        BY <3>2
      <4>2. g[i] = G[<<g[i - 1], i>>]
        BY <4>1, <2>1 DEF StepsOf
      <4> HIDE DEF h
      <4> QED
        BY <3>1, <4>1, <4>2
    <3>3. CASE i = k
      <4>1. h[k] = G[<<g[k - 1], k>>]
        OBVIOUS
      <4>2. h[k - 1] = g[k - 1]
        BY <3>1, <3>3
      <4> HIDE DEF h
      <4> QED
        BY <3>3, <4>1, <4>2
    <3> QED
      BY <3>2, <3>3
  <2> HIDE DEF h
  <2>7. StepsOf(h, k, T, base, G)
    BY <2>4, <2>5, <2>6 DEF StepsOf
  <2> QED
    BY <2>7
<1> HIDE DEF Good
<1>3. \A k \in 0..n : k \in Good
  <2>1. \A k \in 1..n : f[k - 1] \in {1} => f[k] \in {1}
    BY <1>2
  <2>2. f[0] \in {1}
    BY <1>1
  <2> HIDE DEF f
  <2>3. \A k \in 0..n : f[k] \in {1}
    BY <2>1, <2>2, StepsStay
  <2> QED
    BY <2>3 DEF f
<1>4. n \in Good
  BY <1>3
<1> QED
  BY <1>4 DEF Good

\* A finite set of numbers has a bound.
LEMMA BoundExists ==
    ASSUME NEW S, IsFiniteSet(S), S \subseteq Nat
    PROVE  \E b \in Nat : S \subseteq 0..b
<1>1. PICK n \in Nat : ExistsBijection(1..n, S)
  BY FS_NatBijection
<1>2. PICK f : f \in Bijection(1..n, S)
  BY <1>1 DEF ExistsBijection
<1>3. f \in [1..n -> S] /\ \A x \in S : \E i \in 1..n : f[i] = x
  BY <1>2 DEF Bijection, Injection, Surjection
<1> DEFINE Bounded(k) == \E b \in Nat : \A i \in 1..k : f[i] <= b
           g == [k \in 0..n |-> IF Bounded(k) THEN 1 ELSE 0]
<1>4. Bounded(0)
  OBVIOUS
<1>5. ASSUME NEW k \in 1..n, Bounded(k - 1)
      PROVE  Bounded(k)
  <2>1. PICK b \in Nat : \A i \in 1..k - 1 : f[i] <= b
    BY <1>5
  <2>2. f[k] \in Nat
    BY <1>3
  <2>3. PICK c \in Nat : b <= c /\ f[k] <= c
    <3>1. CASE b <= f[k]
      BY <2>2, <3>1
    <3>2. CASE f[k] <= b
      BY <2>2, <3>2
    <3> QED
      BY <2>2, <3>1, <3>2
  <2>4. \A i \in 1..k : f[i] <= c
    <3> TAKE i \in 1..k
    <3>1. CASE i = k
      BY <2>3, <3>1
    <3>2. CASE i # k
      <4>1. i \in 1..k - 1 /\ i \in 1..n
        BY <3>2
      <4>2. f[i] \in Nat /\ f[i] <= b
        BY <1>3, <2>1, <4>1
      <4> QED
        BY <2>3, <4>2
    <3> QED
      BY <3>1, <3>2
  <2> QED
    BY <2>4
<1>6. \A k \in 0..n : g[k] \in {1}
  <2>1. \A k \in 1..n : g[k - 1] \in {1} => g[k] \in {1}
    <3> HIDE DEF Bounded
    <3> TAKE k \in 1..n
    <3>1. k - 1 \in 0..n /\ k \in 0..n
      OBVIOUS
    <3> QED
      BY <1>5, <3>1
  <2>2. g[0] \in {1}
    BY <1>4
  <2> HIDE DEF g
  <2> QED
    BY <2>1, <2>2, StepsStay
<1>7. Bounded(n)
  <2>1. n \in 0..n
    OBVIOUS
  <2> HIDE DEF Bounded
  <2>2. g[n] = IF Bounded(n) THEN 1 ELSE 0
    BY <2>1
  <2>3. g[n] \in {1}
    BY <1>6, <2>1
  <2> QED
    BY <2>2, <2>3
<1>8. PICK b \in Nat : \A i \in 1..n : f[i] <= b
  BY <1>7
<1>9. \A x \in S : x \in 0..b
  BY <1>3, <1>8
<1> QED
  BY <1>9
=============================================================================
