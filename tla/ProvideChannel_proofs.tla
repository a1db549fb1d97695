------------------------ MODULE ProvideChannel_proofs ------------------------
(***************************************************************************)
(* Proofs about a queue and its worker, for all requests, all capabilities  *)
(* and every combination of faults: the owners are told once, the queue     *)
(* keeps what they wait for, and the pair implements ProvideService.         *)
(* The second part is about what is under way between a queue and its        *)
(* living worker: each active request is in one place of the worker or of    *)
(* the pipes, its answer reaches it, and a question is answered unless its   *)
(* request was cancelled meanwhile.  The invariant of the first part tells   *)
(* which ids a message can have; LiveInv tells where they are.               *)
(***************************************************************************)
EXTENDS ProvideChannel, SequenceTheorems, WellFoundedInduction,
        FiniteSetTheorems, TLAPS

-----------------------------------------------------------------------------
(* Indices in sequences.                                                    *)

LEMMA NatLessIsWellFounded == IsWellFoundedOn({p \in Nat \X Nat : p[1] < p[2]}, Nat)
  BY NatLessThanWellFounded DEF OpToRel

LEMMA SmallestExists ==
    ASSUME NEW S, S \subseteq Nat, S # {}
    PROVE  Min(S) \in S /\ \A n \in S : Min(S) <= n
<1> DEFINE Less == {p \in Nat \X Nat : p[1] < p[2]}
<1>1. IsWellFoundedOn(Less, Nat)
  BY NatLessIsWellFounded
<1> HIDE DEF Less
<1>2. PICK x \in S : \A y \in S : <<y, x>> \notin Less
  BY <1>1, WFMin
<1>3. \A y \in S : ~(y < x)
  BY <1>2 DEF Less
<1>4. \A y \in S : x <= y
  BY <1>3
<1> QED
  BY <1>4 DEF Min

LEMMA RequestFound ==
    ASSUME NEW q \in QueueType, NEW id, NEW i, i = GetRequest(q, id)
    PROVE  \/ /\ i = 0
              /\ \A k \in DOMAIN q.active : q.active[k] # None => q.id[q.active[k]] # id
           \/ /\ i \in DOMAIN q.active
              /\ q.active[i] # None /\ q.id[q.active[i]] = id
<1> DEFINE I == {k \in 1..Len(q.active) : q.active[k] # None /\ q.id[q.active[k]] = id}
<1>1. i = IF I # {} THEN Min(I) ELSE 0
  BY DEF GetRequest, SelectInSeq
<1>2. q.active \in Seq(Req \cup {None}) /\ DOMAIN q.active = 1..Len(q.active)
  BY DEF QueueType
<1>3. I \subseteq Nat
  BY <1>2
<1>4. I # {} => Min(I) \in I
  BY <1>3, SmallestExists
<1> QED
  BY <1>1, <1>2, <1>4

LEMMA RequestOf ==
    ASSUME NEW q \in QueueType, NEW r, r \in ToSet(q.active)
    PROVE  \E i \in DOMAIN q.active :
              i = SelectInSeq(q.active, LAMBDA x : x = r) /\ q.active[i] = r
<1> DEFINE I == {k \in 1..Len(q.active) : q.active[k] = r}
<1>1. q.active \in Seq(Req \cup {None}) /\ DOMAIN q.active = 1..Len(q.active)
  BY DEF QueueType
<1>2. I \subseteq Nat /\ I # {}
  BY <1>1 DEF ToSet
<1>3. Min(I) \in I
  BY <1>2, SmallestExists
<1>4. Min(I) \in DOMAIN q.active /\ q.active[Min(I)] = r
  BY <1>1, <1>3
<1>5. SelectInSeq(q.active, LAMBDA x : x = r) = Min(I)
  BY <1>2 DEF SelectInSeq
<1> QED
  BY <1>4, <1>5 DEF SelectInSeq

LEMMA Removed ==
    ASSUME NEW T, NEW s \in Seq(T), NEW i \in DOMAIN s
    PROVE  /\ RemoveAt(s, i) \in Seq(T) /\ Len(RemoveAt(s, i)) = Len(s) - 1
           /\ \A k \in 1..Len(s) - 1 :
                 RemoveAt(s, i)[k] = IF k < i THEN s[k] ELSE s[k + 1]
<1> DEFINE before == SubSeq(s, 1, i - 1)
           after  == SubSeq(s, i + 1, Len(s))
<1>1. i \in 1..Len(s) /\ Len(s) \in Nat
  OBVIOUS
<1>2. /\ before \in Seq(T) /\ Len(before) = i - 1
      /\ \A k \in 1..i - 1 : before[k] = s[k]
  BY <1>1
<1>3. /\ after \in Seq(T) /\ Len(after) = Len(s) - i
      /\ \A k \in 1..Len(s) - i : after[k] = s[k + i]
  BY <1>1
<1> HIDE DEF before, after
<1>4. before \o after \in Seq(T) /\ Len(before \o after) = Len(s) - 1
  BY <1>1, <1>2, <1>3
<1>5. \A k \in 1..Len(s) - 1 : (before \o after)[k] = IF k < i THEN s[k] ELSE s[k + 1]
  <2> TAKE k \in 1..Len(s) - 1
  <2>1. CASE k < i
    BY <2>1, <1>1, <1>2, <1>3
  <2>2. CASE ~(k < i)
    <3>1. k - (i - 1) \in 1..Len(s) - i /\ k - (i - 1) + i = k + 1
      BY <2>2, <1>1
    <3>2. (before \o after)[k] = after[k - (i - 1)]
      <4>1. k \in 1..Len(before) + Len(after) /\ ~(k <= Len(before))
        BY <2>2, <1>1, <1>2, <1>3
      <4>2. (before \o after)[k] = after[k - Len(before)]
        BY <4>1, <1>2, <1>3, ConcatProperties
      <4> QED
        BY <4>2, <1>2
    <3> QED
      BY <3>1, <3>2, <2>2, <1>3
  <2> QED
    BY <2>1, <2>2
<1> QED
  BY <1>4, <1>5 DEF RemoveAt, before, after

LEMMA Dropped ==
    ASSUME NEW T, NEW s \in Seq(T), NEW n \in 0..Len(s)
    PROVE  /\ SubSeq(s, n + 1, Len(s)) \in Seq(T)
           /\ Len(SubSeq(s, n + 1, Len(s))) = Len(s) - n
           /\ \A k \in 1..Len(s) - n : SubSeq(s, n + 1, Len(s))[k] = s[k + n]
<1>1. Len(s) \in Nat /\ n \in Nat /\ n + 1 \in Int /\ n <= Len(s)
  OBVIOUS
<1>2. \A k \in n + 1 .. Len(s) : s[k] \in T
  BY <1>1
<1> DEFINE t == SubSeq(s, n + 1, Len(s))
<1>3. /\ t \in Seq(T) /\ Len(t) = IF n + 1 <= Len(s) THEN Len(s) - (n + 1) + 1 ELSE 0
      /\ \A k \in 1..Len(s) - (n + 1) + 1 : t[k] = s[n + 1 + k - 1]
  BY <1>1, <1>2, SubSeqProperties
<1> HIDE DEF t
<1>4. Len(t) = Len(s) - n /\ Len(s) - (n + 1) + 1 = Len(s) - n
  <2>1. Len(s) - (n + 1) + 1 = Len(s) - n
    BY <1>1
  <2>2. CASE n + 1 <= Len(s)
    BY <2>1, <2>2, <1>3
  <2>3. CASE ~(n + 1 <= Len(s))
    <3>1. n = Len(s)
      BY <2>3, <1>1
    <3> QED
      BY <2>1, <2>3, <3>1, <1>1, <1>3
  <2> QED
    BY <2>2, <2>3
<1>5. ASSUME NEW k \in 1..Len(s) - n PROVE t[k] = s[k + n]
  <2>1. n + 1 + k - 1 = k + n
    BY <1>1
  <2> QED
    BY <2>1, <1>3, <1>4
<1> QED
  BY <1>3, <1>4, <1>5 DEF t

LEMMA Joined ==
    ASSUME NEW T, NEW s \in Seq(T), NEW t \in Seq(T)
    PROVE  /\ s \o t \in Seq(T) /\ Len(s \o t) = Len(s) + Len(t)
           /\ \A k \in 1..Len(s) + Len(t) :
                 (s \o t)[k] = IF k <= Len(s) THEN s[k] ELSE t[k - Len(s)]
  BY ConcatProperties

-----------------------------------------------------------------------------
(* The two lists of a queue.                                                *)

\* No request is in the lists twice; cancelled items (None) may be.
Unique(w, a) ==
    /\ \A i, j \in DOMAIN w : w[i] = w[j] => i = j
    /\ \A i, j \in DOMAIN a : a[i] = a[j] /\ a[i] # None => i = j
    /\ \A i \in DOMAIN w, j \in DOMAIN a : w[i] # a[j]

InLists(w, a) == ToSet(w) \cup (ToSet(a) \ {None})

Lists(w, a) == w \in Seq(Req) /\ a \in Seq(Req \cup {None}) /\ Unique(w, a)

LEMMA NoneIsNoRequest == None \notin Req
  BY RequestKinds DEF Req

LEMMA ListsMove ==
    ASSUME NEW w, NEW a, Lists(w, a), NEW n \in 1..Len(w)
    PROVE  /\ Lists(SubSeq(w, n + 1, Len(w)), a \o SubSeq(w, 1, n))
           /\ InLists(SubSeq(w, n + 1, Len(w)), a \o SubSeq(w, 1, n)) = InLists(w, a)
<1> DEFINE first == SubSeq(w, 1, n)
           w2 == SubSeq(w, n + 1, Len(w))
           a2 == a \o first
<1>1. /\ w \in Seq(Req) /\ Len(w) \in Nat /\ DOMAIN w = 1..Len(w)
      /\ w \in Seq(Req \cup {None})
      /\ a \in Seq(Req \cup {None}) /\ Len(a) \in Nat /\ DOMAIN a = 1..Len(a)
      /\ n \in Nat /\ n <= Len(w)
  BY DEF Lists
<1>2. /\ w2 \in Seq(Req) /\ Len(w2) = Len(w) - n /\ DOMAIN w2 = 1..Len(w) - n
      /\ \A k \in 1..Len(w) - n : w2[k] = w[k + n]
  <2>1. /\ w2 \in Seq(Req) /\ Len(w2) = Len(w) - n
        /\ \A k \in 1..Len(w) - n : w2[k] = w[k + n]
    <3>1. n \in 0..Len(w)
      BY <1>1
    <3> QED
      BY <3>1, <1>1, Dropped
  <2>2. DOMAIN w2 = 1..Len(w2)
    BY <2>1
  <2> QED
    BY <2>1, <2>2
<1> HIDE DEF w2
<1>3. /\ first \in Seq(Req \cup {None}) /\ Len(first) = n
      /\ \A k \in 1..n : first[k] = w[k]
  BY <1>1
<1> HIDE DEF first
<1>4. /\ a2 \in Seq(Req \cup {None}) /\ Len(a2) = Len(a) + n /\ DOMAIN a2 = 1..Len(a) + n
      /\ \A k \in 1..Len(a) + n : a2[k] = IF k <= Len(a) THEN a[k] ELSE first[k - Len(a)]
  <2>1. /\ a2 \in Seq(Req \cup {None}) /\ Len(a2) = Len(a) + Len(first)
        /\ \A k \in 1..Len(a) + Len(first) :
              a2[k] = IF k <= Len(a) THEN a[k] ELSE first[k - Len(a)]
    BY <1>1, <1>3, Joined
  <2>2. DOMAIN a2 = 1..Len(a2)
    BY <2>1
  <2> QED
    BY <2>1, <2>2, <1>3
<1> HIDE DEF a2
<1>5. \A k \in 1..Len(a) : k \in DOMAIN a2 /\ a2[k] = a[k]
  BY <1>1, <1>4
<1>6. \A k \in 1..n : k + Len(a) \in DOMAIN a2 /\ a2[k + Len(a)] = w[k]
  <2> TAKE k \in 1..n
  <2>1. k + Len(a) \in 1..Len(a) + n /\ ~(k + Len(a) <= Len(a)) /\ k + Len(a) - Len(a) = k
    BY <1>1
  <2> QED
    BY <2>1, <1>3, <1>4
<1>7. \A k \in DOMAIN a2 : \/ k \in DOMAIN a
                           \/ k - Len(a) \in 1..n /\ k = (k - Len(a)) + Len(a)
  BY <1>1, <1>4
<1>8. \A k \in DOMAIN w : \/ k \in 1..n
                          \/ k - n \in DOMAIN w2 /\ w2[k - n] = w[k]
  <2> TAKE k \in DOMAIN w
  <2>1. CASE k > n
    <3>1. k - n \in 1..Len(w) - n /\ (k - n) + n = k
      BY <2>1, <1>1
    <3> QED
      BY <3>1, <1>2
  <2> QED
    BY <2>1, <1>1
<1>9. \A k \in DOMAIN w2 : k + n \in DOMAIN w /\ k + n \notin 1..n /\ w2[k] = w[k + n]
  <2> TAKE k \in DOMAIN w2
  <2>1. k \in 1..Len(w) - n /\ k \in Nat
    BY <1>1, <1>2
  <2>2. k + n \in 1..Len(w) /\ ~(k + n <= n)
    BY <2>1, <1>1
  <2> QED
    BY <2>1, <2>2, <1>1, <1>2
<1>10. Unique(w2, a2)
  <2>1. ASSUME NEW i \in DOMAIN w2, NEW j \in DOMAIN w2, w2[i] = w2[j] PROVE i = j
    <3>1. /\ i + n \in DOMAIN w /\ w2[i] = w[i + n]
          /\ j + n \in DOMAIN w /\ w2[j] = w[j + n]
      BY <1>9
    <3>2. i + n = j + n
      BY <2>1, <3>1 DEF Lists, Unique
    <3>3. i \in Nat /\ j \in Nat
      BY <1>1, <1>2
    <3> QED
      BY <3>2, <3>3, <1>1
  <2>2. ASSUME NEW i \in DOMAIN a2, NEW j \in DOMAIN a2, a2[i] = a2[j], a2[i] # None PROVE i = j
    <3>1. CASE i \in DOMAIN a /\ j \in DOMAIN a
      BY <3>1, <2>2, <1>1, <1>5 DEF Lists, Unique
    <3>2. CASE i \in DOMAIN a /\ j - Len(a) \in 1..n /\ j = (j - Len(a)) + Len(a)
      <4>1. a2[i] = a[i] /\ a2[j] = w[j - Len(a)] /\ j - Len(a) \in DOMAIN w
        BY <3>2, <1>1, <1>5, <1>6
      <4> QED
        BY <4>1, <3>2, <2>2 DEF Lists, Unique
    <3>3. CASE j \in DOMAIN a /\ i - Len(a) \in 1..n /\ i = (i - Len(a)) + Len(a)
      <4>1. a2[j] = a[j] /\ a2[i] = w[i - Len(a)] /\ i - Len(a) \in DOMAIN w
        BY <3>3, <1>1, <1>5, <1>6
      <4> QED
        BY <4>1, <3>3, <2>2 DEF Lists, Unique
    <3>4. CASE /\ i - Len(a) \in 1..n /\ i = (i - Len(a)) + Len(a)
               /\ j - Len(a) \in 1..n /\ j = (j - Len(a)) + Len(a)
      <4>1. /\ a2[i] = w[i - Len(a)] /\ i - Len(a) \in DOMAIN w
            /\ a2[j] = w[j - Len(a)] /\ j - Len(a) \in DOMAIN w
        BY <3>4, <1>1, <1>6
      <4>2. i - Len(a) = j - Len(a)
        BY <4>1, <2>2 DEF Lists, Unique
      <4> QED
        BY <4>2, <3>4
    <3> QED
      BY <3>1, <3>2, <3>3, <3>4, <1>7
  <2>3. ASSUME NEW i \in DOMAIN w2, NEW j \in DOMAIN a2 PROVE w2[i] # a2[j]
    <3>1. CASE j \in DOMAIN a
      BY <3>1, <1>1, <1>5, <1>9 DEF Lists, Unique
    <3>2. CASE j - Len(a) \in 1..n /\ j = (j - Len(a)) + Len(a)
      <4>1. a2[j] = w[j - Len(a)] /\ j - Len(a) \in DOMAIN w
        BY <3>2, <1>1, <1>6
      <4>2. w[i + n] # w[j - Len(a)]
        BY <4>1, <3>2, <1>9 DEF Lists, Unique
      <4> QED
        BY <4>1, <4>2, <1>9
    <3> QED
      BY <3>1, <3>2, <1>7
  <2> QED
    BY <2>1, <2>2, <2>3 DEF Unique
<1>11. InLists(w2, a2) = InLists(w, a)
  <2>1. ASSUME NEW i \in DOMAIN w2 PROVE w2[i] \in InLists(w, a)
    BY <1>9 DEF InLists, ToSet
  <2>2. ASSUME NEW i \in DOMAIN a2, a2[i] # None PROVE a2[i] \in InLists(w, a)
    <3>1. CASE i \in DOMAIN a
      BY <3>1, <2>2, <1>1, <1>5 DEF InLists, ToSet
    <3>2. CASE i - Len(a) \in 1..n /\ i = (i - Len(a)) + Len(a)
      <4>1. a2[i] = w[i - Len(a)] /\ i - Len(a) \in DOMAIN w
        BY <3>2, <1>1, <1>6
      <4> QED
        BY <4>1 DEF InLists, ToSet
    <3> QED
      BY <3>1, <3>2, <1>7
  <2>3. ASSUME NEW i \in DOMAIN w PROVE w[i] \in InLists(w2, a2)
    <3>1. w[i] # None
      BY <1>1, NoneIsNoRequest
    <3>2. CASE i \in 1..n
      BY <3>1, <3>2, <1>6 DEF InLists, ToSet
    <3>3. CASE i - n \in DOMAIN w2 /\ w2[i - n] = w[i]
      BY <3>3 DEF InLists, ToSet
    <3> QED
      BY <3>2, <3>3, <1>8
  <2>4. ASSUME NEW i \in DOMAIN a, a[i] # None PROVE a[i] \in InLists(w2, a2)
    BY <2>4, <1>1, <1>5 DEF InLists, ToSet
  <2> QED
    BY <2>1, <2>2, <2>3, <2>4 DEF InLists, ToSet
<1> QED
  BY <1>2, <1>4, <1>10, <1>11 DEF Lists, w2, a2, first

LEMMA ListsRemove ==
    ASSUME NEW w, NEW a, Lists(w, a), NEW i \in DOMAIN a, a[i] # None
    PROVE  /\ Lists(w, RemoveAt(a, i))
           /\ InLists(w, RemoveAt(a, i)) = InLists(w, a) \ {a[i]}
<1> DEFINE b == RemoveAt(a, i)
<1>1. /\ a \in Seq(Req \cup {None}) /\ Len(a) \in Nat /\ DOMAIN a = 1..Len(a)
      /\ w \in Seq(Req) /\ Len(w) \in Nat /\ DOMAIN w = 1..Len(w) /\ i \in 1..Len(a)
  BY DEF Lists
<1>2. /\ b \in Seq(Req \cup {None}) /\ Len(b) = Len(a) - 1 /\ DOMAIN b = 1..Len(a) - 1
      /\ \A k \in 1..Len(a) - 1 : b[k] = IF k < i THEN a[k] ELSE a[k + 1]
  <2>1. /\ b \in Seq(Req \cup {None}) /\ Len(b) = Len(a) - 1
        /\ \A k \in 1..Len(a) - 1 : b[k] = IF k < i THEN a[k] ELSE a[k + 1]
    BY <1>1, Removed
  <2>2. DOMAIN b = 1..Len(b)
    BY <2>1
  <2> QED
    BY <2>1, <2>2
<1> HIDE DEF b
<1> DEFINE old(k) == IF k < i THEN k ELSE k + 1
<1>3. \A k \in DOMAIN b : old(k) \in DOMAIN a /\ old(k) # i /\ b[k] = a[old(k)]
  BY <1>1, <1>2
<1>4. \A k, l \in DOMAIN b : old(k) = old(l) => k = l
  BY <1>1, <1>2
<1>5. \A k \in DOMAIN a \ {i} : \E l \in DOMAIN b : old(l) = k
  <2> TAKE k \in DOMAIN a \ {i}
  <2>1. CASE k < i
    <3>1. k \in DOMAIN b /\ old(k) = k
      BY <2>1, <1>1, <1>2
    <3> QED
      BY <3>1
  <2>2. CASE k > i
    <3>1. k - 1 \in DOMAIN b /\ old(k - 1) = k
      BY <2>2, <1>1, <1>2
    <3> QED
      BY <3>1
  <2> QED
    BY <2>1, <2>2, <1>1
<1> HIDE DEF old
<1>6. Unique(w, b)
  BY <1>3, <1>4 DEF Lists, Unique
<1>7. \A k \in DOMAIN b : b[k] # None => b[k] # a[i]
  BY <1>3 DEF Lists, Unique
<1>8. ToSet(b) \ {None} = (ToSet(a) \ {None}) \ {a[i]}
  BY <1>3, <1>5, <1>7 DEF ToSet
<1>9. a[i] \notin ToSet(w)
  BY DEF Lists, Unique, ToSet
<1>10. InLists(w, b) = InLists(w, a) \ {a[i]}
  BY <1>8, <1>9 DEF InLists
<1> QED
  BY <1>1, <1>2, <1>6, <1>10 DEF Lists, b

LEMMA ListsBlank ==
    ASSUME NEW w, NEW a, Lists(w, a), NEW i \in DOMAIN a, a[i] # None
    PROVE  /\ Lists(w, [a EXCEPT ![i] = None])
           /\ InLists(w, [a EXCEPT ![i] = None]) = InLists(w, a) \ {a[i]}
<1> DEFINE b == [a EXCEPT ![i] = None]
<1>1. /\ a \in Seq(Req \cup {None}) /\ Len(a) \in Nat /\ DOMAIN a = 1..Len(a)
      /\ w \in Seq(Req)
  BY DEF Lists
<1>2. /\ b \in Seq(Req \cup {None}) /\ DOMAIN b = DOMAIN a
      /\ \A k \in DOMAIN a : b[k] = IF k = i THEN None ELSE a[k]
  BY <1>1
<1> HIDE DEF b
<1>3. Unique(w, b)
  <2>1. \A k \in DOMAIN w : w[k] # None
    BY <1>1, NoneIsNoRequest
  <2> QED
    BY <1>2, <2>1 DEF Lists, Unique
<1>4. ToSet(b) \ {None} = (ToSet(a) \ {None}) \ {a[i]}
  BY <1>2 DEF ToSet, Lists, Unique
<1>5. a[i] \notin ToSet(w)
  BY DEF Lists, Unique, ToSet
<1>6. InLists(w, b) = InLists(w, a) \ {a[i]}
  BY <1>4, <1>5 DEF InLists
<1> QED
  BY <1>1, <1>2, <1>3, <1>6 DEF Lists, b

LEMMA ListsEnd ==
    ASSUME NEW w, NEW a, Lists(w, a), NEW b,
           b = [i \in DOMAIN a |-> IF a[i] \in ToSet(a) \ ({None} \cup Detaches)
                                   THEN None ELSE a[i]]
    PROVE  /\ Lists(<<>>, b) /\ InLists(<<>>, b) = ToSet(a) \cap Detaches
           /\ \A i \in DOMAIN b : b[i] \in Detaches \cup {None}
<1>1. a \in Seq(Req \cup {None}) /\ Len(a) \in Nat /\ DOMAIN a = 1..Len(a)
  BY DEF Lists
<1>2. \A i \in DOMAIN a : a[i] \in Req \cup {None} /\ a[i] \in ToSet(a)
  BY <1>1 DEF ToSet
<1>3. /\ b \in Seq(Req \cup {None}) /\ DOMAIN b = DOMAIN a
      /\ \A i \in DOMAIN a : b[i] = IF a[i] \in Detaches THEN a[i] ELSE None
  <2>1. /\ DOMAIN b = DOMAIN a
        /\ \A i \in DOMAIN a : b[i] = IF a[i] \in Detaches THEN a[i] ELSE None
    BY <1>2, NoneIsNoRequest DEF Req
  <2>2. b = [i \in 1..Len(a) |-> IF a[i] \in Detaches THEN a[i] ELSE None]
    BY <1>1, <1>2, NoneIsNoRequest DEF Req
  <2>3. b \in [1..Len(a) -> Req \cup {None}]
    BY <2>2 DEF Req
  <2>4. b \in Seq(Req \cup {None})
    BY <2>3, <1>1
  <2> QED
    BY <2>1, <2>4
<1>4. <<>> \in Seq(Req) /\ ToSet(<<>>) = {} /\ DOMAIN <<>> = {}
  BY DEF ToSet
<1>5. Unique(<<>>, b)
  BY <1>3, <1>4 DEF Lists, Unique
<1>6. None \notin Detaches
  BY NoneIsNoRequest DEF Req
<1>7. ToSet(b) \ {None} = ToSet(a) \cap Detaches
  BY <1>3, <1>6 DEF ToSet
<1> QED
  BY <1>3, <1>4, <1>5, <1>7 DEF Lists, InLists

LEMMA ListsTail ==
    ASSUME NEW w, NEW a, Lists(w, a), w # <<>>
    PROVE  /\ Head(w) \in Req /\ Lists(Tail(w), a)
           /\ InLists(Tail(w), a) = InLists(w, a) \ {Head(w)}
<1> DEFINE t == Tail(w)
<1>1. /\ w \in Seq(Req) /\ Len(w) \in Nat /\ DOMAIN w = 1..Len(w) /\ Len(w) > 0
      /\ a \in Seq(Req \cup {None}) /\ Head(w) = w[1] /\ 1 \in DOMAIN w
  BY DEF Lists
<1>2. /\ t \in Seq(Req) /\ Len(t) = Len(w) - 1 /\ DOMAIN t = 1..Len(w) - 1
      /\ \A k \in 1..Len(w) - 1 : t[k] = w[k + 1]
  BY <1>1
<1> HIDE DEF t
<1>3. \A k \in DOMAIN t : k + 1 \in DOMAIN w /\ k + 1 # 1 /\ t[k] = w[k + 1] /\ k \in Nat
  BY <1>1, <1>2
<1>4. \A k \in DOMAIN w : k # 1 => k - 1 \in DOMAIN t /\ t[k - 1] = w[k]
  BY <1>1, <1>2
<1>5. Unique(t, a)
  <2>1. ASSUME NEW i \in DOMAIN t, NEW j \in DOMAIN t, t[i] = t[j] PROVE i = j
    <3>1. i + 1 = j + 1
      BY <2>1, <1>3 DEF Lists, Unique
    <3> QED
      BY <3>1, <1>3
  <2>2. ASSUME NEW i \in DOMAIN t, NEW j \in DOMAIN a PROVE t[i] # a[j]
    BY <1>3 DEF Lists, Unique
  <2> QED
    BY <2>1, <2>2 DEF Lists, Unique
<1>6. ToSet(t) = ToSet(w) \ {w[1]}
  <2>1. ASSUME NEW i \in DOMAIN t PROVE t[i] \in ToSet(w) \ {w[1]}
    BY <1>1, <1>3 DEF Lists, Unique, ToSet
  <2>2. ASSUME NEW i \in DOMAIN w, w[i] # w[1] PROVE w[i] \in ToSet(t)
    BY <2>2, <1>4 DEF ToSet
  <2> QED
    BY <2>1, <2>2 DEF ToSet
<1>7. w[1] \notin ToSet(a)
  BY <1>1 DEF Lists, Unique, ToSet
<1> QED
  BY <1>1, <1>2, <1>5, <1>6, <1>7 DEF Lists, InLists, t

LEMMA ListsAppend ==
    ASSUME NEW w, NEW a, Lists(w, a), NEW r \in Req, r \notin InLists(w, a)
    PROVE  /\ Lists(Append(w, r), a) /\ InLists(Append(w, r), a) = InLists(w, a) \cup {r}
<1> DEFINE t == Append(w, r)
<1>1. w \in Seq(Req) /\ Len(w) \in Nat /\ DOMAIN w = 1..Len(w) /\ a \in Seq(Req \cup {None})
  BY DEF Lists
<1>2. /\ t \in Seq(Req) /\ Len(t) = Len(w) + 1 /\ DOMAIN t = 1..Len(w) + 1
      /\ \A k \in 1..Len(w) : t[k] = w[k]
      /\ t[Len(w) + 1] = r
  BY <1>1
<1> HIDE DEF t
<1>3. \A k \in DOMAIN t : \/ k \in DOMAIN w /\ t[k] = w[k]
                          \/ k = Len(w) + 1 /\ t[k] = r
  <2> TAKE k \in DOMAIN t
  <2>1. k \in 1..Len(w) \/ k = Len(w) + 1
    BY <1>1, <1>2
  <2>2. CASE k \in 1..Len(w)
    <3>1. t[k] = w[k]
      BY <2>2, <1>2
    <3>2. k \in DOMAIN w
      BY <2>2, <1>1
    <3> QED
      BY <3>1, <3>2
  <2>3. CASE k = Len(w) + 1
    BY <2>3, <1>2
  <2> QED
    BY <2>1, <2>2, <2>3
<1>4. Len(w) + 1 \in DOMAIN t /\ \A k \in DOMAIN w : k \in DOMAIN t
  BY <1>1, <1>2
<1>5. r # None /\ r \notin ToSet(w) /\ r \notin ToSet(a)
  BY NoneIsNoRequest DEF InLists
<1>6. Unique(t, a)
  BY <1>3, <1>5 DEF Lists, Unique, ToSet
<1>7. ToSet(t) = ToSet(w) \cup {r}
  BY <1>1, <1>2, <1>3, <1>4 DEF ToSet
<1> QED
  BY <1>1, <1>2, <1>6, <1>7 DEF Lists, InLists, t

LEMMA ListsFront ==
    ASSUME NEW w, NEW a, Lists(w, a), NEW r \in Req, r \notin InLists(w, a)
    PROVE  /\ Lists(<<r>> \o w, a) /\ InLists(<<r>> \o w, a) = InLists(w, a) \cup {r}
<1> DEFINE t == <<r>> \o w
<1>1. w \in Seq(Req) /\ Len(w) \in Nat /\ DOMAIN w = 1..Len(w) /\ a \in Seq(Req \cup {None})
  BY DEF Lists
<1>2. /\ t \in Seq(Req) /\ Len(t) = Len(w) + 1 /\ DOMAIN t = 1..Len(w) + 1
      /\ \A k \in 1..Len(w) + 1 : t[k] = IF k = 1 THEN r ELSE w[k - 1]
  <2>1. <<r>> \in Seq(Req) /\ Len(<<r>>) = 1 /\ <<r>>[1] = r
    OBVIOUS
  <2>2. /\ t \in Seq(Req) /\ Len(t) = 1 + Len(w)
        /\ \A k \in 1..1 + Len(w) : t[k] = IF k <= 1 THEN <<r>>[k] ELSE w[k - 1]
    BY <2>1, <1>1, Joined
  <2> HIDE DEF t
  <2>3. DOMAIN t = 1..Len(t)
    BY <2>2
  <2> QED
    BY <2>1, <2>2, <2>3, <1>1
<1> HIDE DEF t
<1>3. \A k \in DOMAIN t : \/ k = 1 /\ t[k] = r
                          \/ k - 1 \in DOMAIN w /\ t[k] = w[k - 1] /\ k \in Nat
  <2> TAKE k \in DOMAIN t
  <2>1. k \in 1..Len(w) + 1 /\ k \in Nat
    BY <1>1, <1>2
  <2>2. k = 1 \/ (k # 1 /\ k - 1 \in 1..Len(w))
    BY <2>1, <1>1
  <2>3. t[k] = IF k = 1 THEN r ELSE w[k - 1]
    BY <2>1, <1>2
  <2>4. CASE k = 1
    BY <2>3, <2>4
  <2>5. CASE k # 1 /\ k - 1 \in 1..Len(w)
    <3>1. t[k] = w[k - 1]
      BY <2>3, <2>5
    <3>2. k - 1 \in DOMAIN w
      BY <2>5, <1>1
    <3> QED
      BY <2>1, <3>1, <3>2
  <2> QED
    BY <2>2, <2>4, <2>5
<1>4. /\ 1 \in DOMAIN t /\ t[1] = r
      /\ \A k \in DOMAIN w : k + 1 \in DOMAIN t /\ t[k + 1] = w[k]
  BY <1>1, <1>2
<1>5. r # None /\ r \notin ToSet(w) /\ r \notin ToSet(a)
  BY NoneIsNoRequest DEF InLists
<1>6. Unique(t, a)
  <2>1. ASSUME NEW i \in DOMAIN t, NEW j \in DOMAIN t, t[i] = t[j] PROVE i = j
    <3>1. CASE i = 1 /\ t[i] = r
      BY <3>1, <2>1, <1>3, <1>5 DEF ToSet
    <3>2. CASE j = 1 /\ t[j] = r
      BY <3>2, <2>1, <1>3, <1>5 DEF ToSet
    <3>3. CASE /\ i - 1 \in DOMAIN w /\ t[i] = w[i - 1] /\ i \in Nat
               /\ j - 1 \in DOMAIN w /\ t[j] = w[j - 1] /\ j \in Nat
      <4>1. i - 1 = j - 1
        BY <3>3, <2>1 DEF Lists, Unique
      <4> QED
        BY <4>1, <3>3
    <3> QED
      BY <3>1, <3>2, <3>3, <1>3
  <2>2. ASSUME NEW i \in DOMAIN t, NEW j \in DOMAIN a PROVE t[i] # a[j]
    BY <1>3, <1>5 DEF Lists, Unique, ToSet
  <2> QED
    BY <2>1, <2>2 DEF Lists, Unique
<1>7. ToSet(t) = ToSet(w) \cup {r}
  BY <1>1, <1>2, <1>3, <1>4 DEF ToSet
<1> QED
  BY <1>1, <1>2, <1>6, <1>7 DEF Lists, InLists, t

LEMMA ListsDrop ==
    ASSUME NEW w, NEW a, Lists(w, a), NEW r \in ToSet(w)
    PROVE  /\ Lists(RemoveFirst(w, r), a)
           /\ InLists(RemoveFirst(w, r), a) = InLists(w, a) \ {r}
           /\ ToSet(RemoveFirst(w, r)) \subseteq ToSet(w)
<1>1. /\ w \in Seq(Req) /\ Len(w) \in Nat /\ DOMAIN w = 1..Len(w)
      /\ a \in Seq(Req \cup {None}) /\ r \in Req
  BY DEF Lists, ToSet
<1> DEFINE I == {k \in 1..Len(w) : w[k] = r}
<1>2. I # {} /\ I \subseteq Nat
  BY <1>1 DEF ToSet
<1>3. Min(I) \in I
  BY <1>2, SmallestExists
<1>4. PICK i \in 1..Len(w) : i = Min(I) /\ w[i] = r
  BY <1>3
<1>5. RemoveFirst(w, r) = RemoveAt(w, i)
  BY <1>2, <1>4 DEF RemoveFirst, SelectInSeq
<1> DEFINE t == RemoveAt(w, i)
<1>6. /\ t \in Seq(Req) /\ Len(t) = Len(w) - 1 /\ DOMAIN t = 1..Len(w) - 1
      /\ \A k \in 1..Len(w) - 1 : t[k] = IF k < i THEN w[k] ELSE w[k + 1]
  <2>1. /\ t \in Seq(Req) /\ Len(t) = Len(w) - 1
        /\ \A k \in 1..Len(w) - 1 : t[k] = IF k < i THEN w[k] ELSE w[k + 1]
    BY <1>1, Removed
  <2>2. DOMAIN t = 1..Len(t)
    BY <2>1
  <2> QED
    BY <2>1, <2>2
<1> HIDE DEF t, I
<1> DEFINE old(k) == IF k < i THEN k ELSE k + 1
<1>7. \A k \in DOMAIN t : old(k) \in DOMAIN w /\ old(k) # i /\ t[k] = w[old(k)]
  BY <1>1, <1>6
<1>8. \A k, l \in DOMAIN t : old(k) = old(l) => k = l
  BY <1>1, <1>6
<1>9. \A k \in DOMAIN w \ {i} : \E l \in DOMAIN t : old(l) = k
  <2> TAKE k \in DOMAIN w \ {i}
  <2>1. CASE k < i
    <3>1. k \in DOMAIN t /\ old(k) = k
      BY <2>1, <1>1, <1>6
    <3> QED
      BY <3>1
  <2>2. CASE k > i
    <3>1. k - 1 \in DOMAIN t /\ old(k - 1) = k
      BY <2>2, <1>1, <1>6
    <3> QED
      BY <3>1
  <2> QED
    BY <2>1, <2>2, <1>1
<1> HIDE DEF old
<1>10. Unique(t, a)
  BY <1>7, <1>8 DEF Lists, Unique
<1>11. \A k \in DOMAIN t : t[k] # r
  BY <1>1, <1>4, <1>7 DEF Lists, Unique
<1>12. ToSet(t) = ToSet(w) \ {r}
  BY <1>4, <1>7, <1>9, <1>11 DEF ToSet
<1>13. r \notin ToSet(a)
  BY DEF Lists, Unique, ToSet
<1> QED
  BY <1>1, <1>5, <1>6, <1>10, <1>12, <1>13 DEF Lists, InLists, t

-----------------------------------------------------------------------------
(* The inductive invariant of the queue.                                    *)

HeldBy(q) == InLists(q.wait, q.active)

\* The owner of a request that is held has not been told, and is not told twice.
OwnersOK(q) ==
    \A r \in Req :
        /\ q.told[r] <= 1
        /\ r \in HeldBy(q) => q.told[r] = 0 /\ q.owner[r] # "idle"
        /\ q.owner[r] = "waits" => q.told[r] = 0 /\ r \notin Detaches
        /\ r \in Detaches => q.owner[r] = "gone"

\* A detach request is held under the id it got, by a mounting worker.
DetachesOK(q) ==
    \A r \in Detaches : r \in HeldBy(q) => q.id[r] # InvalidId /\ ~Downloading

\* A queue that was shut down cannot write, and only detaches are still active.
StopOK(q) ==
    /\ q.deleted => q.shutting
    /\ q.shutting => /\ ~q.canWrite
                     /\ \A i \in DOMAIN q.active : q.active[i] \in Detaches \cup {None}

\* What is sent has the id of its request.
OutOK(q) ==
    \A k \in DOMAIN q.out :
        /\ q.out[k].id = q.id[q.out[k].req]
        /\ Downloading => q.out[k].req \notin Detaches

\* Owners that wait for a request the queue does not hold.
Lost(q) == {r \in Req : q.owner[r] = "waits" /\ r \notin HeldBy(q)}

\* At most one request is lost ...
QueueOK(q) ==
    /\ q \in QueueType /\ Lists(q.wait, q.active)
    /\ OwnersOK(q) /\ DetachesOK(q) /\ StopOK(q) /\ OutOK(q)
    /\ \A r, s \in Lost(q) : r = s

\* ... and only by a shutdown.
Sound(q) == QueueOK(q) /\ (~q.shutting => Lost(q) = {})

\* What the end of the service is to the owners.
Stops(f, g) ==
    /\ \A r \in Req : \/ g[r] = f[r]
                      \/ f[r] = "waits" /\ g[r] = "idle"
    /\ \A r, s \in Req : g[r] = "waits" /\ g[s] = "waits" => r = s

\* The queue goes on, or is shut down on the way.
Goes(q, s) ==
    /\ Sound(s) /\ s.deleted = q.deleted /\ s.id = q.id
    /\ \/ s.shutting = q.shutting /\ s.owner = q.owner
       \/ ~q.shutting /\ s.shutting /\ Stops(q.owner, s.owner)

-----------------------------------------------------------------------------
(* The functions of the queue.                                              *)

LEMMA TellFields ==
    ASSUME NEW q \in QueueType, NEW R, R \subseteq Req, NEW t, t = Tell(q, R)
    PROVE  /\ t \in QueueType
           /\ t.wait = q.wait /\ t.active = q.active /\ t.id = q.id /\ t.linked = q.linked
           /\ t.shutting = q.shutting /\ t.canWrite = q.canWrite /\ t.deleted = q.deleted
           /\ t.out = q.out
           /\ \A r \in Req :
                 /\ t.told[r]  = IF r \in R /\ r \notin Detaches THEN q.told[r] + 1 ELSE q.told[r]
                 /\ t.owner[r] = IF r \in R /\ q.owner[r] = "waits" THEN "idle" ELSE q.owner[r]
<1> DEFINE told  == [r \in Req |-> IF r \in R \ Detaches THEN q.told[r] + 1 ELSE q.told[r]]
           owner == [r \in Req |-> IF r \in R /\ q.owner[r] = "waits" THEN "idle" ELSE q.owner[r]]
<1>1. q.told \in [Req -> Nat] /\ q.owner \in [Req -> {"idle", "waits", "gone"}]
  BY DEF QueueType
<1>2. told \in [Req -> Nat] /\ owner \in [Req -> {"idle", "waits", "gone"}]
  BY <1>1
<1>3. t = [q EXCEPT !.told = told, !.owner = owner]
  BY DEF Tell
<1>4. \A r \in Req :
         /\ told[r]  = IF r \in R /\ r \notin Detaches THEN q.told[r] + 1 ELSE q.told[r]
         /\ owner[r] = IF r \in R /\ q.owner[r] = "waits" THEN "idle" ELSE q.owner[r]
  OBVIOUS
<1> HIDE DEF told, owner
<1>5. t \in QueueType
  BY <1>2, <1>3 DEF QueueType
<1>6. /\ t.told = told /\ t.owner = owner
      /\ t.wait = q.wait /\ t.active = q.active /\ t.id = q.id /\ t.linked = q.linked
      /\ t.shutting = q.shutting /\ t.canWrite = q.canWrite /\ t.deleted = q.deleted
      /\ t.out = q.out
  BY <1>3 DEF QueueType
<1> QED
  BY <1>4, <1>5, <1>6

\* The active requests that have an owner to tell.
Owned(q) == ToSet(q.active) \ ({None} \cup Detaches)

\* The queue s is what a shutdown makes of q.
Shutdown(q, s) ==
    /\ s.wait = <<>>
    /\ s.active = [i \in DOMAIN q.active |->
                      IF q.active[i] \in Owned(q) THEN None ELSE q.active[i]]
    /\ s.id = q.id /\ s.deleted = q.deleted /\ s.out = q.out
    /\ s.shutting = TRUE /\ s.canWrite = FALSE
    /\ \A r \in Req :
          /\ s.told[r]  = IF (r \in Owned(q) \/ r \in ToSet(q.wait)) /\ r \notin Detaches
                          THEN q.told[r] + 1 ELSE q.told[r]
          /\ s.owner[r] = IF (r \in Owned(q) \/ r \in ToSet(q.wait)) /\ q.owner[r] = "waits"
                          THEN "idle" ELSE q.owner[r]

LEMMA ShutdownFields ==
    ASSUME NEW q \in QueueType, NEW s, s = ImmediateShutdown(q)
    PROVE  s \in QueueType /\ Shutdown(q, s)
<1> DEFINE owned == Owned(q)
           t == Tell(q, owned \cup ToSet(q.wait))
<1>1. q.wait \in Seq(Req) /\ q.active \in Seq(Req \cup {None})
  BY DEF QueueType
<1>2. owned \subseteq Req /\ ToSet(q.wait) \subseteq Req
  BY <1>1 DEF ToSet, Owned
<1>3. /\ t \in QueueType
      /\ t.wait = q.wait /\ t.active = q.active /\ t.id = q.id /\ t.linked = q.linked
      /\ t.shutting = q.shutting /\ t.canWrite = q.canWrite /\ t.deleted = q.deleted
      /\ t.out = q.out
      /\ \A r \in Req :
            /\ t.told[r]  = IF r \in owned \cup ToSet(q.wait) /\ r \notin Detaches
                            THEN q.told[r] + 1 ELSE q.told[r]
            /\ t.owner[r] = IF r \in owned \cup ToSet(q.wait) /\ q.owner[r] = "waits"
                            THEN "idle" ELSE q.owner[r]
  BY <1>2, TellFields
<1>4. s = [t EXCEPT !.wait     = <<>>,
                    !.active   = [i \in DOMAIN @ |-> IF @[i] \in owned THEN None ELSE @[i]],
                    !.linked   = [r \in Req |-> @[r] /\ r \notin owned],
                    !.shutting = TRUE,
                    !.canWrite = FALSE]
  BY DEF ImmediateShutdown, Owned
<1> HIDE DEF t, owned
<1>5. /\ s.wait = <<>> /\ s.id = t.id /\ s.deleted = t.deleted /\ s.out = t.out
      /\ s.told = t.told /\ s.owner = t.owner /\ s.shutting = TRUE /\ s.canWrite = FALSE
      /\ s.active = [i \in DOMAIN t.active |-> IF t.active[i] \in owned THEN None ELSE t.active[i]]
      /\ s.linked = [r \in Req |-> t.linked[r] /\ r \notin owned]
  BY <1>3, <1>4 DEF QueueType
<1>6. s \in QueueType
  <2>1. s.active \in Seq(Req \cup {None})
    <3>1. Len(q.active) \in Nat /\ DOMAIN q.active = 1..Len(q.active)
      BY <1>1
    <3>2. s.active \in [1..Len(q.active) -> Req \cup {None}]
      BY <1>1, <1>3, <1>5, <3>1
    <3> QED
      BY <3>1, <3>2
  <2>2. s.linked \in [Req -> BOOLEAN]
    BY <1>5
  <2>3. s.wait \in Seq(Req)
    BY <1>5
  <2> QED
    BY <1>3, <1>4, <1>5, <2>1, <2>2, <2>3 DEF QueueType
<1> QED
  BY <1>3, <1>5, <1>6 DEF owned, Shutdown

\* Whoever is in a list is told, nobody is lost who was not.
LEMMA ShutdownStops ==
    ASSUME NEW q, QueueOK(q), NEW s, s = ImmediateShutdown(q)
    PROVE  /\ Sound(s) /\ s.deleted = q.deleted /\ s.id = q.id /\ s.out = q.out
           /\ s.shutting /\ Stops(q.owner, s.owner)
<1>1. q \in QueueType
  BY DEF QueueOK
<1>2. s \in QueueType /\ Shutdown(q, s)
  BY <1>1, ShutdownFields
<1>3. /\ Lists(s.wait, s.active) /\ HeldBy(s) = ToSet(q.active) \cap Detaches
      /\ \A i \in DOMAIN s.active : s.active[i] \in Detaches \cup {None}
  BY <1>2, ListsEnd DEF QueueOK, HeldBy, Owned, Shutdown
<1>4. \A r \in Req : r \in Owned(q) \/ r \in ToSet(q.wait) => r \in HeldBy(q)
  BY DEF HeldBy, InLists, Owned
<1>5. \A r \in Req : r \in HeldBy(q) /\ r \notin Detaches => r \in Owned(q) \/ r \in ToSet(q.wait)
  BY DEF HeldBy, InLists, Owned
<1>6. \A r \in Req : r \in HeldBy(s) => r \in HeldBy(q) /\ r \in Detaches
  BY <1>3, NoneIsNoRequest DEF HeldBy, InLists, Req
<1>7. \A r \in Req : q.told[r] \in Nat
  BY <1>1 DEF QueueType
<1>8. OwnersOK(s)
  <2> SUFFICES ASSUME NEW r \in Req
               PROVE  /\ s.told[r] <= 1
                      /\ r \in HeldBy(s) => s.told[r] = 0 /\ s.owner[r] # "idle"
                      /\ s.owner[r] = "waits" => s.told[r] = 0 /\ r \notin Detaches
                      /\ r \in Detaches => s.owner[r] = "gone"
    BY DEF OwnersOK
  <2>1. /\ q.told[r] <= 1
        /\ r \in HeldBy(q) => q.told[r] = 0 /\ q.owner[r] # "idle"
        /\ q.owner[r] = "waits" => q.told[r] = 0 /\ r \notin Detaches
        /\ r \in Detaches => q.owner[r] = "gone"
    BY DEF QueueOK, OwnersOK
  <2>2. CASE (r \in Owned(q) \/ r \in ToSet(q.wait)) /\ r \notin Detaches
    BY <2>1, <2>2, <1>2, <1>4, <1>6, <1>7 DEF Shutdown
  <2>3. CASE ~((r \in Owned(q) \/ r \in ToSet(q.wait)) /\ r \notin Detaches)
    BY <2>1, <2>3, <1>2, <1>4, <1>6, <1>7 DEF Shutdown
  <2> QED
    BY <2>2, <2>3
<1>9. DetachesOK(s)
  BY <1>2, <1>6 DEF QueueOK, DetachesOK, Req, Shutdown
<1>10. StopOK(s)
  BY <1>2, <1>3 DEF StopOK, Shutdown
<1>11. OutOK(s)
  BY <1>2 DEF QueueOK, OutOK, Shutdown
<1>12. \A r \in Req : s.owner[r] = "waits" =>
          q.owner[r] = "waits" /\ r \notin HeldBy(q) /\ r \notin HeldBy(s)
  BY <1>2, <1>5, <1>6 DEF QueueOK, OwnersOK, Shutdown
<1>13. \A r, t \in Req : s.owner[r] = "waits" /\ s.owner[t] = "waits" => r = t
  BY <1>12 DEF QueueOK, Lost
<1>14. Stops(q.owner, s.owner)
  BY <1>2, <1>13 DEF Stops, Shutdown
<1>15. \A r, t \in Lost(s) : r = t
  BY <1>13 DEF Lost
<1> QED
  BY <1>2, <1>3, <1>8, <1>9, <1>10, <1>11, <1>14, <1>15 DEF QueueOK, Sound, Shutdown

\* The queue s has sent the first n requests that waited in q.
Sent(q, n) == [k \in 1..n |-> Msg("Request", q.id[q.wait[k]], q.wait[k])]

Scheduled(q, s, n) ==
    /\ s.wait = SubSeq(q.wait, n + 1, Len(q.wait))
    /\ s.active = q.active \o SubSeq(q.wait, 1, n)
    /\ s.out = q.out \o Sent(q, n)
    /\ s.id = q.id /\ s.linked = q.linked /\ s.shutting = q.shutting
    /\ s.canWrite = q.canWrite /\ s.deleted = q.deleted
    /\ s.owner = q.owner /\ s.told = q.told

LEMMA SentType ==
    ASSUME NEW q \in QueueType, NEW n \in 1..Len(q.wait)
    PROVE  /\ Sent(q, n) \in Seq(ControllerMsg) /\ Len(Sent(q, n)) = n
           /\ \A k \in 1..n : /\ q.wait[k] \in Req /\ k \in DOMAIN q.wait
                              /\ Sent(q, n)[k] = Msg("Request", q.id[q.wait[k]], q.wait[k])
<1>1. q.wait \in Seq(Req) /\ q.id \in [Req -> Id] /\ Len(q.wait) \in Nat /\ n \in Nat
  BY DEF QueueType
<1>2. \A k \in 1..n : q.wait[k] \in Req /\ k \in DOMAIN q.wait
  BY <1>1
<1>3. \A r \in Req : Msg("Request", q.id[r], r) \in ControllerMsg
  BY <1>1 DEF Msg, ControllerMsg
<1>4. Sent(q, n) \in [1..n -> ControllerMsg]
  BY <1>2, <1>3 DEF Sent
<1> QED
  BY <1>1, <1>2, <1>4 DEF Sent

LEMMA ScheduleCases ==
    ASSUME NEW q \in QueueType, NEW s, s = ScheduleNext(q)
    PROVE  \/ s = q /\ (q.shutting \/ ~CanScheduleMore(q))
           \/ /\ ~q.shutting /\ q.wait # <<>> /\ ~q.canWrite
              /\ s = ImmediateShutdown([q EXCEPT !.wait = Tail(@)])
           \/ /\ ~q.shutting /\ q.canWrite /\ CanScheduleMore(q)
              /\ \E n \in 1..Len(q.wait) :
                    /\ n = IF caps.pipeline THEN Len(q.wait) ELSE 1
                    /\ s \in QueueType /\ Scheduled(q, s, n)
<1>1. CASE q.shutting \/ ~CanScheduleMore(q)
  BY <1>1 DEF ScheduleNext
<1>2. CASE ~q.shutting /\ CanScheduleMore(q) /\ ~q.canWrite
  BY <1>2 DEF ScheduleNext, CanScheduleMore
<1>3. CASE ~q.shutting /\ CanScheduleMore(q) /\ q.canWrite
  <2> DEFINE n == IF caps.pipeline THEN Len(q.wait) ELSE 1
  <2>1. /\ q.wait \in Seq(Req) /\ q.active \in Seq(Req \cup {None}) /\ Len(q.wait) \in Nat
        /\ q.out \in Seq(ControllerMsg)
    BY DEF QueueType
  <2>2. n \in 1..Len(q.wait)
    BY <1>3, <2>1 DEF CanScheduleMore
  <2>3. s = [q EXCEPT !.wait   = SubSeq(q.wait, n + 1, Len(q.wait)),
                      !.active = q.active \o SubSeq(q.wait, 1, n),
                      !.out    = q.out \o Sent(q, n)]
    BY <1>3 DEF ScheduleNext, Sent, QueueType
  <2> HIDE DEF n
  <2>4. SubSeq(q.wait, n + 1, Len(q.wait)) \in Seq(Req)
    <3>1. n \in 0..Len(q.wait)
      BY <2>1, <2>2
    <3> QED
      BY <2>1, <3>1, Dropped
  <2>5. q.active \o SubSeq(q.wait, 1, n) \in Seq(Req \cup {None})
    <3>1. SubSeq(q.wait, 1, n) \in Seq(Req \cup {None})
      BY <2>1, <2>2
    <3> QED
      BY <2>1, <3>1, Joined
  <2>6. q.out \o Sent(q, n) \in Seq(ControllerMsg)
    BY <2>1, <2>2, SentType, Joined
  <2>7. s \in QueueType /\ Scheduled(q, s, n)
    BY <2>3, <2>4, <2>5, <2>6 DEF QueueType, Scheduled
  <2> QED
    BY <1>3, <2>2, <2>7 DEF n
<1> QED
  BY <1>1, <1>2, <1>3

LEMMA ScheduledSound ==
    ASSUME NEW q, Sound(q), ~q.shutting, NEW n \in 1..Len(q.wait),
           NEW s \in QueueType, Scheduled(q, s, n)
    PROVE  Sound(s)
<1>1. q \in QueueType /\ Lists(q.wait, q.active)
  BY DEF Sound, QueueOK
<1>2. Lists(s.wait, s.active) /\ HeldBy(s) = HeldBy(q)
  BY <1>1, ListsMove DEF Scheduled, HeldBy
<1>3. OwnersOK(s) /\ DetachesOK(s)
  BY <1>2 DEF Sound, QueueOK, OwnersOK, DetachesOK, Scheduled
<1>4. StopOK(s)
  BY DEF Sound, QueueOK, StopOK, Scheduled
<1>5. OutOK(s)
  <2>1. q.out \in Seq(ControllerMsg) /\ Len(q.out) \in Nat /\ DOMAIN q.out = 1..Len(q.out)
    BY <1>1 DEF QueueType
  <2>2. /\ Sent(q, n) \in Seq(ControllerMsg) /\ Len(Sent(q, n)) = n
        /\ \A k \in 1..n : /\ q.wait[k] \in Req /\ k \in DOMAIN q.wait
                           /\ Sent(q, n)[k] = Msg("Request", q.id[q.wait[k]], q.wait[k])
    BY <1>1, SentType
  <2>3. /\ s.out \in Seq(ControllerMsg) /\ Len(s.out) = Len(q.out) + n
        /\ \A k \in 1..Len(q.out) + n :
              s.out[k] = IF k <= Len(q.out) THEN q.out[k] ELSE Sent(q, n)[k - Len(q.out)]
    <3> DEFINE sent == Sent(q, n)
    <3>1. q.out \in Seq(ControllerMsg) /\ sent \in Seq(ControllerMsg) /\ Len(sent) = n
      BY <2>1, <2>2
    <3>2. s.out = q.out \o sent
      BY DEF Scheduled
    <3> HIDE DEF sent
    <3>3. /\ q.out \o sent \in Seq(ControllerMsg) /\ Len(q.out \o sent) = Len(q.out) + Len(sent)
          /\ \A k \in 1..Len(q.out) + Len(sent) :
                (q.out \o sent)[k] = IF k <= Len(q.out) THEN q.out[k] ELSE sent[k - Len(q.out)]
      BY <3>1, Joined
    <3> QED
      BY <3>1, <3>2, <3>3 DEF sent
  <2> SUFFICES ASSUME NEW k \in DOMAIN s.out
               PROVE  /\ s.out[k].id = s.id[s.out[k].req]
                      /\ Downloading => s.out[k].req \notin Detaches
    BY DEF OutOK
  <2>4. k \in 1..Len(q.out) + n /\ s.id = q.id
    BY <2>3 DEF Scheduled
  <2>5. CASE k <= Len(q.out)
    <3>1. k \in DOMAIN q.out /\ s.out[k] = q.out[k]
      BY <2>1, <2>3, <2>4, <2>5
    <3> QED
      BY <3>1, <2>4 DEF Sound, QueueOK, OutOK
  <2>6. CASE ~(k <= Len(q.out))
    <3>1. k - Len(q.out) \in 1..n
      BY <2>1, <2>4, <2>6
    <3>2. PICK l \in 1..n : s.out[k] = Sent(q, n)[l]
      BY <2>3, <2>4, <2>6, <3>1
    <3>3. s.out[k].id = q.id[q.wait[l]] /\ s.out[k].req = q.wait[l]
      BY <3>2, <2>2 DEF Msg
    <3>4. q.wait[l] \in HeldBy(q)
      BY <2>2 DEF HeldBy, InLists, ToSet
    <3> QED
      BY <3>3, <3>4, <2>4 DEF Sound, QueueOK, DetachesOK
  <2> QED
    BY <2>5, <2>6
<1>6. Lost(s) = Lost(q)
  BY <1>2 DEF Lost, Scheduled
<1> QED
  BY <1>2, <1>3, <1>4, <1>5, <1>6 DEF Sound, QueueOK, Scheduled

LEMMA ScheduleGoes ==
    ASSUME NEW q, Sound(q), NEW s, s = ScheduleNext(q)
    PROVE  Goes(q, s)
<1>1. q \in QueueType
  BY DEF Sound, QueueOK
<1>2. CASE s = q
  BY <1>2 DEF Goes
<1>3. CASE /\ ~q.shutting /\ q.wait # <<>>
           /\ s = ImmediateShutdown([q EXCEPT !.wait = Tail(@)])
  <2> DEFINE p == [q EXCEPT !.wait = Tail(@)]
  <2>1. /\ p.wait = Tail(q.wait) /\ p.active = q.active /\ p.id = q.id /\ p.linked = q.linked
        /\ p.shutting = q.shutting /\ p.canWrite = q.canWrite /\ p.deleted = q.deleted
        /\ p.owner = q.owner /\ p.told = q.told /\ p.out = q.out
    BY <1>1 DEF QueueType
  <2>2. /\ Head(q.wait) \in Req /\ Lists(p.wait, p.active)
        /\ HeldBy(p) = HeldBy(q) \ {Head(q.wait)}
    BY <1>3, <2>1, ListsTail DEF Sound, QueueOK, HeldBy
  <2>3. p \in QueueType
    <3>1. Tail(q.wait) \in Seq(Req)
      BY <2>1, <2>2 DEF Lists
    <3> QED
      BY <1>1, <3>1 DEF QueueType
  <2>4. s = ImmediateShutdown(p)
    BY <1>3
  <2> HIDE DEF p
  <2>5. OwnersOK(p) /\ DetachesOK(p) /\ StopOK(p) /\ OutOK(p)
    BY <2>1, <2>2 DEF Sound, QueueOK, OwnersOK, DetachesOK, StopOK, OutOK
  <2>6. Lost(p) \subseteq {Head(q.wait)}
    BY <1>3, <2>1, <2>2 DEF Sound, Lost
  <2>7. QueueOK(p)
    BY <2>2, <2>3, <2>5, <2>6 DEF QueueOK
  <2> QED
    BY <1>3, <2>1, <2>4, <2>7, ShutdownStops DEF Goes
<1>4. ASSUME ~q.shutting, NEW n \in 1..Len(q.wait), s \in QueueType, Scheduled(q, s, n)
      PROVE  Goes(q, s)
  <2>1. Sound(s)
    BY <1>4, ScheduledSound
  <2> QED
    BY <1>4, <2>1 DEF Goes, Scheduled
<1> QED
  BY <1>1, <1>2, <1>3, <1>4, ScheduleCases

\* The request r leaves the lists, and its owner does not wait any more.
TakenOut(q, r, u) ==
    /\ u \in QueueType /\ Lists(u.wait, u.active) /\ HeldBy(u) = HeldBy(q) \ {r}
    /\ StopOK(u) /\ OutOK(u)
    /\ u.id = q.id /\ u.shutting = q.shutting /\ u.deleted = q.deleted
    /\ \A s \in Req :
          /\ u.told[s] = IF s = r /\ s \notin Detaches THEN q.told[s] + 1 ELSE q.told[s]
          /\ s # r => u.owner[s] = q.owner[s]
    /\ u.owner[r] # "waits" /\ (r \in Detaches => u.owner[r] = "gone")

LEMMA TakenOutSound ==
    ASSUME NEW q, Sound(q), NEW r \in HeldBy(q), r \in Req, NEW u, TakenOut(q, r, u)
    PROVE  Sound(u)
<1>1. OwnersOK(u)
  <2> SUFFICES ASSUME NEW s \in Req
               PROVE  /\ u.told[s] <= 1
                      /\ s \in HeldBy(u) => u.told[s] = 0 /\ u.owner[s] # "idle"
                      /\ u.owner[s] = "waits" => u.told[s] = 0 /\ s \notin Detaches
                      /\ s \in Detaches => u.owner[s] = "gone"
    BY DEF OwnersOK
  <2>1. /\ q.told[s] <= 1
        /\ s \in HeldBy(q) => q.told[s] = 0 /\ q.owner[s] # "idle"
        /\ q.owner[s] = "waits" => q.told[s] = 0 /\ s \notin Detaches
        /\ s \in Detaches => q.owner[s] = "gone"
    BY DEF Sound, QueueOK, OwnersOK
  <2>2. q.told[s] \in Nat
    BY DEF Sound, QueueOK, QueueType
  <2>3. CASE s = r
    BY <2>1, <2>2, <2>3 DEF TakenOut
  <2>4. CASE s # r
    BY <2>1, <2>4 DEF TakenOut
  <2> QED
    BY <2>3, <2>4
<1>2. DetachesOK(u)
  BY DEF TakenOut, Sound, QueueOK, DetachesOK
<1>3. Lost(u) \subseteq Lost(q)
  BY DEF TakenOut, Lost
<1> QED
  BY <1>1, <1>2, <1>3 DEF TakenOut, Sound, QueueOK

LEMMA HeldIsRequest ==
    ASSUME NEW q \in QueueType
    PROVE  /\ HeldBy(q) \subseteq Req
           /\ \A i \in DOMAIN q.active : q.active[i] # None =>
                 q.active[i] \in HeldBy(q) /\ q.active[i] \in Req
           /\ \A i \in DOMAIN q.wait : q.wait[i] \in HeldBy(q) /\ q.wait[i] \in Req
<1>1. /\ q.wait \in Seq(Req) /\ q.active \in Seq(Req \cup {None})
  BY DEF QueueType
<1>2. /\ \A i \in DOMAIN q.active : q.active[i] \in Req \cup {None}
      /\ \A i \in DOMAIN q.wait : q.wait[i] \in Req
  BY <1>1
<1> QED
  BY <1>2, NoneIsNoRequest DEF HeldBy, InLists, ToSet

\* The owner of an active request is told, and the next ones may be sent.
LEMMA FinishGoes ==
    ASSUME NEW q, Sound(q), NEW i \in DOMAIN q.active, q.active[i] # None
    PROVE  \E u : /\ TakenOut(q, q.active[i], u) /\ Sound(u)
                  /\ u.owner[q.active[i]] = IF q.owner[q.active[i]] = "waits" THEN "idle"
                                            ELSE q.owner[q.active[i]]
                  /\ Goes(u, FinishActive(q, i)) /\ FinishActive(q, i) = ScheduleNext(u)
                  /\ u.wait = q.wait /\ u.active = RemoveAt(q.active, i)
                  /\ u.canWrite = q.canWrite /\ u.out = q.out
<1> DEFINE r == q.active[i]
           t == Tell(q, {r})
           u == [t EXCEPT !.linked[r] = FALSE, !.active = RemoveAt(@, i)]
<1>1. q \in QueueType /\ Lists(q.wait, q.active)
  BY DEF Sound, QueueOK
<1>2. r \in HeldBy(q) /\ r \in Req
  BY <1>1, HeldIsRequest
<1>3. /\ t \in QueueType
      /\ t.wait = q.wait /\ t.active = q.active /\ t.id = q.id /\ t.linked = q.linked
      /\ t.shutting = q.shutting /\ t.canWrite = q.canWrite /\ t.deleted = q.deleted
      /\ t.out = q.out
      /\ \A s \in Req :
            /\ t.told[s]  = IF s \in {r} /\ s \notin Detaches THEN q.told[s] + 1 ELSE q.told[s]
            /\ t.owner[s] = IF s \in {r} /\ q.owner[s] = "waits" THEN "idle" ELSE q.owner[s]
  BY <1>1, <1>2, TellFields
<1>4. FinishActive(q, i) = ScheduleNext(u)
  BY <1>3 DEF FinishActive, DequeueActive
<1>5. /\ Lists(q.wait, RemoveAt(q.active, i))
      /\ InLists(q.wait, RemoveAt(q.active, i)) = InLists(q.wait, q.active) \ {r}
  BY <1>1, ListsRemove
<1> HIDE DEF t
<1>6. /\ u.wait = q.wait /\ u.active = RemoveAt(q.active, i) /\ u.id = q.id
      /\ u.shutting = q.shutting /\ u.canWrite = q.canWrite /\ u.deleted = q.deleted
      /\ u.out = q.out /\ u.told = t.told /\ u.owner = t.owner
  BY <1>3 DEF QueueType
<1>7. u \in QueueType
  BY <1>2, <1>3, <1>5 DEF QueueType, Lists
<1> HIDE DEF u, r
<1>8. StopOK(u)
  <2>1. ASSUME NEW k \in DOMAIN u.active PROVE \E l \in DOMAIN q.active : u.active[k] = q.active[l]
    <3>1. /\ q.active \in Seq(Req \cup {None}) /\ Len(q.active) \in Nat
          /\ DOMAIN q.active = 1..Len(q.active)
      BY <1>1 DEF Lists
    <3>2. /\ u.active \in Seq(Req \cup {None}) /\ Len(u.active) = Len(q.active) - 1
          /\ \A m \in 1..Len(q.active) - 1 :
                u.active[m] = IF m < i THEN q.active[m] ELSE q.active[m + 1]
      <4> DEFINE a == RemoveAt(q.active, i)
      <4>1. /\ a \in Seq(Req \cup {None}) /\ Len(a) = Len(q.active) - 1
            /\ \A m \in 1..Len(q.active) - 1 :
                  a[m] = IF m < i THEN q.active[m] ELSE q.active[m + 1]
        BY <3>1, Removed
      <4>2. u.active = a
        BY <1>6
      <4> HIDE DEF a
      <4> QED
        BY <4>1, <4>2
    <3>3. k \in 1..Len(q.active) - 1
      BY <3>2
    <3>4. k \in DOMAIN q.active /\ k + 1 \in DOMAIN q.active
      BY <3>1, <3>3
    <3> QED
      BY <3>2, <3>3, <3>4
  <2> QED
    BY <1>6, <2>1 DEF Sound, QueueOK, StopOK
<1>9. OutOK(u)
  BY <1>6 DEF Sound, QueueOK, OutOK
<1>10. r \in Detaches => q.owner[r] = "gone"
  BY <1>2 DEF Sound, QueueOK, OwnersOK
<1>11. TakenOut(q, r, u)
  BY <1>2, <1>3, <1>5, <1>6, <1>7, <1>8, <1>9, <1>10 DEF TakenOut, HeldBy
<1>12. Sound(u)
  BY <1>2, <1>11, TakenOutSound
<1>13. Goes(u, FinishActive(q, i))
  BY <1>4, <1>12, ScheduleGoes
<1>14. u.owner[r] = IF q.owner[r] = "waits" THEN "idle" ELSE q.owner[r]
  BY <1>2, <1>3, <1>6
<1> QED
  BY <1>4, <1>6, <1>11, <1>12, <1>13, <1>14 DEF r

\* A cache hit whose file is gone: the request waits again, under InvalidId.
LEMMA CacheMissGoes ==
    ASSUME NEW q, Sound(q), q.out = <<>>, Downloading,
           NEW i \in DOMAIN q.active, q.active[i] # None
    PROVE  /\ Sound(CacheMiss(q, i)) /\ CacheMiss(q, i).deleted = q.deleted
           /\ CacheMiss(q, i).id = [q.id EXCEPT ![q.active[i]] = InvalidId]
           /\ \/ /\ CacheMiss(q, i).shutting = q.shutting
                 /\ CacheMiss(q, i).owner = q.owner
              \/ /\ ~q.shutting /\ CacheMiss(q, i).shutting
                 /\ Stops(q.owner, CacheMiss(q, i).owner)
           /\ \E u : /\ CacheMiss(q, i) = ScheduleNext(u) /\ Sound(u) /\ HeldBy(u) = HeldBy(q)
                     /\ u.wait = <<q.active[i]>> \o q.wait /\ u.active = RemoveAt(q.active, i)
                     /\ u.id = [q.id EXCEPT ![q.active[i]] = InvalidId]
                     /\ u.shutting = q.shutting /\ u.canWrite = q.canWrite /\ u.out = q.out
<1> DEFINE r == q.active[i]
           t == [q EXCEPT !.id[r] = InvalidId, !.wait = <<r>> \o @]
           u == [t EXCEPT !.linked[r] = FALSE, !.active = RemoveAt(@, i)]
<1>1. q \in QueueType /\ Lists(q.wait, q.active)
  BY DEF Sound, QueueOK
<1>2. r \in HeldBy(q) /\ r \in Req
  BY <1>1, HeldIsRequest
<1>3. /\ t.wait = <<r>> \o q.wait /\ t.active = q.active
      /\ t.id = [q.id EXCEPT ![r] = InvalidId] /\ t.linked = q.linked
      /\ t.shutting = q.shutting /\ t.canWrite = q.canWrite /\ t.deleted = q.deleted
      /\ t.out = q.out /\ t.told = q.told /\ t.owner = q.owner
  BY <1>1 DEF QueueType
<1>4. CacheMiss(q, i) = ScheduleNext(u)
  BY <1>3 DEF CacheMiss, DequeueActive
<1>5. /\ Lists(q.wait, RemoveAt(q.active, i))
      /\ InLists(q.wait, RemoveAt(q.active, i)) = HeldBy(q) \ {r}
  BY <1>1, ListsRemove DEF HeldBy
<1>6. /\ Lists(<<r>> \o q.wait, RemoveAt(q.active, i))
      /\ InLists(<<r>> \o q.wait, RemoveAt(q.active, i)) = HeldBy(q)
  <2>1. r \notin InLists(q.wait, RemoveAt(q.active, i))
    BY <1>5
  <2>2. /\ Lists(<<r>> \o q.wait, RemoveAt(q.active, i))
        /\ InLists(<<r>> \o q.wait, RemoveAt(q.active, i)) = (HeldBy(q) \ {r}) \cup {r}
    BY <1>2, <1>5, <2>1, ListsFront
  <2> QED
    BY <1>2, <2>2
<1>7. t \in [wait : Seq(Req), active : Seq(Req \cup {None}), id : [Req -> Id],
             linked : [Req -> BOOLEAN], shutting : BOOLEAN, canWrite : BOOLEAN,
             deleted : BOOLEAN, owner : [Req -> {"idle", "waits", "gone"}],
             told : [Req -> Nat], out : Seq(ControllerMsg)]
  <2>1. [q.id EXCEPT ![r] = InvalidId] \in [Req -> Id]
    BY <1>1, MaxIdIsNat DEF QueueType, Id, InvalidId
  <2>2. <<r>> \o q.wait \in Seq(Req)
    BY <1>6 DEF Lists
  <2> QED
    BY <1>1, <2>1, <2>2 DEF QueueType
<1> HIDE DEF t
<1>8. /\ u.wait = <<r>> \o q.wait /\ u.active = RemoveAt(q.active, i)
      /\ u.id = [q.id EXCEPT ![r] = InvalidId]
      /\ u.shutting = q.shutting /\ u.canWrite = q.canWrite /\ u.deleted = q.deleted
      /\ u.out = q.out /\ u.told = q.told /\ u.owner = q.owner
  BY <1>3, <1>7
<1>9. u \in QueueType
  BY <1>2, <1>3, <1>5, <1>7 DEF QueueType, Lists
<1> HIDE DEF u
<1>10. r \notin Detaches
  BY <1>2 DEF Sound, QueueOK, DetachesOK
<1> HIDE DEF r
<1>11. HeldBy(u) = HeldBy(q)
  BY <1>6, <1>8 DEF HeldBy
<1>12. OwnersOK(u)
  BY <1>8, <1>11 DEF Sound, QueueOK, OwnersOK
<1>13. DetachesOK(u)
  BY <1>11 DEF Sound, QueueOK, DetachesOK
<1>14. ~q.shutting
  BY <1>10, <1>2 DEF Sound, QueueOK, StopOK, r
<1>15. StopOK(u)
  BY <1>8, <1>14 DEF Sound, QueueOK, StopOK
<1>16. OutOK(u)
  BY <1>8 DEF OutOK
<1>17. Lost(u) = Lost(q)
  BY <1>8, <1>11 DEF Lost
<1>18. Sound(u)
  BY <1>6, <1>8, <1>9, <1>12, <1>13, <1>15, <1>16, <1>17 DEF Sound, QueueOK
<1>19. Goes(u, CacheMiss(q, i))
  BY <1>4, <1>18, ScheduleGoes
<1>20. \E v : /\ CacheMiss(q, i) = ScheduleNext(v) /\ Sound(v) /\ HeldBy(v) = HeldBy(q)
              /\ v.wait = <<r>> \o q.wait /\ v.active = RemoveAt(q.active, i)
              /\ v.id = [q.id EXCEPT ![r] = InvalidId]
              /\ v.shutting = q.shutting /\ v.canWrite = q.canWrite /\ v.out = q.out
  BY <1>4, <1>8, <1>11, <1>18
<1> QED
  BY <1>8, <1>19, <1>20 DEF Goes, r

\* An answer to the worker is sent, or the queue is shut down.
LEMMA SendGoes ==
    ASSUME NEW q, Sound(q), ~q.shutting, NEW m \in ControllerMsg, m.id = q.id[m.req],
           Downloading => m.req \notin Detaches
    PROVE  Goes(q, SendOrShutdown(q, m))
<1>1. CASE ~q.canWrite
  BY <1>1, ShutdownStops DEF SendOrShutdown, Goes, Sound
<1>2. CASE q.canWrite
  <2> DEFINE s == [q EXCEPT !.out = Append(q.out, m)]
  <2>1. q \in QueueType /\ q.out \in Seq(ControllerMsg)
    BY DEF Sound, QueueOK, QueueType
  <2>2. SendOrShutdown(q, m) = s
    BY <1>2, <2>1 DEF SendOrShutdown, QueueType
  <2>3. /\ s.wait = q.wait /\ s.active = q.active /\ s.id = q.id
        /\ s.shutting = q.shutting /\ s.canWrite = q.canWrite /\ s.deleted = q.deleted
        /\ s.out = Append(q.out, m) /\ s.told = q.told /\ s.owner = q.owner
    BY <2>1 DEF QueueType
  <2>4. s \in QueueType
    <3>1. Append(q.out, m) \in Seq(ControllerMsg)
      BY <2>1
    <3> QED
      BY <2>1, <3>1 DEF QueueType
  <2> HIDE DEF s
  <2>5. OutOK(s)
    <3>1. \A k \in DOMAIN s.out : \/ k \in DOMAIN q.out /\ s.out[k] = q.out[k]
                                  \/ s.out[k] = m
      BY <2>1, <2>3
    <3> QED
      BY <3>1, <2>3 DEF Sound, QueueOK, OutOK
  <2>6. HeldBy(s) = HeldBy(q) /\ Lost(s) = Lost(q)
    BY <2>3 DEF HeldBy, Lost
  <2>7. OwnersOK(s) /\ DetachesOK(s) /\ StopOK(s)
    BY <2>3, <2>6 DEF Sound, QueueOK, OwnersOK, DetachesOK, StopOK
  <2>8. Sound(s)
    BY <2>3, <2>4, <2>5, <2>6, <2>7 DEF Sound, QueueOK
  <2> QED
    BY <2>2, <2>3, <2>8 DEF Goes
<1> QED
  BY <1>1, <1>2 DEF Sound, QueueOK, QueueType

\* An owner that gives up.
LEMMA LeaveSound ==
    ASSUME NEW q, Sound(q), NEW r \in Req, r \notin Detaches,
           NEW u, u = [q EXCEPT !.owner[r] = "gone"]
    PROVE  /\ Sound(u) /\ u.shutting = q.shutting /\ u.deleted = q.deleted /\ u.id = q.id
           /\ u.wait = q.wait /\ u.active = q.active /\ u.out = q.out /\ u.canWrite = q.canWrite
<1>1. q \in QueueType
  BY DEF Sound, QueueOK
<1>2. /\ u.wait = q.wait /\ u.active = q.active /\ u.id = q.id
      /\ u.shutting = q.shutting /\ u.canWrite = q.canWrite /\ u.deleted = q.deleted
      /\ u.out = q.out /\ u.told = q.told /\ u.owner = [q.owner EXCEPT ![r] = "gone"]
  BY <1>1 DEF QueueType
<1>3. u \in QueueType
  BY <1>1 DEF QueueType
<1>4. \A s \in Req : u.owner[s] = IF s = r THEN "gone" ELSE q.owner[s]
  BY <1>1, <1>2 DEF QueueType
<1>5. HeldBy(u) = HeldBy(q)
  BY <1>2 DEF HeldBy
<1>6. OwnersOK(u)
  BY <1>2, <1>4, <1>5 DEF Sound, QueueOK, OwnersOK
<1>7. DetachesOK(u) /\ StopOK(u) /\ OutOK(u)
  BY <1>2, <1>5 DEF Sound, QueueOK, DetachesOK, StopOK, OutOK
<1>8. Lost(u) \subseteq Lost(q)
  BY <1>4, <1>5 DEF Lost
<1> QED
  BY <1>2, <1>3, <1>5, <1>6, <1>7, <1>8 DEF Sound, QueueOK, HeldBy

\* In u the request r has been cancelled; the worker is told of an active one.
Cancelled(q, r, u) ==
    /\ u.canWrite = q.canWrite
    /\ \/ u.active = q.active /\ u.out = q.out /\ ToSet(u.wait) \subseteq ToSet(q.wait)
       \/ /\ u.wait = q.wait /\ \E i \in DOMAIN q.active : u.active = [q.active EXCEPT ![i] = None]
          /\ u.out = q.out \o (IF q.canWrite THEN <<Msg("Cancel", q.id[r], r)>> ELSE <<>>)

LEMMA CancelTakesOut ==
    ASSUME NEW q, Sound(q), NEW r \in Req, r \notin Detaches
    PROVE  \/ CancelRequest(q, r) = q
           \/ /\ r \in HeldBy(q) /\ TakenOut(q, r, CancelRequest(q, r))
              /\ Cancelled(q, r, CancelRequest(q, r))
<1> DEFINE t == Tell(q, {r})
<1>1. q \in QueueType /\ Lists(q.wait, q.active)
  BY DEF Sound, QueueOK
<1>2. /\ t \in QueueType
      /\ t.wait = q.wait /\ t.active = q.active /\ t.id = q.id /\ t.linked = q.linked
      /\ t.shutting = q.shutting /\ t.canWrite = q.canWrite /\ t.deleted = q.deleted
      /\ t.out = q.out
      /\ \A s \in Req :
            /\ t.told[s]  = IF s \in {r} /\ s \notin Detaches THEN q.told[s] + 1 ELSE q.told[s]
            /\ t.owner[s] = IF s \in {r} /\ q.owner[s] = "waits" THEN "idle" ELSE q.owner[s]
  BY <1>1, TellFields
<1>3. CASE r \in ToSet(q.wait)
  <2> DEFINE u == [t EXCEPT !.linked[r] = FALSE, !.wait = RemoveFirst(@, r)]
  <2>1. CancelRequest(q, r) = u
    BY <1>3 DEF CancelRequest
  <2>2. /\ Lists(RemoveFirst(q.wait, r), q.active)
        /\ InLists(RemoveFirst(q.wait, r), q.active) = InLists(q.wait, q.active) \ {r}
    BY <1>1, <1>3, ListsDrop
  <2> HIDE DEF t
  <2>3. /\ u.wait = RemoveFirst(q.wait, r) /\ u.active = q.active /\ u.id = q.id
        /\ u.shutting = q.shutting /\ u.canWrite = q.canWrite /\ u.deleted = q.deleted
        /\ u.out = q.out /\ u.told = t.told /\ u.owner = t.owner
    BY <1>2 DEF QueueType
  <2>4. u \in QueueType
    BY <1>2, <2>2 DEF QueueType, Lists
  <2> HIDE DEF u
  <2>5. StopOK(u) /\ OutOK(u)
    BY <2>3 DEF Sound, QueueOK, StopOK, OutOK
  <2>6. Lists(u.wait, u.active) /\ HeldBy(u) = HeldBy(q) \ {r} /\ r \in HeldBy(q)
    BY <1>3, <2>2, <2>3 DEF HeldBy, InLists
  <2>7. Cancelled(q, r, u)
    <3>1. ToSet(u.wait) \subseteq ToSet(q.wait)
      BY <1>1, <1>3, <2>3, ListsDrop
    <3> QED
      BY <2>3, <3>1 DEF Cancelled
  <2> QED
    BY <1>2, <2>1, <2>3, <2>4, <2>5, <2>6, <2>7 DEF TakenOut
<1>4. CASE r \notin ToSet(q.wait) /\ r \in ToSet(q.active)
  <2>1. PICK i \in DOMAIN q.active :
            i = SelectInSeq(q.active, LAMBDA x : x = r) /\ q.active[i] = r
    BY <1>1, <1>4, RequestOf
  <2>2. CancelRequest(q, r) = CancelActiveItem(q, i)
    BY <1>4, <2>1 DEF CancelRequest
  <2> DEFINE m == Msg("Cancel", q.id[r], r)
             sent == IF q.canWrite THEN <<m>> ELSE <<>>
             out == q.out \o sent
             a == [q.active EXCEPT ![i] = None]
             u == [t EXCEPT !.out = @ \o sent, !.linked[r] = FALSE, !.active[i] = None]
  <2>3. CancelRequest(q, r) = u
    BY <2>1, <2>2 DEF CancelActiveItem
  <2>4. r # None /\ r \in HeldBy(q)
    BY <1>4, NoneIsNoRequest DEF HeldBy, InLists
  <2>5. Lists(q.wait, a) /\ InLists(q.wait, a) = InLists(q.wait, q.active) \ {r}
    <3>1. q.active[i] # None
      BY <2>1, <2>4
    <3>2. /\ Lists(q.wait, [q.active EXCEPT ![i] = None])
          /\ InLists(q.wait, [q.active EXCEPT ![i] = None])
               = InLists(q.wait, q.active) \ {q.active[i]}
      BY <1>1, <3>1, ListsBlank
    <3> QED
      BY <2>1, <3>2
  <2>6. m \in ControllerMsg /\ m.id = q.id[r] /\ m.req = r
    BY <1>1 DEF Msg, ControllerMsg, QueueType
  <2> HIDE DEF m
  <2>7. /\ out \in Seq(ControllerMsg)
        /\ \A k \in DOMAIN out : \/ k \in DOMAIN q.out /\ out[k] = q.out[k]
                                 \/ out[k] = m
    <3>1. q.out \in Seq(ControllerMsg)
      BY <1>1 DEF QueueType
    <3>2. CASE q.canWrite
      <4>1. out = Append(q.out, m)
        BY <3>1, <3>2
      <4> HIDE DEF out
      <4> QED
        BY <3>1, <4>1, <2>6
    <3>3. CASE ~q.canWrite
      <4>1. out = q.out
        BY <3>1, <3>3
      <4> HIDE DEF out
      <4> QED
        BY <3>1, <4>1
    <3> QED
      BY <3>2, <3>3
  <2>8. /\ u.wait = q.wait /\ u.active = a /\ u.id = q.id
        /\ u.shutting = q.shutting /\ u.canWrite = q.canWrite /\ u.deleted = q.deleted
        /\ u.out = out /\ u.told = t.told /\ u.owner = t.owner
    <3> HIDE DEF t, sent
    <3> QED
      BY <1>2 DEF QueueType
  <2> HIDE DEF out, a
  <2>9. u \in QueueType
    <3>1. u = [t EXCEPT !.out = out, !.linked[r] = FALSE, !.active = a]
      <4> HIDE DEF t, sent
      <4> QED
        BY <1>2 DEF QueueType, out, a
    <3> HIDE DEF t, u
    <3> QED
      BY <1>2, <2>5, <2>7, <3>1 DEF QueueType, Lists
  <2> HIDE DEF u, t
  <2>10. StopOK(u)
    <3>1. \A k \in DOMAIN u.active : k \in DOMAIN q.active /\ u.active[k] \in {None, q.active[k]}
      BY <1>1, <2>8 DEF a, QueueType
    <3> QED
      BY <2>8, <3>1 DEF Sound, QueueOK, StopOK
  <2>11. OutOK(u)
    BY <2>6, <2>7, <2>8 DEF Sound, QueueOK, OutOK
  <2>12. Lists(u.wait, u.active) /\ HeldBy(u) = HeldBy(q) \ {r}
    BY <2>5, <2>8 DEF HeldBy
  <2>13. Cancelled(q, r, u)
    BY <2>1, <2>8 DEF Cancelled, a, out, m
  <2> QED
    BY <1>2, <2>3, <2>4, <2>8, <2>9, <2>10, <2>11, <2>12, <2>13 DEF TakenOut
<1>5. CASE r \notin ToSet(q.wait) /\ r \notin ToSet(q.active)
  BY <1>5 DEF CancelRequest
<1> QED
  BY <1>3, <1>4, <1>5

\* The queue after the owner of r has given up.
GivenUp(q, r) ==
    [(IF q.linked[r] THEN CancelRequest(q, r) ELSE q) EXCEPT !.owner[r] = "gone"]

\* In u the owner of r is gone, and r with it if the queue had it.
GaveUp(q, r, u) ==
    /\ Sound(u) /\ u.shutting = q.shutting /\ u.deleted = q.deleted /\ u.id = q.id
    /\ u.owner = [q.owner EXCEPT ![r] = "gone"]
    /\ \/ /\ u.wait = q.wait /\ u.active = q.active /\ u.out = q.out
          /\ u.canWrite = q.canWrite
       \/ HeldBy(u) = HeldBy(q) \ {r} /\ Cancelled(q, r, u)

LEMMA GiveUpSound ==
    ASSUME NEW q, Sound(q), NEW r \in Req, q.owner[r] = "waits", NEW u, u = GivenUp(q, r)
    PROVE  GaveUp(q, r, u)
<1> DEFINE p == IF q.linked[r] THEN CancelRequest(q, r) ELSE q
<1>0. u = [p EXCEPT !.owner[r] = "gone"]
  BY DEF GivenUp
<1>1. r \notin Detaches
  BY DEF Sound, QueueOK, OwnersOK
<1>2. p = q \/ (r \in HeldBy(q) /\ TakenOut(q, r, p) /\ Cancelled(q, r, p))
  BY <1>1, CancelTakesOut
<1> HIDE DEF p
<1>3. /\ Sound(p) /\ p.shutting = q.shutting /\ p.deleted = q.deleted /\ p.id = q.id
      /\ \A s \in Req : s # r => p.owner[s] = q.owner[s]
  BY <1>2, TakenOutSound DEF TakenOut
<1>4. /\ Sound(u) /\ u.shutting = q.shutting /\ u.deleted = q.deleted /\ u.id = q.id
      /\ u.wait = p.wait /\ u.active = p.active /\ u.out = p.out /\ u.canWrite = p.canWrite
  BY <1>0, <1>1, <1>3, LeaveSound
<1>5. /\ p.owner \in [Req -> {"idle", "waits", "gone"}]
      /\ q.owner \in [Req -> {"idle", "waits", "gone"}]
      /\ u.owner = [p.owner EXCEPT ![r] = "gone"]
  BY <1>0, <1>3 DEF Sound, QueueOK, QueueType
<1>6. u.owner = [q.owner EXCEPT ![r] = "gone"]
  BY <1>3, <1>5
<1>7. \/ u.wait = q.wait /\ u.active = q.active /\ u.out = q.out /\ u.canWrite = q.canWrite
      \/ HeldBy(u) = HeldBy(q) \ {r} /\ Cancelled(q, r, u)
  BY <1>2, <1>4 DEF TakenOut, HeldBy, Cancelled
<1> QED
  BY <1>4, <1>6, <1>7 DEF GaveUp

\* The queue p has r at the end of its wait queue, with a new id.
Queued(q, r, n, p) ==
    /\ p.wait = Append(q.wait, r) /\ p.active = q.active
    /\ p.id = [q.id EXCEPT ![r] = n]
    /\ p.shutting = q.shutting /\ p.canWrite = q.canWrite /\ p.deleted = q.deleted
    /\ p.out = q.out
    /\ p.told = [q.told EXCEPT ![r] = 0]
    /\ p.owner = [q.owner EXCEPT ![r] = IF r \in Detaches THEN "gone" ELSE "waits"]

\* The queue p holds r, which q did not hold, and can send it.
Entered(q, r, n, p) ==
    /\ Queued(q, r, n, p) /\ Sound(p) /\ Goes(p, ScheduleNext(p))
    /\ r \notin HeldBy(q) /\ HeldBy(p) = HeldBy(q) \cup {r}

LEMMA EnqueueGoes ==
    ASSUME NEW q, Sound(q), q.out = <<>>, NEW r \in Req, NEW n \in Id, n # InvalidId,
           Downloading => r \in Files,
           q.owner[r] = "idle" \/ (r \in Detaches /\ q.id[r] = InvalidId),
           NEW p, p = [q EXCEPT !.id[r] = n, !.linked[r] = TRUE,
                                !.wait = Append(@, r), !.told[r] = 0,
                                !.owner[r] = IF r \in Detaches THEN "gone" ELSE "waits"]
    PROVE  Entered(q, r, n, p)
<1>1. q \in QueueType /\ Lists(q.wait, q.active)
  BY DEF Sound, QueueOK
<1>2. r \notin HeldBy(q)
  BY DEF Sound, QueueOK, OwnersOK, DetachesOK
<1>3. Lists(Append(q.wait, r), q.active)
      /\ InLists(Append(q.wait, r), q.active) = HeldBy(q) \cup {r}
  BY <1>1, <1>2, ListsAppend DEF HeldBy
<1>4. Queued(q, r, n, p)
  BY <1>1 DEF QueueType, Queued
<1>5. p \in QueueType
  <2> DEFINE own == IF r \in Detaches THEN "gone" ELSE "waits"
             w == Append(q.wait, r)
  <2>1. own \in {"idle", "waits", "gone"}
    OBVIOUS
  <2>2. w \in Seq(Req)
    BY <1>3 DEF Lists
  <2> HIDE DEF own, w
  <2>3. p = [q EXCEPT !.id[r] = n, !.linked[r] = TRUE, !.wait = w, !.told[r] = 0,
                      !.owner[r] = own]
    BY DEF own, w
  <2>4. /\ [q.id EXCEPT ![r] = n] \in [Req -> Id]
        /\ [q.linked EXCEPT ![r] = TRUE] \in [Req -> BOOLEAN]
        /\ [q.told EXCEPT ![r] = 0] \in [Req -> Nat]
        /\ [q.owner EXCEPT ![r] = own] \in [Req -> {"idle", "waits", "gone"}]
    BY <1>1, <2>1 DEF QueueType
  <2> QED
    BY <1>1, <2>2, <2>3, <2>4 DEF QueueType
<1>6. HeldBy(p) = HeldBy(q) \cup {r} /\ Lists(p.wait, p.active)
  BY <1>3, <1>4 DEF HeldBy, Queued
<1>7. \A s \in Req :
         /\ p.id[s] = IF s = r THEN n ELSE q.id[s]
         /\ p.told[s] = IF s = r THEN 0 ELSE q.told[s]
         /\ p.owner[s] = IF s = r THEN (IF r \in Detaches THEN "gone" ELSE "waits")
                         ELSE q.owner[s]
  BY <1>1, <1>4 DEF QueueType, Queued
<1>8. OwnersOK(p)
  <2> SUFFICES ASSUME NEW s \in Req
               PROVE  /\ p.told[s] <= 1
                      /\ s \in HeldBy(p) => p.told[s] = 0 /\ p.owner[s] # "idle"
                      /\ p.owner[s] = "waits" => p.told[s] = 0 /\ s \notin Detaches
                      /\ s \in Detaches => p.owner[s] = "gone"
    BY DEF OwnersOK
  <2>1. CASE s = r
    BY <2>1, <1>7
  <2>2. CASE s # r
    BY <2>2, <1>6, <1>7 DEF Sound, QueueOK, OwnersOK
  <2> QED
    BY <2>1, <2>2
<1>9. DetachesOK(p)
  <2>1. r \in Detaches => ~Downloading
    BY RequestKinds
  <2> QED
    BY <2>1, <1>6, <1>7 DEF Sound, QueueOK, DetachesOK, Req
<1>10. StopOK(p) /\ OutOK(p)
  BY <1>4 DEF Sound, QueueOK, StopOK, OutOK, Queued
<1>11. Lost(p) \subseteq Lost(q)
  BY <1>6, <1>7 DEF Lost
<1>12. Sound(p)
  BY <1>4, <1>5, <1>6, <1>8, <1>9, <1>10, <1>11 DEF Sound, QueueOK, Queued
<1> QED
  BY <1>2, <1>4, <1>6, <1>12, ScheduleGoes DEF Entered

-----------------------------------------------------------------------------
(* Steps of the event loop.                                                 *)

\* What Become makes of a queue.
Emptied(q) == [q EXCEPT !.out = <<>>]

LEMMA EmptiedSound ==
    ASSUME NEW q, Sound(q)
    PROVE  /\ Sound(Emptied(q)) /\ Emptied(q).out = <<>>
           /\ Emptied(q).owner = q.owner /\ Emptied(q).shutting = q.shutting
           /\ Emptied(q).deleted = q.deleted /\ Emptied(q).id = q.id
<1> DEFINE s == Emptied(q)
<1>1. q \in QueueType
  BY DEF Sound, QueueOK
<1>2. /\ s.wait = q.wait /\ s.active = q.active /\ s.id = q.id
      /\ s.shutting = q.shutting /\ s.canWrite = q.canWrite /\ s.deleted = q.deleted
      /\ s.out = <<>> /\ s.told = q.told /\ s.owner = q.owner
  BY <1>1 DEF Emptied, QueueType
<1>3. s \in QueueType
  <2>1. <<>> \in Seq(ControllerMsg)
    OBVIOUS
  <2> QED
    BY <1>1, <2>1 DEF Emptied, QueueType
<1> HIDE DEF s
<1>4. HeldBy(s) = HeldBy(q) /\ Lost(s) = Lost(q)
  BY <1>2 DEF HeldBy, Lost
<1>5. OwnersOK(s) /\ DetachesOK(s) /\ StopOK(s) /\ OutOK(s)
  BY <1>2, <1>4 DEF Sound, QueueOK, OwnersOK, DetachesOK, StopOK, OutOK
<1>6. Sound(s)
  BY <1>2, <1>3, <1>4, <1>5 DEF Sound, QueueOK
<1> QED
  BY <1>2, <1>6 DEF s

\* The ids of the requests are different, but for InvalidId, and were handed out.
IdsOK(id, n) ==
    /\ \A r \in Req : id[r] < n
    /\ \A r, s \in Req : id[r] = id[s] /\ id[r] # InvalidId => r = s

\* The id of a message belongs to its request, or to none.
Known(m, id, n) ==
    /\ m.id < n
    /\ \A r \in Req : id[r] = m.id /\ m.id # InvalidId => r = m.req

IdsMove(id, n, id2, n2) ==
    /\ n2 \in {n, n + 1}
    /\ \A r \in Req : id2[r] \in {id[r], InvalidId} \/ (id2[r] = n /\ n2 = n + 1)
    /\ n2 = n + 1 => \A r, s \in Req : id2[r] = n /\ id2[s] = n => r = s

LEMMA KnownStays ==
    ASSUME NEW n \in Nat \ {0}, NEW id \in [Req -> Nat], NEW n2, NEW id2,
           IdsMove(id, n, id2, n2),
           NEW m, m.id \in Nat, Known(m, id, n)
    PROVE  Known(m, id2, n2)
  BY DEF Known, IdsMove, InvalidId

LEMMA IdsStay ==
    ASSUME NEW n \in Nat \ {0}, NEW id \in [Req -> Nat], NEW n2, NEW id2,
           IdsMove(id, n, id2, n2), IdsOK(id, n)
    PROVE  IdsOK(id2, n2)
  BY DEF IdsOK, IdsMove, InvalidId

\* Every element of t is one of s.
From(t, s) == \A k \in DOMAIN t : \E l \in DOMAIN s : t[k] = s[l]

LEMMA TailFrom ==
    ASSUME NEW T, NEW s \in Seq(T), s # <<>>
    PROVE  Tail(s) \in Seq(T) /\ From(Tail(s), s) /\ Head(s) \in T /\ Head(s) = s[1] /\ 1 \in DOMAIN s
<1> DEFINE t == Tail(s)
<1>1. /\ Len(s) \in Nat /\ Len(s) > 0 /\ DOMAIN s = 1..Len(s)
      /\ t \in Seq(T) /\ Len(t) = Len(s) - 1 /\ DOMAIN t = 1..Len(s) - 1
      /\ \A k \in 1..Len(s) - 1 : t[k] = s[k + 1]
      /\ Head(s) = s[1] /\ Head(s) \in T
  OBVIOUS
<1> HIDE DEF t
<1>2. ASSUME NEW k \in DOMAIN t PROVE \E l \in DOMAIN s : t[k] = s[l]
  <2>1. k + 1 \in DOMAIN s /\ t[k] = s[k + 1]
    BY <1>1
  <2> QED
    BY <2>1
<1>3. 1 \in DOMAIN s
  BY <1>1
<1> QED
  BY <1>1, <1>2, <1>3 DEF From, t

LEMMA AppendFrom ==
    ASSUME NEW T, NEW s \in Seq(T), NEW x \in T
    PROVE  /\ Append(s, x) \in Seq(T)
           /\ \A k \in DOMAIN Append(s, x) : \/ \E l \in DOMAIN s : Append(s, x)[k] = s[l]
                                             \/ Append(s, x)[k] = x
  OBVIOUS

LEMMA RemoveFrom ==
    ASSUME NEW T, NEW s \in Seq(T), NEW i \in 0..Len(s)
    PROVE  RemoveAt(s, i) \in Seq(T) /\ From(RemoveAt(s, i), s)
<1>1. Len(s) \in Nat /\ DOMAIN s = 1..Len(s)
  OBVIOUS
<1>2. CASE i = 0
  <2> DEFINE before == SubSeq(s, 1, i - 1)
             after  == SubSeq(s, i + 1, Len(s))
  <2>1. before = <<>>
    BY <1>2
  <2>2. after \in Seq(T) /\ Len(after) = Len(s) /\ \A k \in 1..Len(s) : after[k] = s[k]
    BY <1>1, <1>2
  <2>3. after = s
    <3> HIDE DEF after
    <3>1. DOMAIN after = 1..Len(s)
      BY <2>2
    <3> QED
      BY <1>1, <2>2, <3>1
  <2>4. RemoveAt(s, i) = s
    <3>1. RemoveAt(s, i) = before \o after
      BY DEF RemoveAt
    <3> HIDE DEF before, after
    <3>2. <<>> \o s = s
      OBVIOUS
    <3> QED
      BY <2>1, <2>3, <3>1, <3>2
  <2> QED
    BY <2>4 DEF From
<1>3. CASE i \in DOMAIN s
  <2> DEFINE t == RemoveAt(s, i)
  <2>1. /\ t \in Seq(T) /\ Len(t) = Len(s) - 1
        /\ \A k \in 1..Len(s) - 1 : t[k] = IF k < i THEN s[k] ELSE s[k + 1]
    BY <1>3, Removed
  <2> HIDE DEF t
  <2>2. ASSUME NEW k \in DOMAIN t PROVE \E l \in DOMAIN s : t[k] = s[l]
    <3>1. k \in 1..Len(s) - 1
      BY <2>1
    <3>2. k \in DOMAIN s /\ k + 1 \in DOMAIN s
      BY <1>1, <3>1
    <3> QED
      BY <2>1, <3>1, <3>2
  <2> QED
    BY <2>1, <2>2 DEF From, t
<1> QED
  BY <1>1, <1>2, <1>3

LEMMA JoinFrom ==
    ASSUME NEW T, NEW s \in Seq(T), NEW t \in Seq(T)
    PROVE  /\ s \o t \in Seq(T)
           /\ \A k \in DOMAIN (s \o t) : \/ \E l \in DOMAIN s : (s \o t)[k] = s[l]
                                         \/ \E l \in DOMAIN t : (s \o t)[k] = t[l]
<1> DEFINE u == s \o t
<1>1. /\ u \in Seq(T) /\ Len(u) = Len(s) + Len(t)
      /\ \A k \in 1..Len(s) + Len(t) : u[k] = IF k <= Len(s) THEN s[k] ELSE t[k - Len(s)]
  BY Joined
<1> HIDE DEF u
<1>2. Len(s) \in Nat /\ Len(t) \in Nat /\ DOMAIN s = 1..Len(s) /\ DOMAIN t = 1..Len(t)
  OBVIOUS
<1>3. ASSUME NEW k \in DOMAIN u
      PROVE  (\E l \in DOMAIN s : u[k] = s[l]) \/ \E l \in DOMAIN t : u[k] = t[l]
  <2>1. k \in 1..Len(s) + Len(t)
    BY <1>1
  <2>2. CASE k <= Len(s)
    <3>1. k \in DOMAIN s
      BY <1>2, <2>1, <2>2
    <3> QED
      BY <1>1, <2>1, <2>2, <3>1
  <2>3. CASE ~(k <= Len(s))
    <3>1. k - Len(s) \in DOMAIN t
      BY <1>2, <2>1, <2>3
    <3> QED
      BY <1>1, <2>1, <2>3, <3>1
  <2> QED
    BY <2>2, <2>3
<1> QED
  BY <1>1, <1>3 DEF u

LEMMA AnswerFound ==
    ASSUME toWorker \in Seq(ControllerMsg)
    PROVE  \/ /\ FirstAnswer = 0
              /\ \A k \in DOMAIN toWorker : ~IsAnswer(toWorker[k])
           \/ FirstAnswer \in DOMAIN toWorker /\ IsAnswer(toWorker[FirstAnswer])
<1> DEFINE I == {k \in 1..Len(toWorker) : IsAnswer(toWorker[k])}
<1>1. FirstAnswer = IF I # {} THEN Min(I) ELSE 0
  BY DEF FirstAnswer, SelectInSeq
<1>2. I \subseteq Nat /\ DOMAIN toWorker = 1..Len(toWorker)
  OBVIOUS
<1>3. I # {} => Min(I) \in I
  BY <1>2, SmallestExists
<1> QED
  BY <1>1, <1>2, <1>3

LEMMA ItemFound ==
    ASSUME worker \in WorkerStateType, NEW id
    PROVE  \/ /\ FindItem(id) = 0
              /\ \A k \in DOMAIN worker.items : worker.items[k].id # id
           \/ FindItem(id) \in DOMAIN worker.items /\ worker.items[FindItem(id)].id = id
<1> DEFINE I == {k \in 1..Len(worker.items) : worker.items[k].id = id}
<1>1. FindItem(id) = IF I # {} THEN Min(I) ELSE 0
  BY DEF FindItem, SelectInSeq
<1>2. worker.items \in Seq(ItemType)
  BY DEF WorkerStateType
<1>3. I \subseteq Nat /\ DOMAIN worker.items = 1..Len(worker.items)
  BY <1>2
<1>4. I # {} => Min(I) \in I
  BY <1>3, SmallestExists
<1> QED
  BY <1>1, <1>3, <1>4

-----------------------------------------------------------------------------
(* The inductive invariant.                                                 *)

MessagesOK(id, n, w, tw, fw) ==
    /\ \A k \in DOMAIN tw : Known(tw[k], id, n)
    /\ \A k \in DOMAIN w.items : Known(w.items[k], id, n)
    /\ Known(w.asking, id, n)
    /\ \A k \in DOMAIN fw : Known(fw[k], id, n)

\* A mounting worker only asks for an attach request.
AsksOK(fw) == \A k \in DOMAIN fw : fw[k].kind = "Ask" => Downloading \/ fw[k].req \in Attaches

Inv ==
    /\ Sound(queue) /\ queue.out = <<>>
    /\ nextId \in 1..MaxId + 1 /\ IdsOK(queue.id, nextId)
    /\ worker \in WorkerStateType /\ PipeTypeOK
    /\ MessagesOK(queue.id, nextId, worker, toWorker, fromWorker)
    /\ AsksOK(fromWorker)

LEMMA IdsAreNat ==
    /\ \A q \in QueueType : q.id \in [Req -> Nat]
    /\ \A m \in ControllerMsg : m.id \in Nat
    /\ \A m \in WorkerMsg : m.id \in Nat
    /\ \A x \in ItemType : x.id \in Nat
    /\ NoItem.id \in Nat
  BY MaxIdIsNat DEF QueueType, ControllerMsg, WorkerMsg, ItemType, NoItem, Id, InvalidId

\* The queue has become s; the worker has done nothing.
LEMMA BecomeKeeps ==
    ASSUME Inv, NEW s, Sound(s), Become(s), UNCHANGED <<worker, caps, faults>>,
           IdsMove(queue.id, nextId, s.id, nextId'), nextId' \in 1..MaxId + 1,
           fromWorker' \in Seq(WorkerMsg), From(fromWorker', fromWorker)
    PROVE  Inv'
<1>1. /\ queue \in QueueType /\ s \in QueueType /\ nextId \in Nat \ {0} /\ PipeTypeOK
      /\ worker.items \in Seq(ItemType) /\ worker.asking \in ItemType \cup {NoItem}
  BY MaxIdIsNat DEF Inv, Sound, QueueOK, WorkerStateType
<1>2. queue' = Emptied(s)
  BY DEF Become, Emptied
<1>3. /\ Sound(queue') /\ queue'.out = <<>> /\ queue'.id = s.id
  BY <1>2, EmptiedSound
<1>4. Sound(queue)'
  BY <1>3 DEF Sound, QueueOK, OwnersOK, DetachesOK, StopOK, OutOK, Lost, HeldBy, Downloading
<1>5. queue.id \in [Req -> Nat] /\ s.id \in [Req -> Nat]
  BY <1>1, IdsAreNat
<1>6. IdsOK(s.id, nextId')
  BY <1>1, <1>5, IdsStay DEF Inv
<1>7. \A m : m.id \in Nat /\ Known(m, queue.id, nextId) => Known(m, s.id, nextId')
  BY <1>1, <1>5, KnownStays
<1>8. /\ s.out \in Seq(ControllerMsg) /\ toWorker \in Seq(ControllerMsg)
      /\ fromWorker \in Seq(WorkerMsg)
  BY <1>1 DEF QueueType, PipeTypeOK
<1>9. \A k \in DOMAIN s.out : s.out[k] \in ControllerMsg /\ s.out[k].req \in Req
  <2>1. \A m \in ControllerMsg : m.req \in Req
    BY DEF ControllerMsg
  <2>2. \A k \in DOMAIN s.out : s.out[k] \in ControllerMsg
    BY <1>8
  <2> QED
    BY <2>1, <2>2
<1>10. \A k \in DOMAIN s.out : Known(s.out[k], s.id, nextId')
  BY <1>6, <1>9 DEF Sound, QueueOK, OutOK, IdsOK, Known
<1>11. /\ toWorker' \in Seq(ControllerMsg)
       /\ \A k \in DOMAIN toWorker' : Known(toWorker'[k], s.id, nextId')
  <2>1. CASE s.shutting
    BY <2>1 DEF Become
  <2>2. CASE ~s.shutting
    <3>1. toWorker' = toWorker \o s.out
      BY <2>2 DEF Become
    <3>2. \A k \in DOMAIN toWorker : Known(toWorker[k], s.id, nextId')
      BY <1>7, <1>8, IdsAreNat DEF Inv, MessagesOK
    <3> QED
      BY <3>1, <3>2, <1>8, <1>10, JoinFrom
  <2> QED
    BY <2>1, <2>2 DEF Sound, QueueOK, QueueType
<1>12. \A k \in DOMAIN worker.items : Known(worker.items[k], s.id, nextId')
  BY <1>1, <1>7, IdsAreNat DEF Inv, MessagesOK
<1>13. Known(worker.asking, s.id, nextId')
  BY <1>1, <1>7, IdsAreNat DEF Inv, MessagesOK
<1>14. \A k \in DOMAIN fromWorker' : Known(fromWorker'[k], s.id, nextId')
  BY <1>7, <1>8, IdsAreNat DEF Inv, MessagesOK, From
<1>15. alive' \in BOOLEAN
  BY DEF Become
<1>16. PipeTypeOK'
  BY <1>1, <1>11, <1>15 DEF PipeTypeOK
<1>17. MessagesOK(queue.id, nextId, worker, toWorker, fromWorker)'
  BY <1>3, <1>11, <1>12, <1>13, <1>14 DEF MessagesOK
<1>18. AsksOK(fromWorker)'
  BY DEF Inv, AsksOK, From, Downloading
<1> QED
  BY <1>3, <1>4, <1>6, <1>16, <1>17, <1>18 DEF Inv

\* The worker has moved requests and answers; the queue has done nothing.
LEMMA WorkerKeeps ==
    ASSUME Inv, UNCHANGED <<queueVars, caps, faults>>,
           worker' \in WorkerStateType, alive' \in BOOLEAN,
           toWorker' \in Seq(ControllerMsg), From(toWorker', toWorker),
           fromWorker' \in Seq(WorkerMsg),
           \A k \in DOMAIN worker'.items : Known(worker'.items[k], queue.id, nextId),
           Known(worker'.asking, queue.id, nextId),
           \A k \in DOMAIN fromWorker' :
                \/ \E l \in DOMAIN fromWorker : fromWorker'[k] = fromWorker[l]
                \/ /\ Known(fromWorker'[k], queue.id, nextId)
                   /\ fromWorker'[k].kind = "Ask" => Downloading \/ fromWorker'[k].req \in Attaches
    PROVE  Inv'
<1>1. Sound(queue)'
  BY DEF Inv, Sound, QueueOK, OwnersOK, DetachesOK, StopOK, OutOK, Lost, HeldBy, Downloading,
         queueVars
<1>2. PipeTypeOK'
  BY DEF Inv, PipeTypeOK
<1>3. \A k \in DOMAIN toWorker' : Known(toWorker'[k], queue.id, nextId)
  BY DEF Inv, MessagesOK, From
<1>4. \A k \in DOMAIN fromWorker' : Known(fromWorker'[k], queue.id, nextId)
  BY DEF Inv, MessagesOK
<1>5. AsksOK(fromWorker)'
  BY DEF Inv, AsksOK, Downloading
<1>6. MessagesOK(queue.id, nextId, worker, toWorker, fromWorker)'
  BY <1>3, <1>4 DEF MessagesOK, queueVars
<1>7. IdsOK(queue.id, nextId)'
  BY DEF Inv, IdsOK, queueVars
<1> QED
  BY <1>1, <1>2, <1>5, <1>6, <1>7 DEF Inv, queueVars

\* What an item and a message say.
LEMMA ItemMessage ==
    ASSUME NEW x \in ItemType, NEW k \in FinalKinds \cup {"Ask"}, NEW id, NEW n, Known(x, id, n)
    PROVE  /\ Msg(k, x.id, x.req) \in WorkerMsg /\ Known(Msg(k, x.id, x.req), id, n)
           /\ Msg(k, x.id, x.req).kind = k /\ Msg(k, x.id, x.req).req = x.req
  BY DEF ItemType, Msg, WorkerMsg, Known

LEMMA ReceiveKeeps ==
    ASSUME Inv, Receive, UNCHANGED <<queueVars, caps, faults>>
    PROVE  Inv'
<1>1. /\ worker \in WorkerStateType /\ worker.items \in Seq(ItemType)
      /\ worker.asking \in ItemType \cup {NoItem}
      /\ toWorker \in Seq(ControllerMsg) /\ fromWorker \in Seq(WorkerMsg) /\ alive \in BOOLEAN
  BY DEF Inv, WorkerStateType, PipeTypeOK
<1>2. /\ toWorker' \in Seq(ControllerMsg) /\ From(toWorker', toWorker)
      /\ Head(toWorker) \in ControllerMsg /\ Head(toWorker) = toWorker[1] /\ 1 \in DOMAIN toWorker
  BY <1>1, TailFrom DEF Receive
<1> DEFINE m == Head(toWorker)
           i == FindItem(m.id)
<1>3. Known(m, queue.id, nextId)
  BY <1>2 DEF Inv, MessagesOK
<1>4. m.id \in Id /\ m.req \in Req
  BY <1>2 DEF ControllerMsg
<1> HIDE DEF m
<1>5. alive' \in BOOLEAN
  BY <1>1 DEF Receive
<1>6. \/ /\ worker' = [worker EXCEPT !.items = Append(@,
                [id |-> m.id, req |-> m.req, running |-> FALSE, asked |-> FALSE])]
         /\ UNCHANGED fromWorker
      \/ i # 0 /\ CancelItem(i)
      \/ UNCHANGED <<worker, fromWorker>>
  BY DEF Receive, m
<1>7. CASE /\ worker' = [worker EXCEPT !.items = Append(@,
                [id |-> m.id, req |-> m.req, running |-> FALSE, asked |-> FALSE])]
           /\ UNCHANGED fromWorker
  <2> DEFINE x == [id |-> m.id, req |-> m.req, running |-> FALSE, asked |-> FALSE]
  <2>1. x \in ItemType /\ Known(x, queue.id, nextId)
    BY <1>3, <1>4 DEF ItemType, Known
  <2> HIDE DEF x
  <2>2. worker' = [worker EXCEPT !.items = Append(worker.items, x)]
    BY <1>7 DEF x
  <2>3. /\ Append(worker.items, x) \in Seq(ItemType)
        /\ \A k \in DOMAIN Append(worker.items, x) :
              \/ \E l \in DOMAIN worker.items : Append(worker.items, x)[k] = worker.items[l]
              \/ Append(worker.items, x)[k] = x
    BY <1>1, <2>1, AppendFrom
  <2>4. worker'.items = Append(worker.items, x) /\ worker'.asking = worker.asking
    BY <1>1, <2>2 DEF WorkerStateType
  <2>5. worker' \in WorkerStateType
    BY <1>1, <2>2, <2>3 DEF WorkerStateType
  <2>6. \A k \in DOMAIN worker'.items : Known(worker'.items[k], queue.id, nextId)
    BY <2>1, <2>3, <2>4 DEF Inv, MessagesOK
  <2>7. Known(worker'.asking, queue.id, nextId)
    BY <2>4 DEF Inv, MessagesOK
  <2> QED
    BY <1>1, <1>2, <1>5, <1>7, <2>5, <2>6, <2>7, WorkerKeeps
<1>8. CASE i # 0 /\ CancelItem(i)
  <2>1. i \in DOMAIN worker.items /\ i \in 0..Len(worker.items)
    BY <1>1, <1>8, ItemFound
  <2> HIDE DEF i
  <2>2. RemoveAt(worker.items, i) \in Seq(ItemType) /\ From(RemoveAt(worker.items, i), worker.items)
    BY <1>1, <2>1, RemoveFrom
  <2>3. worker' = [worker EXCEPT !.items = RemoveAt(worker.items, i)]
    BY <1>8 DEF CancelItem
  <2>4. worker'.items = RemoveAt(worker.items, i) /\ worker'.asking = worker.asking
    BY <1>1, <2>3 DEF WorkerStateType
  <2>5. worker' \in WorkerStateType
    BY <1>1, <2>2, <2>3 DEF WorkerStateType
  <2>6. \A k \in DOMAIN worker'.items : Known(worker'.items[k], queue.id, nextId)
    BY <2>2, <2>4 DEF Inv, MessagesOK, From
  <2>7. Known(worker'.asking, queue.id, nextId)
    BY <2>4 DEF Inv, MessagesOK
  <2> DEFINE a == Msg("Failed", worker.items[i].id, worker.items[i].req)
  <2>8. worker.items[i] \in ItemType /\ Known(worker.items[i], queue.id, nextId)
    BY <1>1, <2>1 DEF Inv, MessagesOK
  <2>9. a \in WorkerMsg /\ Known(a, queue.id, nextId) /\ a.kind = "Failed"
    BY <2>8, ItemMessage DEF FinalKinds
  <2>10. fromWorker' = fromWorker \/ fromWorker' = Append(fromWorker, a)
    BY <1>8 DEF CancelItem, Reply
  <2> HIDE DEF a
  <2>11. /\ fromWorker' \in Seq(WorkerMsg)
         /\ \A k \in DOMAIN fromWorker' : \/ \E l \in DOMAIN fromWorker : fromWorker'[k] = fromWorker[l]
                                          \/ fromWorker'[k] = a
    <3>1. CASE fromWorker' = fromWorker
      BY <1>1, <3>1
    <3>2. CASE fromWorker' = Append(fromWorker, a)
      BY <1>1, <2>9, <3>2, AppendFrom
    <3> QED
      BY <2>10, <3>1, <3>2
  <2> QED
    BY <1>2, <1>5, <2>5, <2>6, <2>7, <2>9, <2>11, WorkerKeeps
<1>9. CASE UNCHANGED <<worker, fromWorker>>
  <2>1. \A k \in DOMAIN worker'.items : Known(worker'.items[k], queue.id, nextId)
    BY <1>9 DEF Inv, MessagesOK
  <2>2. Known(worker'.asking, queue.id, nextId)
    BY <1>9 DEF Inv, MessagesOK
  <2> QED
    BY <1>1, <1>2, <1>5, <1>9, <2>1, <2>2, WorkerKeeps
<1> QED
  BY <1>6, <1>7, <1>8, <1>9

LEMMA StartDownloadKeeps ==
    ASSUME Inv, NEW i \in DOMAIN worker.items, StartDownload(i),
           UNCHANGED <<queueVars, caps, faults>>
    PROVE  Inv'
<1>1. /\ worker \in WorkerStateType /\ worker.items \in Seq(ItemType)
      /\ worker.asking \in ItemType \cup {NoItem}
      /\ toWorker \in Seq(ControllerMsg) /\ fromWorker \in Seq(WorkerMsg) /\ alive \in BOOLEAN
  BY DEF Inv, WorkerStateType, PipeTypeOK
<1> DEFINE x == [worker.items[i] EXCEPT !.running = TRUE]
           s == [worker.items EXCEPT ![i] = x]
<1>2. worker.items[i] \in ItemType /\ Known(worker.items[i], queue.id, nextId)
  BY <1>1 DEF Inv, MessagesOK
<1>3. x \in ItemType /\ Known(x, queue.id, nextId)
  BY <1>2 DEF ItemType, Known
<1>4. worker' = [worker EXCEPT !.items = s]
  BY DEF StartDownload
<1> HIDE DEF x
<1>5. s \in Seq(ItemType) /\ \A k \in DOMAIN s : k \in DOMAIN worker.items /\ s[k] \in {x, worker.items[k]}
  BY <1>1, <1>3
<1> HIDE DEF s
<1>6. worker' \in WorkerStateType /\ worker'.items = s /\ worker'.asking = worker.asking
  BY <1>1, <1>4, <1>5 DEF WorkerStateType
<1>7. \A k \in DOMAIN worker'.items : Known(worker'.items[k], queue.id, nextId)
  BY <1>3, <1>5, <1>6 DEF Inv, MessagesOK
<1>8. Known(worker'.asking, queue.id, nextId)
  BY <1>6 DEF Inv, MessagesOK
<1>9. From(toWorker', toWorker) /\ UNCHANGED <<toWorker, fromWorker, alive>>
  BY DEF StartDownload, From
<1> QED
  BY <1>1, <1>6, <1>7, <1>8, <1>9, WorkerKeeps

\* The elements of the second pipe that WorkerKeeps asks for.
Answers ==
    /\ fromWorker' \in Seq(WorkerMsg)
    /\ \A k \in DOMAIN fromWorker' :
          \/ \E l \in DOMAIN fromWorker : fromWorker'[k] = fromWorker[l]
          \/ /\ Known(fromWorker'[k], queue.id, nextId)
             /\ fromWorker'[k].kind = "Ask" => Downloading \/ fromWorker'[k].req \in Attaches

LEMMA ReplyAnswers ==
    ASSUME fromWorker \in Seq(WorkerMsg), NEW x \in ItemType, Known(x, queue.id, nextId),
           NEW k \in FinalKinds \cup {"Ask"}, Reply(k, x),
           k = "Ask" => Downloading \/ x.req \in Attaches
    PROVE  Answers
<1> DEFINE a == Msg(k, x.id, x.req)
<1>1. a \in WorkerMsg /\ Known(a, queue.id, nextId) /\ a.kind = k /\ a.req = x.req
  BY ItemMessage
<1>2. fromWorker' = Append(fromWorker, a)
  BY DEF Reply
<1> HIDE DEF a
<1>3. /\ fromWorker' \in Seq(WorkerMsg)
      /\ \A l \in DOMAIN fromWorker' : \/ \E j \in DOMAIN fromWorker : fromWorker'[l] = fromWorker[j]
                                       \/ fromWorker'[l] = a
  BY <1>1, <1>2, AppendFrom
<1> QED
  BY <1>1, <1>3 DEF Answers

LEMMA ReplyTwiceAnswers ==
    ASSUME fromWorker \in Seq(WorkerMsg), NEW x \in ItemType, Known(x, queue.id, nextId),
           NEW k1 \in FinalKinds, NEW k2 \in FinalKinds, ReplyTwice(k1, k2, x)
    PROVE  Answers
<1> DEFINE a == Msg(k1, x.id, x.req)
           b == Msg(k2, x.id, x.req)
<1>1. a \in WorkerMsg /\ Known(a, queue.id, nextId) /\ a.kind = k1
  BY ItemMessage
<1>2. b \in WorkerMsg /\ Known(b, queue.id, nextId) /\ b.kind = k2
  BY ItemMessage
<1>3. fromWorker' = fromWorker \o <<a, b>>
  BY DEF ReplyTwice
<1> HIDE DEF a, b
<1>4. <<a, b>> \in Seq(WorkerMsg) /\ \A l \in DOMAIN <<a, b>> : <<a, b>>[l] \in {a, b}
  BY <1>1, <1>2
<1> DEFINE both == <<a, b>>
<1>5. both \in Seq(WorkerMsg) /\ (\A l \in DOMAIN both : both[l] \in {a, b})
      /\ fromWorker' = fromWorker \o both
  BY <1>3, <1>4
<1> HIDE DEF both
<1>6. /\ fromWorker' \in Seq(WorkerMsg)
      /\ \A l \in DOMAIN fromWorker' : \/ \E j \in DOMAIN fromWorker : fromWorker'[l] = fromWorker[j]
                                       \/ fromWorker'[l] \in {a, b}
  <2>1. /\ fromWorker \o both \in Seq(WorkerMsg)
        /\ \A l \in DOMAIN (fromWorker \o both) :
              \/ \E j \in DOMAIN fromWorker : (fromWorker \o both)[l] = fromWorker[j]
              \/ \E j \in DOMAIN both : (fromWorker \o both)[l] = both[j]
    BY <1>5, JoinFrom
  <2> QED
    BY <1>5, <2>1
<1>7. "Ask" \notin FinalKinds
  BY DEF FinalKinds
<1> QED
  BY <1>1, <1>2, <1>6, <1>7 DEF Answers

LEMMA FinishKeeps ==
    ASSUME Inv, NEW i \in DOMAIN worker.items, Finish(i), UNCHANGED <<queueVars, caps, faults>>
    PROVE  Inv'
<1>1. /\ worker \in WorkerStateType /\ worker.items \in Seq(ItemType)
      /\ worker.asking \in ItemType \cup {NoItem}
      /\ toWorker \in Seq(ControllerMsg) /\ fromWorker \in Seq(WorkerMsg) /\ alive \in BOOLEAN
  BY DEF Inv, WorkerStateType, PipeTypeOK
<1>2. worker.items[i] \in ItemType /\ Known(worker.items[i], queue.id, nextId)
  BY <1>1 DEF Inv, MessagesOK
<1>3. Answers
  <2>1. ASSUME NEW k \in FinalKinds, Reply(k, worker.items[i]) PROVE Answers
    <3>1. k # "Ask"
      BY DEF FinalKinds
    <3> QED
      BY <1>1, <1>2, <2>1, <3>1, ReplyAnswers
  <2>2. ASSUME NEW k \in {"Finished", "Failed"}, ReplyTwice("Finished", k, worker.items[i])
        PROVE  Answers
    BY <1>1, <1>2, <2>2, ReplyTwiceAnswers DEF FinalKinds
  <2>3. \/ \E k \in FinalKinds : Reply(k, worker.items[i])
        \/ \E k \in {"Finished", "Failed"} : ReplyTwice("Finished", k, worker.items[i])
    BY DEF Finish, FinalKinds
  <2> QED
    BY <2>1, <2>2, <2>3
<1> DEFINE s == RemoveAt(worker.items, i)
<1>4. s \in Seq(ItemType) /\ From(s, worker.items)
  BY <1>1, RemoveFrom
<1>5. worker' = [worker EXCEPT !.items = s]
  BY DEF Finish
<1> HIDE DEF s
<1>6. worker' \in WorkerStateType /\ worker'.items = s /\ worker'.asking = worker.asking
  BY <1>1, <1>4, <1>5 DEF WorkerStateType
<1>7. \A k \in DOMAIN worker'.items : Known(worker'.items[k], queue.id, nextId)
  BY <1>4, <1>6 DEF Inv, MessagesOK, From
<1>8. Known(worker'.asking, queue.id, nextId)
  BY <1>6 DEF Inv, MessagesOK
<1>9. From(toWorker', toWorker) /\ UNCHANGED <<toWorker, alive>>
  BY DEF Finish, From
<1> QED
  BY <1>1, <1>3, <1>6, <1>7, <1>8, <1>9, WorkerKeeps DEF Answers

LEMMA AskKeeps ==
    ASSUME Inv, NEW i \in DOMAIN worker.items, Ask(i), UNCHANGED <<queueVars, caps, faults>>
    PROVE  Inv'
<1>1. /\ worker \in WorkerStateType /\ worker.items \in Seq(ItemType)
      /\ worker.asking \in ItemType \cup {NoItem}
      /\ toWorker \in Seq(ControllerMsg) /\ fromWorker \in Seq(WorkerMsg) /\ alive \in BOOLEAN
  BY DEF Inv, WorkerStateType, PipeTypeOK
<1>2. worker.items[i] \in ItemType /\ Known(worker.items[i], queue.id, nextId)
  BY <1>1 DEF Inv, MessagesOK
<1>3. Answers
  <2>1. Reply("Ask", worker.items[i]) /\ (Downloading \/ worker.items[i].req \in Attaches)
    BY DEF Ask
  <2> QED
    BY <1>1, <1>2, <2>1, ReplyAnswers
<1> DEFINE x == [worker.items[i] EXCEPT !.asked = TRUE]
           s == IF Downloading THEN [worker.items EXCEPT ![i] = x] ELSE RemoveAt(worker.items, i)
<1>4. x \in ItemType /\ Known(x, queue.id, nextId)
  BY <1>2 DEF ItemType, Known
<1>5. worker' = [items |-> s, asking |-> x]
  BY DEF Ask
<1> HIDE DEF x
<1>6. s \in Seq(ItemType) /\ \A k \in DOMAIN s : s[k] = x \/ \E l \in DOMAIN worker.items : s[k] = worker.items[l]
  <2>1. CASE Downloading
    BY <1>1, <1>4, <2>1
  <2>2. CASE ~Downloading
    BY <1>1, <2>2, RemoveFrom DEF From
  <2> QED
    BY <2>1, <2>2
<1> HIDE DEF s
<1>7. worker' \in WorkerStateType /\ worker'.items = s /\ worker'.asking = x
  BY <1>4, <1>5, <1>6 DEF WorkerStateType
<1>8. \A k \in DOMAIN worker'.items : Known(worker'.items[k], queue.id, nextId)
  BY <1>4, <1>6, <1>7 DEF Inv, MessagesOK
<1>9. From(toWorker', toWorker) /\ UNCHANGED <<toWorker, alive>>
  BY DEF Ask, From
<1> QED
  BY <1>1, <1>3, <1>4, <1>7, <1>8, <1>9, WorkerKeeps DEF Answers

LEMMA AnsweredKeeps ==
    ASSUME Inv, Answered, UNCHANGED <<queueVars, caps, faults>>
    PROVE  Inv'
<1>1. /\ worker \in WorkerStateType /\ worker.items \in Seq(ItemType)
      /\ worker.asking \in ItemType \cup {NoItem} /\ worker.asking # NoItem
      /\ toWorker \in Seq(ControllerMsg) /\ fromWorker \in Seq(WorkerMsg) /\ alive \in BOOLEAN
  BY DEF Inv, WorkerStateType, PipeTypeOK, Answered
<1> DEFINE x == worker.asking
           i == FindItem(x.id)
           s == RemoveAt(worker.items, i)
<1>2. x \in ItemType /\ Known(x, queue.id, nextId)
  BY <1>1 DEF Inv, MessagesOK
<1>3. toWorker' \in Seq(ControllerMsg) /\ From(toWorker', toWorker)
  <2>1. FirstAnswer \in 0..Len(toWorker)
    BY <1>1, AnswerFound DEF Answered
  <2> QED
    BY <1>1, <2>1, RemoveFrom DEF Answered
<1>4. s \in Seq(ItemType) /\ From(s, worker.items)
  <2>1. i \in 0..Len(worker.items)
    BY <1>1, ItemFound
  <2> QED
    BY <1>1, <2>1, RemoveFrom
<1>5. Answers
  <2>1. fromWorker' = fromWorker \/ \E k \in {"Failed", "Finished"} : Reply(k, x)
    BY DEF Answered
  <2>2. CASE fromWorker' = fromWorker
    BY <1>1, <2>2 DEF Answers
  <2>3. ASSUME NEW k \in {"Failed", "Finished"}, Reply(k, x) PROVE Answers
    BY <1>1, <1>2, <2>3, ReplyAnswers DEF FinalKinds
  <2> QED
    BY <2>1, <2>2, <2>3
<1>6. \/ worker' = [items |-> worker.items, asking |-> NoItem]
      \/ worker' = [items |-> s, asking |-> NoItem]
  BY <1>1 DEF Answered, WorkerStateType
<1> HIDE DEF s
<1>7. worker' \in WorkerStateType /\ worker'.items \in {s, worker.items} /\ worker'.asking = NoItem
  BY <1>1, <1>4, <1>6 DEF WorkerStateType
<1>8. \A k \in DOMAIN worker'.items : Known(worker'.items[k], queue.id, nextId)
  BY <1>4, <1>7 DEF Inv, MessagesOK, From
<1>9. Known(NoItem, queue.id, nextId)
  BY MaxIdIsNat DEF Inv, Known, NoItem, InvalidId
<1>10. UNCHANGED alive
  BY DEF Answered
<1> QED
  BY <1>1, <1>3, <1>5, <1>7, <1>8, <1>9, <1>10, WorkerKeeps DEF Answers

LEMMA DieKeeps ==
    ASSUME Inv, Die, UNCHANGED <<queueVars, caps, faults>>
    PROVE  Inv'
<1>1. UNCHANGED <<worker, toWorker, fromWorker>> /\ alive' = FALSE
  BY DEF Die
<1>2. /\ worker \in WorkerStateType
      /\ toWorker \in Seq(ControllerMsg) /\ fromWorker \in Seq(WorkerMsg)
  BY DEF Inv, PipeTypeOK
<1>3. From(toWorker', toWorker)
  BY <1>1 DEF From
<1>4. \A k \in DOMAIN worker'.items : Known(worker'.items[k], queue.id, nextId)
  BY <1>1 DEF Inv, MessagesOK
<1>5. Known(worker'.asking, queue.id, nextId)
  BY <1>1 DEF Inv, MessagesOK
<1> QED
  BY <1>1, <1>2, <1>3, <1>4, <1>5, WorkerKeeps

LEMMA WorkerNextKeeps ==
    ASSUME Inv, WorkerNext, UNCHANGED <<queueVars, caps, faults>>
    PROVE  Inv'
  BY ReceiveKeeps, AnsweredKeeps, DieKeeps, StartDownloadKeeps, FinishKeeps, AskKeeps
     DEF WorkerNext

-----------------------------------------------------------------------------
(* Steps of the queue, and what they are to the owners.                     *)

Owners(f) == [r \in Files \cup Attaches |-> f[r]]

Mode == IF queue.deleted THEN "destroyed" ELSE IF queue.shutting THEN "stopped" ELSE "works"

\* What the service does in a step: nothing, or one of its actions.
Serves == Service!Next \/ (Owners(queue.owner)' = Owners(queue.owner) /\ Mode' = Mode)

LEMMA StopMaps ==
    ASSUME NEW f, Stops(f, queue'.owner), NEW m, Mode' = m
    PROVE  Service!Stop(Owners(f), m)
<1> DEFINE S == Files \cup Attaches
           g == queue'.owner
           W == Service!Waiting(Owners(f))
           lost == {r \in W : g[r] = "waits"}
<1>1. S \subseteq Req
  BY DEF Req
<1>2. W = {r \in S : f[r] = "waits"}
  BY DEF Service!Waiting, Owners
<1>3. \A r \in S : \/ g[r] = f[r]
                   \/ f[r] = "waits" /\ g[r] = "idle"
  BY <1>1 DEF Stops
<1>4. \A r, s \in lost : r = s
  BY <1>1, <1>2 DEF Stops
<1>6. Owners(queue.owner)' = [r \in S |-> IF r \in W \ lost THEN "idle" ELSE Owners(f)[r]]
  BY <1>2, <1>3 DEF Owners
<1>7. lost \in SUBSET W
  OBVIOUS
<1> HIDE DEF lost, W
<1> QED
  BY <1>4, <1>6, <1>7 DEF Service!Stop, Owners, Mode, W

\* After a step to s, the owners in f are those of s, or the queue was shut down.
LEMMA GoesMaps ==
    ASSUME NEW p, Goes(p, queue'), p.shutting = queue.shutting, p.deleted = queue.deleted,
           ~queue.deleted
    PROVE  \/ Owners(queue.owner)' = Owners(p.owner) /\ Mode' = Mode
           \/ Mode = "works" /\ Service!Stop(Owners(p.owner), "stopped")
<1>1. queue'.deleted = queue.deleted
  BY DEF Goes
<1>2. CASE queue'.shutting = p.shutting /\ queue'.owner = p.owner
  BY <1>1, <1>2 DEF Mode, Owners
<1>3. CASE ~p.shutting /\ queue'.shutting /\ Stops(p.owner, queue'.owner)
  <2>1. Mode' = "stopped" /\ Mode = "works"
    BY <1>1, <1>3 DEF Mode
  <2> QED
    BY <1>3, <2>1, StopMaps
<1> QED
  BY <1>2, <1>3 DEF Goes

LEMMA GoesBecome ==
    ASSUME NEW p, NEW s, Goes(p, s), Become(s), caps' = caps
    PROVE  Goes(p, queue')
<1>1. Sound(s)
  BY DEF Goes
<1>2. queue' = Emptied(s)
  BY DEF Become, Emptied
<1> QED
  BY <1>1, <1>2, EmptiedSound DEF Goes

\* The owners see nothing, or the end of the service.
LEMMA QuietServes ==
    ASSUME Goes(queue, queue'), ~queue.deleted
    PROVE  Serves
<1>1. \/ Owners(queue.owner)' = Owners(queue.owner) /\ Mode' = Mode
      \/ Mode = "works" /\ Service!Stop(Owners(queue.owner), "stopped")
  BY GoesMaps
<1>2. Mode = "works" /\ Service!Stop(Owners(queue.owner), "stopped") => Service!Break
  BY DEF Service!Break, Mode, Owners
<1> QED
  BY <1>1, <1>2 DEF Serves, Service!Next

\* One owner changes.
LEMMA ChangeMaps ==
    ASSUME NEW p, Goes(p, queue'), p.shutting = queue.shutting, p.deleted = queue.deleted,
           ~queue.deleted, NEW r \in Files \cup Attaches, NEW o,
           Owners(p.owner) = [Owners(queue.owner) EXCEPT ![r] = o]
    PROVE  Service!Change(r, o)
<1>1. \/ Owners(queue.owner)' = Owners(p.owner) /\ Mode' = Mode
      \/ Mode = "works" /\ Service!Stop(Owners(p.owner), "stopped")
  BY GoesMaps
<1>2. CASE Owners(queue.owner)' = Owners(p.owner) /\ Mode' = Mode
  BY <1>2 DEF Service!Change, Mode, Owners
<1>3. CASE Mode = "works" /\ Service!Stop(Owners(p.owner), "stopped")
  <2>1. Service!Stop([Owners(queue.owner) EXCEPT ![r] = o], "stopped")
    BY <1>3
  <2> QED
    BY <1>3, <2>1 DEF Service!Change, Mode, Owners
<1> QED
  BY <1>1, <1>2, <1>3

LEMMA OwnersOfDetach ==
    ASSUME NEW q \in QueueType, NEW r \in Detaches, NEW o
    PROVE  Owners([q.owner EXCEPT ![r] = o]) = Owners(q.owner)
  BY RequestKinds DEF Owners, QueueType, Req

LEMMA OwnersOfOther ==
    ASSUME NEW q \in QueueType, NEW r \in Files \cup Attaches, NEW o
    PROVE  Owners([q.owner EXCEPT ![r] = o]) = [Owners(q.owner) EXCEPT ![r] = o]
  BY DEF Owners, QueueType, Req

LEMMA EnqueueKeeps ==
    ASSUME Inv, NEW r \in Req, Enqueue(r), UNCHANGED <<worker, caps, faults>>
    PROVE  Inv' /\ Serves
<1> DEFINE p == [queue EXCEPT !.id[r] = nextId, !.linked[r] = TRUE,
                              !.wait = Append(@, r), !.told[r] = 0,
                              !.owner[r] = IF r \in Detaches THEN "gone" ELSE "waits"]
           s == ScheduleNext(p)
<1>1. queue \in QueueType /\ Sound(queue) /\ queue.out = <<>>
  BY DEF Inv, Sound, QueueOK
<1>2. /\ nextId \in Id /\ nextId # InvalidId /\ nextId' = nextId + 1
      /\ nextId' \in 1..MaxId + 1 /\ nextId \in Nat
  BY MaxIdIsNat DEF Inv, Enqueue, Id, InvalidId
<1>3. /\ Downloading => r \in Files
      /\ queue.owner[r] = "idle" \/ (r \in Detaches /\ queue.id[r] = InvalidId)
      /\ ~queue.deleted
  BY DEF Enqueue, Enqueueable
<1>4. Become(s) /\ UNCHANGED fromWorker
  BY DEF Enqueue
<1>5. Queued(queue, r, nextId, p) /\ Goes(p, s)
  <2>1. Entered(queue, r, nextId, p)
    BY <1>1, <1>2, <1>3, EnqueueGoes
  <2>2. s = ScheduleNext(p)
    OBVIOUS
  <2> HIDE DEF p, s
  <2> QED
    BY <2>1, <2>2 DEF Entered
<1> HIDE DEF p, s
<1>6. Inv'
  <2>1. s.id = [queue.id EXCEPT ![r] = nextId] /\ queue.id \in [Req -> Nat]
    BY <1>1, <1>5, IdsAreNat DEF Goes, Queued
  <2>2. IdsMove(queue.id, nextId, s.id, nextId')
    BY <1>2, <2>1 DEF Inv, IdsMove, IdsOK
  <2>3. Sound(s)
    BY <1>5 DEF Goes
  <2>4. fromWorker' \in Seq(WorkerMsg) /\ From(fromWorker', fromWorker)
    BY <1>4 DEF Inv, PipeTypeOK, From
  <2> QED
    BY <1>2, <1>4, <2>2, <2>3, <2>4, BecomeKeeps
<1>7. Goes(p, queue')
  BY <1>4, <1>5, GoesBecome
<1>8. p.shutting = queue.shutting /\ p.deleted = queue.deleted
      /\ p.owner = [queue.owner EXCEPT ![r] = IF r \in Detaches THEN "gone" ELSE "waits"]
  BY <1>5 DEF Queued
<1>9. CASE r \in Detaches
  <2>1. Owners(p.owner) = Owners(queue.owner)
    BY <1>1, <1>8, <1>9, OwnersOfDetach
  <2>2. \/ Owners(queue.owner)' = Owners(queue.owner) /\ Mode' = Mode
        \/ Mode = "works" /\ Service!Stop(Owners(queue.owner), "stopped")
    BY <1>3, <1>7, <1>8, <2>1, GoesMaps
  <2>3. Mode = "works" /\ Service!Stop(Owners(queue.owner), "stopped") => Service!Break
    BY DEF Service!Break, Mode, Owners
  <2> QED
    BY <1>6, <2>2, <2>3 DEF Serves, Service!Next
<1>10. CASE r \in Files \cup Attaches
  <2>1. r \notin Detaches
    BY <1>10, RequestKinds
  <2>2. Owners(p.owner) = [Owners(queue.owner) EXCEPT ![r] = "waits"]
    BY <1>1, <1>8, <1>10, <2>1, OwnersOfOther
  <2>3. Service!Change(r, "waits")
    BY <1>3, <1>7, <1>8, <1>10, <2>2, ChangeMaps
  <2>4. Mode # "destroyed" /\ Owners(queue.owner)[r] = "idle"
    BY <1>3, <1>10, <2>1 DEF Mode, Owners
  <2>5. Service!Accept(r)
    BY <2>3, <2>4 DEF Service!Accept, Mode, Owners
  <2> QED
    BY <1>6, <1>10, <2>5 DEF Serves, Service!Next
<1> QED
  BY <1>9, <1>10 DEF Req

LEMMA OwnerCancelsKeeps ==
    ASSUME Inv, NEW r \in Req, OwnerCancels(r), UNCHANGED <<worker, caps, faults>>
    PROVE  Inv' /\ Serves
<1> DEFINE u == GivenUp(queue, r)
<1>1. queue \in QueueType /\ Sound(queue) /\ queue.out = <<>>
  BY DEF Inv, Sound, QueueOK
<1>2. queue.owner[r] = "waits" /\ ~queue.deleted /\ UNCHANGED <<nextId, fromWorker>>
  BY DEF OwnerCancels
<1>3. Become(u)
  BY DEF OwnerCancels, GivenUp
<1>4. /\ Sound(u) /\ u.shutting = queue.shutting /\ u.deleted = queue.deleted /\ u.id = queue.id
      /\ u.owner = [queue.owner EXCEPT ![r] = "gone"]
  <2>1. GaveUp(queue, r, u)
    BY <1>1, <1>2, GiveUpSound
  <2> HIDE DEF u
  <2> QED
    BY <2>1 DEF GaveUp
<1> HIDE DEF u
<1>5. Inv'
  <2>1. IdsMove(queue.id, nextId, u.id, nextId') /\ nextId' \in 1..MaxId + 1
    BY <1>2, <1>4, MaxIdIsNat DEF Inv, IdsMove
  <2>2. fromWorker' \in Seq(WorkerMsg) /\ From(fromWorker', fromWorker)
    BY <1>2 DEF Inv, PipeTypeOK, From
  <2> QED
    BY <1>3, <1>4, <2>1, <2>2, BecomeKeeps
<1>6. queue'.owner = u.owner /\ queue'.shutting = u.shutting /\ queue'.deleted = u.deleted
  BY <1>3, <1>4, EmptiedSound DEF Become, Emptied
<1>7. r \in Files \cup Attaches
  BY <1>1, <1>2 DEF Sound, QueueOK, OwnersOK, Req
<1>8. Service!GiveUp(r)
  <2>1. Owners(queue.owner)' = [Owners(queue.owner) EXCEPT ![r] = "gone"]
    <3>1. Owners(u.owner) = [Owners(queue.owner) EXCEPT ![r] = "gone"]
      <4>1. Owners([queue.owner EXCEPT ![r] = "gone"]) = [Owners(queue.owner) EXCEPT ![r] = "gone"]
        BY <1>1, <1>7, OwnersOfOther
      <4> QED
        BY <1>4, <4>1
    <3> QED
      BY <1>6, <3>1 DEF Owners
  <2>2. Mode' = Mode /\ Mode # "destroyed" /\ Owners(queue.owner)[r] = "waits"
    BY <1>2, <1>4, <1>6, <1>7 DEF Mode, Owners
  <2> QED
    BY <2>1, <2>2 DEF Service!GiveUp, Mode, Owners
<1> QED
  BY <1>5, <1>7, <1>8 DEF Serves, Service!Next

LEMMA WriteFailsKeeps ==
    ASSUME Inv, WriteFails, UNCHANGED <<worker, caps, faults>>
    PROVE  Inv' /\ Serves
<1>1. queue \in QueueType /\ Sound(queue) /\ queue.out = <<>>
  BY DEF Inv, Sound, QueueOK
<1>2. /\ queue' = [queue EXCEPT !.canWrite = FALSE] /\ ~alive
      /\ UNCHANGED <<nextId, toWorker, fromWorker, alive>>
  BY DEF WriteFails
<1>3. /\ queue'.wait = queue.wait /\ queue'.active = queue.active /\ queue'.id = queue.id
      /\ queue'.shutting = queue.shutting /\ queue'.canWrite = FALSE
      /\ queue'.deleted = queue.deleted
      /\ queue'.out = queue.out /\ queue'.told = queue.told /\ queue'.owner = queue.owner
  BY <1>1, <1>2 DEF QueueType
<1>4. queue' \in QueueType
  BY <1>1, <1>2 DEF QueueType
<1>5. Sound(queue)'
  BY <1>1, <1>3, <1>4 DEF Sound, QueueOK, OwnersOK, DetachesOK, StopOK, OutOK, Lost, HeldBy,
                         Downloading
<1>6. MessagesOK(queue.id, nextId, worker, toWorker, fromWorker)'
  BY <1>2, <1>3 DEF Inv, MessagesOK
<1>7. Inv'
  BY <1>1, <1>2, <1>3, <1>5, <1>6 DEF Inv, PipeTypeOK, AsksOK, Downloading
<1>8. Serves
  BY <1>3 DEF Serves, Owners, Mode
<1> QED
  BY <1>7, <1>8

LEMMA ShutdownKeeps ==
    ASSUME Inv, NEW s, Sound(s), s.id = queue.id, Become(s), UNCHANGED <<nextId, fromWorker>>,
           UNCHANGED <<worker, caps, faults>>
    PROVE  Inv'
<1>1. IdsMove(queue.id, nextId, s.id, nextId') /\ nextId' \in 1..MaxId + 1
  BY MaxIdIsNat DEF Inv, IdsMove
<1>2. fromWorker' \in Seq(WorkerMsg) /\ From(fromWorker', fromWorker)
  BY DEF Inv, PipeTypeOK, From
<1> QED
  BY <1>1, <1>2, BecomeKeeps

LEMMA ProcFinishedKeeps ==
    ASSUME Inv, ProcFinished, UNCHANGED <<worker, caps, faults>>
    PROVE  Inv' /\ Serves
<1> DEFINE s == ImmediateShutdown(queue)
<1>1. Sound(queue) /\ QueueOK(queue)
  BY DEF Inv, Sound
<1>2. Become(s) /\ UNCHANGED <<nextId, fromWorker>> /\ ~queue.shutting /\ ~queue.deleted
  BY <1>1 DEF ProcFinished, QueueOK, StopOK
<1>3. Sound(s) /\ s.id = queue.id /\ Goes(queue, s)
  BY <1>1, <1>2, ShutdownStops DEF Goes
<1> HIDE DEF s
<1>4. Inv'
  BY <1>2, <1>3, ShutdownKeeps
<1>5. Goes(queue, queue')
  BY <1>2, <1>3, GoesBecome
<1>6. Serves
  BY <1>2, <1>5, QuietServes
<1> QED
  BY <1>4, <1>6

LEMMA DestroyKeeps ==
    ASSUME Inv, Destroy, UNCHANGED <<worker, caps, faults>>
    PROVE  Inv' /\ Serves
<1> DEFINE t == ImmediateShutdown(queue)
           s == [t EXCEPT !.deleted = TRUE]
<1>1. Sound(queue) /\ QueueOK(queue)
  BY DEF Inv, Sound
<1>2. Become(s) /\ UNCHANGED <<nextId, fromWorker>> /\ ~queue.deleted
  BY DEF Destroy
<1>3. Sound(t) /\ t.id = queue.id /\ t.shutting /\ Stops(queue.owner, t.owner) /\ t \in QueueType
  BY <1>1, ShutdownStops DEF Sound, QueueOK
<1> HIDE DEF t
<1>4. /\ s.wait = t.wait /\ s.active = t.active /\ s.id = t.id /\ s.shutting = t.shutting
      /\ s.canWrite = t.canWrite /\ s.deleted = TRUE /\ s.out = t.out /\ s.told = t.told
      /\ s.owner = t.owner
  BY <1>3 DEF QueueType
<1>5. s \in QueueType
  BY <1>3 DEF QueueType
<1> HIDE DEF s
<1>6. Sound(s)
  BY <1>3, <1>4, <1>5 DEF Sound, QueueOK, OwnersOK, DetachesOK, StopOK, OutOK, Lost, HeldBy
<1>7. Inv'
  BY <1>2, <1>3, <1>4, <1>6, ShutdownKeeps
<1>8. queue'.owner = s.owner /\ queue'.deleted = TRUE
  BY <1>2, <1>4, <1>6, EmptiedSound DEF Become, Emptied
<1>9. Service!Destroy
  <2>1. Mode' = "destroyed" /\ Mode # "destroyed"
    BY <1>2, <1>8 DEF Mode
  <2>2. Service!Stop(Owners(queue.owner), "destroyed")
    BY <1>3, <1>4, <1>8, <2>1, StopMaps
  <2> QED
    BY <2>1, <2>2 DEF Service!Destroy, Mode, Owners
<1> QED
  BY <1>7, <1>9 DEF Serves, Service!Next

\* A final message: the request of the active item i has got its result.
LEMMA HandleFinalKeeps ==
    ASSUME Inv, ~queue.deleted, NEW i \in DOMAIN queue.active, queue.active[i] # None,
           NEW m, HandleFinal(m, i), nextId' = nextId,
           fromWorker' \in Seq(WorkerMsg), From(fromWorker', fromWorker),
           UNCHANGED <<worker, caps, faults>>
    PROVE  Inv' /\ Serves
<1>1. queue \in QueueType /\ Sound(queue) /\ queue.out = <<>>
  BY DEF Inv, Sound, QueueOK
<1>2. PICK r \in Req : r = queue.active[i] /\ r \in HeldBy(queue)
  BY <1>1, HeldIsRequest
<1>3. nextId' \in 1..MaxId + 1
  BY DEF Inv
<1>4. queue.id \in [Req -> Nat]
  BY <1>1, IdsAreNat
<1>5. ASSUME Become(FinishActive(queue, i)) PROVE Inv' /\ Serves
  <2> DEFINE s == FinishActive(queue, i)
  <2>1. PICK u : /\ TakenOut(queue, r, u) /\ Sound(u)
                 /\ u.owner[r] = IF queue.owner[r] = "waits" THEN "idle" ELSE queue.owner[r]
                 /\ Goes(u, s)
    BY <1>1, <1>2, FinishGoes
  <2>2. Become(s)
    BY <1>5
  <2> HIDE DEF s
  <2>3. Sound(s) /\ s.id = queue.id
    BY <2>1 DEF Goes, TakenOut
  <2>4. IdsMove(queue.id, nextId, s.id, nextId')
    BY <2>3, <1>3 DEF IdsMove
  <2>5. Inv'
    BY <1>3, <2>2, <2>3, <2>4, BecomeKeeps
  <2>6. Goes(u, queue')
    BY <2>1, <2>2, GoesBecome
  <2>7. u.shutting = queue.shutting /\ u.deleted = queue.deleted
    BY <2>1 DEF TakenOut
  <2>8. u.owner \in [Req -> {"idle", "waits", "gone"}]
        /\ queue.owner \in [Req -> {"idle", "waits", "gone"}]
        /\ \A t \in Req : t # r => u.owner[t] = queue.owner[t]
    BY <1>1, <2>1 DEF Sound, QueueOK, QueueType, TakenOut
  <2>9. CASE queue.owner[r] = "waits"
    <3>1. u.owner = [queue.owner EXCEPT ![r] = "idle"]
      BY <1>2, <2>1, <2>8, <2>9
    <3>2. r \in Files \cup Attaches
      BY <1>1, <1>2, <2>9 DEF Sound, QueueOK, OwnersOK, Req
    <3>3. ~queue.shutting
      BY <1>1, <1>2, <3>2, RequestKinds DEF Sound, QueueOK, StopOK
    <3>4. Owners(u.owner) = [Owners(queue.owner) EXCEPT ![r] = "idle"]
      <4>1. Owners([queue.owner EXCEPT ![r] = "idle"]) = [Owners(queue.owner) EXCEPT ![r] = "idle"]
        BY <1>1, <3>2, OwnersOfOther
      <4> QED
        BY <3>1, <4>1
    <3>5. Service!Change(r, "idle")
      BY <2>6, <2>7, <3>2, <3>4, ChangeMaps
    <3>6. Mode = "works" /\ Owners(queue.owner)[r] = "waits"
      BY <2>9, <3>2, <3>3 DEF Mode, Owners
    <3>7. Service!Answer(r)
      BY <3>5, <3>6 DEF Service!Answer, Mode, Owners
    <3> QED
      BY <2>5, <3>2, <3>7 DEF Serves, Service!Next
  <2>10. CASE queue.owner[r] # "waits"
    <3>1. u.owner = queue.owner
      BY <1>2, <2>1, <2>8, <2>10
    <3>2. Goes(queue, queue')
      BY <2>1, <2>6, <3>1 DEF Goes, TakenOut
    <3> QED
      BY <2>5, <3>2, QuietServes
  <2> QED
    BY <2>9, <2>10
<1>6. ASSUME Downloading, Become(CacheMiss(queue, i)) PROVE Inv' /\ Serves
  <2> DEFINE s == CacheMiss(queue, i)
  <2>1. /\ Sound(s) /\ s.deleted = queue.deleted /\ s.id = [queue.id EXCEPT ![r] = InvalidId]
        /\ \/ s.shutting = queue.shutting /\ s.owner = queue.owner
           \/ ~queue.shutting /\ s.shutting /\ Stops(queue.owner, s.owner)
    BY <1>1, <1>2, <1>6, CacheMissGoes
  <2>2. Become(s)
    BY <1>6
  <2> HIDE DEF s
  <2>3. IdsMove(queue.id, nextId, s.id, nextId')
    BY <1>2, <1>3, <1>4, <2>1 DEF IdsMove, Inv
  <2>4. Inv'
    BY <1>3, <2>1, <2>2, <2>3, BecomeKeeps
  <2>5. queue'.owner = s.owner /\ queue'.shutting = s.shutting /\ queue'.deleted = s.deleted
    BY <2>1, <2>2, EmptiedSound DEF Become, Emptied
  <2>6. CASE s.shutting = queue.shutting /\ s.owner = queue.owner
    BY <2>1, <2>4, <2>5, <2>6 DEF Serves, Owners, Mode
  <2>7. CASE ~queue.shutting /\ s.shutting /\ Stops(queue.owner, s.owner)
    <3>1. Mode = "works" /\ Mode' = "stopped"
      BY <2>1, <2>5, <2>7 DEF Mode
    <3>2. Service!Stop(Owners(queue.owner), "stopped")
      BY <2>5, <2>7, <3>1, StopMaps
    <3>3. Service!Break
      BY <3>1, <3>2 DEF Service!Break, Mode, Owners
    <3> QED
      BY <2>4, <3>3 DEF Serves, Service!Next
  <2> QED
    BY <2>1, <2>6, <2>7
<1> QED
  BY <1>5, <1>6 DEF HandleFinal

\* A question about the active item i is answered.
LEMMA HandleAskKeeps ==
    ASSUME Inv, ~queue.deleted, NEW i \in DOMAIN queue.active, queue.active[i] # None,
           NEW m, HandleAsk(m, i), nextId' = nextId, ~queue.shutting,
           fromWorker' \in Seq(WorkerMsg), From(fromWorker', fromWorker),
           UNCHANGED <<worker, caps, faults>>
    PROVE  Inv' /\ Serves
<1> DEFINE r == queue.active[i]
<1>1. queue \in QueueType /\ Sound(queue) /\ queue.out = <<>>
  BY DEF Inv, Sound, QueueOK
<1>2. r \in Req /\ r \in HeldBy(queue)
  BY <1>1, HeldIsRequest
<1>3. PICK k \in {"Granted", "Refused"} : Become(SendOrShutdown(queue, Msg(k, queue.id[r], r)))
  BY DEF HandleAsk
<1> DEFINE a == Msg(k, queue.id[r], r)
           s == SendOrShutdown(queue, a)
<1>4. a \in ControllerMsg /\ a.id = queue.id[a.req] /\ a.req = r
  BY <1>1, <1>2 DEF Msg, ControllerMsg, QueueType
<1>5. Downloading => a.req \notin Detaches
  BY <1>1, <1>2, <1>4 DEF Sound, QueueOK, DetachesOK
<1>6. Become(s)
  BY <1>3
<1> HIDE DEF a
<1>7. Goes(queue, s)
  BY <1>1, <1>4, <1>5, SendGoes
<1> HIDE DEF s
<1>8. Sound(s) /\ IdsMove(queue.id, nextId, s.id, nextId') /\ nextId' \in 1..MaxId + 1
  BY <1>7 DEF Goes, IdsMove, Inv
<1>9. Inv'
  BY <1>6, <1>8, BecomeKeeps
<1>10. Goes(queue, queue')
  BY <1>6, <1>7, GoesBecome
<1> QED
  BY <1>9, <1>10, QuietServes

LEMMA ProcessMessageKeeps ==
    ASSUME Inv, ProcessMessage, UNCHANGED <<worker, caps, faults>>
    PROVE  Inv' /\ Serves
<1> DEFINE m == Head(fromWorker)
           i == GetRequest(queue, m.id)
<1>1. queue \in QueueType /\ Sound(queue) /\ fromWorker \in Seq(WorkerMsg)
  BY DEF Inv, Sound, QueueOK, PipeTypeOK
<1>2. /\ ~queue.deleted /\ nextId' = nextId /\ fromWorker # <<>>
      /\ fromWorker' = Tail(fromWorker)
  BY DEF ProcessMessage
<1>3. /\ fromWorker' \in Seq(WorkerMsg) /\ From(fromWorker', fromWorker)
      /\ m \in WorkerMsg /\ m = fromWorker[1] /\ 1 \in DOMAIN fromWorker
  BY <1>1, <1>2, TailFrom
<1>4. \/ i = 0
      \/ /\ i \in DOMAIN queue.active
         /\ queue.active[i] # None /\ queue.id[queue.active[i]] = m.id
  BY <1>1, RequestFound
<1>5. \/ i = 0 /\ UNCHANGED <<queue, alive, toWorker>>
      \/ i # 0 /\ m.kind \in FinalKinds /\ HandleFinal(m, i)
      \/ i # 0 /\ m.kind \notin FinalKinds /\ HandleAsk(m, i)
  BY DEF ProcessMessage
<1> HIDE DEF i
<1>6. CASE UNCHANGED <<queue, alive, toWorker>>
  <2>1. Sound(queue)'
    BY <1>1, <1>6 DEF Sound, QueueOK, OwnersOK, DetachesOK, StopOK, OutOK, Lost, HeldBy,
                      Downloading
  <2>2. MessagesOK(queue.id, nextId, worker, toWorker, fromWorker)'
    BY <1>2, <1>3, <1>6 DEF Inv, MessagesOK, From
  <2>3. AsksOK(fromWorker)'
    BY <1>3 DEF Inv, AsksOK, From, Downloading
  <2>4. Inv'
    BY <1>2, <1>3, <1>6, <2>1, <2>2, <2>3 DEF Inv, PipeTypeOK
  <2> QED
    BY <1>6, <2>4 DEF Serves, Owners, Mode
<1>7. CASE i # 0 /\ m.kind \in FinalKinds /\ HandleFinal(m, i)
  BY <1>2, <1>3, <1>4, <1>7, HandleFinalKeeps
<1>8. CASE i # 0 /\ m.kind \notin FinalKinds /\ HandleAsk(m, i)
  <2> DEFINE r == queue.active[i]
  <2>1. i \in DOMAIN queue.active /\ r # None /\ queue.id[r] = m.id /\ r \in Req /\ r \in HeldBy(queue)
    BY <1>1, <1>4, <1>8, HeldIsRequest
  <2>2. m.kind = "Ask"
    BY <1>3, <1>8 DEF WorkerMsg
  <2>3. Downloading \/ m.req \in Attaches
    BY <1>3, <2>2 DEF Inv, AsksOK
  <2>4. Known(m, queue.id, nextId)
    BY <1>3 DEF Inv, MessagesOK
  <2>5. r \notin Detaches
    <3>1. SUFFICES ASSUME r \in Detaches PROVE FALSE
      OBVIOUS
    <3>2. queue.id[r] # InvalidId /\ ~Downloading
      BY <1>1, <2>1, <3>1 DEF Sound, QueueOK, DetachesOK
    <3>3. r = m.req
      BY <2>1, <2>4, <3>2 DEF Known
    <3> QED
      BY <2>3, <3>1, <3>2, <3>3, RequestKinds
  <2>6. ~queue.shutting
    BY <1>1, <2>1, <2>5 DEF Sound, QueueOK, StopOK
  <2> QED
    BY <1>2, <1>3, <1>8, <2>1, <2>6, HandleAskKeeps
<1> QED
  BY <1>5, <1>6, <1>7, <1>8

LEMMA QueueNextKeeps ==
    ASSUME Inv, QueueNext, UNCHANGED <<worker, caps, faults>>
    PROVE  Inv' /\ Serves
  BY EnqueueKeeps, OwnerCancelsKeeps, ProcessMessageKeeps, WriteFailsKeeps, ProcFinishedKeeps,
     DestroyKeeps DEF QueueNext

-----------------------------------------------------------------------------
(* The theorems.                                                            *)

LEMMA InvInit == Init => Inv
<1> SUFFICES ASSUME Init PROVE Inv
  OBVIOUS
<1> USE DEF Init, QueueInit, WorkerInit, PipeInit
<1>1. /\ queue.wait = <<>> /\ queue.active = <<>> /\ queue.out = <<>>
      /\ queue.shutting = FALSE /\ queue.canWrite = TRUE /\ queue.deleted = FALSE
      /\ \A r \in Req : /\ queue.id[r] = InvalidId /\ queue.told[r] = 0
                        /\ queue.owner[r] = IF r \in Detaches THEN "gone" ELSE "idle"
  OBVIOUS
<1>2. queue \in QueueType
  <2>1. /\ [r \in Req |-> InvalidId] \in [Req -> Id]
        /\ [r \in Req |-> FALSE] \in [Req -> BOOLEAN]
        /\ [r \in Req |-> IF r \in Detaches THEN "gone" ELSE "idle"]
              \in [Req -> {"idle", "waits", "gone"}]
        /\ [r \in Req |-> 0] \in [Req -> Nat]
    BY MaxIdIsNat DEF Id, InvalidId
  <2>2. <<>> \in Seq(Req) /\ <<>> \in Seq(Req \cup {None}) /\ <<>> \in Seq(ControllerMsg)
    OBVIOUS
  <2> QED
    BY <2>1, <2>2 DEF QueueType
<1>3. Lists(queue.wait, queue.active) /\ HeldBy(queue) = {}
  BY <1>1 DEF Lists, Unique, HeldBy, InLists, ToSet
<1>4. OwnersOK(queue)
  BY <1>1, <1>3 DEF OwnersOK
<1>5. DetachesOK(queue) /\ StopOK(queue) /\ OutOK(queue) /\ Lost(queue) = {}
  BY <1>1, <1>3 DEF DetachesOK, StopOK, OutOK, Lost
<1>6. Sound(queue)
  BY <1>2, <1>3, <1>4, <1>5 DEF Sound, QueueOK
<1>7. nextId \in 1..MaxId + 1 /\ IdsOK(queue.id, nextId)
  BY <1>1, MaxIdIsNat DEF IdsOK, InvalidId
<1>8. worker \in WorkerStateType
  <2>1. <<>> \in Seq(ItemType)
    OBVIOUS
  <2> QED
    BY <2>1 DEF WorkerStateType
<1>9. PipeTypeOK /\ AsksOK(fromWorker)
  BY DEF PipeTypeOK, AsksOK
<1>10. MessagesOK(queue.id, nextId, worker, toWorker, fromWorker)
  <2>1. Known(NoItem, queue.id, nextId)
    BY DEF Known, NoItem, InvalidId
  <2> QED
    BY <2>1 DEF MessagesOK
<1> QED
  BY <1>1, <1>6, <1>7, <1>8, <1>9, <1>10 DEF Inv

LEMMA InvStep == Inv /\ [Next]_vars => Inv' /\ Serves
<1> SUFFICES ASSUME Inv, [Next]_vars PROVE Inv' /\ Serves
  OBVIOUS
<1>1. CASE QueueNext /\ UNCHANGED <<worker, caps, faults>>
  BY <1>1, QueueNextKeeps
<1>2. CASE WorkerNext /\ UNCHANGED <<queueVars, caps, faults>>
  BY <1>2, WorkerNextKeeps DEF Serves, Owners, Mode, queueVars
<1>3. CASE UNCHANGED vars
  <2>1. Sound(queue)'
    BY <1>3 DEF vars, pipeVars, Inv, Sound, QueueOK, OwnersOK, DetachesOK, StopOK, OutOK, Lost,
                HeldBy, Downloading
  <2>2. Inv'
    BY <1>3, <2>1 DEF vars, pipeVars, Inv, PipeTypeOK, MessagesOK, AsksOK, Downloading
  <2> QED
    BY <1>3, <2>2 DEF vars, Serves, Owners, Mode
<1> QED
  BY <1>1, <1>2, <1>3 DEF Next

LEMMA Invariance == Spec => []Inv
<1>1. Inv /\ [Next]_vars => Inv'
  BY InvStep
<1> QED
  BY InvInit, <1>1, PTL DEF Spec

\* The queue, the worker and the pipes between them only take the values of
\* their types, through every order of answers, cancellations and deaths.
THEOREM ChannelTypeCorrect == Spec => []TypeOK
<1>1. Inv => TypeOK
  BY DEF Inv, Sound, QueueOK, TypeOK
<1> QED
  BY <1>1, Invariance, PTL

\* finishReq() is called at most once for each enqueued request.
THEOREM OwnersAreToldOnce == Spec => []ToldAtMostOnce
<1>1. Inv => ToldAtMostOnce
  BY DEF Inv, Sound, QueueOK, OwnersOK, ToldAtMostOnce
<1> QED
  BY <1>1, Invariance, PTL

\* As long as the queue is not shut down it holds every request whose owner
\* waits, and it never holds a request twice.
THEOREM WaitingIsKept == Spec => []WaitingIsHeld
<1>1. Inv => WaitingIsHeld
  <2> SUFFICES ASSUME Inv PROVE WaitingIsHeld
    OBVIOUS
  <2> DEFINE w == queue.wait
             a == queue.active
             all == w \o a
  <2>1. Sound(queue) /\ Lists(w, a)
    BY DEF Inv, Sound, QueueOK
  <2>2. \A r \in Req : queue.owner[r] = "waits" => r \in Held \/ queue.shutting
    BY <2>1 DEF Sound, Lost, HeldBy, InLists, Held
  <2>3. /\ w \in Seq(Req \cup {None}) /\ a \in Seq(Req \cup {None})
        /\ Len(w) \in Nat /\ Len(a) \in Nat /\ DOMAIN w = 1..Len(w) /\ DOMAIN a = 1..Len(a)
    BY <2>1 DEF Lists
  <2> HIDE DEF w, a
  <2>4. /\ all \in Seq(Req \cup {None}) /\ Len(all) = Len(w) + Len(a)
        /\ \A k \in 1..Len(w) + Len(a) : all[k] = IF k <= Len(w) THEN w[k] ELSE a[k - Len(w)]
    BY <2>3, Joined
  <2> HIDE DEF all
  <2>5. \A k \in DOMAIN all : \/ k \in DOMAIN w /\ all[k] = w[k]
                              \/ /\ k - Len(w) \in DOMAIN a /\ k \in Nat
                                 /\ all[k] = a[k - Len(w)]
    <3> TAKE k \in DOMAIN all
    <3>1. k \in 1..Len(w) + Len(a) /\ k \in Nat
      BY <2>3, <2>4
    <3>2. CASE k <= Len(w)
      <4>1. k \in DOMAIN w
        BY <2>3, <3>1, <3>2
      <4> QED
        BY <2>4, <3>1, <3>2, <4>1
    <3>3. CASE ~(k <= Len(w))
      <4>1. k - Len(w) \in DOMAIN a
        BY <2>3, <3>1, <3>3
      <4> QED
        BY <2>4, <3>1, <3>3, <4>1
    <3> QED
      BY <3>2, <3>3
  <2>6. ASSUME NEW i \in DOMAIN all, NEW j \in DOMAIN all, all[i] = all[j], all[i] # None
        PROVE  i = j
    <3>1. CASE i \in DOMAIN w /\ all[i] = w[i] /\ j \in DOMAIN w /\ all[j] = w[j]
      BY <2>1, <2>6, <3>1 DEF Lists, Unique
    <3>2. CASE /\ i - Len(w) \in DOMAIN a /\ i \in Nat /\ all[i] = a[i - Len(w)]
               /\ j - Len(w) \in DOMAIN a /\ j \in Nat /\ all[j] = a[j - Len(w)]
      <4>1. i - Len(w) = j - Len(w)
        BY <2>1, <2>6, <3>2 DEF Lists, Unique
      <4> QED
        BY <2>3, <3>2, <4>1
    <3>3. CASE /\ i \in DOMAIN w /\ all[i] = w[i]
               /\ j - Len(w) \in DOMAIN a /\ all[j] = a[j - Len(w)]
      BY <2>1, <2>6, <3>3 DEF Lists, Unique
    <3>4. CASE /\ j \in DOMAIN w /\ all[j] = w[j]
               /\ i - Len(w) \in DOMAIN a /\ all[i] = a[i - Len(w)]
      BY <2>1, <2>6, <3>4 DEF Lists, Unique
    <3> QED
      BY <2>5, <3>1, <3>2, <3>3, <3>4
  <2> QED
    BY <2>2, <2>6 DEF WaitingIsHeld, all, w, a
<1> QED
  BY <1>1, Invariance, PTL

\* A queue with its worker is the service of ProvideService: it starts like it,
\* and each step of the two processes is a step of it or is not seen.
THEOREM QueueServesOwners == Spec => ImplementsService
<1>1. Init => Service!Init
  BY RequestKinds DEF Init, QueueInit, Service!Init, Req
<1>2. Inv /\ [Next]_vars => [Service!Next]_<<Owners(queue.owner), Mode>>
  BY InvStep DEF Serves
<1>3. Inv /\ [Next]_vars =>
        [Service!Next]_<<[r \in Files \cup Attaches |-> queue.owner[r]],
                         IF queue.deleted THEN "destroyed"
                         ELSE IF queue.shutting THEN "stopped" ELSE "works">>
  BY <1>2 DEF Owners, Mode
<1> QED
  BY <1>1, <1>3, Invariance, PTL DEF Spec, ImplementsService, Service!Spec

-----------------------------------------------------------------------------
(* What is under way between a working queue and its worker.                *)

RequestIn(tw, i) == \E k \in DOMAIN tw : tw[k].kind = "Request" /\ tw[k].id = i
ItemIn(its, i) == \E k \in DOMAIN its : its[k].id = i
AskedIn(w, i) == ~Downloading /\ w.asking.id = i
FinalIn(fw, i) == \E k \in DOMAIN fw : fw[k].kind \in FinalKinds /\ fw[k].id = i
CancelIn(tw, i) == \E k \in DOMAIN tw : tw[k].kind = "Cancel" /\ tw[k].id = i
AnswerIn(tw) == \E k \in DOMAIN tw : IsAnswer(tw[k])
AskIn(fw) == \E k \in DOMAIN fw : fw[k].kind = "Ask"

OneRequest(tw, i) ==
    \A j, k \in DOMAIN tw :
        (tw[j].kind = "Request" /\ tw[j].id = i /\ tw[k].kind = "Request" /\ tw[k].id = i)
            => j = k
OneItem(its, i) == \A j, k \in DOMAIN its : its[j].id = i /\ its[k].id = i => j = k
OneAnswer(tw) == \A j, k \in DOMAIN tw : IsAnswer(tw[j]) /\ IsAnswer(tw[k]) => j = k

\* An id is in one place at most: to be read, at work, asked about or answered.
OnePlace(i, w, tw, fw) ==
    /\ OneRequest(tw, i) /\ OneItem(w.items, i)
    /\ RequestIn(tw, i) => ~ItemIn(w.items, i) /\ ~AskedIn(w, i) /\ ~FinalIn(fw, i)
    /\ ItemIn(w.items, i) => ~AskedIn(w, i) /\ ~FinalIn(fw, i)
    /\ AskedIn(w, i) => ~FinalIn(fw, i)

UnderWay(i, w, tw, fw) ==
    RequestIn(tw, i) \/ ItemIn(w.items, i) \/ AskedIn(w, i) \/ FinalIn(fw, i)

\* An active request is under way, a waiting one is not, and none of them has
\* been cancelled under its present id.
RequestsOK(i, q, w, tw, fw) ==
    \A r \in Req : q.id[r] = i =>
        /\ r \in ToSet(q.wait) => ~UnderWay(i, w, tw, fw)
        /\ r \in ToSet(q.active) => UnderWay(i, w, tw, fw)
        /\ r \in HeldBy(q) => ~CancelIn(tw, i)

FlowOK(q, w, tw, fw) ==
    /\ \A i \in Id \ {InvalidId} : OnePlace(i, w, tw, fw) /\ RequestsOK(i, q, w, tw, fw)
    /\ Downloading /\ w.asking # NoItem => ItemIn(w.items, w.asking.id)

\* A question is the last message of a blocked worker, it is answered once; if
\* it was dropped, no active request has its id.
QuestionOK(q, w, tw, fw) ==
    /\ w.asking = NoItem => ~AskIn(fw) /\ ~AnswerIn(tw)
    /\ \A k \in DOMAIN fw : fw[k].kind = "Ask" => k = Len(fw) /\ fw[k].id = w.asking.id
    /\ AskIn(fw) => ~AnswerIn(tw)
    /\ OneAnswer(tw)
    /\ w.asking # NoItem /\ ~AskIn(fw) /\ ~AnswerIn(tw) =>
          /\ fw = <<>>
          /\ \A r \in ToSet(q.active) \ {None} : q.id[r] # w.asking.id

\* A queue that is not shut down has sent what it may send.
Idle(q) == q.canWrite /\ ~q.shutting /\ ~CanScheduleMore(q)

Flows ==
    /\ Idle(queue)
    /\ FlowOK(queue, worker, toWorker, fromWorker)
    /\ QuestionOK(queue, worker, toWorker, fromWorker)

LiveInv == alive => Flows

-----------------------------------------------------------------------------
(* A sequence loses an element, or gets new ones.                           *)

Without(t, s, i) ==
    /\ i \in DOMAIN s
    /\ \E g \in [DOMAIN t -> DOMAIN s] :
          /\ \A k \in DOMAIN t : t[k] = s[g[k]] /\ g[k] # i
          /\ \A j, k \in DOMAIN t : g[j] = g[k] => j = k
          /\ \A l \in DOMAIN s \ {i} : \E k \in DOMAIN t : g[k] = l

Grown(t, s, X) ==
    /\ \A k \in DOMAIN s : k \in DOMAIN t /\ t[k] = s[k]
    /\ \A k \in DOMAIN t : k \in DOMAIN s \/ t[k] \in X
    /\ \A x \in X : \E k \in DOMAIN t : t[k] = x

LEMMA RemoveWithout ==
    ASSUME NEW T, NEW s \in Seq(T), NEW i \in DOMAIN s
    PROVE  Without(RemoveAt(s, i), s, i)
<1> DEFINE t == RemoveAt(s, i)
<1>1. /\ t \in Seq(T) /\ Len(t) = Len(s) - 1
      /\ \A k \in 1..Len(s) - 1 : t[k] = IF k < i THEN s[k] ELSE s[k + 1]
  BY Removed
<1> HIDE DEF t
<1>2. Len(s) \in Nat /\ DOMAIN s = 1..Len(s) /\ i \in 1..Len(s) /\ DOMAIN t = 1..Len(s) - 1
  BY <1>1
<1> DEFINE g == [k \in DOMAIN t |-> IF k < i THEN k ELSE k + 1]
<1>3. \A k \in DOMAIN t : g[k] = IF k < i THEN k ELSE k + 1
  OBVIOUS
<1>4. g \in [DOMAIN t -> DOMAIN s]
  BY <1>2
<1> HIDE DEF g
<1>5. \A k \in DOMAIN t : t[k] = s[g[k]] /\ g[k] # i
  BY <1>1, <1>2, <1>3
<1>6. \A j, k \in DOMAIN t : g[j] = g[k] => j = k
  BY <1>2, <1>3
<1>7. ASSUME NEW l \in DOMAIN s \ {i} PROVE \E k \in DOMAIN t : g[k] = l
  <2>1. CASE l < i
    <3>1. l \in DOMAIN t
      BY <2>1, <1>2
    <3> QED
      BY <3>1, <2>1, <1>3
  <2>2. CASE l > i
    <3>1. l - 1 \in DOMAIN t /\ ~(l - 1 < i) /\ l - 1 + 1 = l
      BY <2>2, <1>2
    <3> QED
      BY <3>1, <1>3
  <2> QED
    BY <2>1, <2>2, <1>2
<1> QED
  BY <1>4, <1>5, <1>6, <1>7 DEF Without, t

LEMMA TailWithout ==
    ASSUME NEW T, NEW s \in Seq(T), s # <<>>
    PROVE  Without(Tail(s), s, 1)
<1> DEFINE t == Tail(s)
<1>1. /\ Len(s) \in Nat /\ Len(s) > 0 /\ DOMAIN s = 1..Len(s)
      /\ DOMAIN t = 1..Len(s) - 1
      /\ \A k \in 1..Len(s) - 1 : t[k] = s[k + 1]
  OBVIOUS
<1> HIDE DEF t
<1> DEFINE g == [k \in DOMAIN t |-> k + 1]
<1>2. g \in [DOMAIN t -> DOMAIN s] /\ \A k \in DOMAIN t : g[k] = k + 1 /\ k \in Nat
  BY <1>1
<1> HIDE DEF g
<1>3. \A k \in DOMAIN t : t[k] = s[g[k]] /\ g[k] # 1
  BY <1>1, <1>2
<1>4. \A j, k \in DOMAIN t : g[j] = g[k] => j = k
  BY <1>2
<1>5. ASSUME NEW l \in DOMAIN s \ {1} PROVE \E k \in DOMAIN t : g[k] = l
  <2>1. l - 1 \in DOMAIN t /\ l - 1 + 1 = l
    BY <1>1
  <2> QED
    BY <2>1, <1>2
<1>6. 1 \in DOMAIN s
  BY <1>1
<1> QED
  BY <1>2, <1>3, <1>4, <1>5, <1>6 DEF Without, t

LEMMA JoinGrown ==
    ASSUME NEW T, NEW s \in Seq(T), NEW u \in Seq(T), NEW X, X = {u[k] : k \in DOMAIN u}
    PROVE  Grown(s \o u, s, X)
<1> DEFINE t == s \o u
<1>1. /\ t \in Seq(T) /\ Len(t) = Len(s) + Len(u)
      /\ \A k \in 1..Len(s) + Len(u) : t[k] = IF k <= Len(s) THEN s[k] ELSE u[k - Len(s)]
  BY Joined
<1> HIDE DEF t
<1>2. /\ Len(s) \in Nat /\ Len(u) \in Nat /\ DOMAIN s = 1..Len(s) /\ DOMAIN u = 1..Len(u)
      /\ DOMAIN t = 1..Len(s) + Len(u)
  BY <1>1
<1>3. \A k \in DOMAIN s : k \in DOMAIN t /\ t[k] = s[k]
  BY <1>1, <1>2
<1>4. ASSUME NEW k \in DOMAIN t PROVE k \in DOMAIN s \/ t[k] \in X
  <2>1. CASE k <= Len(s)
    BY <2>1, <1>2
  <2>2. CASE ~(k <= Len(s))
    <3>1. k - Len(s) \in DOMAIN u
      BY <2>2, <1>2
    <3>2. t[k] = u[k - Len(s)]
      BY <2>2, <1>1, <1>2
    <3> QED
      BY <3>1, <3>2
  <2> QED
    BY <2>1, <2>2
<1>5. ASSUME NEW x \in X PROVE \E k \in DOMAIN t : t[k] = x
  <2>1. PICK l \in DOMAIN u : u[l] = x
    OBVIOUS
  <2>2. /\ l + Len(s) \in 1..Len(s) + Len(u) /\ ~(l + Len(s) <= Len(s))
        /\ l + Len(s) - Len(s) = l
    BY <2>1, <1>2
  <2> QED
    BY <2>1, <2>2, <1>1, <1>2
<1> QED
  BY <1>3, <1>4, <1>5 DEF Grown, t

LEMMA AppendGrown ==
    ASSUME NEW T, NEW s \in Seq(T), NEW x \in T
    PROVE  Grown(Append(s, x), s, {x})
<1>1. /\ DOMAIN s = 1..Len(s) /\ Len(s) \in Nat /\ DOMAIN Append(s, x) = 1..Len(s) + 1
      /\ \A k \in 1..Len(s) : Append(s, x)[k] = s[k]
      /\ Append(s, x)[Len(s) + 1] = x
  OBVIOUS
<1> DEFINE t == Append(s, x)
<1>2. t = Append(s, x)
  OBVIOUS
<1> HIDE DEF t
<1>3. \A k \in DOMAIN s : k \in DOMAIN t /\ t[k] = s[k]
  BY <1>1, <1>2
<1>4. \A k \in DOMAIN t : k \in DOMAIN s \/ t[k] \in {x}
  BY <1>1, <1>2
<1>5. Len(s) + 1 \in DOMAIN t /\ t[Len(s) + 1] = x
  BY <1>1, <1>2
<1> QED
  BY <1>2, <1>3, <1>4, <1>5 DEF Grown

LEMMA RequestsWithout ==
    ASSUME NEW t, NEW s, NEW n, Without(t, s, n), NEW i
    PROVE  /\ OneRequest(s, i) => OneRequest(t, i)
           /\ RequestIn(t, i) => RequestIn(s, i)
           /\ ~(s[n].kind = "Request" /\ s[n].id = i) => (RequestIn(t, i) <=> RequestIn(s, i))
           /\ s[n].kind = "Request" /\ s[n].id = i /\ OneRequest(s, i) => ~RequestIn(t, i)
           /\ s[n].kind = "Request" /\ s[n].id = i => RequestIn(s, i)
           /\ CancelIn(t, i) => CancelIn(s, i)
           /\ AnswerIn(t) => AnswerIn(s)
           /\ OneAnswer(s) => OneAnswer(t)
           /\ ~IsAnswer(s[n]) => (AnswerIn(t) <=> AnswerIn(s))
           /\ IsAnswer(s[n]) /\ OneAnswer(s) => ~AnswerIn(t)
<1>1. PICK g \in [DOMAIN t -> DOMAIN s] :
          /\ \A k \in DOMAIN t : t[k] = s[g[k]] /\ g[k] # n
          /\ \A j, k \in DOMAIN t : g[j] = g[k] => j = k
          /\ \A l \in DOMAIN s \ {n} : \E k \in DOMAIN t : g[k] = l
  BY DEF Without
<1>2. n \in DOMAIN s
  BY DEF Without
<1>3. \A k \in DOMAIN t : g[k] \in DOMAIN s
  BY <1>1
<1>4. OneRequest(s, i) => OneRequest(t, i)
  BY <1>1, <1>3 DEF OneRequest
<1>5. RequestIn(t, i) => RequestIn(s, i)
  BY <1>1, <1>3 DEF RequestIn
<1>6. ~(s[n].kind = "Request" /\ s[n].id = i) => (RequestIn(t, i) <=> RequestIn(s, i))
  BY <1>1, <1>3 DEF RequestIn
<1>7. s[n].kind = "Request" /\ s[n].id = i /\ OneRequest(s, i) => ~RequestIn(t, i)
  BY <1>1, <1>2, <1>3 DEF RequestIn, OneRequest
<1>8. CancelIn(t, i) => CancelIn(s, i)
  BY <1>1, <1>3 DEF CancelIn
<1>9. AnswerIn(t) => AnswerIn(s)
  BY <1>1, <1>3 DEF AnswerIn
<1>10. OneAnswer(s) => OneAnswer(t)
  BY <1>1, <1>3 DEF OneAnswer
<1>11. ~IsAnswer(s[n]) => (AnswerIn(t) <=> AnswerIn(s))
  BY <1>1, <1>3 DEF AnswerIn
<1>12. IsAnswer(s[n]) /\ OneAnswer(s) => ~AnswerIn(t)
  BY <1>1, <1>2, <1>3 DEF AnswerIn, OneAnswer
<1>13. s[n].kind = "Request" /\ s[n].id = i => RequestIn(s, i)
  BY <1>2 DEF RequestIn
<1> QED
  BY <1>4, <1>5, <1>6, <1>7, <1>8, <1>9, <1>10, <1>11, <1>12, <1>13

LEMMA ItemsWithout ==
    ASSUME NEW t, NEW s, NEW n, Without(t, s, n), NEW i
    PROVE  /\ OneItem(s, i) => OneItem(t, i)
           /\ s[n].id # i => (ItemIn(t, i) <=> ItemIn(s, i))
           /\ s[n].id = i => ItemIn(s, i)
           /\ s[n].id = i /\ OneItem(s, i) => ~ItemIn(t, i)
<1>1. PICK g \in [DOMAIN t -> DOMAIN s] :
          /\ \A k \in DOMAIN t : t[k] = s[g[k]] /\ g[k] # n
          /\ \A j, k \in DOMAIN t : g[j] = g[k] => j = k
          /\ \A l \in DOMAIN s \ {n} : \E k \in DOMAIN t : g[k] = l
  BY DEF Without
<1>2. n \in DOMAIN s /\ \A k \in DOMAIN t : g[k] \in DOMAIN s
  BY <1>1 DEF Without
<1>3. OneItem(s, i) => OneItem(t, i)
  BY <1>1, <1>2 DEF OneItem
<1>4. s[n].id # i => (ItemIn(t, i) <=> ItemIn(s, i))
  BY <1>1, <1>2 DEF ItemIn
<1>5. s[n].id = i => ItemIn(s, i)
  BY <1>2 DEF ItemIn
<1>6. s[n].id = i /\ OneItem(s, i) => ~ItemIn(t, i)
  BY <1>1, <1>2 DEF ItemIn, OneItem
<1> QED
  BY <1>3, <1>4, <1>5, <1>6

LEMMA FinalsGrown ==
    ASSUME NEW t, NEW s, NEW X, Grown(t, s, X), NEW i
    PROVE  /\ FinalIn(t, i) <=> FinalIn(s, i) \/ \E x \in X : x.kind \in FinalKinds /\ x.id = i
           /\ AskIn(t) <=> AskIn(s) \/ \E x \in X : x.kind = "Ask"
  BY DEF Grown, FinalIn, AskIn

-----------------------------------------------------------------------------
(* Steps of the worker.                                                     *)

LEMMA RequestsStay ==
    ASSUME NEW i, NEW q, NEW w, NEW tw, NEW fw, NEW w2, NEW tw2, NEW fw2,
           RequestsOK(i, q, w, tw, fw),
           UnderWay(i, w2, tw2, fw2) <=> UnderWay(i, w, tw, fw),
           CancelIn(tw2, i) => CancelIn(tw, i)
    PROVE  RequestsOK(i, q, w2, tw2, fw2)
  BY DEF RequestsOK

LEMMA FlowsPrime ==
    ASSUME caps' = caps, Idle(queue'),
           FlowOK(queue', worker', toWorker', fromWorker'),
           QuestionOK(queue', worker', toWorker', fromWorker')
    PROVE  Flows'
<1>1. Idle(queue)'
  BY DEF Idle, CanScheduleMore
<1>2. FlowOK(queue, worker, toWorker, fromWorker)'
  BY DEF FlowOK, OnePlace, RequestsOK, UnderWay, AskedIn, Downloading, RequestIn, ItemIn,
         FinalIn, CancelIn, OneRequest, OneItem, HeldBy
<1>3. QuestionOK(queue, worker, toWorker, fromWorker)'
  BY DEF QuestionOK, AskIn, AnswerIn, OneAnswer, IsAnswer
<1> QED
  BY <1>1, <1>2, <1>3 DEF Flows

LEMMA IdleStays ==
    ASSUME Flows, UNCHANGED <<queueVars, caps>>
    PROVE  Idle(queue') /\ queue' = queue
  BY DEF Flows, Idle, CanScheduleMore, queueVars

\* While nobody asks there are no questions and no answers.
LEMMA FreeQuestion ==
    ASSUME NEW q, NEW w, NEW tw, NEW fw, w.asking = NoItem, ~AskIn(fw), ~AnswerIn(tw)
    PROVE  QuestionOK(q, w, tw, fw)
  BY DEF QuestionOK, AskIn, AnswerIn, OneAnswer

LEMMA FinalMessage ==
    ASSUME NEW k \in FinalKinds, NEW x
    PROVE  /\ Msg(k, x.id, x.req).kind \in FinalKinds /\ Msg(k, x.id, x.req).id = x.id
           /\ Msg(k, x.id, x.req).kind # "Ask"
  BY DEF Msg, FinalKinds

\* The item n has got its result.
LEMMA ItemAnswered ==
    ASSUME NEW q, NEW w, NEW tw, NEW fw, NEW w2, NEW tw2, NEW fw2, NEW n, NEW X,
           NEW i, OnePlace(i, w, tw, fw), RequestsOK(i, q, w, tw, fw),
           Without(w2.items, w.items, n), Grown(fw2, fw, X),
           AskedIn(w2, i) <=> AskedIn(w, i), OneRequest(tw2, i),
           RequestIn(tw2, i) <=> RequestIn(tw, i), CancelIn(tw2, i) => CancelIn(tw, i),
           X # {}, \A x \in X : x.kind \in FinalKinds /\ x.id = w.items[n].id
    PROVE  OnePlace(i, w2, tw2, fw2) /\ RequestsOK(i, q, w2, tw2, fw2)
<1>1. FinalIn(fw2, i) <=> FinalIn(fw, i) \/ w.items[n].id = i
  BY FinalsGrown
<1>2. /\ OneItem(w.items, i) => OneItem(w2.items, i)
      /\ w.items[n].id # i => (ItemIn(w2.items, i) <=> ItemIn(w.items, i))
      /\ w.items[n].id = i => ItemIn(w.items, i)
      /\ w.items[n].id = i /\ OneItem(w.items, i) => ~ItemIn(w2.items, i)
  BY ItemsWithout
<1>3. OnePlace(i, w2, tw2, fw2)
  BY <1>1, <1>2 DEF OnePlace
<1>4. UnderWay(i, w2, tw2, fw2) <=> UnderWay(i, w, tw, fw)
  BY <1>1, <1>2 DEF UnderWay, OnePlace
<1> QED
  BY <1>3, <1>4, RequestsStay

LEMMA ReceiveFlows ==
    ASSUME Inv, Flows, Receive, UNCHANGED <<queueVars, caps, faults>>
    PROVE  Flows'
<1>1. /\ worker \in WorkerStateType /\ worker.items \in Seq(ItemType)
      /\ toWorker \in Seq(ControllerMsg) /\ fromWorker \in Seq(WorkerMsg)
      /\ worker.asking = NoItem /\ toWorker # <<>> /\ toWorker' = Tail(toWorker)
  BY DEF Inv, WorkerStateType, PipeTypeOK, Receive, Free
<1> DEFINE m == Head(toWorker)
           n == FindItem(m.id)
<1>2. Without(toWorker', toWorker, 1) /\ m = toWorker[1]
  BY <1>1, TailWithout
<1>3. Idle(queue') /\ queue' = queue
  BY IdleStays
<1>4. FlowOK(queue, worker, toWorker, fromWorker) /\ ~AskIn(fromWorker) /\ ~AnswerIn(toWorker)
  BY <1>1 DEF Flows, QuestionOK
<1>5. ~AnswerIn(toWorker')
  BY <1>2, <1>4, RequestsWithout
<1>6. \/ /\ m.kind = "Request"
         /\ worker' = [worker EXCEPT !.items = Append(@,
                [id |-> m.id, req |-> m.req, running |-> FALSE, asked |-> FALSE])]
         /\ UNCHANGED fromWorker
      \/ m.kind = "Cancel" /\ n # 0 /\ CancelItem(n)
      \/ (IsAnswer(m) \/ m.kind = "Cancel") /\ UNCHANGED <<worker, fromWorker>>
  BY DEF Receive
<1> HIDE DEF n, m
<1>7. CASE /\ m.kind = "Request"
           /\ worker' = [worker EXCEPT !.items = Append(@,
                [id |-> m.id, req |-> m.req, running |-> FALSE, asked |-> FALSE])]
           /\ UNCHANGED fromWorker
  <2> DEFINE x == [id |-> m.id, req |-> m.req, running |-> FALSE, asked |-> FALSE]
             its == Append(worker.items, x)
  <2>1. worker' = [worker EXCEPT !.items = its] /\ x.id = m.id
    BY <1>7
  <2>2. worker'.items = its /\ worker'.asking = NoItem
    BY <1>1, <2>1 DEF WorkerStateType
  <2>3. /\ DOMAIN its = 1..Len(worker.items) + 1 /\ Len(worker.items) \in Nat
        /\ DOMAIN worker.items = 1..Len(worker.items)
        /\ \A k \in 1..Len(worker.items) : its[k] = worker.items[k]
        /\ its[Len(worker.items) + 1] = x
    BY <1>1
  <2> HIDE DEF its, x
  <2>4. /\ \A k \in DOMAIN worker.items : k \in DOMAIN its /\ its[k] = worker.items[k]
        /\ \A k \in DOMAIN its : k \in DOMAIN worker.items \/ (k = Len(worker.items) + 1 /\ its[k] = x)
        /\ Len(worker.items) + 1 \in DOMAIN its /\ its[Len(worker.items) + 1] = x
    BY <2>3
  <2>5. ASSUME NEW i \in Id \ {InvalidId}
        PROVE  /\ OnePlace(i, worker', toWorker', fromWorker')
               /\ RequestsOK(i, queue, worker', toWorker', fromWorker')
    <3>1. OnePlace(i, worker, toWorker, fromWorker) /\ RequestsOK(i, queue, worker, toWorker, fromWorker)
      BY <1>4 DEF FlowOK
    <3>2. AskedIn(worker', i) <=> AskedIn(worker, i)
      BY <1>1, <2>2 DEF AskedIn
    <3>3. ItemIn(its, i) <=> ItemIn(worker.items, i) \/ m.id = i
      BY <2>1, <2>4 DEF ItemIn
    <3>4. /\ OneRequest(toWorker', i)
          /\ m.id # i => (RequestIn(toWorker', i) <=> RequestIn(toWorker, i))
          /\ m.id = i => RequestIn(toWorker, i) /\ ~RequestIn(toWorker', i)
          /\ CancelIn(toWorker', i) => CancelIn(toWorker, i)
      BY <1>2, <1>7, <3>1, RequestsWithout DEF OnePlace
    <3>5. OneItem(its, i)
      <4>1. CASE m.id = i
        <5>1. ~ItemIn(worker.items, i)
          BY <3>1, <3>4, <4>1 DEF OnePlace
        <5> QED
          BY <5>1, <2>4 DEF OneItem, ItemIn
      <4>2. CASE m.id # i
        BY <2>1, <2>4, <3>1, <4>2 DEF OneItem, OnePlace
      <4> QED
        BY <4>1, <4>2
    <3>6. OnePlace(i, worker', toWorker', fromWorker')
      BY <1>7, <2>2, <3>1, <3>2, <3>3, <3>4, <3>5 DEF OnePlace
    <3>7. UnderWay(i, worker', toWorker', fromWorker') <=> UnderWay(i, worker, toWorker, fromWorker)
      BY <1>7, <2>2, <3>2, <3>3, <3>4 DEF UnderWay
    <3> QED
      BY <3>1, <3>4, <3>6, <3>7, RequestsStay
  <2>6. QuestionOK(queue, worker', toWorker', fromWorker')
    BY <1>4, <1>5, <1>7, <2>2, FreeQuestion
  <2>7. FlowOK(queue, worker', toWorker', fromWorker')
    BY <2>2, <2>5 DEF FlowOK
  <2> QED
    BY <1>3, <2>6, <2>7, FlowsPrime
<1>8. CASE m.kind = "Cancel" /\ n # 0 /\ CancelItem(n)
  <2>1. n \in DOMAIN worker.items /\ worker.items[n].id = m.id
    BY <1>1, <1>8, ItemFound DEF n
  <2>2. worker'.items = RemoveAt(worker.items, n) /\ worker'.asking = NoItem
    BY <1>1, <1>8 DEF CancelItem, WorkerStateType
  <2>3. Without(worker'.items, worker.items, n)
    BY <1>1, <2>1, <2>2, RemoveWithout
  <2>4. ASSUME NEW i PROVE /\ RequestIn(toWorker', i) <=> RequestIn(toWorker, i)
                           /\ OneRequest(toWorker, i) => OneRequest(toWorker', i)
                           /\ CancelIn(toWorker', i) => CancelIn(toWorker, i)
    BY <1>2, <1>8, RequestsWithout
  <2>5. CASE worker.items[n].running
    <3>1. fromWorker' = fromWorker
      BY <1>8, <2>5 DEF CancelItem
    <3>2. ASSUME NEW i \in Id \ {InvalidId}
          PROVE  /\ OnePlace(i, worker', toWorker', fromWorker')
                 /\ RequestsOK(i, queue, worker', toWorker', fromWorker')
      <4>1. OnePlace(i, worker, toWorker, fromWorker)
            /\ RequestsOK(i, queue, worker, toWorker, fromWorker)
        BY <1>4 DEF FlowOK
      <4>2. AskedIn(worker', i) <=> AskedIn(worker, i)
        BY <1>1, <2>2 DEF AskedIn
      <4>3. /\ OneItem(worker.items, i) => OneItem(worker'.items, i)
            /\ worker.items[n].id # i => (ItemIn(worker'.items, i) <=> ItemIn(worker.items, i))
            /\ worker.items[n].id = i => ItemIn(worker.items, i)
            /\ worker.items[n].id = i /\ OneItem(worker.items, i) => ~ItemIn(worker'.items, i)
        BY <2>3, ItemsWithout
      <4>4. OnePlace(i, worker', toWorker', fromWorker')
        BY <2>4, <3>1, <4>1, <4>2, <4>3 DEF OnePlace
      <4>5. CASE m.id # i
        <5>1. UnderWay(i, worker', toWorker', fromWorker')
                 <=> UnderWay(i, worker, toWorker, fromWorker)
          BY <2>1, <2>4, <3>1, <4>2, <4>3, <4>5 DEF UnderWay
        <5> QED
          BY <2>4, <4>1, <4>4, <5>1, RequestsStay
      <4>6. CASE m.id = i
        <5>1. ~UnderWay(i, worker', toWorker', fromWorker')
          BY <2>1, <2>4, <3>1, <4>1, <4>2, <4>3, <4>6 DEF UnderWay, OnePlace
        <5>2. CancelIn(toWorker, i)
          BY <1>2, <1>8, <4>6 DEF CancelIn, Without
        <5>3. \A r \in Req : queue.id[r] = i => r \notin HeldBy(queue)
          BY <4>1, <5>2 DEF RequestsOK
        <5>4. \A r \in Req : r \in ToSet(queue.active) => r \in HeldBy(queue)
          BY NoneIsNoRequest DEF HeldBy, InLists
        <5>5. RequestsOK(i, queue, worker', toWorker', fromWorker')
          BY <5>1, <5>3, <5>4 DEF RequestsOK
        <5> QED
          BY <4>4, <5>5
      <4> QED
        BY <4>5, <4>6
    <3>3. FlowOK(queue, worker', toWorker', fromWorker')
      BY <2>2, <3>2 DEF FlowOK
    <3>4. QuestionOK(queue, worker', toWorker', fromWorker')
      BY <1>4, <1>5, <2>2, <3>1, FreeQuestion
    <3> QED
      BY <1>3, <3>3, <3>4, FlowsPrime
  <2>6. CASE ~worker.items[n].running
    <3> DEFINE a == Msg("Failed", worker.items[n].id, worker.items[n].req)
    <3>1. a.kind \in FinalKinds /\ a.id = worker.items[n].id /\ a.kind # "Ask"
      BY FinalMessage DEF FinalKinds
    <3>2. fromWorker' = Append(fromWorker, a)
      BY <1>8, <2>6 DEF CancelItem, Reply
    <3>3. a \in WorkerMsg
      <4>1. worker.items[n] \in ItemType
        BY <1>1, <2>1
      <4> QED
        BY <4>1 DEF WorkerMsg, ItemType, Msg, FinalKinds
    <3> HIDE DEF a
    <3>4. Grown(fromWorker', fromWorker, {a})
      BY <1>1, <3>2, <3>3, AppendGrown
    <3>5. ASSUME NEW i \in Id \ {InvalidId}
          PROVE  /\ OnePlace(i, worker', toWorker', fromWorker')
                 /\ RequestsOK(i, queue, worker', toWorker', fromWorker')
      <4>1. OnePlace(i, worker, toWorker, fromWorker)
            /\ RequestsOK(i, queue, worker, toWorker, fromWorker)
        BY <1>4 DEF FlowOK
      <4>2. AskedIn(worker', i) <=> AskedIn(worker, i)
        BY <1>1, <2>2 DEF AskedIn
      <4>3. OneRequest(toWorker', i)
        BY <2>4, <4>1 DEF OnePlace
      <4> QED
        BY <2>3, <2>4, <3>1, <3>4, <4>1, <4>2, <4>3, ItemAnswered
    <3>6. FlowOK(queue, worker', toWorker', fromWorker')
      BY <2>2, <3>5 DEF FlowOK
    <3>7. ~AskIn(fromWorker')
      BY <1>4, <3>1, <3>4, FinalsGrown
    <3>8. QuestionOK(queue, worker', toWorker', fromWorker')
      BY <1>5, <2>2, <3>7, FreeQuestion
    <3> QED
      BY <1>3, <3>6, <3>8, FlowsPrime
  <2> QED
    BY <2>5, <2>6
<1>9. CASE (IsAnswer(m) \/ m.kind = "Cancel") /\ UNCHANGED <<worker, fromWorker>>
  <2>1. m.kind # "Request"
    BY <1>9 DEF IsAnswer
  <2>2. ASSUME NEW i \in Id \ {InvalidId}
        PROVE  /\ OnePlace(i, worker', toWorker', fromWorker')
               /\ RequestsOK(i, queue, worker', toWorker', fromWorker')
    <3>1. OnePlace(i, worker, toWorker, fromWorker)
          /\ RequestsOK(i, queue, worker, toWorker, fromWorker)
      BY <1>4 DEF FlowOK
    <3>2. /\ RequestIn(toWorker', i) <=> RequestIn(toWorker, i)
          /\ OneRequest(toWorker, i) => OneRequest(toWorker', i)
          /\ CancelIn(toWorker', i) => CancelIn(toWorker, i)
      BY <1>2, <2>1, RequestsWithout
    <3>3. OnePlace(i, worker', toWorker', fromWorker')
      BY <1>9, <3>1, <3>2 DEF OnePlace
    <3>4. UnderWay(i, worker', toWorker', fromWorker') <=> UnderWay(i, worker, toWorker, fromWorker)
      BY <1>9, <3>2 DEF UnderWay
    <3> QED
      BY <3>1, <3>2, <3>3, <3>4, RequestsStay
  <2>3. FlowOK(queue, worker', toWorker', fromWorker')
    BY <1>1, <1>9, <2>2 DEF FlowOK
  <2>4. QuestionOK(queue, worker', toWorker', fromWorker')
    BY <1>1, <1>4, <1>5, <1>9, FreeQuestion
  <2> QED
    BY <1>3, <2>3, <2>4, FlowsPrime
<1> QED
  BY <1>6, <1>7, <1>8, <1>9

LEMMA StartDownloadFlows ==
    ASSUME Inv, Flows, NEW n \in DOMAIN worker.items, StartDownload(n),
           UNCHANGED <<queueVars, caps, faults>>
    PROVE  Flows'
<1>1. /\ worker \in WorkerStateType /\ worker.items \in Seq(ItemType)
      /\ worker.asking = NoItem /\ UNCHANGED <<toWorker, fromWorker>>
      /\ worker' = [worker EXCEPT !.items[n].running = TRUE]
  BY DEF Inv, WorkerStateType, StartDownload, Free
<1>2. /\ worker'.asking = NoItem /\ DOMAIN worker'.items = DOMAIN worker.items
      /\ \A k \in DOMAIN worker.items : worker'.items[k].id = worker.items[k].id
  <2>1. /\ worker'.asking = NoItem
        /\ worker'.items = [worker.items EXCEPT ![n] = [worker.items[n] EXCEPT !.running = TRUE]]
    BY <1>1 DEF WorkerStateType
  <2>2. \A k \in DOMAIN worker.items : worker.items[k] \in ItemType
    BY <1>1
  <2> QED
    BY <2>1, <2>2 DEF ItemType
<1>3. Idle(queue') /\ queue' = queue
  BY IdleStays
<1>4. FlowOK(queue, worker, toWorker, fromWorker) /\ ~AskIn(fromWorker) /\ ~AnswerIn(toWorker)
  BY <1>1 DEF Flows, QuestionOK
<1>5. ASSUME NEW i \in Id \ {InvalidId}
      PROVE  /\ OnePlace(i, worker', toWorker', fromWorker')
             /\ RequestsOK(i, queue, worker', toWorker', fromWorker')
  <2>1. OnePlace(i, worker, toWorker, fromWorker) /\ RequestsOK(i, queue, worker, toWorker, fromWorker)
    BY <1>4 DEF FlowOK
  <2>2. /\ ItemIn(worker'.items, i) <=> ItemIn(worker.items, i)
        /\ OneItem(worker.items, i) => OneItem(worker'.items, i)
        /\ AskedIn(worker', i) <=> AskedIn(worker, i)
    BY <1>1, <1>2 DEF ItemIn, OneItem, AskedIn
  <2>3. OnePlace(i, worker', toWorker', fromWorker')
    BY <1>1, <2>1, <2>2 DEF OnePlace
  <2>4. UnderWay(i, worker', toWorker', fromWorker') <=> UnderWay(i, worker, toWorker, fromWorker)
    BY <1>1, <2>2 DEF UnderWay
  <2> QED
    BY <1>1, <2>1, <2>3, <2>4, RequestsStay
<1>6. FlowOK(queue, worker', toWorker', fromWorker')
  BY <1>2, <1>5 DEF FlowOK
<1>7. QuestionOK(queue, worker', toWorker', fromWorker')
  BY <1>1, <1>2, <1>4, FreeQuestion
<1> QED
  BY <1>3, <1>6, <1>7, FlowsPrime

\* The second pipe has got results of the item x, and nothing else.
Results(fw2, fw, x) ==
    \E X : /\ Grown(fw2, fw, X) /\ X # {}
           /\ \A y \in X : y.kind \in FinalKinds /\ y.id = x.id /\ y.kind # "Ask"

LEMMA FinishFlows ==
    ASSUME Inv, Flows, NEW n \in DOMAIN worker.items, Finish(n),
           UNCHANGED <<queueVars, caps, faults>>
    PROVE  Flows'
<1>1. /\ worker \in WorkerStateType /\ worker.items \in Seq(ItemType)
      /\ worker.asking = NoItem /\ UNCHANGED toWorker /\ fromWorker \in Seq(WorkerMsg)
      /\ worker' = [worker EXCEPT !.items = RemoveAt(@, n)]
  BY DEF Inv, WorkerStateType, PipeTypeOK, Finish, Free
<1>2. worker'.asking = NoItem /\ worker'.items = RemoveAt(worker.items, n)
  BY <1>1 DEF WorkerStateType
<1>3. Without(worker'.items, worker.items, n)
  BY <1>1, <1>2, RemoveWithout
<1>4. worker.items[n] \in ItemType
  BY <1>1
<1>5. Results(fromWorker', fromWorker, worker.items[n])
  <2>1. ASSUME NEW k \in FinalKinds, Reply(k, worker.items[n])
        PROVE  Results(fromWorker', fromWorker, worker.items[n])
    <3> DEFINE a == Msg(k, worker.items[n].id, worker.items[n].req)
    <3>1. a \in WorkerMsg
      BY <1>4 DEF WorkerMsg, ItemType, Msg
    <3>2. a.kind \in FinalKinds /\ a.id = worker.items[n].id /\ a.kind # "Ask"
      BY FinalMessage
    <3>3. fromWorker' = Append(fromWorker, a)
      BY <2>1 DEF Reply
    <3> HIDE DEF a
    <3>4. Grown(fromWorker', fromWorker, {a})
      BY <1>1, <3>1, <3>3, AppendGrown
    <3> QED
      BY <3>2, <3>4 DEF Results
  <2>3. ASSUME NEW k1 \in FinalKinds, NEW k2 \in FinalKinds, ReplyTwice(k1, k2, worker.items[n])
        PROVE  Results(fromWorker', fromWorker, worker.items[n])
    <3> DEFINE a == Msg(k1, worker.items[n].id, worker.items[n].req)
               b == Msg(k2, worker.items[n].id, worker.items[n].req)
               both == <<a, b>>
    <3>1. a \in WorkerMsg /\ b \in WorkerMsg
      BY <1>4 DEF WorkerMsg, ItemType, Msg
    <3>2. /\ a.kind \in FinalKinds /\ a.id = worker.items[n].id /\ a.kind # "Ask"
          /\ b.kind \in FinalKinds /\ b.id = worker.items[n].id /\ b.kind # "Ask"
      BY FinalMessage
    <3>3. fromWorker' = fromWorker \o both
      BY <2>3 DEF ReplyTwice
    <3> HIDE DEF a, b
    <3>4. both \in Seq(WorkerMsg) /\ {both[k] : k \in DOMAIN both} = {a, b}
      <4>1. both \in Seq(WorkerMsg) /\ DOMAIN both = {1, 2} /\ both[1] = a /\ both[2] = b
        BY <3>1
      <4> HIDE DEF both
      <4> QED
        BY <4>1
    <3> HIDE DEF both
    <3>5. Grown(fromWorker \o both, fromWorker, {a, b})
      BY <1>1, <3>4, JoinGrown
    <3> QED
      BY <3>2, <3>3, <3>5 DEF Results
  <2>4. \/ \E k \in FinalKinds : Reply(k, worker.items[n])
        \/ \E k \in {"Finished", "Failed"} : ReplyTwice("Finished", k, worker.items[n])
    BY DEF Finish, FinalKinds
  <2>5. "Finished" \in FinalKinds /\ "Failed" \in FinalKinds
    BY DEF FinalKinds
  <2> QED
    <3>1. ASSUME NEW k \in {"Finished", "Failed"}, ReplyTwice("Finished", k, worker.items[n])
          PROVE  Results(fromWorker', fromWorker, worker.items[n])
      <4>1. k \in FinalKinds
        BY <2>5
      <4> QED
        BY <2>3, <2>5, <3>1, <4>1
    <3>2. CASE \E k \in FinalKinds : Reply(k, worker.items[n])
      <4>1. PICK k \in FinalKinds : Reply(k, worker.items[n])
        BY <3>2
      <4> QED
        BY <2>1, <4>1
    <3>3. CASE \E k \in {"Finished", "Failed"} : ReplyTwice("Finished", k, worker.items[n])
      <4>1. PICK k \in {"Finished", "Failed"} : ReplyTwice("Finished", k, worker.items[n])
        BY <3>3
      <4> QED
        BY <3>1, <4>1
    <3> QED
      BY <2>4, <3>2, <3>3
<1>6. PICK X : /\ Grown(fromWorker', fromWorker, X) /\ X # {}
               /\ \A x \in X : x.kind \in FinalKinds /\ x.id = worker.items[n].id /\ x.kind # "Ask"
  BY <1>5 DEF Results
<1>7. Idle(queue') /\ queue' = queue
  BY IdleStays
<1>8. FlowOK(queue, worker, toWorker, fromWorker) /\ ~AskIn(fromWorker) /\ ~AnswerIn(toWorker)
  BY <1>1 DEF Flows, QuestionOK
<1>9. ASSUME NEW i \in Id \ {InvalidId}
      PROVE  /\ OnePlace(i, worker', toWorker', fromWorker')
             /\ RequestsOK(i, queue, worker', toWorker', fromWorker')
  <2>1. OnePlace(i, worker, toWorker, fromWorker) /\ RequestsOK(i, queue, worker, toWorker, fromWorker)
    BY <1>8 DEF FlowOK
  <2>2. AskedIn(worker', i) <=> AskedIn(worker, i)
    BY <1>1, <1>2 DEF AskedIn
  <2>3. /\ OneRequest(toWorker', i)
        /\ RequestIn(toWorker', i) <=> RequestIn(toWorker, i)
        /\ CancelIn(toWorker', i) => CancelIn(toWorker, i)
    BY <1>1, <2>1 DEF OnePlace
  <2>4. \A x \in X : x.kind \in FinalKinds /\ x.id = worker.items[n].id
    BY <1>6
  <2> QED
    BY <1>3, <1>6, <2>1, <2>2, <2>3, <2>4, ItemAnswered
<1>10. FlowOK(queue, worker', toWorker', fromWorker')
  BY <1>2, <1>9 DEF FlowOK
<1>11. ~AskIn(fromWorker')
  BY <1>6, <1>8, FinalsGrown
<1>12. QuestionOK(queue, worker', toWorker', fromWorker')
  BY <1>1, <1>2, <1>8, <1>11, FreeQuestion
<1> QED
  BY <1>7, <1>10, <1>12, FlowsPrime

LEMMA AskFlows ==
    ASSUME Inv, Flows, NEW n \in DOMAIN worker.items, Ask(n),
           UNCHANGED <<queueVars, caps, faults>>
    PROVE  Flows'
<1>1. /\ worker \in WorkerStateType /\ worker.items \in Seq(ItemType)
      /\ worker.asking = NoItem /\ UNCHANGED toWorker /\ fromWorker \in Seq(WorkerMsg)
  BY DEF Inv, WorkerStateType, PipeTypeOK, Ask, Free
<1> DEFINE x == [worker.items[n] EXCEPT !.asked = TRUE]
           a == Msg("Ask", worker.items[n].id, worker.items[n].req)
<1>2. worker.items[n] \in ItemType /\ x \in ItemType /\ x.id = worker.items[n].id
  <2>1. worker.items[n] \in ItemType
    BY <1>1
  <2> QED
    BY <2>1 DEF ItemType
<1>3. /\ worker'.items = IF Downloading THEN [worker.items EXCEPT ![n].asked = TRUE]
                         ELSE RemoveAt(worker.items, n)
      /\ worker'.asking = x
      /\ fromWorker' = Append(fromWorker, a)
  BY DEF Ask, Reply
<1>4. a \in WorkerMsg /\ a.kind = "Ask" /\ a.id = x.id /\ a.kind \notin FinalKinds
  BY <1>2 DEF Msg, WorkerMsg, ItemType, FinalKinds
<1>5. x # NoItem
  BY <1>2 DEF NoItem
<1>6. ASSUME Downloading
      PROVE  /\ DOMAIN worker'.items = DOMAIN worker.items
             /\ \A k \in DOMAIN worker.items : worker'.items[k].id = worker.items[k].id
  <2>1. worker'.items = [worker.items EXCEPT ![n] = x]
    BY <1>3, <1>6
  <2> HIDE DEF x
  <2> QED
    BY <1>2, <2>1
<1> HIDE DEF x, a
<1>7. Grown(fromWorker', fromWorker, {a})
  BY <1>1, <1>3, <1>4, AppendGrown
<1>8. Idle(queue') /\ queue' = queue
  BY IdleStays
<1>9. FlowOK(queue, worker, toWorker, fromWorker) /\ ~AskIn(fromWorker) /\ ~AnswerIn(toWorker)
  BY <1>1 DEF Flows, QuestionOK
<1>10. ASSUME NEW i \in Id \ {InvalidId}
       PROVE  /\ OnePlace(i, worker', toWorker', fromWorker')
              /\ RequestsOK(i, queue, worker', toWorker', fromWorker')
  <2>1. OnePlace(i, worker, toWorker, fromWorker) /\ RequestsOK(i, queue, worker, toWorker, fromWorker)
    BY <1>9 DEF FlowOK
  <2>2. FinalIn(fromWorker', i) <=> FinalIn(fromWorker, i)
    BY <1>4, <1>7, FinalsGrown
  <2>3. ~AskedIn(worker, i)
    BY <1>1 DEF AskedIn, NoItem
  <2>4. CASE Downloading
    <3>1. /\ ItemIn(worker'.items, i) <=> ItemIn(worker.items, i)
          /\ OneItem(worker.items, i) => OneItem(worker'.items, i)
          /\ ~AskedIn(worker', i)
      BY <1>6, <2>4 DEF ItemIn, OneItem, AskedIn
    <3>2. OnePlace(i, worker', toWorker', fromWorker')
      BY <1>1, <2>1, <2>2, <2>3, <3>1 DEF OnePlace
    <3>3. UnderWay(i, worker', toWorker', fromWorker') <=> UnderWay(i, worker, toWorker, fromWorker)
      BY <1>1, <2>2, <2>3, <3>1 DEF UnderWay
    <3> QED
      BY <1>1, <2>1, <3>2, <3>3, RequestsStay
  <2>5. CASE ~Downloading
    <3>1. Without(worker'.items, worker.items, n)
      BY <1>1, <1>3, <2>5, RemoveWithout
    <3>2. /\ OneItem(worker.items, i) => OneItem(worker'.items, i)
          /\ worker.items[n].id # i => (ItemIn(worker'.items, i) <=> ItemIn(worker.items, i))
          /\ worker.items[n].id = i => ItemIn(worker.items, i)
          /\ worker.items[n].id = i /\ OneItem(worker.items, i) => ~ItemIn(worker'.items, i)
      BY <3>1, ItemsWithout
    <3>3. AskedIn(worker', i) <=> worker.items[n].id = i
      BY <1>2, <1>3, <2>5 DEF AskedIn
    <3>4. OnePlace(i, worker', toWorker', fromWorker')
      BY <1>1, <2>1, <2>2, <2>3, <3>2, <3>3 DEF OnePlace
    <3>5. UnderWay(i, worker', toWorker', fromWorker') <=> UnderWay(i, worker, toWorker, fromWorker)
      BY <1>1, <2>1, <2>2, <2>3, <3>2, <3>3 DEF UnderWay, OnePlace
    <3> QED
      BY <1>1, <2>1, <3>4, <3>5, RequestsStay
  <2> QED
    BY <2>4, <2>5
<1>11. FlowOK(queue, worker', toWorker', fromWorker')
  <2>1. Downloading => ItemIn(worker'.items, worker'.asking.id)
    BY <1>2, <1>3, <1>6 DEF ItemIn
  <2> QED
    BY <1>10, <2>1 DEF FlowOK
<1>12. QuestionOK(queue, worker', toWorker', fromWorker')
  <2>1. /\ DOMAIN fromWorker' = 1..Len(fromWorker) + 1 /\ DOMAIN fromWorker = 1..Len(fromWorker)
        /\ Len(fromWorker') = Len(fromWorker) + 1 /\ Len(fromWorker) \in Nat
        /\ \A k \in 1..Len(fromWorker) : fromWorker'[k] = fromWorker[k]
        /\ fromWorker'[Len(fromWorker) + 1] = a
    BY <1>1, <1>3, <1>4
  <2>2. \A k \in DOMAIN fromWorker' : fromWorker'[k].kind = "Ask" =>
                                          k = Len(fromWorker') /\ fromWorker'[k].id = worker'.asking.id
    BY <1>3, <1>4, <1>9, <2>1 DEF AskIn
  <2>3. AskIn(fromWorker')
    BY <1>4, <1>7, FinalsGrown
  <2>4. ~AnswerIn(toWorker') /\ OneAnswer(toWorker')
    BY <1>1, <1>9 DEF AnswerIn, OneAnswer
  <2> QED
    BY <1>3, <1>5, <2>2, <2>3, <2>4 DEF QuestionOK
<1> QED
  BY <1>8, <1>11, <1>12, FlowsPrime

LEMMA AnsweredFlows ==
    ASSUME Inv, Flows, Answered, UNCHANGED <<queueVars, caps, faults>>
    PROVE  Flows'
<1>1. /\ worker \in WorkerStateType /\ worker.items \in Seq(ItemType)
      /\ worker.asking \in ItemType /\ worker.asking # NoItem
      /\ toWorker \in Seq(ControllerMsg) /\ fromWorker \in Seq(WorkerMsg)
      /\ toWorker' = RemoveAt(toWorker, FirstAnswer) /\ FirstAnswer # 0
  BY DEF Inv, WorkerStateType, PipeTypeOK, Answered
<1> DEFINE x == worker.asking
           n == FindItem(x.id)
<1>2. FirstAnswer \in DOMAIN toWorker /\ IsAnswer(toWorker[FirstAnswer])
  BY <1>1, AnswerFound
<1>3. Without(toWorker', toWorker, FirstAnswer)
  BY <1>1, <1>2, RemoveWithout
<1>4. /\ FlowOK(queue, worker, toWorker, fromWorker) /\ Idle(queue)
      /\ QuestionOK(queue, worker, toWorker, fromWorker)
  BY DEF Flows
<1>5. AnswerIn(toWorker) /\ ~AskIn(fromWorker)
  BY <1>2, <1>4 DEF AnswerIn, QuestionOK
<1>6. ~AnswerIn(toWorker')
  BY <1>2, <1>3, <1>4, RequestsWithout DEF QuestionOK
<1>7. ASSUME NEW i PROVE /\ RequestIn(toWorker', i) <=> RequestIn(toWorker, i)
                         /\ OneRequest(toWorker, i) => OneRequest(toWorker', i)
                         /\ CancelIn(toWorker', i) => CancelIn(toWorker, i)
  <2>1. toWorker[FirstAnswer].kind # "Request"
    BY <1>2 DEF IsAnswer
  <2> QED
    BY <1>3, <2>1, RequestsWithout
<1>8. Idle(queue') /\ queue' = queue
  BY IdleStays
<1>9. worker'.asking = NoItem
  BY <1>1 DEF Answered, WorkerStateType
<1>10. \A i \in Id \ {InvalidId} : ~AskedIn(worker', i)
  BY <1>9 DEF AskedIn, NoItem
<1>11. CASE Downloading /\ toWorker[FirstAnswer].kind = "Granted"
  <2>1. worker'.items = worker.items /\ fromWorker' = fromWorker
    BY <1>1, <1>11 DEF Answered, WorkerStateType
  <2>2. ASSUME NEW i \in Id \ {InvalidId}
        PROVE  /\ OnePlace(i, worker', toWorker', fromWorker')
               /\ RequestsOK(i, queue, worker', toWorker', fromWorker')
    <3>1. OnePlace(i, worker, toWorker, fromWorker) /\ RequestsOK(i, queue, worker, toWorker, fromWorker)
      BY <1>4 DEF FlowOK
    <3>2. ~AskedIn(worker, i) /\ ~AskedIn(worker', i)
      BY <1>10, <1>11 DEF AskedIn
    <3>3. OnePlace(i, worker', toWorker', fromWorker')
      BY <1>7, <2>1, <3>1, <3>2 DEF OnePlace
    <3>4. UnderWay(i, worker', toWorker', fromWorker') <=> UnderWay(i, worker, toWorker, fromWorker)
      BY <1>7, <2>1, <3>2 DEF UnderWay
    <3> QED
      BY <1>7, <3>1, <3>3, <3>4, RequestsStay
  <2>3. FlowOK(queue, worker', toWorker', fromWorker')
    BY <1>9, <2>2 DEF FlowOK
  <2>4. QuestionOK(queue, worker', toWorker', fromWorker')
    BY <1>5, <1>6, <1>9, <2>1, FreeQuestion
  <2> QED
    BY <1>8, <2>3, <2>4, FlowsPrime
<1>12. CASE ~(Downloading /\ toWorker[FirstAnswer].kind = "Granted")
  <2>1. /\ worker'.items = IF Downloading THEN RemoveAt(worker.items, n) ELSE worker.items
        /\ \E k \in {"Failed", "Finished"} : Reply(k, x)
    BY <1>1, <1>12 DEF Answered, WorkerStateType
  <2>2. PICK k \in {"Failed", "Finished"} : Reply(k, x)
    BY <2>1
  <2> DEFINE a == Msg(k, x.id, x.req)
  <2>3. a.kind \in FinalKinds /\ a.id = x.id /\ a.kind # "Ask" /\ a \in WorkerMsg
    BY <1>1 DEF Msg, WorkerMsg, ItemType, FinalKinds
  <2>4. fromWorker' = Append(fromWorker, a)
    BY <2>2 DEF Reply
  <2> HIDE DEF a
  <2>5. Grown(fromWorker', fromWorker, {a})
    BY <1>1, <2>3, <2>4, AppendGrown
  <2>6. ASSUME NEW i \in Id \ {InvalidId}
        PROVE  /\ OnePlace(i, worker', toWorker', fromWorker')
               /\ RequestsOK(i, queue, worker', toWorker', fromWorker')
    <3>1. OnePlace(i, worker, toWorker, fromWorker) /\ RequestsOK(i, queue, worker, toWorker, fromWorker)
      BY <1>4 DEF FlowOK
    <3>2. CASE Downloading
      <4>1. ItemIn(worker.items, x.id)
        BY <1>1, <1>4, <3>2 DEF FlowOK
      <4>2. n \in DOMAIN worker.items /\ worker.items[n].id = x.id
        BY <1>1, <4>1, ItemFound DEF ItemIn
      <4> HIDE DEF n
      <4>3. Without(worker'.items, worker.items, n)
        BY <1>1, <2>1, <3>2, <4>2, RemoveWithout
      <4>4. AskedIn(worker', i) <=> AskedIn(worker, i)
        BY <3>2 DEF AskedIn
      <4>5. OneRequest(toWorker', i)
        BY <1>7, <3>1 DEF OnePlace
      <4> QED
        BY <1>7, <2>3, <2>5, <3>1, <4>2, <4>3, <4>4, <4>5, ItemAnswered
    <3>3. CASE ~Downloading
      <4>1. worker'.items = worker.items
        BY <2>1, <3>3
      <4>2. FinalIn(fromWorker', i) <=> FinalIn(fromWorker, i) \/ x.id = i
        BY <2>3, <2>5, FinalsGrown
      <4>3. (AskedIn(worker, i) <=> x.id = i) /\ ~AskedIn(worker', i)
        BY <1>10, <3>3 DEF AskedIn
      <4>4. OnePlace(i, worker', toWorker', fromWorker')
        BY <1>7, <3>1, <4>1, <4>2, <4>3 DEF OnePlace
      <4>5. UnderWay(i, worker', toWorker', fromWorker') <=> UnderWay(i, worker, toWorker, fromWorker)
        BY <1>7, <4>1, <4>2, <4>3 DEF UnderWay
      <4> QED
        BY <1>7, <3>1, <4>4, <4>5, RequestsStay
    <3> QED
      BY <3>2, <3>3
  <2>7. FlowOK(queue, worker', toWorker', fromWorker')
    BY <1>9, <2>6 DEF FlowOK
  <2>8. ~AskIn(fromWorker')
    BY <1>5, <2>3, <2>5, FinalsGrown
  <2>9. QuestionOK(queue, worker', toWorker', fromWorker')
    BY <1>6, <1>9, <2>8, FreeQuestion
  <2> QED
    BY <1>8, <2>7, <2>9, FlowsPrime
<1> QED
  BY <1>11, <1>12

LEMMA WorkerLives ==
    ASSUME Inv, LiveInv, WorkerNext, UNCHANGED <<queueVars, caps, faults>>
    PROVE  LiveInv'
<1>1. CASE Receive
  BY <1>1, ReceiveFlows DEF LiveInv, Receive
<1>2. CASE Answered
  BY <1>2, AnsweredFlows DEF LiveInv, Answered
<1>3. CASE Die
  BY <1>3 DEF LiveInv, Die
<1>4. ASSUME NEW i \in DOMAIN worker.items, StartDownload(i) PROVE LiveInv'
  BY <1>4, StartDownloadFlows DEF LiveInv, StartDownload
<1>5. ASSUME NEW i \in DOMAIN worker.items, Finish(i) PROVE LiveInv'
  BY <1>5, FinishFlows DEF LiveInv, Finish
<1>6. ASSUME NEW i \in DOMAIN worker.items, Ask(i) PROVE LiveInv'
  BY <1>6, AskFlows DEF LiveInv, Ask
<1> QED
  BY <1>1, <1>2, <1>3, <1>4, <1>5, <1>6 DEF WorkerNext

-----------------------------------------------------------------------------
(* Messages of the queue.                                                   *)

LEMMA JoinedMessages ==
    ASSUME NEW tw \in Seq(ControllerMsg), NEW out \in Seq(ControllerMsg), NEW i
    PROVE  /\ RequestIn(tw \o out, i) <=> RequestIn(tw, i) \/ RequestIn(out, i)
           /\ CancelIn(tw \o out, i) <=> CancelIn(tw, i) \/ CancelIn(out, i)
           /\ AnswerIn(tw \o out) <=> AnswerIn(tw) \/ AnswerIn(out)
           /\ OneRequest(tw, i) /\ OneRequest(out, i) /\ ~(RequestIn(tw, i) /\ RequestIn(out, i))
                => OneRequest(tw \o out, i)
           /\ OneAnswer(tw) /\ OneAnswer(out) /\ ~(AnswerIn(tw) /\ AnswerIn(out))
                => OneAnswer(tw \o out)
<1> DEFINE t == tw \o out
           Left(k) == k \in DOMAIN tw /\ t[k] = tw[k]
           Right(k, l) == l \in DOMAIN out /\ k = Len(tw) + l /\ t[k] = out[l]
<1>1. /\ t \in Seq(ControllerMsg) /\ Len(t) = Len(tw) + Len(out)
      /\ \A k \in 1..Len(tw) + Len(out) : t[k] = IF k <= Len(tw) THEN tw[k] ELSE out[k - Len(tw)]
  BY Joined
<1> HIDE DEF t
<1>2. /\ Len(tw) \in Nat /\ Len(out) \in Nat /\ DOMAIN tw = 1..Len(tw) /\ DOMAIN out = 1..Len(out)
      /\ DOMAIN t = 1..Len(tw) + Len(out)
  BY <1>1
<1>3. ASSUME NEW k \in DOMAIN t PROVE Left(k) \/ \E l \in DOMAIN out : Right(k, l)
  <2>1. CASE k <= Len(tw)
    BY <2>1, <1>1, <1>2
  <2>2. CASE ~(k <= Len(tw))
    <3>1. k - Len(tw) \in DOMAIN out /\ k = Len(tw) + (k - Len(tw))
      BY <2>2, <1>2
    <3>2. t[k] = out[k - Len(tw)]
      BY <2>2, <1>1, <1>2
    <3> QED
      BY <3>1, <3>2
  <2> QED
    BY <2>1, <2>2
<1>4. \A k \in DOMAIN tw : k \in DOMAIN t /\ t[k] = tw[k]
  BY <1>1, <1>2
<1>5. ASSUME NEW l \in DOMAIN out PROVE \E k \in DOMAIN t : t[k] = out[l]
  <2>1. /\ Len(tw) + l \in 1..Len(tw) + Len(out) /\ ~(Len(tw) + l <= Len(tw))
        /\ Len(tw) + l - Len(tw) = l
    BY <1>2
  <2> QED
    BY <2>1, <1>1, <1>2
<1>6. \A j, k, l : Right(j, l) /\ Right(k, l) => j = k
  OBVIOUS
<1>7. \A k : Left(k) => k \in DOMAIN tw /\ t[k] = tw[k]
  OBVIOUS
<1>8. \A k, l : Right(k, l) => l \in DOMAIN out /\ t[k] = out[l]
  OBVIOUS
<1> HIDE DEF Left, Right
<1>9. RequestIn(t, i) <=> RequestIn(tw, i) \/ RequestIn(out, i)
  BY <1>3, <1>4, <1>5, <1>7, <1>8 DEF RequestIn
<1>10. CancelIn(t, i) <=> CancelIn(tw, i) \/ CancelIn(out, i)
  BY <1>3, <1>4, <1>5, <1>7, <1>8 DEF CancelIn
<1>11. AnswerIn(t) <=> AnswerIn(tw) \/ AnswerIn(out)
  BY <1>3, <1>4, <1>5, <1>7, <1>8 DEF AnswerIn
<1>12. ASSUME OneRequest(tw, i), OneRequest(out, i), ~(RequestIn(tw, i) /\ RequestIn(out, i)),
              NEW j \in DOMAIN t, NEW k \in DOMAIN t,
              t[j].kind = "Request", t[j].id = i, t[k].kind = "Request", t[k].id = i
       PROVE  j = k
  <2>1. CASE Left(j) /\ Left(k)
    BY <2>1, <1>7, <1>12 DEF OneRequest
  <2>2. ASSUME NEW l \in DOMAIN out, Left(j), Right(k, l) PROVE FALSE
    BY <2>2, <1>7, <1>8, <1>12 DEF RequestIn
  <2>3. ASSUME NEW l \in DOMAIN out, Left(k), Right(j, l) PROVE FALSE
    BY <2>3, <1>7, <1>8, <1>12 DEF RequestIn
  <2>4. ASSUME NEW l \in DOMAIN out, NEW m \in DOMAIN out, Right(j, l), Right(k, m) PROVE j = k
    <3>1. l = m
      BY <2>4, <1>8, <1>12 DEF OneRequest
    <3> QED
      BY <2>4, <3>1, <1>6
  <2> QED
    BY <1>3, <2>1, <2>2, <2>3, <2>4
<1>13. ASSUME OneAnswer(tw), OneAnswer(out), ~(AnswerIn(tw) /\ AnswerIn(out)),
              NEW j \in DOMAIN t, NEW k \in DOMAIN t, IsAnswer(t[j]), IsAnswer(t[k])
       PROVE  j = k
  <2>1. CASE Left(j) /\ Left(k)
    BY <2>1, <1>7, <1>13 DEF OneAnswer
  <2>2. ASSUME NEW l \in DOMAIN out, Left(j), Right(k, l) PROVE FALSE
    BY <2>2, <1>7, <1>8, <1>13 DEF AnswerIn
  <2>3. ASSUME NEW l \in DOMAIN out, Left(k), Right(j, l) PROVE FALSE
    BY <2>3, <1>7, <1>8, <1>13 DEF AnswerIn
  <2>4. ASSUME NEW l \in DOMAIN out, NEW m \in DOMAIN out, Right(j, l), Right(k, m) PROVE j = k
    <3>1. l = m
      BY <2>4, <1>8, <1>13 DEF OneAnswer
    <3> QED
      BY <2>4, <3>1, <1>6
  <2> QED
    BY <1>3, <2>1, <2>2, <2>3, <2>4
<1>14. /\ OneRequest(tw, i) /\ OneRequest(out, i) /\ ~(RequestIn(tw, i) /\ RequestIn(out, i))
            => OneRequest(t, i)
       /\ OneAnswer(tw) /\ OneAnswer(out) /\ ~(AnswerIn(tw) /\ AnswerIn(out)) => OneAnswer(t)
  BY <1>12, <1>13 DEF OneRequest, OneAnswer
<1> QED
  BY <1>9, <1>10, <1>11, <1>14 DEF t

\* What requests are in the lists and what is under way when the queue loses
\* the requests with the id j, or nothing.
Loses(q, p, j) ==
    \A r \in Req : p.id[r] # InvalidId =>
        /\ p.id[r] = q.id[r]
        /\ r \in ToSet(p.wait) => r \in ToSet(q.wait)
        /\ r \in ToSet(p.active) => r \in ToSet(q.active)
        /\ r \in HeldBy(p) => r \in HeldBy(q) /\ p.id[r] # j

LEMMA LosesFlow ==
    ASSUME NEW q, NEW p \in QueueType, NEW w, NEW tw, NEW fw, NEW tw2, NEW fw2, NEW j,
           FlowOK(q, w, tw, fw), Loses(q, p, j),
           \A i \in Id : /\ FinalIn(fw2, i) => FinalIn(fw, i)
                         /\ FinalIn(fw, i) => FinalIn(fw2, i) \/ i = j
                         /\ RequestIn(tw2, i) <=> RequestIn(tw, i)
                         /\ OneRequest(tw, i) => OneRequest(tw2, i)
                         /\ CancelIn(tw2, i) => CancelIn(tw, i) \/ i = j
    PROVE  FlowOK(p, w, tw2, fw2)
<1>1. ASSUME NEW i \in Id \ {InvalidId} PROVE OnePlace(i, w, tw2, fw2)
  <2>1. OnePlace(i, w, tw, fw)
    BY DEF FlowOK
  <2> QED
    BY <2>1 DEF OnePlace
<1>2. ASSUME NEW i \in Id \ {InvalidId} PROVE RequestsOK(i, p, w, tw2, fw2)
  <2>1. RequestsOK(i, q, w, tw, fw)
    BY DEF FlowOK
  <2> SUFFICES ASSUME NEW r \in Req, p.id[r] = i
               PROVE  /\ r \in ToSet(p.wait) => ~UnderWay(i, w, tw2, fw2)
                      /\ r \in ToSet(p.active) => UnderWay(i, w, tw2, fw2)
                      /\ r \in HeldBy(p) => ~CancelIn(tw2, i)
    BY DEF RequestsOK
  <2>2. /\ q.id[r] = i
        /\ r \in ToSet(p.wait) => r \in ToSet(q.wait)
        /\ r \in ToSet(p.active) => r \in ToSet(q.active)
        /\ r \in HeldBy(p) => r \in HeldBy(q) /\ i # j
    BY DEF Loses
  <2>3. /\ r \in ToSet(q.wait) => ~UnderWay(i, w, tw, fw)
        /\ r \in ToSet(q.active) => UnderWay(i, w, tw, fw)
        /\ r \in HeldBy(q) => ~CancelIn(tw, i)
    BY <2>1, <2>2 DEF RequestsOK
  <2>4. r \in ToSet(p.wait) => ~UnderWay(i, w, tw2, fw2)
    BY <2>2, <2>3 DEF UnderWay
  <2>5. r \in ToSet(p.active) => r \in HeldBy(p)
    BY NoneIsNoRequest DEF HeldBy, InLists
  <2>6. r \in ToSet(p.active) => UnderWay(i, w, tw2, fw2)
    BY <2>2, <2>3, <2>5 DEF UnderWay
  <2>7. r \in HeldBy(p) => ~CancelIn(tw2, i)
    BY <2>2, <2>3
  <2> QED
    BY <2>4, <2>6, <2>7
<1>3. Downloading /\ w.asking # NoItem => ItemIn(w.items, w.asking.id)
  BY DEF FlowOK
<1> QED
  BY <1>1, <1>2, <1>3 DEF FlowOK

LEMMA MovedLists ==
    ASSUME NEW w, NEW a, Lists(w, a), NEW n \in 1..Len(w)
    PROVE  /\ \A r \in ToSet(SubSeq(w, n + 1, Len(w))) :
                 r \in ToSet(w) /\ \A k \in 1..n : w[k] # r
           /\ \A r \in ToSet(a \o SubSeq(w, 1, n)) : r \in ToSet(a) \/ \E k \in 1..n : w[k] = r
           /\ a \o SubSeq(w, 1, n) # <<>>
           /\ n = Len(w) => SubSeq(w, n + 1, Len(w)) = <<>>
<1> DEFINE t == SubSeq(w, n + 1, Len(w))
           f == SubSeq(w, 1, n)
           b == a \o f
<1>1. /\ w \in Seq(Req) /\ Len(w) \in Nat /\ DOMAIN w = 1..Len(w) /\ n \in 0..Len(w) /\ n \in Nat
      /\ a \in Seq(Req \cup {None}) /\ Len(a) \in Nat /\ DOMAIN a = 1..Len(a) /\ n >= 1
  BY DEF Lists
<1>2. /\ t \in Seq(Req) /\ Len(t) = Len(w) - n /\ DOMAIN t = 1..Len(w) - n
      /\ \A k \in 1..Len(w) - n : t[k] = w[k + n]
  <2>1. /\ t \in Seq(Req) /\ Len(t) = Len(w) - n
        /\ \A k \in 1..Len(w) - n : t[k] = w[k + n]
    BY <1>1, Dropped
  <2> QED
    BY <2>1
<1>3. /\ f \in Seq(Req \cup {None}) /\ Len(f) = n /\ DOMAIN f = 1..n
      /\ \A k \in 1..n : f[k] = w[k]
  BY <1>1
<1> HIDE DEF t, f
<1>4. /\ b \in Seq(Req \cup {None}) /\ Len(b) = Len(a) + n
      /\ \A k \in 1..Len(a) + n : b[k] = IF k <= Len(a) THEN a[k] ELSE f[k - Len(a)]
  <2>1. /\ b \in Seq(Req \cup {None}) /\ Len(b) = Len(a) + Len(f)
        /\ \A k \in 1..Len(a) + Len(f) : b[k] = IF k <= Len(a) THEN a[k] ELSE f[k - Len(a)]
    BY <1>1, <1>3, Joined
  <2> HIDE DEF b
  <2> QED
    BY <1>3, <2>1
<1> HIDE DEF b
<1>5. ASSUME NEW k \in DOMAIN t PROVE t[k] \in ToSet(w) /\ \A l \in 1..n : w[l] # t[k]
  <2>1. k + n \in DOMAIN w /\ t[k] = w[k + n] /\ \A l \in 1..n : l \in DOMAIN w /\ l # k + n
    BY <1>1, <1>2
  <2> QED
    BY <2>1 DEF ToSet, Lists, Unique
<1>6. ASSUME NEW k \in DOMAIN b PROVE b[k] \in ToSet(a) \/ \E l \in 1..n : w[l] = b[k]
  <2>1. k \in 1..Len(a) + n
    BY <1>4
  <2>2. CASE k <= Len(a)
    <3>1. k \in DOMAIN a /\ b[k] = a[k]
      BY <1>1, <1>4, <2>1, <2>2
    <3> QED
      BY <3>1 DEF ToSet
  <2>3. CASE ~(k <= Len(a))
    <3>1. k - Len(a) \in 1..n /\ b[k] = f[k - Len(a)]
      BY <1>1, <1>4, <2>1, <2>3
    <3> QED
      BY <1>3, <3>1
  <2> QED
    BY <2>2, <2>3
<1>7. b # <<>>
  BY <1>1, <1>4
<1>8. n = Len(w) => t = <<>>
  BY <1>1, <1>2
<1> QED
  BY <1>5, <1>6, <1>7, <1>8 DEF t, f, b, ToSet

\* The first n requests that wait are sent, each id once.
LEMMA SentMessages ==
    ASSUME NEW p, Sound(p), NEW m, IdsOK(p.id, m), NEW n \in 1..Len(p.wait),
           NEW out, out = Sent(p, n)
    PROVE  /\ out \in Seq(ControllerMsg) /\ ~AnswerIn(out)
           /\ \A i : RequestIn(out, i) <=> \E k \in 1..n : p.id[p.wait[k]] = i
           /\ \A i : ~CancelIn(out, i)
           /\ \A i \in Id \ {InvalidId} : OneRequest(out, i)
<1>1. p \in QueueType /\ Lists(p.wait, p.active)
  BY DEF Sound, QueueOK
<1>2. /\ out \in Seq(ControllerMsg) /\ Len(out) = n
      /\ \A k \in 1..n : /\ p.wait[k] \in Req /\ k \in DOMAIN p.wait
                         /\ out[k] = Msg("Request", p.id[p.wait[k]], p.wait[k])
  BY <1>1, SentType
<1>3. /\ DOMAIN out = 1..n
      /\ \A k \in 1..n : /\ p.wait[k] \in Req /\ k \in DOMAIN p.wait
                         /\ out[k].kind = "Request" /\ out[k].id = p.id[p.wait[k]]
  BY <1>2 DEF Msg
<1>4. ~AnswerIn(out) /\ \A i : ~CancelIn(out, i)
  BY <1>3 DEF AnswerIn, CancelIn, IsAnswer
<1>5. \A i : RequestIn(out, i) <=> \E k \in 1..n : p.id[p.wait[k]] = i
  BY <1>3 DEF RequestIn
<1>6. ASSUME NEW i \in Id \ {InvalidId}, NEW j \in DOMAIN out, NEW k \in DOMAIN out,
             out[j].id = i, out[k].id = i
      PROVE  j = k
  <2>1. p.wait[j] = p.wait[k]
    BY <1>3, <1>6 DEF IdsOK
  <2> QED
    BY <1>1, <1>3, <2>1 DEF Lists, Unique
<1> QED
  BY <1>2, <1>4, <1>5, <1>6 DEF OneRequest

\* Scheduling sends what was not under way, and leaves the queue idle.
LEMMA ScheduleFlow ==
    ASSUME NEW p, Sound(p), p.out = <<>>, p.canWrite, ~p.shutting, NEW m, IdsOK(p.id, m),
           NEW w, NEW tw \in Seq(ControllerMsg), NEW fw, FlowOK(p, w, tw, fw),
           NEW s, s = ScheduleNext(p)
    PROVE  /\ FlowOK(s, w, tw \o s.out, fw) /\ Idle(s)
           /\ AnswerIn(tw \o s.out) <=> AnswerIn(tw)
           /\ OneAnswer(tw) => OneAnswer(tw \o s.out)
           /\ ~CanScheduleMore(p) => s = p
           /\ s.id = p.id /\ ToSet(s.active) \subseteq ToSet(p.active) \cup ToSet(p.wait)
<1>1. p \in QueueType /\ Lists(p.wait, p.active)
  BY DEF Sound, QueueOK
<1>2. CASE s = p /\ ~CanScheduleMore(p)
  <2>1. tw \o s.out = tw
    BY <1>2
  <2> QED
    BY <1>2, <2>1 DEF Idle
<1>3. ASSUME CanScheduleMore(p), NEW n \in 1..Len(p.wait),
             n = IF caps.pipeline THEN Len(p.wait) ELSE 1, Scheduled(p, s, n)
      PROVE  /\ FlowOK(s, w, tw \o s.out, fw) /\ Idle(s)
             /\ AnswerIn(tw \o s.out) <=> AnswerIn(tw)
             /\ OneAnswer(tw) => OneAnswer(tw \o s.out)
             /\ s.id = p.id /\ ToSet(s.active) \subseteq ToSet(p.active) \cup ToSet(p.wait)
  <2> DEFINE out == Sent(p, n)
  <2>1. /\ out \in Seq(ControllerMsg) /\ ~AnswerIn(out)
        /\ \A i : RequestIn(out, i) <=> \E k \in 1..n : p.id[p.wait[k]] = i
        /\ \A i : ~CancelIn(out, i)
        /\ \A i \in Id \ {InvalidId} : OneRequest(out, i)
    BY SentMessages
  <2>2. s.out = out /\ s.id = p.id /\ s.canWrite = p.canWrite /\ s.shutting = p.shutting
    <3>1. <<>> \o out = out
      BY <2>1
    <3> QED
      BY <1>3, <3>1 DEF Scheduled
  <2> HIDE DEF out
  <2>3. HeldBy(s) = HeldBy(p)
    BY <1>1, <1>3, ListsMove DEF Scheduled, HeldBy
  <2>4. /\ \A r \in ToSet(s.wait) : r \in ToSet(p.wait) /\ \A k \in 1..n : p.wait[k] # r
        /\ \A r \in ToSet(s.active) : r \in ToSet(p.active) \/ \E k \in 1..n : p.wait[k] = r
        /\ s.active # <<>> /\ (n = Len(p.wait) => s.wait = <<>>)
    <3> DEFINE t == SubSeq(p.wait, n + 1, Len(p.wait))
               b == p.active \o SubSeq(p.wait, 1, n)
    <3>1. /\ \A r \in ToSet(t) : r \in ToSet(p.wait) /\ \A k \in 1..n : p.wait[k] # r
          /\ \A r \in ToSet(b) : r \in ToSet(p.active) \/ \E k \in 1..n : p.wait[k] = r
          /\ b # <<>> /\ (n = Len(p.wait) => t = <<>>)
      BY <1>1, MovedLists
    <3>2. s.wait = t /\ s.active = b
      BY <1>3 DEF Scheduled
    <3> HIDE DEF t, b
    <3> QED
      BY <3>1, <3>2
  <2>5. Idle(s)
    BY <1>3, <2>2, <2>4 DEF Idle, CanScheduleMore
  <2>6. ASSUME NEW i \in Id
        PROVE  /\ RequestIn(tw \o out, i) <=> RequestIn(tw, i) \/ RequestIn(out, i)
               /\ CancelIn(tw \o out, i) <=> CancelIn(tw, i)
               /\ AnswerIn(tw \o out) <=> AnswerIn(tw)
               /\ OneRequest(tw, i) /\ OneRequest(out, i) /\ ~(RequestIn(tw, i) /\ RequestIn(out, i))
                    => OneRequest(tw \o out, i)
    BY <2>1, JoinedMessages
  <2>7. /\ AnswerIn(tw \o out) <=> AnswerIn(tw)
        /\ OneAnswer(tw) => OneAnswer(tw \o out)
    <3>1. OneAnswer(out)
      BY <2>1 DEF OneAnswer, AnswerIn
    <3> QED
      BY <2>1, <3>1, JoinedMessages
  <2>8. \A k \in 1..n : p.wait[k] \in Req /\ p.wait[k] \in ToSet(p.wait) /\ p.wait[k] \in HeldBy(p)
    <3>1. \A k \in 1..n : k \in DOMAIN p.wait
      BY <1>1 DEF Lists
    <3> QED
      BY <1>1, <3>1, HeldIsRequest DEF ToSet
  <2>9. ASSUME NEW i \in Id \ {InvalidId}
        PROVE  OnePlace(i, w, tw \o out, fw) /\ RequestsOK(i, s, w, tw \o out, fw)
    <3>1. OnePlace(i, w, tw, fw) /\ RequestsOK(i, p, w, tw, fw)
      BY DEF FlowOK
    <3>2. RequestIn(out, i) => ~UnderWay(i, w, tw, fw)
      BY <2>1, <2>8, <3>1 DEF RequestsOK
    <3>3. OnePlace(i, w, tw \o out, fw)
      BY <2>1, <2>6, <3>1, <3>2 DEF OnePlace, UnderWay
    <3>4. ASSUME NEW r \in Req, s.id[r] = i
          PROVE  /\ r \in ToSet(s.wait) => ~UnderWay(i, w, tw \o out, fw)
                 /\ r \in ToSet(s.active) => UnderWay(i, w, tw \o out, fw)
                 /\ r \in HeldBy(s) => ~CancelIn(tw \o out, i)
      <4>1. p.id[r] = i
        BY <2>2, <3>4
      <4>2. r \in ToSet(s.wait) => ~RequestIn(out, i)
        BY <2>1, <2>4, <2>8, <4>1 DEF IdsOK
      <4>3. r \in ToSet(s.wait) => ~UnderWay(i, w, tw \o out, fw)
        BY <2>4, <2>6, <3>1, <4>1, <4>2 DEF RequestsOK, UnderWay
      <4>4. r \in ToSet(s.active) => UnderWay(i, w, tw \o out, fw)
        BY <2>1, <2>4, <2>6, <3>1, <4>1 DEF RequestsOK, UnderWay
      <4>5. r \in HeldBy(s) => ~CancelIn(tw \o out, i)
        BY <2>3, <2>6, <3>1, <4>1 DEF RequestsOK
      <4> QED
        BY <4>3, <4>4, <4>5
    <3> QED
      BY <3>3, <3>4 DEF RequestsOK
  <2>10. FlowOK(s, w, tw \o out, fw)
    BY <2>9 DEF FlowOK
  <2>11. ToSet(s.active) \subseteq ToSet(p.active) \cup ToSet(p.wait)
    BY <2>4, <2>8
  <2> QED
    BY <2>2, <2>5, <2>7, <2>10, <2>11
<1> QED
  BY <1>1, <1>2, <1>3, ScheduleCases

-----------------------------------------------------------------------------
(* Steps of the queue.                                                      *)

\* The queue has become s, and the worker is alive.
LEMMA BecomesFlows ==
    ASSUME NEW s, Sound(s), Become(s), UNCHANGED <<worker, caps>>, alive',
           FlowOK(s, worker, toWorker \o s.out, fromWorker'), Idle(s),
           QuestionOK(s, worker, toWorker \o s.out, fromWorker')
    PROVE  Flows'
<1>1. s \in QueueType
  BY DEF Sound, QueueOK
<1>2. /\ queue'.wait = s.wait /\ queue'.active = s.active /\ queue'.id = s.id
      /\ queue'.shutting = s.shutting /\ queue'.canWrite = s.canWrite
  BY <1>1 DEF Become, QueueType
<1>3. toWorker' = toWorker \o s.out /\ worker' = worker
  BY DEF Become, Idle
<1>4. Idle(queue')
  BY <1>2 DEF Idle, CanScheduleMore
<1>5. FlowOK(queue', worker', toWorker', fromWorker')
  <2>1. FlowOK(queue', worker, toWorker \o s.out, fromWorker')
    BY <1>2 DEF FlowOK, RequestsOK, HeldBy
  <2> QED
    BY <1>3, <2>1
<1>6. QuestionOK(queue', worker', toWorker', fromWorker')
  <2>1. QuestionOK(queue', worker, toWorker \o s.out, fromWorker')
    BY <1>2 DEF QuestionOK
  <2> QED
    BY <1>3, <2>1
<1> QED
  BY <1>4, <1>5, <1>6, FlowsPrime

\* The question of a blocked worker is gone, and no answer to it is under way.
Stuck(w, tw, fw) == w.asking # NoItem /\ ~AskIn(fw) /\ ~AnswerIn(tw)

LEMMA QuestionMoves ==
    ASSUME NEW q, NEW p, NEW w, NEW tw, NEW fw, NEW tw2, QuestionOK(q, w, tw, fw),
           AnswerIn(tw2) <=> AnswerIn(tw), OneAnswer(tw) => OneAnswer(tw2),
           Stuck(w, tw, fw) => \A r \in ToSet(p.active) \ {None} : p.id[r] # w.asking.id
    PROVE  QuestionOK(p, w, tw2, fw)
  BY DEF QuestionOK, Stuck

\* A message that is no question has been read.
LEMMA QuestionTail ==
    ASSUME NEW q, NEW p, NEW w, NEW tw, NEW fw \in Seq(WorkerMsg), NEW tw2,
           QuestionOK(q, w, tw, fw), fw # <<>>, fw[1].kind # "Ask",
           AnswerIn(tw2) <=> AnswerIn(tw), OneAnswer(tw) => OneAnswer(tw2)
    PROVE  QuestionOK(p, w, tw2, Tail(fw))
<1> DEFINE t == Tail(fw)
<1>1. /\ Len(fw) \in Nat /\ Len(fw) > 0 /\ DOMAIN fw = 1..Len(fw) /\ Len(t) = Len(fw) - 1
      /\ DOMAIN t = 1..Len(fw) - 1 /\ \A k \in 1..Len(fw) - 1 : t[k] = fw[k + 1]
  OBVIOUS
<1> HIDE DEF t
<1>2. \A k \in DOMAIN t : k + 1 \in DOMAIN fw /\ t[k] = fw[k + 1] /\ k \in Nat
  BY <1>1
<1>3. AskIn(t) <=> AskIn(fw)
  <2>1. \A k \in DOMAIN fw : fw[k].kind = "Ask" => k - 1 \in DOMAIN t /\ t[k - 1] = fw[k]
    BY <1>1
  <2> QED
    BY <1>2, <2>1 DEF AskIn
<1>4. ASSUME NEW k \in DOMAIN t, t[k].kind = "Ask" PROVE k = Len(t) /\ t[k].id = w.asking.id
  <2>1. k + 1 = Len(fw) /\ fw[k + 1].id = w.asking.id
    BY <1>2, <1>4 DEF QuestionOK
  <2> QED
    BY <1>1, <1>2, <2>1
<1>5. ~Stuck(w, tw, fw)
  BY DEF QuestionOK, Stuck
<1> QED
  BY <1>3, <1>4, <1>5 DEF QuestionOK, Stuck, t

\* A new request gets an id that is nowhere under way.
LEMMA QueuedFlow ==
    ASSUME NEW q \in QueueType, NEW p, NEW r \in Req, NEW n \in Id, n # InvalidId,
           NEW w, NEW tw, NEW fw,
           Queued(q, r, n, p), HeldBy(p) = HeldBy(q) \cup {r}, r \notin HeldBy(q),
           IdsOK(q.id, n), MessagesOK(q.id, n, w, tw, fw), FlowOK(q, w, tw, fw)
    PROVE  FlowOK(p, w, tw, fw)
<1>1. n \in Nat /\ ~(n < n)
  BY MaxIdIsNat DEF Id, InvalidId
<1>2. ~UnderWay(n, w, tw, fw) /\ ~CancelIn(tw, n)
  BY <1>1 DEF MessagesOK, Known, UnderWay, CancelIn, RequestIn, ItemIn, AskedIn, FinalIn
<1>3. \A s \in Req : p.id[s] = IF s = r THEN n ELSE q.id[s]
  BY DEF Queued, QueueType
<1>4. ToSet(p.wait) \subseteq ToSet(q.wait) \cup {r} /\ p.active = q.active
  <2>1. q.wait \in Seq(Req)
    BY DEF QueueType
  <2>2. \A k \in DOMAIN Append(q.wait, r) : \/ k \in DOMAIN q.wait /\ Append(q.wait, r)[k] = q.wait[k]
                                            \/ Append(q.wait, r)[k] = r
    BY <2>1
  <2> QED
    BY <2>2 DEF Queued, ToSet
<1>5. r \notin ToSet(q.active)
  BY NoneIsNoRequest DEF HeldBy, InLists
<1>6. ASSUME NEW i \in Id \ {InvalidId} PROVE RequestsOK(i, p, w, tw, fw)
  <2>1. RequestsOK(i, q, w, tw, fw)
    BY DEF FlowOK
  <2> SUFFICES ASSUME NEW s \in Req, p.id[s] = i
               PROVE  /\ s \in ToSet(p.wait) => ~UnderWay(i, w, tw, fw)
                      /\ s \in ToSet(p.active) => UnderWay(i, w, tw, fw)
                      /\ s \in HeldBy(p) => ~CancelIn(tw, i)
    BY DEF RequestsOK
  <2>2. CASE s = r
    BY <1>2, <1>3, <1>4, <1>5, <2>2
  <2>3. CASE s # r
    BY <1>3, <1>4, <2>1, <2>3 DEF RequestsOK
  <2> QED
    BY <2>2, <2>3
<1> QED
  BY <1>6 DEF FlowOK

LEMMA EnqueueFlows ==
    ASSUME Inv, LiveInv, NEW r \in Req, Enqueue(r), UNCHANGED <<worker, caps, faults>>
    PROVE  LiveInv'
<1> DEFINE p == [queue EXCEPT !.id[r] = nextId, !.linked[r] = TRUE,
                              !.wait = Append(@, r), !.told[r] = 0,
                              !.owner[r] = IF r \in Detaches THEN "gone" ELSE "waits"]
           s == ScheduleNext(p)
<1> SUFFICES ASSUME alive' PROVE Flows'
  BY DEF LiveInv
<1>1. queue \in QueueType /\ Sound(queue) /\ queue.out = <<>>
  BY DEF Inv, Sound, QueueOK
<1>2. nextId \in Id /\ nextId # InvalidId /\ nextId \in Nat
  BY MaxIdIsNat DEF Inv, Enqueue, Id, InvalidId
<1>3. /\ Downloading => r \in Files
      /\ queue.owner[r] = "idle" \/ (r \in Detaches /\ queue.id[r] = InvalidId)
  BY DEF Enqueue, Enqueueable
<1>4. Become(s) /\ UNCHANGED fromWorker
  BY DEF Enqueue
<1>5. /\ Queued(queue, r, nextId, p) /\ Sound(p) /\ Goes(p, s)
      /\ r \notin HeldBy(queue) /\ HeldBy(p) = HeldBy(queue) \cup {r}
  <2>1. Entered(queue, r, nextId, p)
    BY <1>1, <1>2, <1>3, EnqueueGoes
  <2>2. s = ScheduleNext(p)
    OBVIOUS
  <2> HIDE DEF p, s
  <2> QED
    BY <2>1, <2>2 DEF Entered
<1>6. s = ScheduleNext(p)
  OBVIOUS
<1> HIDE DEF p, s
<1>7. Flows
  BY <1>4 DEF LiveInv, Become
<1>8. FlowOK(queue, worker, toWorker, fromWorker) /\ QuestionOK(queue, worker, toWorker, fromWorker)
      /\ Idle(queue)
  BY <1>7 DEF Flows
<1>9. FlowOK(p, worker, toWorker, fromWorker)
  BY <1>1, <1>2, <1>5, <1>8, QueuedFlow DEF Inv
<1>10. p.out = <<>> /\ p.canWrite /\ ~p.shutting
  BY <1>1, <1>5, <1>8 DEF Queued, Idle
<1>11. \A t \in Req : p.id[t] = IF t = r THEN nextId ELSE queue.id[t]
  BY <1>1, <1>5 DEF Queued, QueueType
<1>12. IdsOK(p.id, nextId + 1)
  <2>1. queue.id \in [Req -> Nat]
    BY <1>1, IdsAreNat
  <2> QED
    BY <1>2, <1>11, <2>1 DEF Inv, IdsOK
<1>13. toWorker \in Seq(ControllerMsg)
  BY DEF Inv, PipeTypeOK
<1>14. /\ FlowOK(s, worker, toWorker \o s.out, fromWorker) /\ Idle(s)
       /\ AnswerIn(toWorker \o s.out) <=> AnswerIn(toWorker)
       /\ OneAnswer(toWorker) => OneAnswer(toWorker \o s.out)
       /\ ~CanScheduleMore(p) => s = p
       /\ s.id = p.id /\ ToSet(s.active) \subseteq ToSet(p.active) \cup ToSet(p.wait)
  BY <1>5, <1>6, <1>9, <1>10, <1>12, <1>13, ScheduleFlow
<1>15. ASSUME Stuck(worker, toWorker, fromWorker), NEW t \in ToSet(s.active) \ {None}
       PROVE  s.id[t] # worker.asking.id
  <2>1. \A u \in ToSet(queue.active) \ {None} : queue.id[u] # worker.asking.id
    BY <1>8, <1>15 DEF QuestionOK, Stuck
  <2>2. t \in ToSet(queue.active) \/ t = r
    <3>1. CASE queue.wait = <<>>
      <4>1. ToSet(p.wait) = {r}
        BY <1>5, <3>1 DEF Queued, ToSet
      <4> QED
        BY <1>5, <1>14, <4>1 DEF Queued
    <3>2. CASE queue.wait # <<>>
      <4>1. ~CanScheduleMore(p)
        BY <1>5, <1>8, <3>2 DEF Idle, CanScheduleMore, Queued
      <4> QED
        BY <1>5, <1>14, <4>1 DEF Queued
    <3> QED
      BY <3>1, <3>2
  <2>3. worker.asking.id < nextId /\ ~(nextId < nextId)
    BY <1>2 DEF Inv, MessagesOK, Known
  <2>4. CASE t = r
    BY <1>11, <1>14, <2>3, <2>4
  <2>5. CASE t # r
    <3>1. t \in ToSet(queue.active) \ {None} /\ t \in Req
      <4>1. ToSet(queue.active) \ {None} \subseteq Req
        BY <1>1, HeldIsRequest DEF HeldBy, InLists
      <4> QED
        BY <1>15, <2>2, <2>5, <4>1
    <3> QED
      BY <1>11, <1>14, <2>1, <2>5, <3>1
  <2> QED
    BY <2>4, <2>5
<1>16. QuestionOK(s, worker, toWorker \o s.out, fromWorker)
  BY <1>8, <1>14, <1>15, QuestionMoves
<1>17. fromWorker' = fromWorker /\ Sound(s)
  BY <1>4, <1>5 DEF Goes
<1>18. FlowOK(s, worker, toWorker \o s.out, fromWorker')
       /\ QuestionOK(s, worker, toWorker \o s.out, fromWorker')
  BY <1>14, <1>16, <1>17
<1> QED
  BY <1>4, <1>14, <1>17, <1>18, BecomesFlows

\* One more message to the worker: a cancel, or an answer.
LEMMA OneMessage ==
    ASSUME NEW tw \in Seq(ControllerMsg), NEW m \in ControllerMsg, m.kind # "Request"
    PROVE  /\ \A i \in Id : /\ RequestIn(tw \o <<m>>, i) <=> RequestIn(tw, i)
                            /\ OneRequest(tw, i) => OneRequest(tw \o <<m>>, i)
                            /\ CancelIn(tw \o <<m>>, i) <=>
                                  CancelIn(tw, i) \/ (m.kind = "Cancel" /\ i = m.id)
           /\ AnswerIn(tw \o <<m>>) <=> AnswerIn(tw) \/ IsAnswer(m)
           /\ OneAnswer(tw) /\ ~(AnswerIn(tw) /\ IsAnswer(m)) => OneAnswer(tw \o <<m>>)
<1> DEFINE out == <<m>>
<1>1. out \in Seq(ControllerMsg) /\ DOMAIN out = {1} /\ out[1] = m
  OBVIOUS
<1> HIDE DEF out
<1>2. \A i : ~RequestIn(out, i) /\ OneRequest(out, i)
  BY <1>1 DEF RequestIn, OneRequest
<1>3. \A i : CancelIn(out, i) <=> m.kind = "Cancel" /\ i = m.id
  BY <1>1 DEF CancelIn
<1>4. (AnswerIn(out) <=> IsAnswer(m)) /\ OneAnswer(out)
  BY <1>1 DEF AnswerIn, OneAnswer
<1>5. ASSUME NEW i \in Id
      PROVE  /\ RequestIn(tw \o out, i) <=> RequestIn(tw, i)
             /\ OneRequest(tw, i) => OneRequest(tw \o out, i)
             /\ CancelIn(tw \o out, i) <=> CancelIn(tw, i) \/ (m.kind = "Cancel" /\ i = m.id)
  BY <1>1, <1>2, <1>3, JoinedMessages
<1>6. /\ AnswerIn(tw \o out) <=> AnswerIn(tw) \/ IsAnswer(m)
      /\ OneAnswer(tw) /\ ~(AnswerIn(tw) /\ IsAnswer(m)) => OneAnswer(tw \o out)
  BY <1>1, <1>4, JoinedMessages
<1> QED
  BY <1>5, <1>6 DEF out

LEMMA OwnerCancelsFlows ==
    ASSUME Inv, LiveInv, NEW r \in Req, OwnerCancels(r), UNCHANGED <<worker, caps, faults>>
    PROVE  LiveInv'
<1> SUFFICES ASSUME alive' PROVE Flows'
  BY DEF LiveInv
<1> DEFINE u == GivenUp(queue, r)
           j == queue.id[r]
<1>1. queue \in QueueType /\ Sound(queue) /\ queue.out = <<>> /\ toWorker \in Seq(ControllerMsg)
  BY DEF Inv, Sound, QueueOK, PipeTypeOK
<1>2. queue.owner[r] = "waits" /\ UNCHANGED <<nextId, fromWorker>>
  BY DEF OwnerCancels
<1>3. Become(u)
  BY DEF OwnerCancels, GivenUp
<1>4. /\ Sound(u) /\ u.shutting = queue.shutting /\ u.id = queue.id
      /\ \/ /\ u.wait = queue.wait /\ u.active = queue.active /\ u.out = queue.out
            /\ u.canWrite = queue.canWrite
         \/ HeldBy(u) = HeldBy(queue) \ {r} /\ Cancelled(queue, r, u)
  <2>1. GaveUp(queue, r, u)
    BY <1>1, <1>2, GiveUpSound
  <2> HIDE DEF u
  <2> QED
    BY <2>1 DEF GaveUp
<1> HIDE DEF u
<1>5. u \in QueueType
  BY <1>4 DEF Sound, QueueOK
<1>6. /\ FlowOK(queue, worker, toWorker, fromWorker)
      /\ QuestionOK(queue, worker, toWorker, fromWorker) /\ Idle(queue)
  BY <1>3 DEF LiveInv, Flows, Become
<1>7. \A s \in ToSet(queue.active) \ {None} : s \in Req
  <2>1. ToSet(queue.active) \ {None} \subseteq Req
    BY <1>1, HeldIsRequest DEF HeldBy, InLists
  <2> QED
    BY <2>1
<1>8. ASSUME FlowOK(u, worker, toWorker \o u.out, fromWorker), Idle(u),
             AnswerIn(toWorker \o u.out) <=> AnswerIn(toWorker),
             OneAnswer(toWorker) => OneAnswer(toWorker \o u.out),
             ToSet(u.active) \subseteq ToSet(queue.active) \cup {None}
      PROVE  Flows'
  <2>1. Stuck(worker, toWorker, fromWorker) =>
            \A s \in ToSet(u.active) \ {None} : u.id[s] # worker.asking.id
    BY <1>4, <1>6, <1>8 DEF QuestionOK, Stuck
  <2>2. QuestionOK(u, worker, toWorker \o u.out, fromWorker)
    BY <1>6, <1>8, <2>1, QuestionMoves
  <2>3. fromWorker' = fromWorker
    BY <1>2
  <2> QED
    BY <1>3, <1>4, <1>8, <2>2, <2>3, BecomesFlows
<1>9. CASE /\ u.wait = queue.wait /\ u.active = queue.active /\ u.out = queue.out
           /\ u.canWrite = queue.canWrite
  <2>1. Loses(queue, u, InvalidId)
    BY <1>4, <1>9 DEF Loses, HeldBy
  <2>2. toWorker \o u.out = toWorker
    BY <1>1, <1>9
  <2>3. FlowOK(u, worker, toWorker, fromWorker)
    BY <1>5, <1>6, <2>1, LosesFlow
  <2>4. Idle(u)
    BY <1>4, <1>6, <1>9 DEF Idle, CanScheduleMore
  <2> QED
    BY <1>8, <1>9, <2>2, <2>3, <2>4
<1>10. ASSUME HeldBy(u) = HeldBy(queue) \ {r},
              ToSet(u.wait) \subseteq ToSet(queue.wait),
              ToSet(u.active) \subseteq ToSet(queue.active) \cup {None}
       PROVE  Loses(queue, u, j)
  <2> SUFFICES ASSUME NEW s \in Req, u.id[s] # InvalidId
               PROVE  /\ u.id[s] = queue.id[s]
                      /\ s \in ToSet(u.wait) => s \in ToSet(queue.wait)
                      /\ s \in ToSet(u.active) => s \in ToSet(queue.active)
                      /\ s \in HeldBy(u) => s \in HeldBy(queue) /\ u.id[s] # j
    BY DEF Loses
  <2>1. s # None
    BY NoneIsNoRequest
  <2>2. s # r => queue.id[s] # j
    BY <1>4 DEF Inv, IdsOK
  <2> QED
    BY <1>4, <1>10, <2>1, <2>2
<1>11. CASE /\ HeldBy(u) = HeldBy(queue) \ {r} /\ u.canWrite = queue.canWrite
            /\ u.active = queue.active /\ u.out = queue.out
            /\ ToSet(u.wait) \subseteq ToSet(queue.wait)
  <2>1. Loses(queue, u, j)
    BY <1>10, <1>11
  <2>2. toWorker \o u.out = toWorker
    BY <1>1, <1>11
  <2>3. FlowOK(u, worker, toWorker, fromWorker)
    BY <1>5, <1>6, <2>1, LosesFlow
  <2>4. queue.wait = <<>> => u.wait = <<>>
    <3>1. u.wait \in Seq(Req)
      BY <1>5 DEF QueueType
    <3>2. u.wait # <<>> => u.wait[1] \in ToSet(u.wait)
      BY <3>1 DEF ToSet
    <3>3. queue.wait = <<>> => ToSet(queue.wait) = {}
      BY DEF ToSet
    <3> QED
      BY <1>11, <3>2, <3>3
  <2>5. Idle(u)
    BY <1>4, <1>6, <1>11, <2>4 DEF Idle, CanScheduleMore
  <2> QED
    BY <1>8, <1>11, <2>2, <2>3, <2>5
<1>12. CASE /\ HeldBy(u) = HeldBy(queue) \ {r} /\ u.canWrite = queue.canWrite
            /\ u.wait = queue.wait
            /\ \E i \in DOMAIN queue.active : u.active = [queue.active EXCEPT ![i] = None]
            /\ u.out = queue.out \o (IF queue.canWrite THEN <<Msg("Cancel", queue.id[r], r)>> ELSE <<>>)
  <2> DEFINE m == Msg("Cancel", queue.id[r], r)
  <2>1. m \in ControllerMsg /\ m.kind = "Cancel" /\ m.id = j
    BY <1>1 DEF Msg, ControllerMsg, QueueType
  <2>2. u.out = <<m>>
    BY <1>1, <1>6, <1>12 DEF Idle
  <2> HIDE DEF m
  <2>3. PICK i \in DOMAIN queue.active : u.active = [queue.active EXCEPT ![i] = None]
    BY <1>12
  <2>4. queue.active \in Seq(Req \cup {None}) /\ u.active \in Seq(Req \cup {None})
    BY <1>1, <1>5 DEF QueueType
  <2>5. u.active # <<>> /\ queue.active # <<>>
    <3>1. DOMAIN u.active = DOMAIN queue.active
      BY <2>3
    <3> QED
      BY <2>3, <3>1
  <2>6. ToSet(u.active) \subseteq ToSet(queue.active) \cup {None}
    BY <2>3 DEF ToSet
  <2>7. Loses(queue, u, j)
    BY <1>10, <1>12, <2>6
  <2>8. /\ \A k \in Id : /\ RequestIn(toWorker \o <<m>>, k) <=> RequestIn(toWorker, k)
                         /\ OneRequest(toWorker, k) => OneRequest(toWorker \o <<m>>, k)
                         /\ CancelIn(toWorker \o <<m>>, k) => CancelIn(toWorker, k) \/ k = j
        /\ AnswerIn(toWorker \o <<m>>) <=> AnswerIn(toWorker)
        /\ OneAnswer(toWorker) => OneAnswer(toWorker \o <<m>>)
    BY <1>1, <2>1, OneMessage DEF IsAnswer
  <2>9. FlowOK(u, worker, toWorker \o <<m>>, fromWorker)
    BY <1>5, <1>6, <2>7, <2>8, LosesFlow
  <2>10. Idle(u)
    BY <1>4, <1>6, <1>12, <2>5 DEF Idle, CanScheduleMore
  <2> QED
    BY <1>8, <2>2, <2>6, <2>8, <2>9, <2>10
<1> QED
  BY <1>4, <1>9, <1>11, <1>12 DEF Cancelled

LEMMA TailMessages ==
    ASSUME NEW fw \in Seq(WorkerMsg), fw # <<>>
    PROVE  /\ fw[1] \in WorkerMsg /\ Head(fw) = fw[1] /\ 1 \in DOMAIN fw
           /\ \A i : /\ FinalIn(Tail(fw), i) => FinalIn(fw, i)
                     /\ FinalIn(fw, i) => \/ FinalIn(Tail(fw), i)
                                          \/ fw[1].kind \in FinalKinds /\ i = fw[1].id
<1> DEFINE t == Tail(fw)
<1>1. /\ Len(fw) \in Nat /\ Len(fw) > 0 /\ DOMAIN fw = 1..Len(fw)
      /\ DOMAIN t = 1..Len(fw) - 1 /\ \A k \in 1..Len(fw) - 1 : t[k] = fw[k + 1]
      /\ Head(fw) = fw[1] /\ fw[1] \in WorkerMsg
  OBVIOUS
<1> HIDE DEF t
<1>2. \A k \in DOMAIN t : k + 1 \in DOMAIN fw /\ t[k] = fw[k + 1]
  BY <1>1
<1>3. \A k \in DOMAIN fw : k = 1 \/ (k - 1 \in DOMAIN t /\ t[k - 1] = fw[k])
  BY <1>1
<1>4. ASSUME NEW i, FinalIn(t, i) PROVE FinalIn(fw, i)
  BY <1>2, <1>4 DEF FinalIn
<1>5. ASSUME NEW i, FinalIn(fw, i)
      PROVE  FinalIn(t, i) \/ (fw[1].kind \in FinalKinds /\ i = fw[1].id)
  BY <1>3, <1>5 DEF FinalIn
<1>6. 1 \in DOMAIN fw
  BY <1>1
<1> QED
  BY <1>1, <1>4, <1>5, <1>6 DEF t

\* A final message has been read, u is left of the queue, and the next requests
\* are sent.
LEMMA FinalFlows ==
    ASSUME Inv, Flows, NEW u, Sound(u), Loses(queue, u, fromWorker[1].id),
           IdsOK(u.id, nextId), u.out = <<>>, u.canWrite, ~u.shutting,
           NEW s, s = ScheduleNext(u), Sound(s), Become(s), alive',
           fromWorker # <<>>, fromWorker' = Tail(fromWorker), fromWorker[1].kind \in FinalKinds,
           UNCHANGED <<worker, caps, faults>>
    PROVE  Flows'
<1>1. toWorker \in Seq(ControllerMsg) /\ fromWorker \in Seq(WorkerMsg) /\ u \in QueueType
  BY DEF Inv, PipeTypeOK, Sound, QueueOK
<1>2. FlowOK(queue, worker, toWorker, fromWorker) /\ QuestionOK(queue, worker, toWorker, fromWorker)
  BY DEF Flows
<1> DEFINE t == Tail(fromWorker)
           j == fromWorker[1].id
<1>3. \A i \in Id : /\ FinalIn(t, i) => FinalIn(fromWorker, i)
                    /\ FinalIn(fromWorker, i) => FinalIn(t, i) \/ i = j
  BY <1>1, TailMessages
<1>4. fromWorker[1].kind # "Ask"
  BY DEF FinalKinds
<1> HIDE DEF t, j
<1>5. FlowOK(u, worker, toWorker, t)
  <2>1. Loses(queue, u, j)
    BY DEF j
  <2> QED
    BY <1>1, <1>2, <1>3, <2>1, LosesFlow
<1>6. /\ FlowOK(s, worker, toWorker \o s.out, t) /\ Idle(s)
      /\ AnswerIn(toWorker \o s.out) <=> AnswerIn(toWorker)
      /\ OneAnswer(toWorker) => OneAnswer(toWorker \o s.out)
  BY <1>1, <1>5, ScheduleFlow
<1>7. QuestionOK(s, worker, toWorker \o s.out, t)
  BY <1>1, <1>2, <1>4, <1>6, QuestionTail DEF t
<1>8. fromWorker' = t
  BY DEF t
<1>9. /\ FlowOK(s, worker, toWorker \o s.out, fromWorker')
      /\ QuestionOK(s, worker, toWorker \o s.out, fromWorker')
  BY <1>6, <1>7, <1>8
<1> QED
  BY <1>6, <1>9, BecomesFlows

\* The active item i has got its result, or starts over.
LEMMA HandleFinalFlows ==
    ASSUME Inv, Flows, NEW i \in DOMAIN queue.active, queue.active[i] # None,
           fromWorker # <<>>, fromWorker' = Tail(fromWorker), fromWorker[1].kind \in FinalKinds,
           queue.id[queue.active[i]] = fromWorker[1].id,
           NEW m, HandleFinal(m, i), alive', UNCHANGED <<worker, caps, faults>>
    PROVE  Flows'
<1>1. queue \in QueueType /\ Sound(queue) /\ queue.out = <<>>
  BY DEF Inv, Sound, QueueOK
<1>2. PICK r \in Req : r = queue.active[i] /\ r \in HeldBy(queue)
  BY <1>1, HeldIsRequest
<1>3. Idle(queue) /\ IdsOK(queue.id, nextId) /\ queue.id[r] = fromWorker[1].id
  BY <1>2 DEF Flows, Inv
<1>4. \A s \in ToSet(RemoveAt(queue.active, i)) : s \in ToSet(queue.active)
  <2> DEFINE t == RemoveAt(queue.active, i)
  <2>1. Without(t, queue.active, i)
    BY <1>1, RemoveWithout DEF QueueType
  <2> HIDE DEF t
  <2>2. \A k \in DOMAIN t : \E l \in DOMAIN queue.active : t[k] = queue.active[l]
    BY <2>1 DEF Without
  <2>3. \A s \in ToSet(t) : s \in ToSet(queue.active)
    BY <2>2 DEF ToSet
  <2> QED
    BY <2>3 DEF t
<1>5. ASSUME Become(FinishActive(queue, i)) PROVE Flows'
  <2> DEFINE s == FinishActive(queue, i)
  <2>1. PICK u : /\ TakenOut(queue, r, u) /\ Sound(u) /\ Goes(u, s) /\ s = ScheduleNext(u)
                 /\ u.wait = queue.wait /\ u.active = RemoveAt(queue.active, i)
                 /\ u.canWrite = queue.canWrite /\ u.out = queue.out
    BY <1>1, <1>2, FinishGoes
  <2>2. Become(s)
    BY <1>5
  <2> HIDE DEF s
  <2>3. u.id = queue.id /\ u.shutting = queue.shutting /\ HeldBy(u) = HeldBy(queue) \ {r}
    BY <2>1 DEF TakenOut
  <2>4. Loses(queue, u, fromWorker[1].id)
    <3> SUFFICES ASSUME NEW x \in Req, u.id[x] # InvalidId
                 PROVE  /\ u.id[x] = queue.id[x]
                        /\ x \in ToSet(u.wait) => x \in ToSet(queue.wait)
                        /\ x \in ToSet(u.active) => x \in ToSet(queue.active)
                        /\ x \in HeldBy(u) => x \in HeldBy(queue) /\ u.id[x] # fromWorker[1].id
      BY DEF Loses
    <3>1. x # r => queue.id[x] # queue.id[r]
      BY <1>3, <2>3 DEF IdsOK
    <3> QED
      BY <1>3, <1>4, <2>1, <2>3, <3>1
  <2>5. IdsOK(u.id, nextId) /\ u.out = <<>> /\ u.canWrite /\ ~u.shutting /\ Sound(s)
    BY <1>1, <1>3, <2>1, <2>3 DEF Idle, Goes
  <2> QED
    BY <2>1, <2>2, <2>4, <2>5, FinalFlows
<1>6. ASSUME Downloading, Become(CacheMiss(queue, i)) PROVE Flows'
  <2> DEFINE s == CacheMiss(queue, i)
  <2>1. PICK u : /\ s = ScheduleNext(u) /\ Sound(u) /\ HeldBy(u) = HeldBy(queue)
                 /\ u.wait = <<r>> \o queue.wait /\ u.active = RemoveAt(queue.active, i)
                 /\ u.id = [queue.id EXCEPT ![r] = InvalidId]
                 /\ u.shutting = queue.shutting /\ u.canWrite = queue.canWrite
                 /\ u.out = queue.out
    BY <1>1, <1>2, <1>6, CacheMissGoes
  <2>2. Sound(s)
    BY <1>1, <1>2, <1>6, CacheMissGoes
  <2>3. Become(s)
    BY <1>6
  <2> HIDE DEF s
  <2>4. /\ \A x \in Req : u.id[x] = IF x = r THEN InvalidId ELSE queue.id[x]
        /\ queue.id \in [Req -> Nat]
    BY <1>1, <2>1, IdsAreNat DEF QueueType
  <2>5. \A x \in ToSet(u.wait) : x = r \/ x \in ToSet(queue.wait)
    <3> DEFINE h == <<r>>
    <3>1. queue.wait \in Seq(Req) /\ h \in Seq(Req) /\ Len(h) = 1 /\ h[1] = r
      BY <1>1 DEF QueueType
    <3> HIDE DEF h
    <3>2. /\ h \o queue.wait \in Seq(Req) /\ Len(h \o queue.wait) = Len(h) + Len(queue.wait)
          /\ \A k \in 1..Len(h) + Len(queue.wait) :
                (h \o queue.wait)[k] = IF k <= Len(h) THEN h[k] ELSE queue.wait[k - Len(h)]
      BY <3>1, Joined
    <3>3. u.wait = h \o queue.wait
      BY <2>1 DEF h
    <3>4. ASSUME NEW k \in DOMAIN u.wait PROVE u.wait[k] = r \/ u.wait[k] \in ToSet(queue.wait)
      <4>1. k \in 1..1 + Len(queue.wait) /\ Len(queue.wait) \in Nat
        BY <3>1, <3>2, <3>3
      <4>2. CASE k <= 1
        BY <3>1, <3>2, <3>3, <4>1, <4>2
      <4>3. CASE ~(k <= 1)
        <5>1. k - 1 \in DOMAIN queue.wait /\ u.wait[k] = queue.wait[k - 1]
          BY <3>1, <3>2, <3>3, <4>1, <4>3
        <5> QED
          BY <5>1 DEF ToSet
      <4> QED
        BY <4>2, <4>3
    <3> QED
      BY <3>4 DEF ToSet
  <2>6. Loses(queue, u, fromWorker[1].id)
    <3> SUFFICES ASSUME NEW x \in Req, u.id[x] # InvalidId
                 PROVE  /\ u.id[x] = queue.id[x]
                        /\ x \in ToSet(u.wait) => x \in ToSet(queue.wait)
                        /\ x \in ToSet(u.active) => x \in ToSet(queue.active)
                        /\ x \in HeldBy(u) => x \in HeldBy(queue) /\ u.id[x] # fromWorker[1].id
      BY DEF Loses
    <3>1. x # r /\ u.id[x] = queue.id[x]
      BY <2>4
    <3>2. queue.id[x] # queue.id[r]
      BY <1>3, <3>1 DEF IdsOK
    <3> QED
      BY <1>3, <1>4, <2>1, <2>5, <3>1, <3>2
  <2>7. IdsOK(u.id, nextId)
    BY <1>3, <2>4 DEF IdsOK, Inv, InvalidId
  <2>8. u.out = <<>> /\ u.canWrite /\ ~u.shutting
    BY <1>1, <1>3, <2>1 DEF Idle
  <2> QED
    BY <2>1, <2>2, <2>3, <2>6, <2>7, <2>8, FinalFlows
<1> QED
  BY <1>5, <1>6 DEF HandleFinal

\* A question about an active request is answered.
LEMMA HandleAskFlows ==
    ASSUME Inv, Flows, NEW i \in DOMAIN queue.active, queue.active[i] # None,
           fromWorker # <<>>, fromWorker' = Tail(fromWorker), fromWorker[1].kind = "Ask",
           NEW m, HandleAsk(m, i), alive', UNCHANGED <<worker, caps, faults>>
    PROVE  Flows'
<1> DEFINE r == queue.active[i]
<1>1. /\ queue \in QueueType /\ Sound(queue) /\ queue.out = <<>>
      /\ toWorker \in Seq(ControllerMsg) /\ fromWorker \in Seq(WorkerMsg)
  BY DEF Inv, Sound, QueueOK, PipeTypeOK
<1>2. r \in Req /\ r \in HeldBy(queue)
  BY <1>1, HeldIsRequest
<1>3. PICK k \in {"Granted", "Refused"} : Become(SendOrShutdown(queue, Msg(k, queue.id[r], r)))
  BY DEF HandleAsk
<1> DEFINE a == Msg(k, queue.id[r], r)
           s == SendOrShutdown(queue, a)
<1>4. a \in ControllerMsg /\ IsAnswer(a) /\ a.kind # "Request" /\ a.kind # "Cancel"
      /\ a.id = queue.id[a.req] /\ a.req = r
  BY <1>1, <1>2 DEF Msg, ControllerMsg, QueueType, IsAnswer
<1>5. Downloading => a.req \notin Detaches
  BY <1>1, <1>2, <1>4 DEF Sound, QueueOK, DetachesOK
<1>6. Become(s)
  BY <1>3
<1> HIDE DEF a
<1>7. /\ Idle(queue) /\ FlowOK(queue, worker, toWorker, fromWorker)
      /\ QuestionOK(queue, worker, toWorker, fromWorker)
  BY DEF Flows
<1>8. /\ s.wait = queue.wait /\ s.active = queue.active /\ s.id = queue.id
      /\ s.shutting = queue.shutting /\ s.canWrite = queue.canWrite
      /\ s.out = <<a>>
  <2>1. s = [queue EXCEPT !.out = Append(queue.out, a)]
    BY <1>1, <1>7 DEF SendOrShutdown, Idle, QueueType
  <2>2. Append(queue.out, a) = <<a>>
    BY <1>1
  <2> QED
    BY <1>1, <2>1, <2>2 DEF QueueType
<1>9. Sound(s)
  BY <1>1, <1>4, <1>5, <1>7, SendGoes DEF Goes, Idle
<1> HIDE DEF s
<1>10. Idle(s) /\ s \in QueueType
  BY <1>7, <1>8, <1>9 DEF Idle, CanScheduleMore, Sound, QueueOK
<1> DEFINE out == <<a>>
           t == Tail(fromWorker)
<1>11. /\ \A j \in Id : /\ RequestIn(toWorker \o out, j) <=> RequestIn(toWorker, j)
                        /\ OneRequest(toWorker, j) => OneRequest(toWorker \o out, j)
                        /\ CancelIn(toWorker \o out, j) => CancelIn(toWorker, j)
       /\ AnswerIn(toWorker \o out)
       /\ OneAnswer(toWorker) /\ ~AnswerIn(toWorker) => OneAnswer(toWorker \o out)
  BY <1>1, <1>4, OneMessage
<1>12. \A j \in Id : FinalIn(t, j) <=> FinalIn(fromWorker, j)
  BY <1>1, TailMessages DEF FinalKinds
<1>13. AskIn(fromWorker) /\ Len(fromWorker) = 1
  <2>1. 1 \in DOMAIN fromWorker
    BY <1>1, TailMessages
  <2> QED
    BY <1>7, <2>1 DEF AskIn, QuestionOK
<1>14. t = <<>>
  BY <1>1, <1>13
<1> HIDE DEF out
<1>15. FlowOK(s, worker, toWorker \o out, t)
  <2>1. Loses(queue, s, InvalidId)
    BY <1>8 DEF Loses, HeldBy
  <2> QED
    BY <1>7, <1>10, <1>11, <1>12, <2>1, LosesFlow
<1>16. QuestionOK(s, worker, toWorker \o out, t)
  BY <1>7, <1>11, <1>13, <1>14 DEF QuestionOK, AskIn
<1> QED
  BY <1>6, <1>8, <1>9, <1>10, <1>15, <1>16, BecomesFlows DEF out

\* No active request of q has the id.
NoneFound(q, id) ==
    \A k \in DOMAIN q.active : q.active[k] # None => q.id[q.active[k]] # id

\* A message about no active request is dropped.
LEMMA DropFlows ==
    ASSUME Inv, Flows, GetRequest(queue, fromWorker[1].id) = 0,
           fromWorker # <<>>, fromWorker' = Tail(fromWorker),
           UNCHANGED <<queue, toWorker, worker, caps, faults>>
    PROVE  Flows'
<1> DEFINE t == Tail(fromWorker)
           j == fromWorker[1].id
<1>1. queue \in QueueType /\ fromWorker \in Seq(WorkerMsg)
  BY DEF Inv, Sound, QueueOK, PipeTypeOK
<1>2. /\ Idle(queue) /\ FlowOK(queue, worker, toWorker, fromWorker)
      /\ QuestionOK(queue, worker, toWorker, fromWorker)
  BY DEF Flows
<1>3. \A k \in DOMAIN queue.active : queue.active[k] # None => queue.id[queue.active[k]] # j
  <2>1. NoneFound(queue, j) \/ GetRequest(queue, j) \in DOMAIN queue.active
    BY <1>1, RequestFound DEF NoneFound
  <2>2. 0 \notin DOMAIN queue.active
    BY <1>1 DEF QueueType
  <2> QED
    BY <2>1, <2>2 DEF NoneFound
<1>4. fromWorker[1] \in WorkerMsg /\ 1 \in DOMAIN fromWorker
  BY <1>1, TailMessages
<1>5. CASE fromWorker[1].kind \in FinalKinds
  <2>1. \A i \in Id : /\ FinalIn(t, i) => FinalIn(fromWorker, i)
                      /\ FinalIn(fromWorker, i) => FinalIn(t, i) \/ i = j
    BY <1>1, TailMessages
  <2>2. Loses(queue, queue, j)
    <3> SUFFICES ASSUME NEW r \in Req, queue.id[r] # InvalidId, r \in HeldBy(queue)
                 PROVE  queue.id[r] # j
      BY DEF Loses
    <3>1. CASE r \in ToSet(queue.wait)
      <4>1. queue.id[r] \in Id
        BY <1>1 DEF QueueType
      <4>2. ~UnderWay(queue.id[r], worker, toWorker, fromWorker)
        BY <1>2, <3>1, <4>1 DEF FlowOK, RequestsOK
      <4>3. FinalIn(fromWorker, j)
        BY <1>4, <1>5 DEF FinalIn
      <4> QED
        BY <4>2, <4>3 DEF UnderWay
    <3>2. CASE r \in ToSet(queue.active) \ {None}
      BY <1>3, <3>2 DEF ToSet
    <3> QED
      BY <3>1, <3>2 DEF HeldBy, InLists
  <2>3. fromWorker[1].kind # "Ask"
    BY <1>5 DEF FinalKinds
  <2>4. QuestionOK(queue, worker, toWorker, t)
    BY <1>1, <1>2, <2>3, QuestionTail
  <2> HIDE DEF t, j
  <2>5. FlowOK(queue, worker, toWorker, t)
    BY <1>1, <1>2, <2>1, <2>2, LosesFlow
  <2> QED
    BY <1>2, <2>4, <2>5, FlowsPrime DEF t
<1>6. CASE fromWorker[1].kind \notin FinalKinds
  <2>1. fromWorker[1].kind = "Ask"
    BY <1>4, <1>6 DEF WorkerMsg
  <2>2. \A i \in Id : FinalIn(t, i) <=> FinalIn(fromWorker, i)
    BY <1>1, <1>6, TailMessages
  <2>3. Loses(queue, queue, InvalidId)
    BY DEF Loses
  <2>4. AskIn(fromWorker) /\ Len(fromWorker) = 1 /\ j = worker.asking.id
    BY <1>2, <1>4, <2>1 DEF AskIn, QuestionOK
  <2>5. t = <<>>
    BY <1>1, <2>4
  <2>6. \A r \in ToSet(queue.active) \ {None} : queue.id[r] # worker.asking.id
    BY <1>3, <2>4 DEF ToSet
  <2> HIDE DEF t, j
  <2>7. FlowOK(queue, worker, toWorker, t)
    BY <1>1, <1>2, <2>2, <2>3, LosesFlow
  <2>8. QuestionOK(queue, worker, toWorker, t)
    BY <1>2, <2>4, <2>5, <2>6 DEF QuestionOK, AskIn
  <2> QED
    BY <1>2, <2>7, <2>8, FlowsPrime DEF t
<1> QED
  BY <1>5, <1>6

LEMMA ProcessMessageFlows ==
    ASSUME Inv, LiveInv, ProcessMessage, UNCHANGED <<worker, caps, faults>>
    PROVE  LiveInv'
<1> SUFFICES ASSUME alive' PROVE Flows'
  BY DEF LiveInv
<1> DEFINE m == Head(fromWorker)
           i == GetRequest(queue, m.id)
<1>1. queue \in QueueType /\ fromWorker \in Seq(WorkerMsg)
  BY DEF Inv, Sound, QueueOK, PipeTypeOK
<1>2. fromWorker # <<>> /\ fromWorker' = Tail(fromWorker)
  BY DEF ProcessMessage
<1>3. m \in WorkerMsg /\ m = fromWorker[1]
  BY <1>1, <1>2, TailMessages
<1>4. \/ i = 0
      \/ /\ i \in DOMAIN queue.active
         /\ queue.active[i] # None /\ queue.id[queue.active[i]] = m.id
  BY <1>1, RequestFound
<1>5. \/ i = 0 /\ UNCHANGED <<queue, alive, toWorker>>
      \/ i # 0 /\ m.kind \in FinalKinds /\ HandleFinal(m, i)
      \/ i # 0 /\ m.kind \notin FinalKinds /\ HandleAsk(m, i)
  BY DEF ProcessMessage
<1>6. Flows
  BY <1>5 DEF LiveInv, HandleFinal, HandleAsk, Become
<1>7. i = GetRequest(queue, fromWorker[1].id)
  BY <1>3
<1> HIDE DEF i
<1>8. CASE i = 0 /\ UNCHANGED <<queue, alive, toWorker>>
  BY <1>2, <1>6, <1>7, <1>8, DropFlows
<1>9. CASE i # 0 /\ m.kind \in FinalKinds /\ HandleFinal(m, i)
  BY <1>2, <1>3, <1>4, <1>6, <1>9, HandleFinalFlows
<1>10. CASE i # 0 /\ m.kind \notin FinalKinds /\ HandleAsk(m, i)
  <2>1. m.kind = "Ask"
    BY <1>3, <1>10 DEF WorkerMsg
  <2> QED
    BY <1>2, <1>3, <1>4, <1>6, <1>10, <2>1, HandleAskFlows
<1> QED
  BY <1>5, <1>8, <1>9, <1>10

LEMMA QueueLives ==
    ASSUME Inv, LiveInv, QueueNext, UNCHANGED <<worker, caps, faults>>
    PROVE  LiveInv'
<1>1. ASSUME NEW r \in Req, Enqueue(r) \/ OwnerCancels(r) PROVE LiveInv'
  BY <1>1, EnqueueFlows, OwnerCancelsFlows
<1>2. CASE ProcessMessage
  BY <1>2, ProcessMessageFlows
<1>3. CASE WriteFails \/ ProcFinished
  BY <1>3 DEF WriteFails, ProcFinished, Become, LiveInv
<1>4. CASE Destroy
  <2>1. queue \in QueueType /\ QueueOK(queue)
    BY DEF Inv, Sound, QueueOK
  <2>2. ImmediateShutdown(queue).shutting /\ ImmediateShutdown(queue) \in QueueType
    BY <2>1, ShutdownStops DEF Sound, QueueOK
  <2>3. ~alive'
    BY <1>4, <2>2 DEF Destroy, Become, QueueType
  <2> QED
    BY <2>3 DEF LiveInv
<1> QED
  BY <1>1, <1>2, <1>3, <1>4 DEF QueueNext

-----------------------------------------------------------------------------
(* The theorems.                                                            *)

LEMMA LiveInit == Init => LiveInv
<1> SUFFICES ASSUME Init PROVE Flows
  BY DEF LiveInv
<1> USE DEF Init, QueueInit, WorkerInit, PipeInit
<1>1. /\ queue.wait = <<>> /\ queue.active = <<>> /\ queue.shutting = FALSE
      /\ queue.canWrite = TRUE /\ worker.items = <<>> /\ worker.asking = NoItem
      /\ toWorker = <<>> /\ fromWorker = <<>>
  OBVIOUS
<1>2. Idle(queue)
  BY <1>1 DEF Idle, CanScheduleMore
<1>3. ToSet(queue.wait) = {} /\ ToSet(queue.active) = {} /\ HeldBy(queue) = {}
  BY <1>1 DEF ToSet, HeldBy, InLists
<1>4. ASSUME NEW i \in Id \ {InvalidId}
      PROVE  /\ OnePlace(i, worker, toWorker, fromWorker)
             /\ RequestsOK(i, queue, worker, toWorker, fromWorker)
  <2>1. /\ ~RequestIn(toWorker, i) /\ ~ItemIn(worker.items, i) /\ ~AskedIn(worker, i)
        /\ OneRequest(toWorker, i) /\ OneItem(worker.items, i)
    BY <1>1 DEF RequestIn, ItemIn, AskedIn, OneRequest, OneItem, NoItem
  <2> QED
    BY <1>3, <2>1 DEF OnePlace, RequestsOK
<1>5. FlowOK(queue, worker, toWorker, fromWorker)
  BY <1>1, <1>4 DEF FlowOK
<1>6. QuestionOK(queue, worker, toWorker, fromWorker)
  BY <1>1, FreeQuestion DEF AskIn, AnswerIn
<1> QED
  BY <1>2, <1>5, <1>6 DEF Flows

LEMMA LiveStep == Inv /\ LiveInv /\ [Next]_vars => LiveInv'
<1> SUFFICES ASSUME Inv, LiveInv, [Next]_vars PROVE LiveInv'
  OBVIOUS
<1>1. CASE QueueNext /\ UNCHANGED <<worker, caps, faults>>
  BY <1>1, QueueLives
<1>2. CASE WorkerNext /\ UNCHANGED <<queueVars, caps, faults>>
  BY <1>2, WorkerLives
<1>3. CASE UNCHANGED vars
  <2> SUFFICES ASSUME alive' PROVE Flows'
    BY DEF LiveInv
  <2>1. /\ queue' = queue /\ worker' = worker /\ toWorker' = toWorker
        /\ fromWorker' = fromWorker /\ caps' = caps /\ alive' = alive
    BY <1>3 DEF vars, pipeVars
  <2>2. /\ Idle(queue) /\ FlowOK(queue, worker, toWorker, fromWorker)
        /\ QuestionOK(queue, worker, toWorker, fromWorker)
    BY <2>1 DEF LiveInv, Flows
  <2>3. /\ Idle(queue') /\ FlowOK(queue', worker', toWorker', fromWorker')
        /\ QuestionOK(queue', worker', toWorker', fromWorker')
    BY <2>1, <2>2 DEF Idle, CanScheduleMore
  <2> QED
    BY <2>1, <2>3, FlowsPrime
<1> QED
  BY <1>1, <1>2, <1>3 DEF Next

LEMMA FlowInvariance == Spec => [](Inv /\ LiveInv)
<1>1. Inv /\ LiveInv /\ [Next]_vars => Inv' /\ LiveInv'
  BY InvStep, LiveStep
<1> QED
  BY InvInit, LiveInit, <1>1, PTL DEF Spec

LEMMA OneToken ==
    ASSUME Inv, LiveInv, alive, NEW r \in ToSet(queue.active) \ {None},
           queue.id[r] # InvalidId
    PROVE  \E t : Tokens(r) = {t}
<1> DEFINE i == queue.id[r]
           S == {<<"sent", k>> : k \in {j \in DOMAIN toWorker :
                                   toWorker[j].kind = "Request" /\ toWorker[j].id = i}}
           I == {<<"taken", k>> : k \in {j \in DOMAIN worker.items : worker.items[j].id = i}}
           A == IF ~Downloading /\ worker.asking.id = i THEN {<<"asked", 0>>} ELSE {}
           F == IF \E k \in DOMAIN fromWorker : fromWorker[k].kind \in FinalKinds
                                                /\ fromWorker[k].id = i
                THEN {<<"answered", 0>>} ELSE {}
<1>1. Tokens(r) = S \cup I \cup A \cup F
  BY DEF Tokens
<1>2. r \in Req /\ i \in Id \ {InvalidId}
  <2>1. queue \in QueueType
    BY DEF Inv, Sound, QueueOK
  <2>2. r \in Req
    BY <2>1, HeldIsRequest DEF HeldBy, InLists
  <2> QED
    BY <2>1, <2>2 DEF QueueType
<1>3. /\ OnePlace(i, worker, toWorker, fromWorker) /\ UnderWay(i, worker, toWorker, fromWorker)
  BY <1>2 DEF LiveInv, Flows, FlowOK, RequestsOK
<1>4. /\ ~RequestIn(toWorker, i) => S = {}
      /\ RequestIn(toWorker, i) => \E t : S = {t}
  <2>1. ~RequestIn(toWorker, i) => S = {}
    BY DEF RequestIn
  <2>2. ASSUME NEW k \in DOMAIN toWorker, toWorker[k].kind = "Request", toWorker[k].id = i
        PROVE  S = {<<"sent", k>>}
    <3>1. \A j \in DOMAIN toWorker : toWorker[j].kind = "Request" /\ toWorker[j].id = i <=> j = k
      BY <1>3, <2>2 DEF OnePlace, OneRequest
    <3>2. {j \in DOMAIN toWorker : toWorker[j].kind = "Request" /\ toWorker[j].id = i} = {k}
      BY <3>1
    <3> QED
      BY <3>2
  <2> HIDE DEF S, i
  <2> QED
    BY <2>1, <2>2 DEF RequestIn
<1>5. /\ ~ItemIn(worker.items, i) => I = {}
      /\ ItemIn(worker.items, i) => \E t : I = {t}
  <2>1. ~ItemIn(worker.items, i) => I = {}
    BY DEF ItemIn
  <2>2. ASSUME NEW k \in DOMAIN worker.items, worker.items[k].id = i
        PROVE  I = {<<"taken", k>>}
    <3>1. \A j \in DOMAIN worker.items : worker.items[j].id = i <=> j = k
      BY <1>3, <2>2 DEF OnePlace, OneItem
    <3>2. {j \in DOMAIN worker.items : worker.items[j].id = i} = {k}
      BY <3>1
    <3> QED
      BY <3>2
  <2> HIDE DEF I, i
  <2> QED
    BY <2>1, <2>2 DEF ItemIn
<1>6. /\ ~AskedIn(worker, i) => A = {}
      /\ AskedIn(worker, i) => \E t : A = {t}
  BY DEF AskedIn
<1>7. /\ ~FinalIn(fromWorker, i) => F = {}
      /\ FinalIn(fromWorker, i) => \E t : F = {t}
  BY DEF FinalIn
<1> HIDE DEF S, I, A, F, i
<1>8. CASE RequestIn(toWorker, i)
  <2>1. I = {} /\ A = {} /\ F = {} /\ \E t : S = {t}
    BY <1>3, <1>4, <1>5, <1>6, <1>7, <1>8 DEF OnePlace
  <2> QED
    BY <1>1, <2>1
<1>9. CASE ItemIn(worker.items, i)
  <2>1. S = {} /\ A = {} /\ F = {} /\ \E t : I = {t}
    BY <1>3, <1>4, <1>5, <1>6, <1>7, <1>9 DEF OnePlace
  <2> QED
    BY <1>1, <2>1
<1>10. CASE AskedIn(worker, i)
  <2>1. S = {} /\ I = {} /\ F = {} /\ \E t : A = {t}
    BY <1>3, <1>4, <1>5, <1>6, <1>7, <1>10 DEF OnePlace
  <2> QED
    BY <1>1, <2>1
<1>11. CASE FinalIn(fromWorker, i)
  <2>1. S = {} /\ I = {} /\ A = {} /\ \E t : F = {t}
    BY <1>3, <1>4, <1>5, <1>6, <1>7, <1>11 DEF OnePlace
  <2> QED
    BY <1>1, <2>1
<1> QED
  BY <1>3, <1>8, <1>9, <1>10, <1>11 DEF UnderWay

\* While the worker lives, each active request is in exactly one place: sent,
\* at work, asked about or answered; and answers reach their own request.
THEOREM ActiveWorkIsKept == Spec => []ActiveIsInFlight
<1>1. Inv /\ LiveInv => ActiveIsInFlight
  <2> SUFFICES ASSUME Inv, LiveInv PROVE ActiveIsInFlight
    OBVIOUS
  <2>1. ASSUME alive, NEW r \in ToSet(queue.active) \ {None}, queue.id[r] # InvalidId
        PROVE  Cardinality(Tokens(r)) = 1
    <3>1. PICK t : Tokens(r) = {t}
      BY <2>1, OneToken
    <3> QED
      BY <3>1, FS_Singleton
  <2>2. ASSUME NEW k \in DOMAIN fromWorker, NEW i, i = GetRequest(queue, fromWorker[k].id),
               i # 0, fromWorker[k].id # InvalidId
        PROVE  queue.active[i] = fromWorker[k].req
    <3>1. queue \in QueueType /\ Known(fromWorker[k], queue.id, nextId)
      BY DEF Inv, Sound, QueueOK, MessagesOK
    <3>2. /\ i \in DOMAIN queue.active /\ queue.active[i] # None
          /\ queue.id[queue.active[i]] = fromWorker[k].id
      BY <2>2, <3>1, RequestFound
    <3>3. queue.active[i] \in Req
      BY <3>1, <3>2, HeldIsRequest
    <3> QED
      BY <2>2, <3>1, <3>2, <3>3 DEF Known
  <2> QED
    BY <2>1, <2>2 DEF ActiveIsInFlight
<1> QED
  BY <1>1, FlowInvariance, PTL

\* A worker that is blocked gets its answer, unless its request was cancelled
\* or started over meanwhile.
THEOREM QuestionsAreAnswered == Spec => []BlockedOnlyByCancel
<1>1. Inv /\ LiveInv => BlockedOnlyByCancel
  <2> SUFFICES ASSUME Inv, LiveInv, ~AskIsAnswered
               PROVE  GetRequest(queue, worker.asking.id) = 0
    BY DEF BlockedOnlyByCancel
  <2>1. /\ alive /\ worker.asking # NoItem /\ FirstAnswer = 0
        /\ \A k \in DOMAIN fromWorker : fromWorker[k].kind # "Ask"
    BY DEF AskIsAnswered
  <2>2. queue \in QueueType /\ toWorker \in Seq(ControllerMsg)
    BY DEF Inv, Sound, QueueOK, PipeTypeOK
  <2>3. ~AnswerIn(toWorker)
    <3>1. 0 \notin DOMAIN toWorker
      BY <2>2
    <3> QED
      BY <2>1, <2>2, <3>1, AnswerFound DEF AnswerIn
  <2>4. \A r \in ToSet(queue.active) \ {None} : queue.id[r] # worker.asking.id
    BY <2>1, <2>3 DEF LiveInv, Flows, QuestionOK, AskIn
  <2> DEFINE i == GetRequest(queue, worker.asking.id)
  <2>5. \/ i = 0
        \/ /\ i \in DOMAIN queue.active /\ queue.active[i] # None
           /\ queue.id[queue.active[i]] = worker.asking.id
    BY <2>2, RequestFound
  <2> HIDE DEF i
  <2>6. i = 0
    BY <2>4, <2>5 DEF ToSet
  <2> QED
    BY <2>6 DEF i
<1> QED
  BY <1>1, FlowInvariance, PTL
==============================================================================
