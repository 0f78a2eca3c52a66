---------------------------- MODULE SeqFilterProofs ----------------------------
(* What Filter gives, and that a set of positions has a first one: facts that  *)
(* the proofs about the components cite.                                       *)
EXTENDS SeqFilter, FiniteSetTheorems, TLAPS

\* Induction with a set in place of a predicate: a nonempty set of naturals has a
\* least element.
LEMMA LeastNatural ==
    ASSUME NEW T \in SUBSET Nat, T # {}
    PROVE  \E m \in T : \A k \in T : m <= k
<1> DEFINE Upto == {1 .. k : k \in T}
<1>1. Upto \subseteq FiniteSubsetsOf(Nat)
  BY FS_Interval DEF FiniteSubsetsOf
<1>2. PICK u \in Upto : \A w \in Upto : <<w, u>> \notin StrictSubsetOrdering(Nat)
  <2>1. IsWellFoundedOn(StrictSubsetOrdering(Nat), FiniteSubsetsOf(Nat))
    BY FS_StrictSubsetOrderingWellFounded
  <2>2. Upto # {}
    OBVIOUS
  <2> HIDE DEF Upto
  <2> QED
    BY <1>1, <2>1, <2>2, WFMin
<1>3. PICK m \in T : u = 1 .. m
  OBVIOUS
<1>4. ASSUME NEW k \in T, k < m PROVE FALSE
  <2>1. 1 .. k \subseteq 1 .. m /\ 1 .. k # 1 .. m
    <3>1. m \in 1 .. m /\ m \notin 1 .. k
      BY <1>4
    <3>2. 1 .. k \subseteq 1 .. m
      BY <1>4
    <3> QED
      BY <3>1, <3>2
  <2>2. <<1 .. k, u>> \in StrictSubsetOrdering(Nat)
    BY <1>3, <2>1 DEF StrictSubsetOrdering
  <2> QED
    BY <1>2, <2>2
<1> QED
  BY <1>4

-------------------------------------------------------------------------------
(* Sequences *)

LEMMA AppendParts ==
    ASSUME NEW T, NEW s \in Seq(T), NEW x \in T
    PROVE  /\ Append(s, x) \in Seq(T) /\ Append(s, x) # <<>>
           /\ Len(s) \in Nat /\ DOMAIN s = 1 .. Len(s)
           /\ Len(Append(s, x)) = Len(s) + 1
           /\ DOMAIN Append(s, x) = 1 .. (Len(s) + 1)
           /\ \A i \in 1 .. Len(s) : Append(s, x)[i] = s[i]
           /\ Append(s, x)[Len(s) + 1] = x
OBVIOUS

LEMMA AppendElements ==
    ASSUME NEW T, NEW s \in Seq(T), NEW x \in T
    PROVE  Elements(Append(s, x)) = Elements(s) \cup {x}
BY AppendParts DEF Elements

LEMMA TailParts ==
    ASSUME NEW T, NEW s \in Seq(T), s # <<>>
    PROVE  /\ Head(s) \in T /\ Head(s) = s[1] /\ Tail(s) \in Seq(T)
           /\ Len(s) \in Nat \ {0} /\ DOMAIN s = 1 .. Len(s)
           /\ Len(Tail(s)) = Len(s) - 1 /\ DOMAIN Tail(s) = 1 .. (Len(s) - 1)
           /\ \A i \in 1 .. (Len(s) - 1) : Tail(s)[i] = s[i + 1]
OBVIOUS

LEMMA TailElements ==
    ASSUME NEW T, NEW s \in Seq(T), s # <<>>
    PROVE  Elements(s) = {Head(s)} \cup Elements(Tail(s))
<1> DEFINE t == Tail(s)
           n == Len(s)
<1>1. /\ Head(s) = s[1] /\ n \in Nat \ {0} /\ DOMAIN s = 1 .. n
      /\ DOMAIN t = 1 .. (n - 1) /\ \A i \in 1 .. (n - 1) : t[i] = s[i + 1]
  BY TailParts
<1> HIDE DEF t, n
<1>2. ASSUME NEW i \in 1 .. n PROVE s[i] = s[1] \/ \E j \in DOMAIN t : s[i] = t[j]
  <2>1. CASE i = 1
    BY <2>1
  <2>2. CASE i # 1
    <3>1. i - 1 \in 1 .. (n - 1) /\ (i - 1) + 1 = i
      BY <1>1, <2>2
    <3>2. t[i - 1] = s[i]
      BY <1>1, <3>1
    <3> QED
      BY <1>1, <3>1, <3>2
  <2> QED
    BY <2>1, <2>2
<1>3. ASSUME NEW j \in DOMAIN t PROVE \E i \in 1 .. n : t[j] = s[i]
  <2>1. j + 1 \in 1 .. n
    BY <1>1
  <2> QED
    BY <1>1, <2>1
<1>4. 1 \in 1 .. n
  BY <1>1
<1> QED
  BY <1>1, <1>2, <1>3, <1>4 DEF Elements, t

-------------------------------------------------------------------------------
(* Ranks *)

LEMMA PositionCount ==
    ASSUME NEW n \in Nat PROVE IsFiniteSet(1 .. n) /\ Cardinality(1 .. n) = n
<1>1. Cardinality(1 .. n) = IF 1 > n THEN 0 ELSE n - 1 + 1
  BY FS_Interval
<1> QED
  BY <1>1, FS_Interval

LEMMA RankType ==
    ASSUME NEW n \in Nat, NEW kept \in SUBSET (1 .. n)
    PROVE  /\ IsFiniteSet(kept) /\ Cardinality(kept) \in 0 .. n
           /\ \A i \in kept : Rank(kept, i) \in 0 .. Cardinality(kept) - 1
<1>1. IsFiniteSet(1 .. n) /\ Cardinality(1 .. n) = n
  BY PositionCount
<1>2. IsFiniteSet(kept) /\ Cardinality(kept) \in 0 .. n
  <2>1. IsFiniteSet(kept) /\ Cardinality(kept) <= Cardinality(1 .. n)
    BY <1>1, FS_Subset
  <2>2. Cardinality(kept) \in Nat
    BY <2>1, FS_CardinalityType
  <2> QED
    BY <1>1, <2>1, <2>2
<1>3. ASSUME NEW i \in kept PROVE Rank(kept, i) \in 0 .. Cardinality(kept) - 1
  <2> DEFINE before == {j \in kept : j < i}
  <2>1. before \in SUBSET kept /\ before # kept
    OBVIOUS
  <2>2. /\ IsFiniteSet(before) /\ Cardinality(before) \in Nat
        /\ Cardinality(before) <= Cardinality(kept)
        /\ Cardinality(kept) # Cardinality(before)
    BY <1>2, <2>1, FS_Subset, FS_CardinalityType
  <2> QED
    BY <1>2, <2>2 DEF Rank
<1> QED
  BY <1>2, <1>3

\* A later position has a greater rank.
LEMMA RankRises ==
    ASSUME NEW n \in Nat, NEW kept \in SUBSET (1 .. n),
           NEW i \in kept, NEW j \in kept, i < j
    PROVE  Rank(kept, i) < Rank(kept, j)
<1> DEFINE before(x) == {k \in kept : k < x}
<1>1. IsFiniteSet(kept)
  BY RankType
<1>2. IsFiniteSet(before(i)) /\ IsFiniteSet(before(j))
  BY <1>1, FS_Subset
<1>3. before(i) \in SUBSET before(j) /\ before(i) # before(j)
  <2>1. i \in before(j) /\ i \notin before(i)
    OBVIOUS
  <2>2. before(i) \in SUBSET before(j)
    <3>1. ASSUME NEW k \in kept, k < i PROVE k < j
      <4>1. k \in Int /\ i \in Int /\ j \in Int
        OBVIOUS
      <4> QED
        BY <3>1, <4>1
    <3> QED
      BY <3>1
  <2> QED
    BY <2>1, <2>2
<1>4. /\ Cardinality(before(i)) \in Nat /\ Cardinality(before(j)) \in Nat
      /\ Cardinality(before(i)) <= Cardinality(before(j))
      /\ Cardinality(before(j)) # Cardinality(before(i))
  <2> HIDE DEF before
  <2> QED
    BY <1>2, <1>3, FS_Subset, FS_CardinalityType
<1> QED
  BY <1>4 DEF Rank

\* Every rank below the number of positions is the rank of one.
LEMMA RankReached ==
    ASSUME NEW n \in Nat, NEW kept \in SUBSET (1 .. n),
           NEW k \in 1 .. Cardinality(kept)
    PROVE  \E i \in kept : Rank(kept, i) = k - 1
<1> DEFINE c == Cardinality(kept)
           rank == [i \in kept |-> Rank(kept, i)]
<1>1. /\ IsFiniteSet(kept) /\ c \in Nat
      /\ \A i \in kept : Rank(kept, i) \in 0 .. c - 1
  BY RankType
<1>2. rank \in [kept -> 0 .. c - 1]
  BY <1>1
<1>3. \A i, j \in kept : rank[i] = rank[j] => i = j
  <2> SUFFICES ASSUME NEW i \in kept, NEW j \in kept, i # j
               PROVE  rank[i] # rank[j]
    OBVIOUS
  <2>1. /\ Rank(kept, i) \in Int /\ Rank(kept, j) \in Int /\ i \in Int /\ j \in Int
        /\ rank[i] = Rank(kept, i) /\ rank[j] = Rank(kept, j)
    BY <1>1
  <2>2. CASE i < j
    <3>1. Rank(kept, i) < Rank(kept, j)
      BY <2>2, RankRises
    <3> QED
      BY <2>1, <3>1
  <2>3. CASE j < i
    <3>1. Rank(kept, j) < Rank(kept, i)
      BY <2>3, RankRises
    <3> QED
      BY <2>1, <3>1
  <2> QED
    BY <2>1, <2>2, <2>3
<1>4. IsFiniteSet(0 .. c - 1) /\ Cardinality(0 .. c - 1) = c
  <2>1. 0 \in Int /\ c - 1 \in Int
    BY <1>1
  <2> HIDE DEF c
  <2>2. Cardinality(0 .. c - 1) = IF 0 > c - 1 THEN 0 ELSE c - 1 - 0 + 1
    BY <2>1, FS_Interval
  <2> QED
    BY <1>1, <2>1, <2>2, FS_Interval
<1>5. rank \in Injection(kept, 0 .. c - 1)
  BY <1>2, <1>3 DEF Injection, IsInjective
<1>6. rank \in Surjection(kept, 0 .. c - 1)
  <2> HIDE DEF rank
  <2> QED
    BY <1>1, <1>4, <1>5, FS_Injection
<1>7. k - 1 \in 0 .. c - 1
  BY <1>1
<1>8. \A t \in 0 .. c - 1 : \E i \in kept : rank[i] = t
  BY <1>6 DEF Surjection
<1> QED
  BY <1>7, <1>8

-------------------------------------------------------------------------------
(* Filter *)

\* at says which position each place of the filtered sequence is from.
Places(at, s, S) ==
    LET c == Cardinality(Kept(s, S))
    IN  /\ c \in 0 .. Len(s)
        /\ at \in [1 .. c -> Kept(s, S)]
        /\ Filter(s, S) = [k \in 1 .. c |-> s[at[k]]]
        /\ \A k, l \in 1 .. c : k < l => at[k] < at[l]
        /\ \A i \in Kept(s, S) : \E k \in 1 .. c : at[k] = i

LEMMA FilterPlaces ==
    ASSUME NEW T, NEW s \in Seq(T), NEW S
    PROVE  \E at : Places(at, s, S)
<1> DEFINE kept == Kept(s, S)
           c == Cardinality(kept)
            At(k) == CHOOSE i \in kept : Rank(kept, i) = k - 1
           at == [k \in 1 .. c |-> At(k)]
<1>1. Len(s) \in Nat /\ DOMAIN s = 1 .. Len(s) /\ kept \in SUBSET (1 .. Len(s))
  BY DEF Kept
<1>2. /\ c \in 0 .. Len(s)
      /\ \A i \in kept : Rank(kept, i) \in 0 .. c - 1
  BY <1>1, RankType
<1>3. ASSUME NEW k \in 1 .. c PROVE At(k) \in kept /\ Rank(kept, At(k)) = k - 1
  <2>1. \E i \in kept : Rank(kept, i) = k - 1
    BY <1>1, RankReached
  <2> QED
    BY <2>1
<1>4. at \in [1 .. c -> kept]
  BY <1>3
<1>5. Filter(s, S) = [k \in 1 .. c |-> s[at[k]]]
  BY DEF Filter
<1>6. ASSUME NEW i \in kept, NEW j \in kept, Rank(kept, i) < Rank(kept, j) PROVE i < j
  <2>1. i \in Int /\ j \in Int /\ Rank(kept, i) \in Int /\ Rank(kept, j) \in Int
    BY <1>1, <1>2
  <2>2. j < i => Rank(kept, j) < Rank(kept, i)
    BY <1>1, RankRises
  <2> QED
    BY <1>6, <2>1, <2>2
<1>7. ASSUME NEW i \in kept, NEW j \in kept, Rank(kept, i) = Rank(kept, j) PROVE i = j
  <2>1. i \in Int /\ j \in Int /\ Rank(kept, i) \in Int /\ Rank(kept, j) \in Int
    BY <1>1, <1>2
  <2>2. /\ j < i => Rank(kept, j) < Rank(kept, i)
        /\ i < j => Rank(kept, i) < Rank(kept, j)
    BY <1>1, RankRises
  <2> QED
    BY <1>7, <2>1, <2>2
<1>8. ASSUME NEW k \in 1 .. c, NEW l \in 1 .. c, k < l PROVE at[k] < at[l]
  <2>1. /\ At(k) \in kept /\ Rank(kept, At(k)) = k - 1
        /\ At(l) \in kept /\ Rank(kept, At(l)) = l - 1
    BY <1>3
  <2>2. k - 1 < l - 1
    BY <1>2, <1>8
  <2> HIDE DEF At
  <2>3. At(k) < At(l)
    BY <1>6, <2>1, <2>2
  <2> QED
    BY <2>3
<1>9. ASSUME NEW i \in kept PROVE \E k \in 1 .. c : at[k] = i
  <2> DEFINE k == Rank(kept, i) + 1
  <2>1. k \in 1 .. c /\ Rank(kept, i) = k - 1
    BY <1>2
  <2>2. At(k) \in kept /\ Rank(kept, At(k)) = Rank(kept, i)
    BY <1>3, <2>1
  <2>3. At(k) = i
    BY <1>7, <2>2
  <2> QED
    BY <2>1, <2>3
<1> QED
  BY <1>2, <1>4, <1>5, <1>8, <1>9 DEF Places

\* A filtered sequence has the elements of the sequence that are in the set, and is
\* no longer than it.
LEMMA FilterElements ==
    ASSUME NEW T, NEW s \in Seq(T), NEW S
    PROVE  /\ Filter(s, S) \in Seq(T)
           /\ Filter(s, S) \in Seq(T \cap S)
           /\ Len(Filter(s, S)) <= Len(s)
           /\ Elements(Filter(s, S)) = Elements(s) \cap S
<1> DEFINE f == Filter(s, S)
<1> SUFFICES ASSUME NEW kept, kept = Kept(s, S),
                    NEW c, c = Cardinality(kept)
             PROVE  /\ f \in Seq(T) /\ f \in Seq(T \cap S) /\ Len(f) <= Len(s)
                    /\ Elements(f) = Elements(s) \cap S
  OBVIOUS
<1>0. PICK at : Places(at, s, S)
  BY FilterPlaces
<1>1. /\ at \in [1 .. c -> kept]
      /\ c \in 0 .. Len(s)
      /\ f = [k \in 1 .. c |-> s[at[k]]]
      /\ \A i \in kept : \E k \in 1 .. c : at[k] = i
  BY <1>0 DEF Places
<1>2. \A k \in 1 .. c : at[k] \in DOMAIN s /\ s[at[k]] \in S /\ s[at[k]] \in T
  BY <1>1 DEF Kept
<1> HIDE DEF f
<1>3. c \in Nat /\ f \in Seq(T) /\ f \in Seq(T \cap S) /\ Len(f) = c /\ DOMAIN f = 1 .. c
  <2>1. c \in Nat /\ Len(s) \in Nat
    BY <1>1
  <2>2. f \in Seq(T \cap S) /\ Len(f) = c /\ DOMAIN f = 1 .. c
    BY <1>1, <1>2, <2>1
  <2>3. f \in Seq(T)
    BY <1>1, <1>2, <2>1
  <2> QED
    BY <2>1, <2>2, <2>3
<1>4. \A k \in DOMAIN f : f[k] \in S /\ \E i \in DOMAIN s : f[k] = s[i]
  BY <1>1, <1>2, <1>3
<1>5. ASSUME NEW i \in DOMAIN s, s[i] \in S PROVE \E k \in DOMAIN f : f[k] = s[i]
  <2>1. i \in kept
    BY <1>5 DEF Kept
  <2>2. PICK k \in 1 .. c : at[k] = i
    BY <1>1, <2>1
  <2> QED
    BY <1>1, <1>3, <2>2
<1>6. Len(f) <= Len(s)
  BY <1>1, <1>3
<1>7. Elements(f) = Elements(s) \cap S
  BY <1>4, <1>5 DEF Elements
<1> QED
  BY <1>3, <1>6, <1>7

\* A sequence without repetitions stays one.
LEMMA FilterDistinct ==
    ASSUME NEW T, NEW s \in Seq(T), NEW S,
           \A i, j \in DOMAIN s : s[i] = s[j] => i = j
    PROVE  \A k, l \in DOMAIN Filter(s, S) : Filter(s, S)[k] = Filter(s, S)[l] => k = l
<1> SUFFICES ASSUME NEW kept, kept = Kept(s, S),
                    NEW c, c = Cardinality(kept)
             PROVE  \A k, l \in DOMAIN Filter(s, S) : Filter(s, S)[k] = Filter(s, S)[l] => k = l
  OBVIOUS
<1>0. PICK at : Places(at, s, S)
  BY FilterPlaces
<1>1. /\ at \in [1 .. c -> kept]
      /\ c \in 0 .. Len(s)
      /\ Filter(s, S) = [k \in 1 .. c |-> s[at[k]]]
      /\ \A k, l \in 1 .. c : k < l => at[k] < at[l]
  BY <1>0 DEF Places
<1>2. \A k \in 1 .. c : at[k] \in DOMAIN s /\ at[k] \in Nat
  BY <1>1 DEF Kept
<1> SUFFICES ASSUME NEW k \in 1 .. c, NEW l \in 1 .. c, s[at[k]] = s[at[l]] PROVE k = l
  BY <1>1
<1>3. at[k] = at[l]
  BY <1>2
<1>4. c \in Nat /\ ~ k < l /\ ~ l < k
  BY <1>1, <1>2, <1>3
<1> QED
  BY <1>4

\* Without one of its elements a sequence without repetitions is shorter by one.
LEMMA FilterOneOut ==
    ASSUME NEW T, NEW s \in Seq(T), NEW S, NEW o \in DOMAIN s,
           \A i \in DOMAIN s : s[i] \in S <=> i # o
    PROVE  Len(Filter(s, S)) = Len(s) - 1
<1> SUFFICES ASSUME NEW kept, kept = Kept(s, S),
                    NEW c, c = Cardinality(kept)
             PROVE  Len(Filter(s, S)) = Len(s) - 1
  OBVIOUS
<1>0. PICK at : Places(at, s, S)
  BY FilterPlaces
<1>1. /\ at \in [1 .. c -> kept]
      /\ c \in 0 .. Len(s)
      /\ Filter(s, S) = [k \in 1 .. c |-> s[at[k]]]
  BY <1>0 DEF Places
<1>2. kept = (1 .. Len(s)) \ {o} /\ o \in 1 .. Len(s) /\ Len(s) \in Nat
  BY DEF Kept
<1>3. IsFiniteSet(1 .. Len(s)) /\ Cardinality(1 .. Len(s)) = Len(s)
  BY <1>2, PositionCount
<1>4. c = Len(s) - 1
  BY <1>2, <1>3, FS_RemoveElement
<1> QED
  BY <1>1, <1>4
================================================================================
