----------------------------- MODULE KeyProofs ------------------------------
(***************************************************************************)
(* The keys of Service, proved for all queries, requests and orders in     *)
(* which maps yield their parameters.  KInv says that an entry is stored   *)
(* under a key of its own request; two keys have one serialised form if    *)
(* and only if they have like parts, and parts are like if and only if the *)
(* extractors see the same.                                                *)
(*                                                                         *)
(* Parts that come in blocks are told apart by their names: Sub takes the  *)
(* parts of some names out of a list, wherever they stand, and commutes    *)
(* with concatenation.                                                     *)
(*                                                                         *)
(* Folds and recursive functions are met by induction over numbers, with   *)
(* sets: a set with 0, and with n + 1 whenever with n, is all of Nat.      *)
(* ServiceProofs uses these lemmas for the other parts of Service as well. *)
(***************************************************************************)
EXTENDS Service, FiniteSetTheorems, SequenceTheorems, TLAPS

(* What holds of {}, and of a finite set whenever of its smaller subsets,   *)
(* holds of all finite sets.                                                *)
LEMMA SetInduction ==
    ASSUME NEW S, IsFiniteSet(S), NEW F, {} \in F,
           \A T \in SUBSET S : T # {} /\ (\A U \in SUBSET T : U # T => U \in F) => T \in F
    PROVE  S \in F
<1> DEFINE Outside == (SUBSET S) \ F
<1> SUFFICES ASSUME S \notin F PROVE FALSE
  OBVIOUS
<1>1. IsWellFoundedOn(StrictSubsetOrdering(S), SUBSET S)
  BY FS_StrictSubsetOrderingWellFounded, FS_FiniteSubsetsOfFinite
<1>2. Outside \subseteq SUBSET S /\ Outside # {}
  OBVIOUS
<1> HIDE DEF Outside
<1>3. PICK T \in Outside : \A U \in Outside : ~(<<U, T>> \in StrictSubsetOrdering(S))
  BY <1>1, <1>2, WFMin
<1>4. \A U \in Outside : ~(U \subseteq T /\ U # T)
  BY <1>2, <1>3 DEF StrictSubsetOrdering
<1>5. QED
  BY <1>4 DEF Outside

(* A set of numbers up to n has a last one. *)
LEMMA LastExists ==
    ASSUME NEW n \in Nat, NEW A \in SUBSET (0..n), A # {}
    PROVE  \E m \in A : \A j \in A : j <= m
<1> DEFINE F == {T \in SUBSET A : T # {} => \E m \in T : \A j \in T : j <= m}
<1>1. IsFiniteSet(A)
  <2>1. IsFiniteSet(0..n)
    BY FS_Interval
  <2>2. QED
    BY <2>1, FS_Subset
<1>2. ASSUME NEW T \in SUBSET A, T # {}, \A U \in SUBSET T : U # T => U \in F PROVE T \in F
  <2>1. PICK x \in T : TRUE
    BY <1>2
  <2>2. T \ {x} \in F
    BY <1>2
  <2>3. CASE T \ {x} = {}
    BY <2>1, <2>3
  <2>4. CASE T \ {x} # {}
    <3>1. PICK m \in T \ {x} : \A j \in T \ {x} : j <= m
      BY <2>2, <2>4
    <3>2. x \in Nat /\ m \in Nat
      OBVIOUS
    <3>3. \E y \in T : \A j \in T : j <= y
      BY <3>1, <3>2
    <3>4. QED
      BY <3>3
  <2>5. QED
    BY <2>3, <2>4
<1>3. {} \in F
  OBVIOUS
<1> HIDE DEF F
<1>4. A \in F
  BY <1>1, <1>2, <1>3, SetInduction
<1>5. QED
  BY <1>4 DEF F

Last(A) == CHOOSE i \in A : \A j \in A : j <= i

LEMMA LastIn ==
    ASSUME NEW n \in Nat, NEW A \in SUBSET (0..n), A # {}
    PROVE  Last(A) \in A /\ \A j \in A : j <= Last(A)
  BY LastExists DEF Last

LEMMA LastIsEnd ==
    ASSUME NEW n \in Nat, NEW A \in SUBSET (0..n), n \in A
    PROVE  Last(A) = n
<1>1. Last(A) \in A /\ n <= Last(A)
  BY LastIn
<1>2. Last(A) \in 0..n
  BY <1>1
<1>3. QED
  BY <1>1, <1>2

(* What holds of 0, and of n + 1 whenever of n, holds of all numbers. *)
LEMMA NatInd ==
    ASSUME NEW F, 0 \in F, \A n \in Nat : n \in F => n + 1 \in F
    PROVE  Nat \subseteq F
<1> SUFFICES ASSUME NEW k \in Nat, k \notin F PROVE FALSE
  OBVIOUS
<1> DEFINE low == {n \in 0..k : \A m \in 0..n : m \in F}
<1>1. 0 \in low
  OBVIOUS
<1>2. low \in SUBSET (0..k) /\ low # {}
  BY <1>1
<1> HIDE DEF low
<1>3. Last(low) \in low /\ \A j \in low : j <= Last(low)
  BY <1>2, LastIn
<1> DEFINE l == Last(low)
<1>4. l \in 0..k /\ \A m \in 0..l : m \in F
  BY <1>3 DEF low
<1> HIDE DEF l
<1>5. l # k /\ l \in F
  BY <1>4
<1>6. l + 1 \in F /\ l + 1 \in 0..k
  BY <1>4, <1>5
<1>7. l + 1 \in low
  BY <1>4, <1>6 DEF low
<1>8. QED
  BY <1>3, <1>4, <1>7 DEF l

-----------------------------------------------------------------------------
(* Sequences that are put together from the first one on. *)
Flattening(fl, seqs, n) ==
    fl = [i \in 1..n |-> IF i = 1 THEN seqs[i] ELSE fl[i - 1] \o seqs[i]]

LEMMA FlatExists == ASSUME NEW seqs PROVE \A n \in Nat : \E fl : Flattening(fl, seqs, n)
<1> DEFINE F == {n \in Nat : \E fl : Flattening(fl, seqs, n)}
<1>1. 0 \in F
  <2> DEFINE fl == [i \in 1..0 |-> seqs[i]]
  <2>1. \A i \in 1..0 : FALSE
    OBVIOUS
  <2>2. Flattening(fl, seqs, 0)
    BY <2>1 DEF Flattening
  <2>3. QED
    BY <2>2
<1>2. ASSUME NEW n \in Nat, n \in F PROVE n + 1 \in F
  <2>1. PICK f : Flattening(f, seqs, n)
    BY <1>2
  <2> DEFINE g == [i \in 1..(n + 1) |->
                     IF i = 1 THEN seqs[1] ELSE IF i = n + 1 THEN f[n] \o seqs[n + 1] ELSE f[i]]
  <2>2. ASSUME NEW i \in 1..(n + 1)
        PROVE  g[i] = IF i = 1 THEN seqs[i] ELSE g[i - 1] \o seqs[i]
    <3>1. CASE i = 1
      BY <3>1
    <3>2. CASE i # 1 /\ i = n + 1
      <4>0. n \in 1..n /\ n + 1 # 1 /\ n + 1 \in 1..(n + 1)
        BY <3>2
      <4>1. g[i] = f[n] \o seqs[n + 1] /\ n \in 1..n
        BY <3>2, <4>0
      <4>2. n = 1 => f[1] = seqs[1]
        BY <2>1, <4>1 DEF Flattening
      <4>3. g[n] = f[n]
        BY <4>1, <4>2
      <4>4. i - 1 = n
        BY <3>2
      <4> HIDE DEF g
      <4>5. QED
        BY <3>2, <4>1, <4>3, <4>4
    <3>3. CASE i # 1 /\ i # n + 1
      <4>1. i \in 1..n /\ i - 1 \in 1..n /\ i - 1 # n + 1
        BY <3>3
      <4>2. f[i] = f[i - 1] \o seqs[i] /\ (i - 1 = 1 => f[i - 1] = seqs[1])
        BY <2>1, <3>3, <4>1 DEF Flattening
      <4>3. g[i] = f[i]
        BY <3>3, <4>1
      <4>5. g[i - 1] = IF i - 1 = 1 THEN seqs[1]
                       ELSE IF i - 1 = n + 1 THEN f[n] \o seqs[n + 1] ELSE f[i - 1]
        BY <4>1
      <4>6. g[i - 1] = f[i - 1]
        <5> HIDE DEF g
        <5>1. QED
          BY <4>1, <4>2, <4>5
      <4> HIDE DEF g
      <4>4. QED
        BY <3>3, <4>2, <4>3, <4>6
    <3>4. QED
      BY <3>1, <3>2, <3>3
  <2>3. g = [i \in 1..(n + 1) |-> g[i]]
    OBVIOUS
  <2> HIDE DEF g
  <2>4. Flattening(g, seqs, n + 1)
    BY <2>2, <2>3 DEF Flattening
  <2>5. QED
    BY <2>4
<1> HIDE DEF F
<1>3. Nat \subseteq F
  BY <1>1, <1>2, NatInd
<1>4. QED
  BY <1>3 DEF F

LEMMA FlattenIs ==
    ASSUME NEW S, NEW seqs \in Seq(S), Len(seqs) # 0
    PROVE  \E fl : Flattening(fl, seqs, Len(seqs)) /\ Http!FlattenSeq(seqs) = fl[Len(seqs)]
<1> DEFINE fl == CHOOSE f : Flattening(f, seqs, Len(seqs))
<1>1. Len(seqs) \in Nat
  OBVIOUS
<1>2. Flattening(fl, seqs, Len(seqs))
  BY <1>1, FlatExists
<1>3. Http!FlattenSeq(seqs) = fl[Len(seqs)]
  BY DEF Http!FlattenSeq, Flattening
<1>4. QED
  BY <1>2, <1>3

-----------------------------------------------------------------------------
(* Keys.  What Pick takes is what any list of the places in their order     *)
(* finds.                                                                   *)
Listing(f, m, at) ==
    /\ f \in [1..m -> at]
    /\ \A i \in at : \E k \in 1..m : f[k] = i
    /\ \A j, k \in 1..m : j < k => f[j] < f[k]

LEMMA ListingBegins ==
    ASSUME NEW n \in Nat, NEW at \in SUBSET (1..n), NEW m \in Nat, NEW l \in Nat, NEW f, NEW g,
           Listing(f, m, at), Listing(g, l, at)
    PROVE  \A k \in 1..m : k \in 1..l /\ f[k] = g[k]
<1> DEFINE F == {k \in Nat : \A j \in 1..k : j <= m => j <= l /\ f[j] = g[j]}
<1>0. /\ \A k \in 1..m : f[k] \in at /\ f[k] \in Nat
      /\ \A k \in 1..l : g[k] \in at /\ g[k] \in Nat
  <2>1. \A i \in at : i \in Nat
    OBVIOUS
  <2>2. (\A k \in 1..m : f[k] \in at) /\ (\A k \in 1..l : g[k] \in at)
    BY DEF Listing
  <2>3. QED
    BY <2>1, <2>2
<1>1. 0 \in F
  OBVIOUS
<1>2. ASSUME NEW k \in Nat, k \in F PROVE k + 1 \in F
  <2>1. SUFFICES ASSUME k + 1 <= m PROVE k + 1 <= l /\ f[k + 1] = g[k + 1]
    BY <1>2
  <2>2. \A j \in 1..k : j \in 1..m /\ j \in 1..l /\ f[j] = g[j]
    BY <1>2, <2>1
  <2>3. k + 1 \in 1..m /\ f[k + 1] \in at
    BY <2>1 DEF Listing
  <2>4. PICK j \in 1..l : g[j] = f[k + 1]
    BY <2>3 DEF Listing
  <2>5. ~(j \in 1..k)
    <3> SUFFICES ASSUME j \in 1..k PROVE FALSE
      OBVIOUS
    <3>1. f[j] = f[k + 1] /\ j \in 1..m /\ j < k + 1
      BY <2>2, <2>4
    <3>2. f[j] < f[k + 1] /\ f[j] \in Nat
      BY <1>0, <2>3, <3>1 DEF Listing
    <3>3. QED
      BY <3>1, <3>2
  <2>6. k + 1 \in 1..l /\ k + 1 <= j
    BY <2>5
  <2>7. CASE k + 1 = j
    BY <2>4, <2>6, <2>7
  <2>8. CASE k + 1 < j
    <3>1. g[k + 1] < f[k + 1] /\ g[k + 1] \in at
      BY <2>4, <2>6, <2>8 DEF Listing
    <3>2. PICK i \in 1..m : f[i] = g[k + 1]
      BY <3>1 DEF Listing
    <3>3. CASE i \in 1..k
      <4>1. g[i] = g[k + 1] /\ i \in 1..l /\ i < k + 1
        BY <2>2, <3>2, <3>3
      <4>2. g[i] < g[k + 1] /\ g[i] \in Nat
        BY <1>0, <2>6, <4>1 DEF Listing
      <4>3. QED
        BY <4>1, <4>2
    <3>4. CASE i = k + 1
      <4>1. f[k + 1] \in Nat
        BY <1>0, <2>3
      <4>2. QED
        BY <3>1, <3>2, <3>4, <4>1
    <3>5. CASE k + 1 < i
      <4>1. f[k + 1] < f[i] /\ f[k + 1] \in Nat /\ f[i] \in Nat
        BY <1>0, <2>3, <3>5 DEF Listing
      <4>2. QED
        BY <3>1, <3>2, <4>1
    <3>6. QED
      BY <3>3, <3>4, <3>5
  <2>9. QED
    BY <2>6, <2>7, <2>8
<1> HIDE DEF F
<1>3. Nat \subseteq F
  BY <1>1, <1>2, NatInd
<1>4. QED
  BY <1>3 DEF F

LEMMA ListingIsOne ==
    ASSUME NEW n \in Nat, NEW at \in SUBSET (1..n), NEW m \in Nat, NEW l \in Nat, NEW f, NEW g,
           Listing(f, m, at), Listing(g, l, at)
    PROVE  m = l /\ f = g
<1>1. (\A k \in 1..m : k \in 1..l /\ f[k] = g[k]) /\ (\A k \in 1..l : k \in 1..m)
  BY ListingBegins
<1>2. m = l
  <2>1. m > 0 => m \in 1..m
    OBVIOUS
  <2>2. l > 0 => l \in 1..l
    OBVIOUS
  <2>3. QED
    BY <1>1, <2>1, <2>2
<1>3. QED
  BY <1>1, <1>2 DEF Listing

Rank(at, i) == Cardinality({j \in at : j <= i})

LEMMA SameCardinality == \A S : Extraction!Cardinality(S) = Cardinality(S)
  BY DEF Extraction!Cardinality, Cardinality

LEMMA Ranks ==
    ASSUME NEW n \in Nat, NEW at \in SUBSET (1..n)
    PROVE  /\ IsFiniteSet(at) /\ Cardinality(at) \in Nat
           /\ \A i \in at : Rank(at, i) \in 1..Cardinality(at)
           /\ \A i, j \in at : i < j => Rank(at, i) < Rank(at, j)
           /\ \A k \in 1..Cardinality(at) : \E i \in at : Rank(at, i) = k
<1>1. IsFiniteSet(at) /\ Cardinality(at) \in Nat
  <2>1. IsFiniteSet(1..n)
    BY FS_Interval
  <2>2. IsFiniteSet(at)
    BY <2>1, FS_Subset
  <2>3. QED
    BY <2>2, FS_CardinalityType
<1> DEFINE low(i) == {j \in at : j <= i}
<1>2. ASSUME NEW i \in at
      PROVE  /\ IsFiniteSet(low(i)) /\ Cardinality(low(i)) \in Nat
             /\ Cardinality(low(i)) <= Cardinality(at) /\ Cardinality(low(i)) # 0
  <2>1. low(i) \in SUBSET at /\ i \in low(i)
    OBVIOUS
  <2> HIDE DEF low
  <2>2. IsFiniteSet(low(i)) /\ Cardinality(low(i)) <= Cardinality(at)
    BY <1>1, <2>1, FS_Subset
  <2>3. QED
    BY <2>1, <2>2, FS_CardinalityType, FS_EmptySet
<1>3. \A i \in at : Rank(at, i) \in 1..Cardinality(at)
  BY <1>1, <1>2 DEF Rank
<1>4. ASSUME NEW i \in at, NEW j \in at, i < j PROVE Rank(at, i) < Rank(at, j)
  <2>0. \A k \in at : k \in Nat
    OBVIOUS
  <2>5. i \in Nat /\ j \in Nat
    BY <2>0
  <2>6. \A k \in at : k <= i => k <= j
    BY <1>4, <2>0, <2>5
  <2>7. ~(j <= i)
    BY <1>4, <2>5
  <2>1. low(i) \in SUBSET low(j) /\ j \in low(j) /\ j \notin low(i)
    <3>1. j <= j
      BY <2>5
    <3>2. low(i) \in SUBSET low(j)
      BY <2>6, Zenon
    <3>3. j \in low(j) /\ j \notin low(i)
      BY <2>7, <3>1, Zenon
    <3>4. QED
      BY <3>2, <3>3
  <2>2. IsFiniteSet(low(j)) /\ Cardinality(low(i)) \in Nat /\ Cardinality(low(j)) \in Nat
    BY <1>2
  <2> HIDE DEF low
  <2>3. Cardinality(low(i)) <= Cardinality(low(j)) /\ Cardinality(low(i)) # Cardinality(low(j))
    BY <2>1, <2>2, FS_Subset
  <2>4. Cardinality(low(i)) < Cardinality(low(j))
    BY <2>2, <2>3
  <2>8. QED
    BY <2>4 DEF Rank, low
<1>5. \A k \in 1..Cardinality(at) : \E i \in at : Rank(at, i) = k
  <2> DEFINE T == 1..Cardinality(at)
             f == [i \in at |-> Rank(at, i)]
  <2>1. f \in [at -> T]
    BY <1>3
  <2>2. \A i, j \in at : f[i] = f[j] => i = j
    <3>1. \A i, j \in at : i # j => i < j \/ j < i
      OBVIOUS
    <3>2. \A i \in at : Rank(at, i) \in Nat
      BY <1>3
    <3>3. QED
      BY <1>4, <3>1, <3>2
  <2>3. f \in Injection(at, T)
    BY <2>1, <2>2 DEF Injection, IsInjective
  <2>4. IsFiniteSet(T) /\ Cardinality(T) = Cardinality(at)
    BY <1>1, FS_Interval
  <2> HIDE DEF f, T
  <2>5. f \in Surjection(at, T)
    BY <2>3, <2>4, FS_Injection
  <2>6. \A k \in T : \E i \in at : f[i] = k
    BY <2>5 DEF Surjection
  <2>7. QED
    BY <2>6 DEF f, T
<1>6. QED
  BY <1>1, <1>3, <1>4, <1>5

LEMMA RankedIs ==
    ASSUME NEW n \in Nat, NEW at \in SUBSET (1..n)
    PROVE  /\ \A i \in at : Extraction!Ranked(at, Rank(at, i)) = i
           /\ \A k \in 1..Cardinality(at) : /\ Extraction!Ranked(at, k) \in at
                                             /\ Rank(at, Extraction!Ranked(at, k)) = k
<1>1. \A k : Extraction!Ranked(at, k) = CHOOSE i \in at : Rank(at, i) = k
  BY SameCardinality DEF Extraction!Ranked, Rank
<1>2. \A k \in 1..Cardinality(at) : /\ Extraction!Ranked(at, k) \in at
                                    /\ Rank(at, Extraction!Ranked(at, k)) = k
  BY <1>1, Ranks
<1>3. ASSUME NEW i \in at PROVE Extraction!Ranked(at, Rank(at, i)) = i
  <2> DEFINE r == Extraction!Ranked(at, Rank(at, i))
  <2>1. Rank(at, i) \in 1..Cardinality(at)
    BY Ranks
  <2>2. r \in at /\ Rank(at, r) = Rank(at, i)
    BY <1>2, <2>1
  <2> HIDE DEF r
  <2>3. r < i \/ i < r \/ r = i
    BY <2>2
  <2>4. (r < i => Rank(at, r) < Rank(at, i)) /\ (i < r => Rank(at, i) < Rank(at, r))
    BY <2>2, Ranks
  <2>5. Rank(at, i) \in Nat
    BY <2>1, Ranks
  <2>6. QED
    BY <2>2, <2>3, <2>4, <2>5 DEF r
<1>4. QED
  BY <1>2, <1>3

LEMMA RankedListing ==
    ASSUME NEW n \in Nat, NEW at \in SUBSET (1..n)
    PROVE  Listing([k \in 1..Cardinality(at) |-> Extraction!Ranked(at, k)], Cardinality(at), at)
<1> DEFINE f == [k \in 1..Cardinality(at) |-> Extraction!Ranked(at, k)]
<1>0. Cardinality(at) \in Nat
  BY Ranks
<1>1. f \in [1..Cardinality(at) -> at]
  BY RankedIs
<1>2. \A i \in at : \E k \in 1..Cardinality(at) : f[k] = i
  <2> SUFFICES ASSUME NEW i \in at PROVE \E k \in 1..Cardinality(at) : f[k] = i
    OBVIOUS
  <2>1. Rank(at, i) \in 1..Cardinality(at) /\ Extraction!Ranked(at, Rank(at, i)) = i
    BY Ranks, RankedIs
  <2>2. QED
    BY <2>1
<1>3. ASSUME NEW j \in 1..Cardinality(at), NEW k \in 1..Cardinality(at), j < k PROVE f[j] < f[k]
  <2>1. f[j] \in at /\ f[k] \in at /\ Rank(at, f[j]) = j /\ Rank(at, f[k]) = k
    BY RankedIs
  <2> HIDE DEF f
  <2>5. \A i \in at : i \in Nat
    OBVIOUS
  <2>6. f[j] \in Nat /\ f[k] \in Nat
    BY <2>1, <2>5
  <2>2. f[j] < f[k] \/ f[j] = f[k] \/ f[k] < f[j]
    BY <2>6
  <2>3. f[k] < f[j] => k < j
    BY <2>1, Ranks
  <2>4. QED
    BY <1>0, <1>3, <2>1, <2>2, <2>3
<1>4. QED
  BY <1>1, <1>2, <1>3 DEF Listing

LEMMA PickIs ==
    ASSUME NEW n \in Nat, NEW at \in SUBSET (1..n), NEW m \in Nat, NEW f, Listing(f, m, at), NEW s
    PROVE  /\ Extraction!Pick(s, at) = [k \in 1..m |-> Extraction!Pick(s, at)[k]]
           /\ \A k \in 1..m : Extraction!Pick(s, at)[k] = s[f[k]]
<1> DEFINE g == [k \in 1..Cardinality(at) |-> Extraction!Ranked(at, k)]
<1>1. Listing(g, Cardinality(at), at) /\ Cardinality(at) \in Nat
  BY RankedListing, Ranks
<1>2. Extraction!Pick(s, at) = [k \in 1..Cardinality(at) |-> s[g[k]]]
  BY SameCardinality DEF Extraction!Pick
<1> HIDE DEF g
<1>3. m = Cardinality(at) /\ f = g
  BY <1>1, ListingIsOne
<1>4. QED
  BY <1>2, <1>3

LEMMA PickLists ==
    ASSUME NEW n \in Nat, NEW at \in SUBSET (1..n)
    PROVE  \E f : \E m \in Nat : Listing(f, m, at)
  BY RankedListing, Ranks

-----------------------------------------------------------------------------
(* The parts with names in a set.                                           *)
At(s, N)  == {i \in 1..Len(s) : s[i].name \in N}
Sub(s, N) == Extraction!Pick(s, At(s, N))

LEMMA PickSeq ==
    ASSUME NEW S, NEW s \in Seq(S), NEW at \in SUBSET (1..Len(s)),
           NEW m \in Nat, NEW f, Listing(f, m, at)
    PROVE  /\ Extraction!Pick(s, at) \in Seq(S) /\ Len(Extraction!Pick(s, at)) = m
           /\ \A k \in 1..m : /\ f[k] \in at /\ f[k] \in 1..Len(s)
                              /\ Extraction!Pick(s, at)[k] = s[f[k]]
<1> DEFINE p == Extraction!Pick(s, at)
<1>0. Len(s) \in Nat
  OBVIOUS
<1>1. p = [k \in 1..m |-> p[k]] /\ \A k \in 1..m : p[k] = s[f[k]]
  BY <1>0, PickIs
<1>2. \A k \in 1..m : f[k] \in at /\ f[k] \in 1..Len(s)
  BY DEF Listing
<1> HIDE DEF p
<1>3. \A k \in 1..m : s[f[k]] \in S
  BY <1>2
<1>4. p \in Seq(S) /\ Len(p) = m
  BY <1>1, <1>3
<1>5. QED
  BY <1>1, <1>2, <1>4 DEF p

LEMMA SubSeqOf ==
    ASSUME NEW S, NEW s \in Seq(S), NEW N
    PROVE  Sub(s, N) \in Seq(S)
<1>1. At(s, N) \in SUBSET (1..Len(s)) /\ Len(s) \in Nat
  BY DEF At
<1>2. PICK f : \E m \in Nat : Listing(f, m, At(s, N))
  BY <1>1, PickLists
<1>3. PICK m \in Nat : Listing(f, m, At(s, N))
  BY <1>2
<1>4. QED
  BY <1>1, <1>3, PickSeq DEF Sub

LEMMA SubAll ==
    ASSUME NEW S, NEW s \in Seq(S), NEW N, \A i \in 1..Len(s) : s[i].name \in N
    PROVE  Sub(s, N) = s
<1> DEFINE f == [k \in 1..Len(s) |-> k]
           at == At(s, N)
<1>1. at = 1..Len(s) /\ Len(s) \in Nat
  BY DEF At
<1>2. Listing(f, Len(s), at)
  BY <1>1 DEF Listing
<1>3. at \in SUBSET (1..Len(s))
  BY <1>1
<1>4. \A k \in 1..Len(s) : f[k] = k
  OBVIOUS
<1> HIDE DEF f, at
<1>5. /\ Extraction!Pick(s, at) \in Seq(S) /\ Len(Extraction!Pick(s, at)) = Len(s)
      /\ \A k \in 1..Len(s) : Extraction!Pick(s, at)[k] = s[f[k]]
  BY <1>1, <1>2, <1>3, PickSeq
<1>6. Extraction!Pick(s, at) = s
  BY <1>4, <1>5, SeqEqual
<1>7. QED
  BY <1>6 DEF Sub, at

LEMMA SubNone ==
    ASSUME NEW S, NEW s \in Seq(S), NEW N, \A i \in 1..Len(s) : s[i].name \notin N
    PROVE  Sub(s, N) = <<>>
<1> DEFINE f == [k \in 1..0 |-> k]
           at == At(s, N)
<1>1. at = {} /\ Len(s) \in Nat
  BY DEF At
<1>2. Listing(f, 0, at)
  BY <1>1 DEF Listing
<1>3. at \in SUBSET (1..Len(s))
  BY <1>1
<1> HIDE DEF f, at
<1>5. Extraction!Pick(s, at) \in Seq(S) /\ Len(Extraction!Pick(s, at)) = 0
  BY <1>1, <1>2, <1>3, PickSeq
<1>6. Extraction!Pick(s, at) = <<>>
  BY <1>5, EmptySeq
<1>7. QED
  BY <1>6 DEF Sub, at

LEMMA SubConcat ==
    ASSUME NEW S, NEW s \in Seq(S), NEW t \in Seq(S), NEW N
    PROVE  Sub(s \o t, N) = Sub(s, N) \o Sub(t, N)
<1> DEFINE A == At(s, N)
           B == At(t, N)
           u == s \o t
           C == At(u, N)
<1>1. A \in SUBSET (1..Len(s)) /\ B \in SUBSET (1..Len(t)) /\ C \in SUBSET (1..Len(u))
  BY DEF At
<1>2. Len(s) \in Nat /\ Len(t) \in Nat /\ u \in Seq(S) /\ Len(u) = Len(s) + Len(t)
  OBVIOUS
<1>3. \A i \in 1..Len(u) : u[i] = IF i <= Len(s) THEN s[i] ELSE t[i - Len(s)]
  OBVIOUS
<1> DEFINE ls == Len(s)
<1>4. \A i \in 1..Len(u) : i \in C <=> IF i <= ls THEN i \in A ELSE i - ls \in B
  BY <1>2, <1>3 DEF At
<1> HIDE DEF A, B, C, u
<1>5. (\E f : \E m \in Nat : Listing(f, m, A)) /\ (\E f : \E m \in Nat : Listing(f, m, B))
  BY <1>1, <1>2, PickLists
<1>6. PICK f : \E m \in Nat : Listing(f, m, A)
  BY <1>5
<1>7. PICK m \in Nat : Listing(f, m, A)
  BY <1>6
<1>8. PICK h : \E l \in Nat : Listing(h, l, B)
  BY <1>5
<1>9. PICK l \in Nat : Listing(h, l, B)
  BY <1>8
<1> DEFINE g == [k \in 1..(m + l) |-> IF k <= m THEN f[k] ELSE ls + h[k - m]]
<1>10. /\ \A k \in 1..m : f[k] \in A /\ f[k] \in 1..ls
       /\ \A k \in 1..l : h[k] \in B /\ h[k] \in 1..Len(t)
  BY <1>1, <1>7, <1>9 DEF Listing
<1>11. Listing(g, m + l, C)
  <2>1. g \in [1..(m + l) -> C]
    <3> SUFFICES ASSUME NEW k \in 1..(m + l) PROVE g[k] \in C
      OBVIOUS
    <3>1. CASE k <= m
      <4>1. g[k] = f[k] /\ f[k] \in A /\ f[k] \in 1..ls
        BY <1>10, <3>1
      <4>2. f[k] \in 1..Len(u) /\ f[k] <= ls
        BY <1>2, <4>1
      <4>3. QED
        BY <1>4, <4>1, <4>2
    <3>2. CASE ~(k <= m)
      <4>0. k - m \in 1..l
        BY <3>2
      <4>1. g[k] = ls + h[k - m] /\ h[k - m] \in B /\ h[k - m] \in 1..Len(t)
        BY <1>10, <3>2, <4>0
      <4> HIDE DEF g
      <4>2. g[k] \in 1..Len(u) /\ ~(g[k] <= ls) /\ g[k] - ls = h[k - m]
        BY <1>2, <4>1
      <4>3. QED
        BY <1>4, <4>1, <4>2
    <3>3. QED
      BY <3>1, <3>2
  <2>2. ASSUME NEW i \in C PROVE \E k \in 1..(m + l) : g[k] = i
    <3>0. i \in 1..Len(u)
      BY <1>1
    <3>1. CASE i <= ls
      <4>1. PICK k \in 1..m : f[k] = i
        BY <1>4, <1>7, <3>0, <3>1 DEF Listing
      <4>2. k \in 1..(m + l) /\ k <= m
        OBVIOUS
      <4>3. QED
        BY <4>1, <4>2
    <3>2. CASE ~(i <= ls)
      <4>1. i - ls \in B
        BY <1>4, <3>0, <3>2
      <4>2. PICK k \in 1..l : h[k] = i - ls
        BY <1>9, <4>1 DEF Listing
      <4>3. k + m \in 1..(m + l) /\ ~(k + m <= m) /\ (k + m) - m = k
        OBVIOUS
      <4>4. g[k + m] = ls + h[k]
        BY <4>3
      <4>5. ls + h[k] = i
        BY <1>2, <3>0, <4>2
      <4>6. QED
        BY <4>3, <4>4, <4>5
    <3>3. QED
      BY <3>1, <3>2
  <2>3. ASSUME NEW j \in 1..(m + l), NEW k \in 1..(m + l), j < k PROVE g[j] < g[k]
    <3>1. CASE k <= m
      <4>1. j \in 1..m /\ k \in 1..m /\ g[j] = f[j] /\ g[k] = f[k]
        BY <2>3, <3>1
      <4>2. QED
        BY <1>7, <2>3, <4>1 DEF Listing
    <3>2. CASE ~(k <= m) /\ j <= m
      <4>1. j \in 1..m /\ k - m \in 1..l /\ g[j] = f[j] /\ g[k] = ls + h[k - m]
        BY <3>2
      <4>2. f[j] \in 1..ls /\ h[k - m] \in 1..Len(t)
        BY <1>10, <4>1
      <4> HIDE DEF g
      <4>3. QED
        BY <1>2, <4>1, <4>2
    <3>3. CASE ~(j <= m)
      <4>0. j - m \in 1..l /\ k - m \in 1..l /\ j - m < k - m /\ ~(k <= m)
        BY <2>3, <3>3
      <4>1. g[j] = ls + h[j - m] /\ g[k] = ls + h[k - m]
        BY <3>3, <4>0
      <4> HIDE DEF g
      <4>2. h[j - m] < h[k - m] /\ h[j - m] \in 1..Len(t) /\ h[k - m] \in 1..Len(t)
        BY <1>9, <1>10, <4>0 DEF Listing
      <4>3. QED
        BY <1>2, <4>1, <4>2
    <3>4. QED
      BY <3>1, <3>2, <3>3
  <2> HIDE DEF g
  <2>4. QED
    BY <2>1, <2>2, <2>3 DEF Listing
<1> DEFINE p == Extraction!Pick(s, A)
           q == Extraction!Pick(t, B)
           r == Extraction!Pick(u, C)
<1>12. p \in Seq(S) /\ Len(p) = m /\ \A k \in 1..m : p[k] = s[f[k]]
  BY <1>1, <1>7, PickSeq
<1>13. q \in Seq(S) /\ Len(q) = l /\ \A k \in 1..l : q[k] = t[h[k]]
  BY <1>1, <1>9, PickSeq
<1>14. r \in Seq(S) /\ Len(r) = m + l /\ \A k \in 1..(m + l) : g[k] \in 1..Len(u) /\ r[k] = u[g[k]]
  <2>1. m + l \in Nat
    OBVIOUS
  <2> DEFINE n == m + l
  <2>2. n \in Nat /\ Listing(g, n, C)
    BY <1>11, <2>1
  <2> HIDE DEF g, n
  <2>5. C \in SUBSET (1..Len(u))
    BY <1>1
  <2>6. u \in Seq(S)
    BY <1>2
  <2> HIDE DEF r
  <2>3. /\ r \in Seq(S) /\ Len(r) = n
        /\ \A k \in 1..n : g[k] \in C /\ g[k] \in 1..Len(u) /\ r[k] = u[g[k]]
    BY <2>2, <2>5, <2>6, PickSeq DEF r
  <2>4. QED
    BY <2>3 DEF n
<1>15. \A k \in 1..(m + l) : g[k] = IF k <= m THEN f[k] ELSE ls + h[k - m]
  OBVIOUS
<1> HIDE DEF p, q, r, g
<1>16. r = p \o q
  <2>1. p \o q \in Seq(S) /\ Len(p \o q) = m + l
    <3>1. p \in Seq(S) /\ q \in Seq(S) /\ Len(p) = m /\ Len(q) = l
      BY <1>12, <1>13
    <3>2. QED
      BY <3>1, ConcatProperties
  <2>2. ASSUME NEW k \in 1..(m + l) PROVE r[k] = (p \o q)[k]
    <3>1. CASE k <= m
      <4>1. k \in 1..m /\ (p \o q)[k] = s[f[k]]
        BY <1>12, <1>13, <3>1
      <4>2. r[k] = u[f[k]] /\ f[k] \in 1..Len(u)
        BY <1>14, <1>15, <3>1
      <4>3. f[k] <= ls
        BY <1>2, <1>10, <4>1
      <4>4. QED
        BY <1>3, <4>1, <4>2, <4>3 DEF u
    <3>2. CASE ~(k <= m)
      <4>1. k - m \in 1..l
        BY <3>2
      <4>2. (p \o q)[k] = t[h[k - m]]
        BY <1>12, <1>13, <3>2, <4>1
      <4>3. r[k] = u[ls + h[k - m]] /\ ls + h[k - m] \in 1..Len(u)
        BY <1>14, <1>15, <3>2
      <4>4. ~(ls + h[k - m] <= ls) /\ (ls + h[k - m]) - ls = h[k - m]
        BY <1>2, <1>10, <4>1
      <4>5. u[ls + h[k - m]] = t[h[k - m]]
        BY <1>3, <4>3, <4>4
      <4>6. QED
        BY <4>2, <4>3, <4>5
    <3>3. QED
      BY <3>1, <3>2
  <2>3. QED
    BY <1>14, <2>1, <2>2, SeqEqual
<1>17. QED
  BY <1>16 DEF p, q, r, A, B, C, u, Sub

-----------------------------------------------------------------------------
(* Lists of lists, joined from the first one on.                            *)
Joining(g, B, S) ==
    /\ g \in [0..Len(B) -> Seq(S)]
    /\ g[0] = <<>>
    /\ \A k \in 1..Len(B) : g[k] = g[k - 1] \o B[k]
    /\ Extraction!FlattenSeq(B) = g[Len(B)]

LEMMA SameFlatten == \A s : Extraction!FlattenSeq(s) = Http!FlattenSeq(s)
  BY DEF Extraction!FlattenSeq, Http!FlattenSeq

LEMMA Joined == ASSUME NEW S, NEW B \in Seq(Seq(S)) PROVE \E g : Joining(g, B, S)
<1> DEFINE n == Len(B)
<1>0. n \in Nat /\ B \in [1..n -> Seq(S)]
  OBVIOUS
<1>1. CASE n = 0
  <2> DEFINE g == [k \in 0..0 |-> <<>>]
  <2>1. B = <<>> /\ Extraction!FlattenSeq(B) = B
    BY <1>1 DEF Extraction!FlattenSeq
  <2>2. g \in [0..0 -> Seq(S)] /\ g[0] = <<>>
    OBVIOUS
  <2>3. \A k \in 1..0 : FALSE
    OBVIOUS
  <2> HIDE DEF g
  <2>4. Joining(g, B, S)
    BY <1>1, <2>1, <2>2, <2>3 DEF Joining
  <2>5. QED
    BY <2>4
<1>2. CASE n # 0
  <2>1. PICK fl : Flattening(fl, B, n) /\ Extraction!FlattenSeq(B) = fl[n]
    BY <1>2, FlattenIs, SameFlatten
  <2> DEFINE g == [k \in 0..n |-> IF k = 0 THEN <<>> ELSE fl[k]]
             F == {k \in Nat : k \in 1..n => fl[k] \in Seq(S)}
  <2>2. 0 \in F
    OBVIOUS
  <2>3. ASSUME NEW k \in Nat, k \in F PROVE k + 1 \in F
    <3> SUFFICES ASSUME k + 1 \in 1..n PROVE fl[k + 1] \in Seq(S)
      OBVIOUS
    <3>0. (k + 1 = 1 <=> k = 0) /\ (k + 1) - 1 = k
      OBVIOUS
    <3>1. fl[k + 1] = IF k = 0 THEN B[k + 1] ELSE fl[k] \o B[k + 1]
      BY <2>1, <3>0 DEF Flattening
    <3>2. B[k + 1] \in Seq(S)
      BY <1>0
    <3>3. k # 0 => fl[k] \in Seq(S)
      BY <2>3
    <3>4. QED
      BY <3>1, <3>2, <3>3
  <2> HIDE DEF F
  <2>4. Nat \subseteq F
    BY <2>2, <2>3, NatInd
  <2>5. \A k \in 1..n : fl[k] \in Seq(S)
    BY <2>4 DEF F
  <2>6. g \in [0..n -> Seq(S)] /\ g[0] = <<>> /\ g[n] = fl[n]
    BY <1>0, <1>2, <2>5
  <2>7. ASSUME NEW k \in 1..n PROVE g[k] = g[k - 1] \o B[k]
    <3>1. CASE k = 1
      <4>1. fl[k] = B[k] /\ B[k] \in Seq(S)
        BY <1>0, <2>1, <3>1 DEF Flattening
      <4>2. g[k] = fl[k] /\ g[k - 1] = <<>>
        BY <1>0, <3>1
      <4> HIDE DEF g
      <4>3. QED
        BY <4>1, <4>2, ConcatEmptySeq
    <3>2. CASE k # 1
      <4>1. fl[k] = fl[k - 1] \o B[k]
        BY <2>1, <3>2 DEF Flattening
      <4>2. g[k] = fl[k] /\ g[k - 1] = fl[k - 1]
        BY <1>0, <3>2
      <4> HIDE DEF g
      <4>3. QED
        BY <4>1, <4>2
    <3>3. QED
      BY <3>1, <3>2
  <2> HIDE DEF g
  <2>8. Joining(g, B, S)
    BY <2>1, <2>6, <2>7 DEF Joining
  <2>9. QED
    BY <2>8
<1>3. QED
  BY <1>1, <1>2

LEMMA FlatSeq ==
    ASSUME NEW S, NEW B \in Seq(Seq(S))
    PROVE  Extraction!FlattenSeq(B) \in Seq(S)
<1>1. PICK g : Joining(g, B, S)
  BY Joined
<1>2. Len(B) \in 0..Len(B)
  OBVIOUS
<1>3. QED
  BY <1>1, <1>2 DEF Joining

(* Two lists of parts that a cache is to take for one another.              *)
Like(s, t) ==
    /\ Len(s) = Len(t)
    /\ \A i \in 1..Len(s) : /\ s[i].name = t[i].name
                            /\ Extraction!Told(s[i].value) = Extraction!Told(t[i].value)

LEMMA LikeConcat ==
    ASSUME NEW S, NEW s \in Seq(S), NEW t \in Seq(S), NEW u \in Seq(S), NEW v \in Seq(S),
           Like(s, t), Like(u, v)
    PROVE  Like(s \o u, t \o v)
<1> DEFINE a == s \o u
           b == t \o v
<1>1. /\ Len(s) \in Nat /\ Len(u) \in Nat /\ Len(t) = Len(s) /\ Len(v) = Len(u)
      /\ Len(a) = Len(s) + Len(u) /\ Len(b) = Len(s) + Len(u)
  <2>1. /\ Len(s) \in Nat /\ Len(u) \in Nat
        /\ Len(a) = Len(s) + Len(u) /\ Len(b) = Len(t) + Len(v)
    OBVIOUS
  <2>2. Len(t) = Len(s) /\ Len(v) = Len(u)
    BY DEF Like
  <2>3. QED
    BY <2>1, <2>2
<1>2. \A i \in 1..Len(a) : /\ a[i] = IF i <= Len(s) THEN s[i] ELSE u[i - Len(s)]
                           /\ b[i] = IF i <= Len(s) THEN t[i] ELSE v[i - Len(s)]
  BY <1>1
<1> HIDE DEF a, b
<1>3. ASSUME NEW i \in 1..Len(a)
      PROVE  a[i].name = b[i].name /\ Extraction!Told(a[i].value) = Extraction!Told(b[i].value)
  <2>1. CASE i <= Len(s)
    <3>1. i \in 1..Len(s) /\ a[i] = s[i] /\ b[i] = t[i]
      BY <1>1, <1>2, <2>1
    <3>2. QED
      BY <3>1 DEF Like
  <2>2. CASE ~(i <= Len(s))
    <3>1. i - Len(s) \in 1..Len(u) /\ a[i] = u[i - Len(s)] /\ b[i] = v[i - Len(s)]
      BY <1>1, <1>2, <2>2
    <3>2. QED
      BY <3>1 DEF Like
  <2>3. QED
    BY <2>1, <2>2
<1>4. Like(a, b)
  BY <1>1, <1>3 DEF Like
<1>5. QED
  BY <1>4 DEF a, b

LEMMA FlatLike ==
    ASSUME NEW S, NEW B \in Seq(Seq(S)), NEW C \in Seq(Seq(S)), Len(B) = Len(C),
           \A k \in 1..Len(B) : Like(B[k], C[k])
    PROVE  Like(Extraction!FlattenSeq(B), Extraction!FlattenSeq(C))
<1> DEFINE n == Len(B)
<1>0. n \in Nat /\ Len(C) = n
  OBVIOUS
<1>1. PICK g : Joining(g, B, S)
  BY Joined
<1>2. PICK h : Joining(h, C, S)
  BY Joined
<1> DEFINE F == {k \in Nat : k \in 0..n => Like(g[k], h[k])}
<1>3. 0 \in F
  <2>1. g[0] = <<>> /\ h[0] = <<>>
    BY <1>1, <1>2 DEF Joining
  <2>2. QED
    BY <2>1 DEF Like
<1>4. ASSUME NEW k \in Nat, k \in F PROVE k + 1 \in F
  <2> SUFFICES ASSUME k + 1 \in 0..n PROVE Like(g[k + 1], h[k + 1])
    OBVIOUS
  <2>1. k \in 0..n /\ k + 1 \in 1..n /\ (k + 1) - 1 = k
    OBVIOUS
  <2>2. /\ g[k] \in Seq(S) /\ h[k] \in Seq(S)
        /\ g[k + 1] = g[k] \o B[k + 1] /\ h[k + 1] = h[k] \o C[k + 1]
    BY <1>0, <1>1, <1>2, <2>1 DEF Joining
  <2>3. B[k + 1] \in Seq(S) /\ C[k + 1] \in Seq(S) /\ Like(B[k + 1], C[k + 1])
    BY <1>0, <2>1
  <2>4. Like(g[k], h[k])
    BY <1>4, <2>1
  <2>5. QED
    BY <2>2, <2>3, <2>4, LikeConcat
<1> HIDE DEF F
<1>5. Nat \subseteq F
  BY <1>3, <1>4, NatInd
<1>6. Like(g[n], h[n])
  BY <1>0, <1>5 DEF F
<1>7. QED
  BY <1>0, <1>1, <1>2, <1>6 DEF Joining

(* The parts of one of the lists are found again by their names.            *)
LEMMA SubFlat ==
    ASSUME NEW S, NEW B \in Seq(Seq(S)), NEW N, NEW j \in Nat \ {0},
           \A k \in 1..Len(B) : \A i \in 1..Len(B[k]) : B[k][i].name \in N <=> k = j
    PROVE  Sub(Extraction!FlattenSeq(B), N) = IF j \in 1..Len(B) THEN B[j] ELSE <<>>
<1> DEFINE n == Len(B)
<1>0. n \in Nat
  OBVIOUS
<1>1. PICK g : Joining(g, B, S)
  BY Joined
<1> DEFINE F == {k \in Nat : k \in 0..n => Sub(g[k], N) = IF k < j THEN <<>> ELSE B[j]}
<1>2. 0 \in F
  <2>1. g[0] = <<>>
    BY <1>1 DEF Joining
  <2>2. Sub(<<>>, N) = <<>>
    <3> DEFINE none == <<>>
    <3>1. none \in Seq(S) /\ \A i \in 1..Len(none) : FALSE
      OBVIOUS
    <3> HIDE DEF none
    <3>2. Sub(none, N) = <<>>
      BY <3>1, SubNone
    <3>3. QED
      BY <3>2 DEF none
  <2>3. QED
    BY <2>1, <2>2
<1>3. ASSUME NEW k \in Nat, k \in F PROVE k + 1 \in F
  <2> SUFFICES ASSUME k + 1 \in 0..n PROVE Sub(g[k + 1], N) = IF k + 1 < j THEN <<>> ELSE B[j]
    OBVIOUS
  <2>1. k \in 0..n /\ k + 1 \in 1..n /\ (k + 1) - 1 = k
    OBVIOUS
  <2>8. g[k] \in Seq(S)
    BY <1>0, <1>1, <2>1 DEF Joining
  <2>9. g[k + 1] = g[k] \o B[k + 1]
    BY <1>0, <1>1, <2>1 DEF Joining
  <2>10. B[k + 1] \in Seq(S)
    BY <1>0, <2>1
  <2>2. g[k] \in Seq(S) /\ g[k + 1] = g[k] \o B[k + 1] /\ B[k + 1] \in Seq(S)
    BY <2>8, <2>9, <2>10
  <2>3. Sub(g[k], N) = IF k < j THEN <<>> ELSE B[j]
    BY <1>3, <2>1
  <2>4. Sub(g[k + 1], N) = Sub(g[k], N) \o Sub(B[k + 1], N)
    <3> DEFINE s == g[k]
               t == B[k + 1]
    <3>3. s \in Seq(S) /\ t \in Seq(S)
      BY <2>8, <2>10
    <3> HIDE DEF s, t
    <3>4. Sub(s \o t, N) = Sub(s, N) \o Sub(t, N)
      BY ONLY <3>3, SubConcat
    <3>1. Sub(g[k] \o B[k + 1], N) = Sub(g[k], N) \o Sub(B[k + 1], N)
      BY <3>4 DEF s, t
    <3>2. QED
      BY <2>9, <3>1
  <2>5. CASE k + 1 = j
    <3>1. \A i \in 1..Len(B[k + 1]) : B[k + 1][i].name \in N
      BY <2>1, <2>5
    <3>2. Sub(B[k + 1], N) = B[j]
      BY <2>2, <2>5, <3>1, SubAll
    <3>3. Sub(g[k + 1], N) = <<>> \o B[j]
      <4>1. k < j
        BY <2>5
      <4>2. QED
        BY <2>3, <2>4, <3>2, <4>1
    <3>5. B[j] \in Seq(S)
      BY <2>5, <2>10
    <3>4. QED
      BY <2>5, <3>3, <3>5, ConcatEmptySeq
  <2>6. CASE k + 1 # j
    <3>1. \A i \in 1..Len(B[k + 1]) : B[k + 1][i].name \notin N
      BY <2>1, <2>6
    <3>2. Sub(B[k + 1], N) = <<>>
      BY <2>2, <3>1, SubNone
    <3>3. Sub(g[k], N) \in Seq(S)
      BY <2>2, SubSeqOf
    <3>4. Sub(g[k + 1], N) = Sub(g[k], N)
      BY <2>4, <3>2, <3>3, ConcatEmptySeq
    <3>5. QED
      BY <2>3, <2>6, <3>4
  <2>7. QED
    BY <2>5, <2>6
<1> HIDE DEF F
<1>4. Nat \subseteq F
  BY <1>2, <1>3, NatInd
<1>5. Sub(g[n], N) = IF n < j THEN <<>> ELSE B[j]
  BY <1>0, <1>4 DEF F
<1>6. Extraction!FlattenSeq(B) = g[n]
  BY <1>1 DEF Joining
<1>7. n < j <=> ~(j \in 1..Len(B))
  BY <1>0
<1>8. QED
  BY <1>5, <1>6, <1>7

LEMMA LikeSub ==
    ASSUME NEW S, NEW s \in Seq(S), NEW t \in Seq(S), Like(s, t), NEW N
    PROVE  Like(Sub(s, N), Sub(t, N))
<1> DEFINE at == At(s, N)
<1>1. at = At(t, N) /\ Len(s) = Len(t) /\ Len(s) \in Nat
  BY DEF Like, At
<1>2. at \in SUBSET (1..Len(s))
  BY DEF At
<1> HIDE DEF at
<1>3. PICK f : \E m \in Nat : Listing(f, m, at)
  BY <1>1, <1>2, PickLists
<1>4. PICK m \in Nat : Listing(f, m, at)
  BY <1>3
<1> DEFINE a == Extraction!Pick(s, at)
           b == Extraction!Pick(t, at)
<1>5. Len(a) = m /\ \A k \in 1..m : f[k] \in 1..Len(s) /\ a[k] = s[f[k]]
  BY <1>2, <1>4, PickSeq
<1>6. Len(b) = m /\ \A k \in 1..m : b[k] = t[f[k]]
  BY <1>1, <1>2, <1>4, PickSeq
<1> HIDE DEF a, b
<1>7. Like(a, b)
  BY <1>5, <1>6 DEF Like
<1>8. QED
  BY <1>1, <1>7 DEF a, b, at, Sub

(* Whole lists are alike if and only if each of their parts is, when the    *)
(* names tell where a part comes from.                                      *)
LEMMA FlatAlike ==
    ASSUME NEW S, NEW B \in Seq(Seq(S)), NEW C \in Seq(Seq(S)), Len(B) = Len(C),
           NEW N,
           \A k \in 1..Len(B) : \A j \in 1..Len(B) :
               /\ \A i \in 1..Len(B[k]) : B[k][i].name \in N[j] <=> k = j
               /\ \A i \in 1..Len(C[k]) : C[k][i].name \in N[j] <=> k = j
    PROVE  Like(Extraction!FlattenSeq(B), Extraction!FlattenSeq(C))
              <=> \A k \in 1..Len(B) : Like(B[k], C[k])
<1>1. (\A k \in 1..Len(B) : Like(B[k], C[k]))
         => Like(Extraction!FlattenSeq(B), Extraction!FlattenSeq(C))
  BY FlatLike
<1>2. ASSUME Like(Extraction!FlattenSeq(B), Extraction!FlattenSeq(C)), NEW j \in 1..Len(B)
      PROVE  Like(B[j], C[j])
  <2>1. j \in Nat \ {0} /\ j \in 1..Len(C)
    OBVIOUS
  <2>2. \A k \in 1..Len(B) : \A i \in 1..Len(B[k]) : B[k][i].name \in N[j] <=> k = j
    BY <1>2
  <2>3. \A k \in 1..Len(C) : \A i \in 1..Len(C[k]) : C[k][i].name \in N[j] <=> k = j
    BY <1>2
  <2>4. Sub(Extraction!FlattenSeq(B), N[j]) = B[j]
    BY <1>2, <2>1, <2>2, SubFlat
  <2>5. Sub(Extraction!FlattenSeq(C), N[j]) = C[j]
    BY <2>1, <2>3, SubFlat
  <2>6. Extraction!FlattenSeq(B) \in Seq(S) /\ Extraction!FlattenSeq(C) \in Seq(S)
    BY FlatSeq
  <2>7. QED
    BY <1>2, <2>4, <2>5, <2>6, LikeSub
<1>3. QED
  BY <1>1, <1>2

-----------------------------------------------------------------------------
LEMMA KeyFacts ==
    /\ NameOrder \in Seq(STRING) /\ Len(NameOrder) \in Nat /\ DOMAIN NameOrder = 1..Len(NameOrder)
    /\ \A i, j \in 1..Len(NameOrder) : NameOrder[i] = NameOrder[j] => i = j
    /\ \A n \in Extraction!HeaderNames \cup Extraction!QueryNames :
          \E i \in 1..Len(NameOrder) : NameOrder[i] = n
    /\ \A s \in StartsWith : s[1] \in Extraction!HeaderNames => Lowercase[s[2]] = s[2]
    /\ KeyFormats \subseteq {"Bitcode", "UrlEncoded"}
<1>1. Extraction!ConstantsOK
  BY ServiceAssumption
<1>2. /\ NameOrder \in Seq(STRING) /\ Extraction!IsInjective(NameOrder)
      /\ Extraction!HeaderNames \cup Extraction!QueryNames \subseteq Extraction!ToSet(NameOrder)
      /\ \A s \in StartsWith : s[1] \in Extraction!HeaderNames => Lowercase[s[2]] = s[2]
      /\ KeyFormats \subseteq {"Bitcode", "UrlEncoded"}
  BY <1>1 DEF Extraction!ConstantsOK
<1>3. Len(NameOrder) \in Nat /\ DOMAIN NameOrder = 1..Len(NameOrder)
  BY <1>2
<1>4. \A i, j \in 1..Len(NameOrder) : NameOrder[i] = NameOrder[j] => i = j
  BY <1>2, <1>3 DEF Extraction!IsInjective
<1>5. \A n \in Extraction!HeaderNames \cup Extraction!QueryNames :
         \E i \in 1..Len(NameOrder) : NameOrder[i] = n
  BY <1>2, <1>3 DEF Extraction!ToSet
<1>6. QED
  BY <1>2, <1>3, <1>4, <1>5

LEMMA RequestFacts ==
    ASSUME NEW r \in Asking
    PROVE  /\ r # None /\ r.method # None /\ r.version # None
           /\ Extraction!IsList(r.headers) /\ Extraction!IsFiniteSet(DOMAIN r.query)
           /\ \A n \in DOMAIN r.query : r.query[n] = Nested \/ Extraction!IsList(r.query[n])
           /\ \A i \in DOMAIN r.headers : r.headers[i][1] \in Extraction!HeaderNames
           /\ \A n \in DOMAIN r.query : n \in Extraction!QueryNames
<1>1. Extraction!RequestOK(r)
  BY ServiceAssumption DEF Extraction!ConstantsOK
<1>2. /\ r # None /\ r.method # None /\ r.version # None
      /\ Extraction!IsList(r.headers) /\ Extraction!IsFiniteSet(DOMAIN r.query)
      /\ \A n \in DOMAIN r.query : r.query[n] = Nested \/ Extraction!IsList(r.query[n])
  BY <1>1 DEF Extraction!RequestOK
<1>3. \A i \in DOMAIN r.headers : r.headers[i][1] \in Extraction!HeaderNames
  BY DEF Extraction!HeaderNames, Extraction!ToSet
<1>4. \A n \in DOMAIN r.query : n \in Extraction!QueryNames
  BY DEF Extraction!QueryNames
<1>5. QED
  BY <1>2, <1>3, <1>4

(* Lists.                                                                   *)
LEMMA ListFacts ==
    ASSUME NEW s, Extraction!IsList(s)
    PROVE  /\ Len(s) \in Nat /\ DOMAIN s = 1..Len(s)
           /\ s \in Seq({s[i] : i \in 1..Len(s)})
<1>1. Len(s) \in Nat /\ s = [i \in 1..Len(s) |-> s[i]]
  BY DEF Extraction!IsList
<1> DEFINE S == {s[i] : i \in 1..Len(s)}
<1>2. \A i \in 1..Len(s) : s[i] \in S
  OBVIOUS
<1> HIDE DEF S
<1>3. s \in Seq(S)
  BY <1>1, <1>2
<1>4. QED
  BY <1>1, <1>3 DEF S

LEMMA ListOf ==
    ASSUME NEW n \in Nat, NEW s, s = [i \in 1..n |-> s[i]]
    PROVE  Extraction!IsList(s) /\ Len(s) = n
<1>1. Len(s) = n
  OBVIOUS
<1>2. QED
  BY <1>1 DEF Extraction!IsList

LEMMA SeqIsList ==
    ASSUME NEW S, NEW s \in Seq(S)
    PROVE  Extraction!IsList(s)
<1>1. Len(s) \in Nat /\ s \in [1..Len(s) -> S]
  OBVIOUS
<1>2. s = [i \in 1..Len(s) |-> s[i]]
  BY <1>1
<1>3. QED
  BY <1>1, <1>2 DEF Extraction!IsList

LEMMA ListEqual ==
    ASSUME NEW s, NEW t, Extraction!IsList(s), Extraction!IsList(t), Len(s) = Len(t),
           \A i \in 1..Len(s) : s[i] = t[i]
    PROVE  s = t
  BY DEF Extraction!IsList

(* A list of n lists.                                                       *)
Lists(B, n) ==
    n \in Nat /\ B = [k \in 1..n |-> B[k]] /\ \A k \in 1..n : Extraction!IsList(B[k])

Elements(B, n) == UNION {{B[k][i] : i \in 1..Len(B[k])} : k \in 1..n}

LEMMA ListsSeq ==
    ASSUME NEW B, NEW n, Lists(B, n), NEW S, Elements(B, n) \subseteq S
    PROVE  B \in Seq(Seq(S)) /\ Len(B) = n
<1>1. n \in Nat /\ B = [k \in 1..n |-> B[k]]
  BY DEF Lists
<1>2. ASSUME NEW k \in 1..n PROVE B[k] \in Seq(S)
  <2>1. Extraction!IsList(B[k])
    BY DEF Lists
  <2>2. Len(B[k]) \in Nat /\ B[k] = [i \in 1..Len(B[k]) |-> B[k][i]]
    BY <2>1 DEF Extraction!IsList
  <2>3. \A i \in 1..Len(B[k]) : B[k][i] \in S
    BY DEF Elements
  <2> DEFINE b == B[k]
  <2> HIDE DEF b
  <2>4. Len(b) \in Nat /\ b = [i \in 1..Len(b) |-> b[i]] /\ \A i \in 1..Len(b) : b[i] \in S
    BY <2>2, <2>3 DEF b
  <2>5. b \in Seq(S)
    BY <2>4
  <2>6. QED
    BY <2>5 DEF b
<1> DEFINE T == Seq(S)
<1> HIDE DEF T
<1>3. \A k \in 1..n : B[k] \in T
  BY <1>2 DEF T
<1>4. B \in Seq(T) /\ Len(B) = n
  BY <1>1, <1>3
<1>5. QED
  BY <1>4 DEF T

LEMMA FlatList ==
    ASSUME NEW B, NEW n, Lists(B, n)
    PROVE  /\ Extraction!IsList(Extraction!FlattenSeq(B))
           /\ \A p \in 1..Len(Extraction!FlattenSeq(B)) :
                 \E k \in 1..n : \E i \in 1..Len(B[k]) : Extraction!FlattenSeq(B)[p] = B[k][i]
<1> DEFINE S == Elements(B, n)
           F == Extraction!FlattenSeq(B)
<1>1. B \in Seq(Seq(S))
  BY ListsSeq
<1>2. F \in Seq(S)
  BY <1>1, FlatSeq
<1>3. \A p \in 1..Len(F) : F[p] \in S
  BY <1>2
<1> HIDE DEF F
<1>4. \A p \in 1..Len(F) : \E k \in 1..n : \E i \in 1..Len(B[k]) : F[p] = B[k][i]
  BY <1>3 DEF Elements
<1>5. Extraction!IsList(F)
  BY <1>2, SeqIsList
<1>6. QED
  BY <1>4, <1>5 DEF F

(* The name of an element tells in which of the lists it is.                *)
Apart(B, n, N) ==
    \A k, j \in 1..n : \A i \in 1..Len(B[k]) : B[k][i].name \in N[j] <=> k = j

LEMMA FlatListAlike ==
    ASSUME NEW B, NEW C, NEW n, Lists(B, n), Lists(C, n), NEW N, Apart(B, n, N), Apart(C, n, N)
    PROVE  Like(Extraction!FlattenSeq(B), Extraction!FlattenSeq(C))
              <=> \A k \in 1..n : Like(B[k], C[k])
<1> DEFINE S == Elements(B, n) \cup Elements(C, n)
<1>1. Elements(B, n) \subseteq S /\ Elements(C, n) \subseteq S
  OBVIOUS
<1> HIDE DEF S
<1>2. B \in Seq(Seq(S)) /\ Len(B) = n /\ C \in Seq(Seq(S)) /\ Len(C) = n
  BY <1>1, ListsSeq
<1>3. QED
  BY <1>2, FlatAlike DEF Apart

LEMMA FlatListLike ==
    ASSUME NEW B, NEW C, NEW n, Lists(B, n), Lists(C, n), \A k \in 1..n : Like(B[k], C[k])
    PROVE  Like(Extraction!FlattenSeq(B), Extraction!FlattenSeq(C))
<1> DEFINE S == Elements(B, n) \cup Elements(C, n)
<1>1. Elements(B, n) \subseteq S /\ Elements(C, n) \subseteq S
  OBVIOUS
<1> HIDE DEF S
<1>2. B \in Seq(Seq(S)) /\ Len(B) = n /\ C \in Seq(Seq(S)) /\ Len(C) = n
  BY <1>1, ListsSeq
<1>3. QED
  BY <1>2, FlatLike

LEMMA FlatListSub ==
    ASSUME NEW B, NEW n, Lists(B, n), NEW N, NEW j \in Nat \ {0},
           \A k \in 1..n : \A i \in 1..Len(B[k]) : B[k][i].name \in N <=> k = j
    PROVE  Sub(Extraction!FlattenSeq(B), N) = IF j \in 1..n THEN B[j] ELSE <<>>
<1> DEFINE S == Elements(B, n)
<1>1. Elements(B, n) \subseteq S
  OBVIOUS
<1> HIDE DEF S
<1>2. B \in Seq(Seq(S)) /\ Len(B) = n
  BY <1>1, ListsSeq
<1>3. QED
  BY <1>2, SubFlat

(* A part is a name and a value.                                            *)
AreParts(s) ==
    Extraction!IsList(s) /\ \A i \in 1..Len(s) : s[i] = Extraction!Part(s[i].name, s[i].value)

LEMMA FlatParts ==
    ASSUME NEW B, NEW n, n \in Nat, B = [k \in 1..n |-> B[k]], \A k \in 1..n : AreParts(B[k])
    PROVE  AreParts(Extraction!FlattenSeq(B)) /\ Lists(B, n)
<1>1. Lists(B, n)
  BY DEF Lists, AreParts
<1> DEFINE F == Extraction!FlattenSeq(B)
<1>2. Extraction!IsList(F)
  BY <1>1, FlatList
<1>3. \A p \in 1..Len(F) : \E k \in 1..n : \E i \in 1..Len(B[k]) : F[p] = B[k][i]
  BY ONLY <1>1, FlatList
<1> HIDE DEF F
<1>4. \A p \in 1..Len(F) : F[p] = Extraction!Part(F[p].name, F[p].value)
  BY <1>3 DEF AreParts
<1>5. QED
  BY <1>1, <1>2, <1>4 DEF AreParts, F

LEMMA PickList ==
    ASSUME NEW s, Extraction!IsList(s), NEW at \in SUBSET (1..Len(s)),
           NEW m \in Nat, NEW f, Listing(f, m, at)
    PROVE  /\ Extraction!IsList(Extraction!Pick(s, at)) /\ Len(Extraction!Pick(s, at)) = m
           /\ \A k \in 1..m : /\ f[k] \in at /\ f[k] \in 1..Len(s)
                              /\ Extraction!Pick(s, at)[k] = s[f[k]]
<1> DEFINE S == {s[i] : i \in 1..Len(s)}
<1>1. s \in Seq(S)
  BY ListFacts
<1> HIDE DEF S
<1> DEFINE p == Extraction!Pick(s, at)
<1>2. /\ p \in Seq(S) /\ Len(p) = m
      /\ \A k \in 1..m : f[k] \in at /\ f[k] \in 1..Len(s) /\ p[k] = s[f[k]]
  BY <1>1, PickSeq
<1> HIDE DEF p
<1>3. Extraction!IsList(p)
  BY <1>2, SeqIsList
<1>4. QED
  BY <1>2, <1>3 DEF p

(* The places of a list of places.                                          *)
IsImage(C, f, B) == \A i : i \in C <=> \E b \in B : f[b] = i

LEMMA ListingOfListing ==
    ASSUME NEW n \in Nat, NEW A \in SUBSET (1..n), NEW m \in Nat, NEW f, Listing(f, m, A),
           NEW B \in SUBSET (1..m), NEW l \in Nat, NEW g, Listing(g, l, B),
           NEW C, IsImage(C, f, B),
           NEW h, h = [k \in 1..l |-> h[k]], \A k \in 1..l : h[k] = f[g[k]]
    PROVE  Listing(h, l, C)
<1>1. \A k \in 1..l : g[k] \in B /\ g[k] \in 1..m
  BY DEF Listing
<1>2. h \in [1..l -> C]
  BY <1>1 DEF IsImage
<1>3. ASSUME NEW i \in C PROVE \E k \in 1..l : h[k] = i
  <2>1. PICK b \in B : f[b] = i
    BY DEF IsImage
  <2>2. PICK k \in 1..l : g[k] = b
    BY DEF Listing
  <2>3. QED
    BY <2>1, <2>2
<1>4. ASSUME NEW j \in 1..l, NEW k \in 1..l, j < k PROVE h[j] < h[k]
  <2>1. g[j] < g[k]
    BY <1>4 DEF Listing
  <2>2. f[g[j]] < f[g[k]]
    BY <1>1, <2>1 DEF Listing
  <2>3. QED
    BY <2>2
<1>5. QED
  BY <1>2, <1>3, <1>4 DEF Listing

LEMMA NamedIsSub ==
    ASSUME NEW s, Extraction!IsList(s), NEW name
    PROVE  Extraction!PartsNamed(s, name) = Sub(s, {name})
<1>1. DOMAIN s = 1..Len(s)
  BY ListFacts
<1>2. {i \in DOMAIN s : s[i].name = name} = At(s, {name})
  BY <1>1 DEF At
<1>3. QED
  BY <1>2 DEF Extraction!PartsNamed, Sub

LEMMA SubParts ==
    ASSUME NEW s, AreParts(s), NEW N
    PROVE  AreParts(Sub(s, N)) /\ \A i \in 1..Len(Sub(s, N)) : Sub(s, N)[i].name \in N
<1> DEFINE at == At(s, N)
           p == Extraction!Pick(s, at)
<1>1. Extraction!IsList(s) /\ at \in SUBSET (1..Len(s)) /\ \A i \in at : s[i].name \in N
  BY DEF AreParts, At
<1>2. Len(s) \in Nat
  BY <1>1, ListFacts
<1> HIDE DEF at, p
<1>3. PICK f : \E m \in Nat : Listing(f, m, at)
  BY <1>1, <1>2, PickLists
<1>4. PICK m \in Nat : Listing(f, m, at)
  BY <1>3
<1>5. /\ Extraction!IsList(p) /\ Len(p) = m
      /\ \A k \in 1..m : f[k] \in at /\ f[k] \in 1..Len(s) /\ p[k] = s[f[k]]
  BY <1>1, <1>4, PickList DEF p
<1>6. AreParts(p) /\ \A i \in 1..Len(p) : p[i].name \in N
  BY <1>1, <1>5 DEF AreParts
<1>7. QED
  BY <1>6 DEF p, at, Sub

SortedBlocks(P) == [i \in 1..Len(NameOrder) |-> Sub(P, {NameOrder[i]})]

LEMMA SortedIs ==
    ASSUME NEW P, AreParts(P)
    PROVE  /\ Extraction!SortedByName(P) = Extraction!FlattenSeq(SortedBlocks(P))
           /\ Lists(SortedBlocks(P), Len(NameOrder)) /\ AreParts(Extraction!SortedByName(P))
           /\ \A k \in 1..Len(NameOrder) : \A i \in 1..Len(SortedBlocks(P)[k]) :
                 SortedBlocks(P)[k][i].name = NameOrder[k]
<1> DEFINE B == SortedBlocks(P)
           n == Len(NameOrder)
<1>1. Extraction!IsList(P) /\ n \in Nat /\ DOMAIN NameOrder = 1..n
  BY KeyFacts DEF AreParts
<1>2. \A name : Extraction!PartsNamed(P, name) = Sub(P, {name})
  BY <1>1, NamedIsSub
<1>3. Extraction!SortedByName(P) = Extraction!FlattenSeq(B)
  BY <1>1, <1>2 DEF Extraction!SortedByName, SortedBlocks
<1>4. B = [k \in 1..n |-> B[k]] /\ \A k \in 1..n : B[k] = Sub(P, {NameOrder[k]})
  BY DEF SortedBlocks
<1> HIDE DEF B, n
<1>5. \A k \in 1..n : AreParts(B[k]) /\ \A i \in 1..Len(B[k]) : B[k][i].name \in {NameOrder[k]}
  <2>1. \A N : AreParts(Sub(P, N)) /\ \A i \in 1..Len(Sub(P, N)) : Sub(P, N)[i].name \in N
    BY SubParts
  <2>2. ASSUME NEW k \in 1..n
        PROVE  AreParts(B[k]) /\ \A i \in 1..Len(B[k]) : B[k][i].name \in {NameOrder[k]}
    <3>1. B[k] = Sub(P, {NameOrder[k]})
      BY <1>4
    <3>2. QED
      BY <2>1, <3>1, Zenon
  <2>3. QED
    BY <2>2
<1>6. AreParts(Extraction!FlattenSeq(B)) /\ Lists(B, n)
  BY <1>1, <1>4, <1>5, FlatParts
<1>7. QED
  BY <1>3, <1>5, <1>6 DEF B, n

LEMMA SortedAlike ==
    ASSUME NEW P, AreParts(P), NEW Q, AreParts(Q)
    PROVE  Like(Extraction!SortedByName(P), Extraction!SortedByName(Q))
              <=> \A k \in 1..Len(NameOrder) : Like(Sub(P, {NameOrder[k]}), Sub(Q, {NameOrder[k]}))
<1> DEFINE B == SortedBlocks(P)
           C == SortedBlocks(Q)
           n == Len(NameOrder)
           N == [k \in 1..n |-> {NameOrder[k]}]
<1>1. /\ Extraction!SortedByName(P) = Extraction!FlattenSeq(B) /\ Lists(B, n)
      /\ \A k \in 1..n : \A i \in 1..Len(B[k]) : B[k][i].name = NameOrder[k]
  BY SortedIs
<1>2. /\ Extraction!SortedByName(Q) = Extraction!FlattenSeq(C) /\ Lists(C, n)
      /\ \A k \in 1..n : \A i \in 1..Len(C[k]) : C[k][i].name = NameOrder[k]
  BY SortedIs
<1>3. \A j, k \in 1..n : NameOrder[k] = NameOrder[j] => k = j
  BY KeyFacts
<1>4. \A k \in 1..n : B[k] = Sub(P, {NameOrder[k]}) /\ C[k] = Sub(Q, {NameOrder[k]})
  BY DEF SortedBlocks
<1>5. \A k \in 1..n : N[k] = {NameOrder[k]}
  OBVIOUS
<1> HIDE DEF B, C, n, N
<1>6. Apart(B, n, N) /\ Apart(C, n, N)
  BY <1>1, <1>2, <1>3, <1>5 DEF Apart
<1>7. Like(Extraction!FlattenSeq(B), Extraction!FlattenSeq(C)) <=> \A k \in 1..n : Like(B[k], C[k])
  BY ONLY <1>1, <1>2, <1>6, FlatListAlike
<1>8. (\A k \in 1..n : Like(B[k], C[k]))
         <=> \A k \in 1..n : Like(Sub(P, {NameOrder[k]}), Sub(Q, {NameOrder[k]}))
  BY <1>4
<1>9. QED
  BY <1>1, <1>2, <1>7, <1>8 DEF n

-----------------------------------------------------------------------------
(* Headers.                                                                 *)
LEMMA NamedHeaders ==
    ASSUME NEW r \in Asking, NEW name
    PROVE  Extraction!IsList(Extraction!HeadersNamed(r, name))
<1> DEFINE H == r.headers
           at == {i \in DOMAIN H : H[i][1] = name}
<1>1. Extraction!IsList(H)
  BY RequestFacts
<1>2. DOMAIN H = 1..Len(H) /\ Len(H) \in Nat
  BY <1>1, ListFacts
<1>3. at \in SUBSET (1..Len(H))
  BY <1>2
<1> HIDE DEF at
<1>4. PICK f : \E m \in Nat : Listing(f, m, at)
  BY <1>2, <1>3, PickLists
<1>5. PICK m \in Nat : Listing(f, m, at)
  BY <1>4
<1>6. Extraction!IsList(Extraction!Pick(H, at))
  BY <1>1, <1>3, <1>5, PickList
<1>7. QED
  BY <1>6 DEF Extraction!HeadersNamed, at

(* The parts of the headers that start with a prefix.                       *)
PrefixParts(e, r) ==
    LET found == Extraction!HeadersFrom(r, e.name)
    IN  [i \in DOMAIN found |-> Extraction!Part(found[i][1], Extraction!ExtractHeader(e, found[i][2]))]

LEMMA PrefixHeaders ==
    ASSUME NEW e, NEW r \in Asking
    PROVE  /\ AreParts(PrefixParts(e, r))
           /\ \A name :
                 IF <<name, e.name>> \in StartsWith /\ name \in Extraction!HeaderNames
                 THEN /\ Len(Sub(PrefixParts(e, r), {name})) = Len(Extraction!HeadersNamed(r, name))
                      /\ \A k \in 1..Len(Extraction!HeadersNamed(r, name)) :
                            Sub(PrefixParts(e, r), {name})[k] =
                              Extraction!Part(name,
                                  Extraction!ExtractHeader(e, Extraction!HeadersNamed(r, name)[k][2]))
                 ELSE Sub(PrefixParts(e, r), {name}) = <<>>
<1> DEFINE H == r.headers
           A == {i \in DOMAIN H : <<H[i][1], e.name>> \in StartsWith}
           found == Extraction!Pick(H, A)
           P == PrefixParts(e, r)
           X(v) == Extraction!ExtractHeader(e, v)
<1>1. Extraction!IsList(H) /\ DOMAIN H = 1..Len(H) /\ Len(H) \in Nat
  BY RequestFacts, ListFacts
<1>2. A \in SUBSET (1..Len(H))
  BY <1>1
<1>3. \A i \in 1..Len(H) : i \in A <=> <<H[i][1], e.name>> \in StartsWith
  BY <1>1
<1>4. found = Extraction!HeadersFrom(r, e.name)
  BY DEF Extraction!HeadersFrom
<1> HIDE DEF A, found
<1>5. PICK f : \E m \in Nat : Listing(f, m, A)
  BY <1>1, <1>2, PickLists
<1>6. PICK m \in Nat : Listing(f, m, A)
  BY <1>5
<1>7. /\ Extraction!IsList(found) /\ Len(found) = m
      /\ \A k \in 1..m : f[k] \in A /\ f[k] \in 1..Len(H) /\ found[k] = H[f[k]]
  <2> HIDE DEF H, P, X
  <2>1. Extraction!IsList(H)
    BY <1>1
  <2>2. /\ Extraction!IsList(Extraction!Pick(H, A)) /\ Len(Extraction!Pick(H, A)) = m
        /\ \A k \in 1..m : f[k] \in A /\ f[k] \in 1..Len(H) /\ Extraction!Pick(H, A)[k] = H[f[k]]
    BY <1>2, <1>6, <2>1, PickList, Z3
  <2>3. QED
    BY <2>2 DEF found
<1>8. DOMAIN found = 1..m
  BY <1>7, ListFacts
<1>9. P = [k \in 1..m |-> P[k]] /\ \A k \in 1..m : P[k] = Extraction!Part(H[f[k]][1], X(H[f[k]][2]))
  BY <1>4, <1>7, <1>8 DEF PrefixParts
<1> HIDE DEF P, H
<1>10. Extraction!IsList(P) /\ Len(P) = m
  BY <1>9, ListOf
<1>11. \A k \in 1..m : P[k].name = H[f[k]][1] /\ P[k].value = X(H[f[k]][2])
  BY <1>9 DEF Extraction!Part
<1>12. AreParts(P)
  BY <1>9, <1>10, <1>11 DEF AreParts
<1>13. ASSUME NEW name, <<name, e.name>> \in StartsWith
       PROVE  /\ Len(Sub(P, {name})) = Len(Extraction!HeadersNamed(r, name))
              /\ \A k \in 1..Len(Extraction!HeadersNamed(r, name)) :
                    Sub(P, {name})[k] =
                      Extraction!Part(name, X(Extraction!HeadersNamed(r, name)[k][2]))
  <2> DEFINE B == At(P, {name})
             C == {i \in DOMAIN H : H[i][1] = name}
  <2>1. B \in SUBSET (1..m) /\ \A k \in 1..m : k \in B <=> H[f[k]][1] = name
    BY <1>10, <1>11 DEF At
  <2>2. C \in SUBSET (1..Len(H)) /\ \A i \in 1..Len(H) : i \in C <=> H[i][1] = name
    BY <1>1 DEF H
  <2>3. Extraction!Pick(H, C) = Extraction!HeadersNamed(r, name)
    BY DEF Extraction!HeadersNamed, H
  <2> HIDE DEF B, C
  <2>4. \A i : i \in C <=> \E b \in B : f[b] = i
    <3>1. ASSUME NEW i \in C PROVE \E b \in B : f[b] = i
      <4>1. i \in 1..Len(H) /\ H[i][1] = name
        BY <2>2
      <4>2. i \in A
        BY <1>3, <1>13, <4>1 DEF H
      <4>3. PICK k \in 1..m : f[k] = i
        BY <1>6, <4>2 DEF Listing
      <4>4. QED
        BY <2>1, <4>1, <4>3
    <3>2. ASSUME NEW b \in B PROVE f[b] \in C
      BY <1>7, <2>1, <2>2 DEF H
    <3>3. QED
      BY <3>1, <3>2
  <2>5. PICK g : \E l \in Nat : Listing(g, l, B)
    BY <2>1, PickLists
  <2>6. PICK l \in Nat : Listing(g, l, B)
    BY <2>5
  <2> DEFINE h == [k \in 1..l |-> f[g[k]]]
  <2>8. \A k \in 1..l : h[k] = f[g[k]]
    OBVIOUS
  <2>7. Listing(h, l, C)
    <3>1. Len(H) \in Nat
      BY <1>1 DEF H
    <3>2. A \in SUBSET (1..Len(H))
      BY <1>2 DEF H
    <3>3. h = [k \in 1..l |-> h[k]]
      OBVIOUS
    <3>4. IsImage(C, f, B)
      BY <2>4 DEF IsImage
    <3> HIDE DEF h
    <3>5. QED
      BY ONLY <1>6, <2>1, <2>6, <2>8, <3>1, <3>2, <3>3, <3>4, ListingOfListing
  <2> DEFINE s == Extraction!Pick(P, B)
             t == Extraction!Pick(H, C)
  <2> HIDE DEF h, s, t
  <2>9. Len(s) = l /\ \A k \in 1..l : g[k] \in B /\ g[k] \in 1..m /\ s[k] = P[g[k]]
    BY <1>10, <2>1, <2>6, PickList DEF s
  <2>10. Extraction!IsList(H)
    BY <1>1 DEF H
  <2>11. Len(t) = l /\ \A k \in 1..l : t[k] = H[h[k]]
    BY <2>2, <2>7, <2>10, PickList DEF t
  <2>12. \A k \in 1..l : s[k] = Extraction!Part(name, X(t[k][2]))
    BY <1>9, <2>1, <2>8, <2>9, <2>11
  <2>13. s = Sub(P, {name}) /\ t = Extraction!HeadersNamed(r, name)
    BY <2>3 DEF s, t, B, Sub
  <2>14. QED
    BY <2>9, <2>11, <2>12, <2>13
<1>14. ASSUME NEW name, ~(<<name, e.name>> \in StartsWith /\ name \in Extraction!HeaderNames)
       PROVE  Sub(P, {name}) = <<>>
  <2>1. ASSUME NEW k \in 1..Len(P) PROVE P[k].name \notin {name}
    <3>1. f[k] \in A /\ f[k] \in 1..Len(H) /\ P[k].name = H[f[k]][1]
      BY <1>7, <1>10, <1>11 DEF H
    <3>2. <<H[f[k]][1], e.name>> \in StartsWith
      BY <1>3, <3>1 DEF H
    <3>3. H[f[k]][1] \in Extraction!HeaderNames
      BY <1>1, <3>1, RequestFacts DEF H
    <3>4. QED
      BY <1>14, <3>1, <3>2, <3>3
  <2> DEFINE S == {P[i] : i \in 1..Len(P)}
  <2>2. P \in Seq(S)
    BY <1>10, ListFacts
  <2> HIDE DEF S
  <2>3. QED
    BY <2>1, <2>2, SubNone
<1>15. ASSUME NEW name
       PROVE  IF <<name, e.name>> \in StartsWith /\ name \in Extraction!HeaderNames
              THEN /\ Len(Sub(P, {name})) = Len(Extraction!HeadersNamed(r, name))
                   /\ \A k \in 1..Len(Extraction!HeadersNamed(r, name)) :
                         Sub(P, {name})[k] =
                           Extraction!Part(name, X(Extraction!HeadersNamed(r, name)[k][2]))
              ELSE Sub(P, {name}) = <<>>
  BY <1>13, <1>14
<1>16. QED
  BY <1>12, <1>15 DEF P

LEMMA HeaderValuesIs ==
    ASSUME NEW e, NEW r \in Asking, NEW name
    PROVE  /\ Extraction!IsList(Extraction!HeaderValues(e, r, name))
           /\ Len(Extraction!HeaderValues(e, r, name)) = Len(Extraction!HeadersNamed(r, name))
           /\ \A k \in 1..Len(Extraction!HeadersNamed(r, name)) :
                 Extraction!HeaderValues(e, r, name)[k] =
                   Extraction!Told(Extraction!ExtractHeader(e, Extraction!HeadersNamed(r, name)[k][2]))
<1> DEFINE found  == Extraction!HeadersNamed(r, name)
           values == Extraction!HeaderValues(e, r, name)
           n == Len(found)
<1>1. Extraction!IsList(found)
  BY NamedHeaders
<1>2. DOMAIN found = 1..n /\ n \in Nat
  BY <1>1, ListFacts
<1>3. values = [i \in DOMAIN found |-> Extraction!Told(Extraction!ExtractHeader(e, found[i][2]))]
  BY DEF Extraction!HeaderValues
<1> HIDE DEF found, values, n
<1>4. /\ values = [i \in 1..n |-> values[i]]
      /\ \A k \in 1..n : values[k] = Extraction!Told(Extraction!ExtractHeader(e, found[k][2]))
  BY <1>2, <1>3
<1>5. Extraction!IsList(values) /\ Len(values) = n
  BY <1>2, <1>4, ListOf
<1>6. QED
  BY <1>4, <1>5 DEF found, values, n

LEMMA ExactHeader ==
    ASSUME NEW e, e.on = "Header", e.select = "Exact", NEW r \in Asking
    PROVE  /\ AreParts(Extraction!HeaderParts(e, r))
           /\ Len(Extraction!HeaderParts(e, r)) = 1
           /\ Extraction!HeaderParts(e, r)[1].name = e.name
           /\ Extraction!Told(Extraction!HeaderParts(e, r)[1].value) = Extraction!Sees(e, r)
<1> DEFINE found  == Extraction!HeadersNamed(r, Lowercase[e.name])
           values == Extraction!HeaderValues(e, r, Lowercase[e.name])
           v == IF found = <<>> THEN None ELSE Extraction!ExtractHeader(e, found[1][2])
           p == Extraction!Part(e.name, v)
           s == Extraction!HeaderParts(e, r)
<1>1. s = <<p>>
  BY DEF Extraction!HeaderParts
<1>2. Extraction!Sees(e, r) = IF values = <<>> THEN Extraction!Told(None) ELSE values[1]
  BY DEF Extraction!Sees
<1>3. /\ Extraction!IsList(found) /\ Extraction!IsList(values) /\ Len(values) = Len(found)
      /\ \A k \in 1..Len(found) :
            values[k] = Extraction!Told(Extraction!ExtractHeader(e, found[k][2]))
  BY NamedHeaders, HeaderValuesIs
<1> HIDE DEF found, values, s
<1>4. \A t : Extraction!IsList(t) => (t = <<>> <=> Len(t) = 0) /\ (Len(t) # 0 => 1 \in 1..Len(t))
  BY DEF Extraction!IsList
<1>5. Extraction!Told(v) = Extraction!Sees(e, r)
  <2>1. CASE found = <<>>
    BY <1>2, <1>3, <1>4, <2>1
  <2>2. CASE found # <<>>
    <3>1. values # <<>> /\ 1 \in 1..Len(found)
      BY <1>3, <1>4, <2>2
    <3>2. values[1] = Extraction!Told(Extraction!ExtractHeader(e, found[1][2]))
      BY <1>3, <3>1
    <3>3. QED
      BY <1>2, <2>2, <3>1, <3>2
  <2>3. QED
    BY <2>1, <2>2
<1> HIDE DEF v
<1>6. p.name = e.name /\ p.value = v /\ p = Extraction!Part(p.name, p.value)
  BY DEF Extraction!Part
<1> HIDE DEF p
<1>7. s = [i \in 1..1 |-> s[i]] /\ s[1] = p
  BY <1>1
<1>8. Extraction!IsList(s) /\ Len(s) = 1
  BY <1>7, ListOf
<1>9. AreParts(s)
  BY <1>6, <1>7, <1>8 DEF AreParts
<1>10. QED
  BY <1>5, <1>6, <1>7, <1>8, <1>9 DEF s

LEMMA NoParts == Like(<<>>, <<>>)
  BY DEF Like

LEMMA PrefixLike ==
    ASSUME NEW e, NEW r \in Asking, NEW s \in Asking, NEW name
    PROVE  Like(Sub(PrefixParts(e, r), {name}), Sub(PrefixParts(e, s), {name}))
              <=> (<<name, e.name>> \in StartsWith /\ name \in Extraction!HeaderNames
                     => Extraction!HeaderValues(e, r, name) = Extraction!HeaderValues(e, s, name))
<1> DEFINE a == Sub(PrefixParts(e, r), {name})
           b == Sub(PrefixParts(e, s), {name})
           c == Extraction!HeadersNamed(r, name)
           d == Extraction!HeadersNamed(s, name)
           v == Extraction!HeaderValues(e, r, name)
           w == Extraction!HeaderValues(e, s, name)
           X(h) == Extraction!ExtractHeader(e, h[2])
<1>1. CASE <<name, e.name>> \in StartsWith /\ name \in Extraction!HeaderNames
  <2>1. Len(a) = Len(c) /\ \A k \in 1..Len(c) : a[k] = Extraction!Part(name, X(c[k]))
    BY <1>1, PrefixHeaders
  <2>2. Len(b) = Len(d) /\ \A k \in 1..Len(d) : b[k] = Extraction!Part(name, X(d[k]))
    BY <1>1, PrefixHeaders
  <2>3. /\ Extraction!IsList(v) /\ Len(v) = Len(c)
        /\ \A k \in 1..Len(c) : v[k] = Extraction!Told(X(c[k]))
    BY HeaderValuesIs
  <2>4. /\ Extraction!IsList(w) /\ Len(w) = Len(d)
        /\ \A k \in 1..Len(d) : w[k] = Extraction!Told(X(d[k]))
    BY HeaderValuesIs
  <2> HIDE DEF a, b, c, d, v, w
  <2>5. /\ \A k \in 1..Len(c) : a[k].name = name /\ a[k].value = X(c[k])
        /\ \A k \in 1..Len(d) : b[k].name = name /\ b[k].value = X(d[k])
    <3>1. \A x : Extraction!Part(name, x).name = name /\ Extraction!Part(name, x).value = x
      BY DEF Extraction!Part
    <3> HIDE DEF X
    <3>2. \A k \in 1..Len(c) : a[k].name = name /\ a[k].value = X(c[k])
      BY <2>1, <3>1
    <3>3. \A k \in 1..Len(d) : b[k].name = name /\ b[k].value = X(d[k])
      BY <2>2, <3>1
    <3>4. QED
      BY <3>2, <3>3
  <2>6. ASSUME v = w PROVE Like(a, b)
    BY <2>1, <2>2, <2>3, <2>4, <2>5, <2>6 DEF Like
  <2>7. ASSUME Like(a, b) PROVE v = w
    <3>1. Len(c) = Len(d) /\ \A k \in 1..Len(c) : Extraction!Told(a[k].value) = Extraction!Told(b[k].value)
      BY <2>1, <2>2, <2>7 DEF Like
    <3>2. \A k \in 1..Len(v) : v[k] = w[k]
      BY <2>3, <2>4, <2>5, <3>1
    <3>3. QED
      BY <2>3, <2>4, <3>1, <3>2, ListEqual
  <2>8. Like(a, b) <=> v = w
    BY <2>6, <2>7
  <2>9. QED
    BY <1>1, <2>8 DEF a, b, v, w
<1>2. CASE ~(<<name, e.name>> \in StartsWith /\ name \in Extraction!HeaderNames)
  <2>1. a = <<>>
    BY <1>2, PrefixHeaders
  <2>2. b = <<>>
    BY <1>2, PrefixHeaders
  <2>3. Like(a, b)
    BY <2>1, <2>2, NoParts
  <2>4. QED
    BY <1>2, <2>3
<1>3. QED
  BY <1>1, <1>2

LEMMA PrefixedHeader ==
    ASSUME NEW e, e.on = "Header", e.select = "Starts", NEW r \in Asking
    PROVE  /\ Extraction!HeaderParts(e, r) = Extraction!SortedByName(PrefixParts(e, r))
           /\ AreParts(Extraction!HeaderParts(e, r))
<1>1. Extraction!HeaderParts(e, r) = Extraction!SortedByName(PrefixParts(e, r))
  BY DEF Extraction!HeaderParts, PrefixParts
<1>2. AreParts(PrefixParts(e, r))
  BY PrefixHeaders
<1>3. QED
  BY <1>1, <1>2, SortedIs

LEMMA PrefixedAlike ==
    ASSUME NEW e, e.on = "Header", e.select = "Starts", NEW r \in Asking, NEW s \in Asking
    PROVE  /\ Extraction!Sees(e, r) = Extraction!Sees(e, s)
                => Like(Extraction!HeaderParts(e, r), Extraction!HeaderParts(e, s))
           /\ Lowercase[e.name] = e.name =>
                (Like(Extraction!HeaderParts(e, r), Extraction!HeaderParts(e, s))
                   => Extraction!Sees(e, r) = Extraction!Sees(e, s))
<1> DEFINE P == PrefixParts(e, r)
           Q == PrefixParts(e, s)
           n == Len(NameOrder)
           V(q, name) == Extraction!HeaderValues(e, q, name)
           from == {name \in Extraction!HeaderNames : <<name, e.name>> \in StartsWith}
           lower == Extraction!From(Lowercase[e.name], Extraction!HeaderNames)
<1>1. /\ Extraction!HeaderParts(e, r) = Extraction!SortedByName(P)
      /\ Extraction!HeaderParts(e, s) = Extraction!SortedByName(Q)
  BY PrefixedHeader
<1>2. AreParts(P) /\ AreParts(Q)
  BY PrefixHeaders
<1>3. \A name : Like(Sub(P, {name}), Sub(Q, {name})) <=> (name \in from => V(r, name) = V(s, name))
  BY PrefixLike
<1>4. \A name \in from : \E k \in 1..n : NameOrder[k] = name
  BY KeyFacts
<1>5. Like(Extraction!SortedByName(P), Extraction!SortedByName(Q))
         <=> \A k \in 1..n : Like(Sub(P, {NameOrder[k]}), Sub(Q, {NameOrder[k]}))
  BY ONLY <1>2, SortedAlike
<1>6. /\ Extraction!Sees(e, r) = [name \in lower |-> V(r, name)]
      /\ Extraction!Sees(e, s) = [name \in lower |-> V(s, name)]
  BY DEF Extraction!Sees
<1>7. Extraction!Sees(e, r) = Extraction!Sees(e, s) <=> \A name \in lower : V(r, name) = V(s, name)
  BY <1>6
<1> HIDE DEF P, Q, n
<1>8. Like(Extraction!HeaderParts(e, r), Extraction!HeaderParts(e, s))
         <=> \A name \in from : V(r, name) = V(s, name)
  <2>1. (\A k \in 1..n : Like(Sub(P, {NameOrder[k]}), Sub(Q, {NameOrder[k]})))
           <=> \A name \in from : V(r, name) = V(s, name)
    BY <1>3, <1>4
  <2>2. QED
    BY <1>1, <1>5, <2>1
<1>9. Lowercase[e.name] = e.name => from = lower
  BY DEF Extraction!From
<1>10. Lowercase[e.name] # e.name => from = {}
  <2>1. ASSUME NEW name \in from PROVE Lowercase[e.name] = e.name
    <3>1. <<name, e.name>> \in StartsWith /\ name \in Extraction!HeaderNames
      OBVIOUS
    <3>2. <<name, e.name>>[1] = name /\ <<name, e.name>>[2] = e.name
      OBVIOUS
    <3>3. \A t \in StartsWith : t[1] \in Extraction!HeaderNames => Lowercase[t[2]] = t[2]
      BY KeyFacts
    <3>4. QED
      BY <3>1, <3>2, <3>3
  <2>2. QED
    BY <2>1
<1> HIDE DEF from, lower
<1>11. QED
  BY <1>7, <1>8, <1>9, <1>10

-----------------------------------------------------------------------------
(* Parameters of the query.                                                 *)
LEMMA OrderFacts ==
    ASSUME NEW D, Extraction!IsFiniteSet(D), NEW order \in Extraction!SetToSeqs(D)
    PROVE  \E m \in Nat : /\ order = [k \in 1..m |-> order[k]] /\ DOMAIN order = 1..m
                          /\ \A k \in 1..m : order[k] \in D
                          /\ \A j, k \in 1..m : order[j] = order[k] => j = k
                          /\ \A x \in D : \E k \in 1..m : order[k] = x
<1> DEFINE m == Cardinality(D)
<1>1. IsFiniteSet(D)
  BY DEF Extraction!IsFiniteSet, IsFiniteSet
<1>2. m \in Nat
  BY <1>1, FS_CardinalityType
<1>3. order \in [1..m -> D] /\ \A i, j \in 1..m : i # j => order[i] # order[j]
  BY SameCardinality DEF Extraction!SetToSeqs
<1>4. IsFiniteSet(1..m) /\ Cardinality(1..m) = m
  BY <1>2, FS_Interval
<1> DEFINE T == 1..m
<1>5. order \in Injection(T, D)
  BY <1>3 DEF Injection, IsInjective
<1> HIDE DEF T
<1>6. Cardinality(T) = m
  BY <1>4 DEF T
<1>7. order \in Surjection(T, D)
  BY <1>1, <1>5, <1>6, FS_Injection
<1>8. \A x \in D : \E k \in T : order[k] = x
  BY <1>7 DEF Surjection
<1> HIDE DEF m
<1>9. /\ order = [k \in 1..m |-> order[k]] /\ DOMAIN order = 1..m
      /\ \A k \in 1..m : order[k] \in D
  BY <1>3
<1>10. \A j, k \in 1..m : order[j] = order[k] => j = k
  BY <1>3
<1>11. \A x \in D : \E k \in 1..m : order[k] = x
  BY <1>8 DEF T
<1>12. QED
  BY <1>2, <1>9, <1>10, <1>11

LEMMA ToldOf == \A v : v # None => Extraction!Told(v) = v
  BY DEF Extraction!Told

LEMMA PartFields ==
    \A n, v : /\ Extraction!Part(n, v).name = n /\ Extraction!Part(n, v).value = v
              /\ Extraction!Part(n, v) =
                   Extraction!Part(Extraction!Part(n, v).name, Extraction!Part(n, v).value)
  BY DEF Extraction!Part

LEMMA EmptyParts == AreParts(<<>>) /\ Extraction!IsList(<<>>) /\ Len(<<>>) = 0
<1> DEFINE s == <<>>
<1>1. Len(s) = 0 /\ s = [i \in 1..Len(s) |-> s[i]] /\ \A i \in 1..Len(s) : FALSE
  OBVIOUS
<1> HIDE DEF s
<1>2. AreParts(s) /\ Extraction!IsList(s) /\ Len(s) = 0
  BY <1>1 DEF AreParts, Extraction!IsList
<1>3. QED
  BY <1>2 DEF s

(* The parts of a parameter are its values under its name.                  *)
Under(s, name, values) ==
    /\ AreParts(s) /\ Extraction!IsList(values) /\ Len(s) = Len(values)
    /\ \A k \in 1..Len(values) : s[k] = Extraction!Part(name, values[k]) /\ values[k] # None

LEMMA UnderAlike ==
    ASSUME NEW s, NEW t, NEW name, NEW v, NEW w, Under(s, name, v), Under(t, name, w)
    PROVE  Like(s, t) <=> v = w
<1>1. /\ \A k \in 1..Len(v) : s[k].name = name /\ s[k].value = v[k] /\ Extraction!Told(v[k]) = v[k]
      /\ \A k \in 1..Len(w) : t[k].name = name /\ t[k].value = w[k] /\ Extraction!Told(w[k]) = w[k]
  BY PartFields, ToldOf DEF Under
<1>2. /\ Extraction!IsList(v) /\ Extraction!IsList(w) /\ Len(s) = Len(v) /\ Len(t) = Len(w)
  BY DEF Under
<1>3. ASSUME v = w PROVE Like(s, t)
  BY <1>1, <1>2, <1>3 DEF Like
<1>4. ASSUME Like(s, t) PROVE v = w
  <2>1. Len(v) = Len(w) /\ \A k \in 1..Len(v) : v[k] = w[k]
    BY <1>1, <1>2, <1>4 DEF Like
  <2>2. QED
    BY <1>2, <2>1, ListEqual
<1>5. QED
  BY <1>3, <1>4

LEMMA QueryUnder ==
    ASSUME NEW e, NEW r \in Asking, Extraction!Parses(r), NEW name
    PROVE  Under(Extraction!ExtractQuery(e, r.query, name), name, Extraction!QueryValues(e, r, name))
<1> DEFINE q == r.query[name]
           X(v) == Extraction!ExtractValue(e, v)
           parts == [i \in DOMAIN q |-> Extraction!Part(name, X(q[i]))]
           values == [i \in DOMAIN q |-> X(q[i])]
           at == {i \in DOMAIN q : X(q[i]) # None}
<1>1. CASE name \notin DOMAIN r.query
  <2>1. /\ Extraction!ExtractQuery(e, r.query, name) = <<>>
        /\ Extraction!QueryValues(e, r, name) = <<>>
    BY <1>1 DEF Extraction!ExtractQuery, Extraction!QueryValues
  <2>2. \A i \in 1..0 : FALSE
    OBVIOUS
  <2>3. QED
    BY <2>1, <2>2, EmptyParts DEF Under
<1>2. CASE name \in DOMAIN r.query
  <2>1. r.query[name] # Nested /\ Extraction!IsList(q)
    BY <1>2, RequestFacts DEF Extraction!Parses
  <2>2. {i \in DOMAIN parts : parts[i].value # None} = at
    BY PartFields
  <2>3. {i \in DOMAIN values : values[i] # None} = at
    OBVIOUS
  <2>4. Extraction!ExtractQuery(e, r.query, name) = Extraction!Pick(parts, at)
    BY <1>2, <2>2 DEF Extraction!ExtractQuery, Extraction!Valued
  <2>5. Extraction!QueryValues(e, r, name) = Extraction!Pick(values, at)
    BY <1>2, <2>1, <2>3 DEF Extraction!QueryValues
  <2> DEFINE n == Len(q)
  <2>6. DOMAIN q = 1..n /\ n \in Nat
    BY <2>1, ListFacts
  <2>7. at \in SUBSET (1..n) /\ \A i \in at : X(q[i]) # None
    BY <2>6
  <2>8. /\ parts = [i \in 1..n |-> parts[i]] /\ \A i \in 1..n : parts[i] = Extraction!Part(name, X(q[i]))
        /\ values = [i \in 1..n |-> values[i]] /\ \A i \in 1..n : values[i] = X(q[i])
    BY <2>6
  <2> HIDE DEF q, X, parts, values, at, n
  <2>9. /\ Extraction!IsList(parts) /\ Len(parts) = n
        /\ Extraction!IsList(values) /\ Len(values) = n
    BY <2>6, <2>8, ListOf
  <2>10. PICK f : \E m \in Nat : Listing(f, m, at)
    BY <2>6, <2>7, PickLists
  <2>11. PICK m \in Nat : Listing(f, m, at)
    BY <2>10
  <2> DEFINE s == Extraction!Pick(parts, at)
             v == Extraction!Pick(values, at)
  <2> HIDE DEF s, v
  <2>12. /\ Extraction!IsList(s) /\ Len(s) = m
         /\ \A k \in 1..m : f[k] \in at /\ f[k] \in 1..n /\ s[k] = parts[f[k]]
    BY <2>7, <2>9, <2>11, PickList DEF s
  <2>13. /\ Extraction!IsList(v) /\ Len(v) = m
         /\ \A k \in 1..m : v[k] = values[f[k]]
    BY <2>7, <2>9, <2>11, PickList DEF v
  <2>14. \A k \in 1..m : s[k] = Extraction!Part(name, v[k]) /\ v[k] # None
    BY <2>7, <2>8, <2>12, <2>13
  <2>15. AreParts(s)
    BY <2>12, <2>14, PartFields DEF AreParts
  <2>16. Under(s, name, v)
    BY <2>12, <2>13, <2>14, <2>15 DEF Under
  <2>17. QED
    BY <2>4, <2>5, <2>16 DEF s, v
<1>3. QED
  BY <1>1, <1>2

LEMMA Parsed == \A r : Extraction!Parses(r) => Extraction!Parse(r.query) = r.query
  BY DEF Extraction!Parses, Extraction!Parse

LEMMA ParseAll ==
    ASSUME NEW r \in Asking, NEW e, NEW name
    PROVE  AreParts(Extraction!ExtractQuery(e, Extraction!Parse(r.query), name))
<1>1. CASE Extraction!Parses(r)
  BY <1>1, Parsed, QueryUnder DEF Under
<1>2. CASE ~Extraction!Parses(r)
  <2>1. name \notin DOMAIN Extraction!Parse(r.query)
    BY <1>2 DEF Extraction!Parses, Extraction!Parse
  <2>2. Extraction!ExtractQuery(e, Extraction!Parse(r.query), name) = <<>>
    BY <2>1 DEF Extraction!ExtractQuery
  <2>3. QED
    BY <2>2, EmptyParts
<1>3. QED
  BY <1>1, <1>2

LEMMA ExactQuery ==
    ASSUME NEW e, e.on = "Query", e.select = "Exact",
           NEW r \in Asking, NEW s \in Asking, Extraction!Parses(r), Extraction!Parses(s), NEW o, NEW p
    PROVE  Like(Extraction!QueryParts(e, r, o), Extraction!QueryParts(e, s, p))
              <=> Extraction!Sees(e, r) = Extraction!Sees(e, s)
<1> DEFINE V(q, name) == Extraction!QueryValues(e, q, name)
<1>1. /\ Extraction!QueryParts(e, r, o) = Extraction!ExtractQuery(e, r.query, e.name)
      /\ Extraction!QueryParts(e, s, p) = Extraction!ExtractQuery(e, s.query, e.name)
  BY Parsed DEF Extraction!QueryParts
<1>2. /\ Under(Extraction!ExtractQuery(e, r.query, e.name), e.name, V(r, e.name))
      /\ Under(Extraction!ExtractQuery(e, s.query, e.name), e.name, V(s, e.name))
  BY QueryUnder
<1>3. Like(Extraction!QueryParts(e, r, o), Extraction!QueryParts(e, s, p)) <=> V(r, e.name) = V(s, e.name)
  BY <1>1, <1>2, UnderAlike
<1>4. /\ Extraction!Sees(e, r) = [name \in {e.name} |-> V(r, name)]
      /\ Extraction!Sees(e, s) = [name \in {e.name} |-> V(s, name)]
  BY DEF Extraction!Sees
<1>5. Extraction!Sees(e, r) = Extraction!Sees(e, s) <=> V(r, e.name) = V(s, e.name)
  BY <1>4
<1>6. QED
  BY <1>3, <1>5

PrefixBlocks(e, query, order) ==
    [i \in DOMAIN order |->
        IF order[i] \in DOMAIN query /\ <<order[i], e.name>> \in StartsWith
        THEN Extraction!ExtractQuery(e, query, order[i]) ELSE <<>>]

LEMMA PrefixedQuery ==
    ASSUME NEW e, NEW r \in Asking, NEW o \in Extraction!SetToSeqs(DOMAIN r.query)
    PROVE  AreParts(Extraction!PrefixedParts(e, Extraction!Parse(r.query), o))
<1> DEFINE q == Extraction!Parse(r.query)
           B == PrefixBlocks(e, q, o)
<1>1. PICK n \in Nat : o = [k \in 1..n |-> o[k]] /\ DOMAIN o = 1..n
  BY RequestFacts, OrderFacts
<1>2. Extraction!PrefixedParts(e, q, o) = Extraction!FlattenSeq(B)
  BY DEF Extraction!PrefixedParts, PrefixBlocks
<1>3. B = [k \in 1..n |-> B[k]]
  BY <1>1 DEF PrefixBlocks
<1>4. \A k \in 1..n : B[k] = <<>> \/ B[k] = Extraction!ExtractQuery(e, q, o[k])
  BY <1>1 DEF PrefixBlocks
<1> HIDE DEF B
<1>5. \A k \in 1..n : AreParts(B[k])
  BY <1>4, ParseAll, EmptyParts
<1>6. AreParts(Extraction!FlattenSeq(B))
  BY <1>3, <1>5, FlatParts
<1>7. QED
  BY <1>2, <1>6

LEMMA PrefixedSub ==
    ASSUME NEW e, NEW r \in Asking, NEW o \in Extraction!SetToSeqs(DOMAIN r.query),
           Extraction!Parses(r), NEW name
    PROVE  Sub(Extraction!PrefixedParts(e, r.query, o), {name}) =
             IF <<name, e.name>> \in StartsWith THEN Extraction!ExtractQuery(e, r.query, name) ELSE <<>>
<1> DEFINE q == r.query
           B == PrefixBlocks(e, q, o)
           X(m) == Extraction!ExtractQuery(e, q, m)
<1>0. Extraction!IsFiniteSet(DOMAIN q)
  BY RequestFacts
<1>1. PICK n \in Nat : /\ o = [k \in 1..n |-> o[k]] /\ DOMAIN o = 1..n
                       /\ \A k \in 1..n : o[k] \in DOMAIN q
                       /\ \A j, k \in 1..n : o[j] = o[k] => j = k
                       /\ \A x \in DOMAIN q : \E k \in 1..n : o[k] = x
  BY <1>0, OrderFacts
<1>2. Extraction!PrefixedParts(e, q, o) = Extraction!FlattenSeq(B)
  BY DEF Extraction!PrefixedParts, PrefixBlocks
<1>3. B = [k \in 1..n |-> B[k]]
  BY <1>1 DEF PrefixBlocks
<1>4. \A k \in 1..n : B[k] = IF <<o[k], e.name>> \in StartsWith THEN X(o[k]) ELSE <<>>
  BY <1>1 DEF PrefixBlocks
<1>5. \A m : AreParts(X(m)) /\ \A i \in 1..Len(X(m)) : X(m)[i].name = m
  <2>1. \A m : Under(X(m), m, Extraction!QueryValues(e, r, m))
    BY QueryUnder
  <2>2. QED
    BY <2>1, PartFields DEF Under
<1> HIDE DEF B, X, q
<1>6. ASSUME NEW k \in 1..n
      PROVE  Extraction!IsList(B[k]) /\ \A i \in 1..Len(B[k]) : B[k][i].name = o[k]
  <2>1. CASE B[k] = X(o[k])
    <3>1. Extraction!IsList(X(o[k])) /\ \A i \in 1..Len(X(o[k])) : X(o[k])[i].name = o[k]
      BY <1>5 DEF AreParts
    <3>2. QED
      BY <2>1, <3>1
  <2>2. CASE B[k] = <<>>
    <3>1. \A i \in 1..0 : FALSE
      OBVIOUS
    <3>2. QED
      BY <2>2, <3>1, EmptyParts
  <2>3. QED
    BY <1>4, <2>1, <2>2
<1>7. Lists(B, n)
  BY <1>3, <1>6 DEF Lists
<1>8. CASE name \in DOMAIN q
  <2>1. PICK j \in 1..n : o[j] = name
    BY <1>1, <1>8
  <2>2. j \in Nat \ {0} /\ \A k \in 1..n : \A i \in 1..Len(B[k]) : B[k][i].name \in {name} <=> k = j
    BY <1>1, <1>6, <2>1
  <2>3. Sub(Extraction!FlattenSeq(B), {name}) = B[j]
    BY <1>7, <2>2, FlatListSub
  <2>4. QED
    BY <1>2, <1>4, <2>1, <2>3 DEF q, X
<1>9. CASE name \notin DOMAIN q
  <2> DEFINE j == n + 1
  <2>1. j \in Nat \ {0} /\ j \notin 1..n
    OBVIOUS
  <2> HIDE DEF j
  <2>2. \A k \in 1..n : \A i \in 1..Len(B[k]) : B[k][i].name \in {name} <=> k = j
    BY <1>1, <1>6, <1>9, <2>1
  <2>3. Sub(Extraction!FlattenSeq(B), {name}) = <<>>
    BY <1>7, <2>1, <2>2, FlatListSub
  <2>4. Extraction!ExtractQuery(e, r.query, name) = <<>>
    BY <1>9 DEF q, Extraction!ExtractQuery
  <2>5. QED
    BY <1>2, <2>3, <2>4 DEF q
<1>10. QED
  BY <1>8, <1>9

LEMMA PrefixedQueryAlike ==
    ASSUME NEW e, e.on = "Query", e.select = "Starts",
           NEW r \in Asking, NEW s \in Asking, Extraction!Parses(r), Extraction!Parses(s),
           NEW o \in Extraction!SetToSeqs(DOMAIN r.query),
           NEW p \in Extraction!SetToSeqs(DOMAIN s.query)
    PROVE  Like(Extraction!QueryParts(e, r, o), Extraction!QueryParts(e, s, p))
              <=> Extraction!Sees(e, r) = Extraction!Sees(e, s)
<1> DEFINE P == Extraction!PrefixedParts(e, r.query, o)
           Q == Extraction!PrefixedParts(e, s.query, p)
           n == Len(NameOrder)
           V(q, name) == Extraction!QueryValues(e, q, name)
           from == Extraction!From(e.name, Extraction!QueryNames)
<1>1. /\ Extraction!QueryParts(e, r, o) = Extraction!SortedByName(P)
      /\ Extraction!QueryParts(e, s, p) = Extraction!SortedByName(Q)
  BY Parsed DEF Extraction!QueryParts
<1>2. AreParts(P) /\ AreParts(Q)
  <2>1. Extraction!Parse(r.query) = r.query /\ Extraction!Parse(s.query) = s.query
    BY Parsed
  <2>2. AreParts(P)
    BY <2>1, PrefixedQuery
  <2>3. AreParts(Q)
    BY <2>1, PrefixedQuery
  <2>4. QED
    BY <2>2, <2>3
<1>3. ASSUME NEW name
      PROVE  Like(Sub(P, {name}), Sub(Q, {name})) <=> (name \in from => V(r, name) = V(s, name))
  <2>1. /\ Under(Extraction!ExtractQuery(e, r.query, name), name, V(r, name))
        /\ Under(Extraction!ExtractQuery(e, s.query, name), name, V(s, name))
    BY QueryUnder
  <2>2. CASE <<name, e.name>> \in StartsWith
    <3>1. Sub(P, {name}) = Extraction!ExtractQuery(e, r.query, name)
      BY <2>2, PrefixedSub
    <3>2. Sub(Q, {name}) = Extraction!ExtractQuery(e, s.query, name)
      BY <2>2, PrefixedSub
    <3>3. Like(Sub(P, {name}), Sub(Q, {name})) <=> V(r, name) = V(s, name)
      BY <2>1, <3>1, <3>2, UnderAlike
    <3>4. CASE name \in Extraction!QueryNames
      BY <2>2, <3>3, <3>4 DEF Extraction!From
    <3>5. CASE name \notin Extraction!QueryNames
      <4>1. name \notin DOMAIN r.query /\ name \notin DOMAIN s.query
        BY <3>5, RequestFacts
      <4>2. V(r, name) = <<>> /\ V(s, name) = <<>>
        BY <4>1 DEF Extraction!QueryValues
      <4>3. QED
        BY <3>3, <4>2
    <3>6. QED
      BY <3>4, <3>5
  <2>3. CASE <<name, e.name>> \notin StartsWith
    <3>1. Sub(P, {name}) = <<>>
      BY <2>3, PrefixedSub
    <3>2. Sub(Q, {name}) = <<>>
      BY <2>3, PrefixedSub
    <3>3. Like(Sub(P, {name}), Sub(Q, {name}))
      BY <3>1, <3>2, NoParts
    <3>4. name \notin from
      BY <2>3 DEF Extraction!From
    <3>5. QED
      BY <3>3, <3>4
  <2>4. QED
    BY <2>2, <2>3
<1>4. \A name \in from : \E k \in 1..n : NameOrder[k] = name
  BY KeyFacts DEF Extraction!From
<1>5. Like(Extraction!SortedByName(P), Extraction!SortedByName(Q))
         <=> \A k \in 1..n : Like(Sub(P, {NameOrder[k]}), Sub(Q, {NameOrder[k]}))
  BY ONLY <1>2, SortedAlike
<1>6. /\ Extraction!Sees(e, r) = [name \in from |-> V(r, name)]
      /\ Extraction!Sees(e, s) = [name \in from |-> V(s, name)]
  BY DEF Extraction!Sees
<1>7. Extraction!Sees(e, r) = Extraction!Sees(e, s) <=> \A name \in from : V(r, name) = V(s, name)
  BY <1>6
<1> HIDE DEF P, Q, n, from, V
<1>8. (\A k \in 1..n : Like(Sub(P, {NameOrder[k]}), Sub(Q, {NameOrder[k]})))
         <=> \A name \in from : V(r, name) = V(s, name)
  BY <1>3, <1>4
<1>9. QED
  BY <1>1, <1>5, <1>7, <1>8

-----------------------------------------------------------------------------
(* Bodies and paths.                                                        *)
LEMMA PartIs ==
    ASSUME NEW p, NEW n, NEW v, p = Extraction!Part(n, v)
    PROVE  p = Extraction!Part(p.name, p.value)
  BY PartFields

LEMMA MapParts ==
    ASSUME NEW s, Extraction!IsList(s), NEW t, t = [i \in DOMAIN s |-> t[i]],
           \A i \in 1..Len(s) : t[i] = Extraction!Part(t[i].name, t[i].value)
    PROVE  AreParts(t) /\ Len(t) = Len(s)
<1>1. Len(s) \in Nat /\ DOMAIN s = 1..Len(s)
  BY ListFacts
<1>2. Extraction!IsList(t) /\ Len(t) = Len(s)
  BY <1>1, ListOf
<1>3. QED
  BY <1>2 DEF AreParts

LEMMA FlatMap ==
    ASSUME NEW s, Extraction!IsList(s), NEW B, B = [i \in DOMAIN s |-> B[i]],
           \A i \in 1..Len(s) : AreParts(B[i])
    PROVE  AreParts(Extraction!FlattenSeq(B))
<1>1. Len(s) \in Nat /\ DOMAIN s = 1..Len(s)
  BY ListFacts
<1>2. QED
  BY <1>1, FlatParts

LEMMA OnePart == ASSUME NEW n, NEW v PROVE AreParts(<<Extraction!Part(n, v)>>)
<1> DEFINE p == Extraction!Part(n, v)
           s == <<p>>
<1>1. p = Extraction!Part(p.name, p.value)
  BY PartFields
<1> HIDE DEF p
<1>2. s = [i \in 1..1 |-> s[i]] /\ s[1] = p
  OBVIOUS
<1> HIDE DEF s
<1>3. Extraction!IsList(s) /\ Len(s) = 1
  BY <1>2, ListOf
<1>4. AreParts(s)
  BY <1>1, <1>2, <1>3 DEF AreParts
<1>5. QED
  BY <1>4 DEF s, p

LEMMA ItemsAreParts == ASSUME NEW v, Extraction!ItemOK(v) PROVE AreParts(Extraction!ItemParts(v))
<1>1. CASE v.type = "Object"
  <2> DEFINE s == v.fields
             t == [i \in DOMAIN s |-> Extraction!Part(s[i][1], s[i][2])]
  <2>1. Extraction!IsList(s) /\ DOMAIN s = 1..Len(s)
    BY <1>1, ListFacts DEF Extraction!ItemOK
  <2>2. Extraction!ItemParts(v) = t
    BY <1>1 DEF Extraction!ItemParts, Extraction!FieldParts
  <2>3. t = [i \in DOMAIN s |-> t[i]] /\ \A i \in 1..Len(s) : t[i] = Extraction!Part(s[i][1], s[i][2])
    BY <2>1
  <2> HIDE DEF t, s
  <2>4. \A i \in 1..Len(s) : t[i] = Extraction!Part(t[i].name, t[i].value)
    BY <2>3, PartIs
  <2>5. AreParts(t)
    BY <2>1, <2>3, <2>4, MapParts
  <2>6. QED
    BY <2>2, <2>5
<1>2. CASE v.type # "Object"
  BY <1>2, OnePart DEF Extraction!ItemParts
<1>3. QED
  BY <1>1, <1>2

LEMMA JqAreParts == ASSUME NEW s, Extraction!ValuesOK(s) PROVE AreParts(Extraction!JqParts(s))
<1> DEFINE B == [i \in DOMAIN s |->
                   IF s[i].type = "Array"
                   THEN Extraction!FlattenSeq(
                            [j \in DOMAIN s[i].items |-> Extraction!ItemParts(s[i].items[j])])
                   ELSE Extraction!ItemParts(s[i])]
<1>1. Extraction!IsList(s) /\ DOMAIN s = 1..Len(s)
  BY ListFacts DEF Extraction!ValuesOK
<1>2. Extraction!JqParts(s) = Extraction!FlattenSeq(B)
  BY DEF Extraction!JqParts
<1>3. ASSUME NEW i \in 1..Len(s) PROVE AreParts(B[i])
  <2>1. CASE s[i].type = "Array"
    <3> DEFINE t == s[i].items
               C == [j \in DOMAIN t |-> Extraction!ItemParts(t[j])]
    <3>1. Extraction!IsList(t) /\ DOMAIN t = 1..Len(t)
      BY <1>1, <2>1, ListFacts DEF Extraction!ValuesOK
    <3>2. \A j \in 1..Len(t) : Extraction!ItemOK(t[j])
      BY <1>1, <2>1, <3>1 DEF Extraction!ValuesOK
    <3>3. C = [j \in DOMAIN t |-> C[j]] /\ \A j \in 1..Len(t) : C[j] = Extraction!ItemParts(t[j])
      BY <3>1
    <3>4. B[i] = Extraction!FlattenSeq(C)
      BY <1>1, <2>1
    <3> HIDE DEF B, C, t
    <3>5. \A j \in 1..Len(t) : AreParts(C[j])
      BY <3>2, <3>3, ItemsAreParts
    <3>6. AreParts(Extraction!FlattenSeq(C))
      BY <3>1, <3>3, <3>5, FlatMap
    <3>7. QED
      BY <3>4, <3>6
  <2>2. CASE s[i].type # "Array"
    <3>1. B[i] = Extraction!ItemParts(s[i])
      BY <1>1, <2>2
    <3>2. Extraction!ItemOK(s[i])
      BY <1>1, <2>2 DEF Extraction!ValuesOK
    <3>3. QED
      BY <3>1, <3>2, ItemsAreParts
  <2>3. QED
    BY <2>1, <2>2
<1>4. B = [i \in DOMAIN s |-> B[i]]
  OBVIOUS
<1> HIDE DEF B
<1>5. AreParts(Extraction!FlattenSeq(B))
  BY <1>1, <1>3, <1>4, FlatMap
<1>6. QED
  BY <1>2, <1>5

LEMMA RegexAreParts ==
    ASSUME NEW e, NEW body,
           body \in DOMAIN e.matches =>
               /\ Extraction!IsList(e.matches[body])
               /\ \A i \in DOMAIN e.matches[body] : Extraction!IsList(e.matches[body][i])
    PROVE  AreParts(Extraction!RegexParts(e, body))
<1> DEFINE matches == IF body \in DOMAIN e.matches THEN e.matches[body] ELSE <<>>
           taken   == IF e.global \/ matches = <<>> THEN matches ELSE <<matches[1]>>
           Named(c) == LET name == IF c[1] # None THEN c[1] ELSE IF e.key = None THEN "body" ELSE e.key
                       IN  Extraction!Part(name,
                               Extraction!ApplyTransforms(c[2], Extraction!ChainFor(e.transforms, name)))
           B == [i \in DOMAIN taken |-> [j \in DOMAIN taken[i] |-> Named(taken[i][j])]]
<1>1. Extraction!RegexParts(e, body) = Extraction!FlattenSeq(B)
  BY DEF Extraction!RegexParts
<1>2. Extraction!IsList(matches) /\ \A i \in DOMAIN matches : Extraction!IsList(matches[i])
  <2>1. CASE body \in DOMAIN e.matches
    BY <2>1
  <2>2. CASE body \notin DOMAIN e.matches
    BY <2>2, EmptyParts
  <2>3. QED
    BY <2>1, <2>2
<1>3. \A c : Named(c) = Extraction!Part(Named(c).name, Named(c).value)
  BY PartFields
<1> HIDE DEF matches, Named
<1>4. Extraction!IsList(taken) /\ \A i \in DOMAIN taken : Extraction!IsList(taken[i])
  <2>1. CASE e.global \/ matches = <<>>
    BY <1>2, <2>1
  <2>2. CASE ~(e.global \/ matches = <<>>)
    <3> DEFINE one == <<matches[1]>>
    <3>1. taken = one
      BY <2>2
    <3>2. 1 \in DOMAIN matches
      <4>1. Len(matches) \in Nat /\ matches = [i \in 1..Len(matches) |-> matches[i]]
        BY <1>2 DEF Extraction!IsList
      <4>2. Len(matches) # 0
        BY <2>2, <4>1
      <4>3. QED
        BY <4>1, <4>2
    <3>3. one = [i \in 1..1 |-> one[i]] /\ one[1] = matches[1]
      OBVIOUS
    <3> HIDE DEF one
    <3>4. Extraction!IsList(one) /\ DOMAIN one = 1..1
      BY <3>3, ListOf
    <3>5. QED
      BY <1>2, <3>1, <3>2, <3>3, <3>4
  <2>3. QED
    BY <2>1, <2>2
<1> HIDE DEF taken
<1>5. DOMAIN taken = 1..Len(taken)
  BY <1>4, ListFacts
<1>6. ASSUME NEW i \in 1..Len(taken) PROVE AreParts(B[i])
  <2> DEFINE s == taken[i]
             t == [j \in DOMAIN s |-> Named(s[j])]
  <2>1. Extraction!IsList(s) /\ B[i] = t
    BY <1>4, <1>5
  <2>2. DOMAIN s = 1..Len(s)
    BY <2>1, ListFacts
  <2>3. t = [j \in DOMAIN s |-> t[j]] /\ \A j \in 1..Len(s) : t[j] = Named(s[j])
    BY <2>2
  <2> HIDE DEF s, t
  <2>4. \A j \in 1..Len(s) : t[j] = Extraction!Part(t[j].name, t[j].value)
    BY <1>3, <2>3
  <2>7. Extraction!IsList(s)
    BY <2>1
  <2>8. t = [j \in DOMAIN s |-> t[j]]
    BY <2>3
  <2>5. AreParts(t)
    BY ONLY <2>4, <2>7, <2>8, MapParts
  <2>6. QED
    BY <2>1, <2>5
<1>7. B = [i \in DOMAIN taken |-> B[i]]
  OBVIOUS
<1> HIDE DEF B
<1>8. AreParts(Extraction!FlattenSeq(B))
  BY <1>4, <1>6, <1>7, FlatMap
<1>9. QED
  BY <1>1, <1>8

(* An extractor that is built.                                              *)
Works(e) ==
    /\ Extraction!ExtractorOK(e)
    /\ e.on = "Body" /\ e.form = "Jq" => e.filter # Bad
    /\ e.on = "Body" /\ e.form = "Regex" => e.matches # Bad

LEMMA BodyAreParts ==
    ASSUME NEW e, Works(e), e.on = "Body", NEW r \in Asking
    PROVE  AreParts(Extraction!BodyParts(e, r))
<1>1. Extraction!BodyOK(e)
  BY DEF Works, Extraction!ExtractorOK
<1>2. CASE r.body = Broken
  BY <1>2, OnePart DEF Extraction!BodyParts
<1>3. CASE r.body # Broken /\ e.form = "Hash"
  BY <1>3, OnePart DEF Extraction!BodyParts
<1>4. CASE r.body # Broken /\ e.form = "Jq"
  <2>1. Extraction!ValuesOK(e.filter[r.body])
    BY <1>1, <1>4 DEF Works, Extraction!BodyOK
  <2>2. Extraction!BodyParts(e, r) = Extraction!JqParts(e.filter[r.body])
    BY <1>4 DEF Extraction!BodyParts
  <2>3. QED
    BY <2>1, <2>2, JqAreParts
<1>5. CASE r.body # Broken /\ e.form = "Regex"
  <2>1. r.body \in DOMAIN e.matches =>
            /\ Extraction!IsList(e.matches[r.body])
            /\ \A i \in DOMAIN e.matches[r.body] : Extraction!IsList(e.matches[r.body][i])
    BY <1>1, <1>5 DEF Works, Extraction!BodyOK
  <2>2. Extraction!BodyParts(e, r) = Extraction!RegexParts(e, r.body)
    BY <1>5 DEF Extraction!BodyParts
  <2>3. QED
    BY <2>1, <2>2, RegexAreParts
<1>6. QED
  BY <1>1, <1>2, <1>3, <1>4, <1>5 DEF Extraction!BodyOK

LEMMA BodyAlike ==
    ASSUME NEW e, Works(e), e.on = "Body", NEW r \in Asking, NEW s \in Asking
    PROVE  Like(Extraction!BodyParts(e, r), Extraction!BodyParts(e, s))
              <=> Extraction!Sees(e, r) = Extraction!Sees(e, s)
<1> DEFINE a == Extraction!BodyParts(e, r)
           b == Extraction!BodyParts(e, s)
           X(p) == <<p.name, Extraction!Told(p.value)>>
<1>1. /\ Extraction!Sees(e, r) = [i \in DOMAIN a |-> X(a[i])]
      /\ Extraction!Sees(e, s) = [i \in DOMAIN b |-> X(b[i])]
  BY DEF Extraction!Sees
<1>2. Extraction!IsList(a) /\ Extraction!IsList(b)
  BY BodyAreParts DEF AreParts
<1>3. Len(a) \in Nat /\ DOMAIN a = 1..Len(a) /\ Len(b) \in Nat /\ DOMAIN b = 1..Len(b)
  BY <1>2, ListFacts
<1> HIDE DEF a, b
<1>4. \A p, q : X(p) = X(q) <=> p.name = q.name /\ Extraction!Told(p.value) = Extraction!Told(q.value)
  OBVIOUS
<1> HIDE DEF X
<1> DEFINE v == [i \in DOMAIN a |-> X(a[i])]
           w == [i \in DOMAIN b |-> X(b[i])]
<1>5. ASSUME Like(a, b) PROVE v = w
  <2>1. DOMAIN a = DOMAIN b /\ \A i \in DOMAIN a : X(a[i]) = X(b[i])
    BY <1>3, <1>4, <1>5 DEF Like
  <2>2. QED
    BY <2>1
<1>6. ASSUME v = w PROVE Like(a, b)
  <2>1. DOMAIN v = DOMAIN w /\ DOMAIN v = DOMAIN a /\ DOMAIN w = DOMAIN b
    BY <1>6
  <2>2. \A i \in DOMAIN a : v[i] = X(a[i]) /\ w[i] = X(b[i])
    BY <2>1
  <2>3. \A i \in DOMAIN a : X(a[i]) = X(b[i])
    BY <1>6, <2>2
  <2>4. Len(a) = Len(b)
    <3>1. 1..Len(a) = 1..Len(b)
      BY <1>3, <2>1
    <3> DEFINE m == Len(a)
               l == Len(b)
    <3> HIDE DEF m, l
    <3>2. m \in Nat /\ l \in Nat /\ 1..m = 1..l
      BY <1>3, <3>1 DEF m, l
    <3>3. (m > 0 => m \in 1..l) /\ (l > 0 => l \in 1..m)
      BY <3>2
    <3>4. m = l
      BY <3>2, <3>3
    <3>5. QED
      BY <3>4 DEF m, l
  <2>5. QED
    BY <1>3, <1>4, <2>3, <2>4 DEF Like
<1>7. QED
  BY <1>1, <1>5, <1>6 DEF a, b

LEMMA PathAreParts ==
    ASSUME NEW e, Works(e), e.on = "Path", NEW r \in Asking
    PROVE  /\ AreParts(Extraction!PathParts(e, r)) /\ Extraction!IsList(Extraction!Sees(e, r))
           /\ Len(Extraction!PathParts(e, r)) = Len(Extraction!Sees(e, r))
           /\ \A k \in 1..Len(Extraction!Sees(e, r)) :
                 /\ Extraction!IsText(Extraction!Sees(e, r)[k])
                 /\ Extraction!PathParts(e, r)[k] =
                      Extraction!Part(Extraction!Sees(e, r)[k][1], Extraction!Sees(e, r)[k][2])
<1>1. Extraction!CapturesOK(e.captures)
  BY DEF Works, Extraction!ExtractorOK
<1>2. CASE r.path \notin DOMAIN e.captures
  <2>1. Extraction!PathParts(e, r) = <<>> /\ Extraction!Sees(e, r) = <<>>
    BY <1>2 DEF Extraction!PathParts, Extraction!Sees
  <2>2. \A i \in 1..0 : FALSE
    OBVIOUS
  <2>3. QED
    BY <2>1, <2>2, EmptyParts
<1>3. CASE r.path \in DOMAIN e.captures
  <2> DEFINE c == e.captures[r.path]
             t == [i \in DOMAIN c |-> Extraction!Part(c[i][1], c[i][2])]
  <2>1. Extraction!PathParts(e, r) = t /\ Extraction!Sees(e, r) = c
    BY <1>3 DEF Extraction!PathParts, Extraction!Sees
  <2>2. Extraction!IsList(c) /\ \A i \in DOMAIN c : Extraction!IsText(c[i])
    BY <1>1, <1>3 DEF Extraction!CapturesOK
  <2>3. DOMAIN c = 1..Len(c)
    BY <2>2, ListFacts
  <2>4. t = [i \in DOMAIN c |-> t[i]]
    OBVIOUS
  <2>5. \A i \in 1..Len(c) : t[i] = Extraction!Part(c[i][1], c[i][2])
    BY <2>3
  <2> HIDE DEF c, t
  <2>6. \A i \in 1..Len(c) : t[i] = Extraction!Part(t[i].name, t[i].value)
    BY <2>5, PartIs
  <2>7. Extraction!IsList(c)
    BY <2>2
  <2>8. AreParts(t) /\ Len(t) = Len(c)
    BY ONLY <2>4, <2>6, <2>7, MapParts
  <2>9. QED
    BY <2>1, <2>2, <2>3, <2>5, <2>8
<1>4. QED
  BY <1>2, <1>3

LEMMA PathAlike ==
    ASSUME NEW e, Works(e), e.on = "Path", NEW r \in Asking, NEW s \in Asking
    PROVE  Like(Extraction!PathParts(e, r), Extraction!PathParts(e, s))
              <=> Extraction!Sees(e, r) = Extraction!Sees(e, s)
<1> DEFINE a == Extraction!PathParts(e, r)
           b == Extraction!PathParts(e, s)
           c == Extraction!Sees(e, r)
           d == Extraction!Sees(e, s)
<1>1. /\ Extraction!IsList(c) /\ Len(a) = Len(c)
      /\ \A k \in 1..Len(c) : Extraction!IsText(c[k]) /\ a[k] = Extraction!Part(c[k][1], c[k][2])
  BY PathAreParts
<1>2. /\ Extraction!IsList(d) /\ Len(b) = Len(d)
      /\ \A k \in 1..Len(d) : Extraction!IsText(d[k]) /\ b[k] = Extraction!Part(d[k][1], d[k][2])
  BY PathAreParts
<1> HIDE DEF a, b, c, d
<1>3. \A k \in 1..Len(c) : a[k].name = c[k][1] /\ Extraction!Told(a[k].value) = c[k][2]
  BY <1>1, PartFields, ToldOf DEF Extraction!IsText
<1>4. \A k \in 1..Len(d) : b[k].name = d[k][1] /\ Extraction!Told(b[k].value) = d[k][2]
  BY <1>2, PartFields, ToldOf DEF Extraction!IsText
<1>5. ASSUME c = d PROVE Like(a, b)
  BY <1>1, <1>2, <1>3, <1>4, <1>5 DEF Like
<1>6. ASSUME Like(a, b) PROVE c = d
  <2>1. Len(c) = Len(d) /\ \A k \in 1..Len(c) : c[k][1] = d[k][1] /\ c[k][2] = d[k][2]
    BY <1>1, <1>2, <1>3, <1>4, <1>6 DEF Like
  <2>2. /\ \A k \in 1..Len(c) : c[k] = <<c[k][1], c[k][2]>>
        /\ \A k \in 1..Len(d) : d[k] = <<d[k][1], d[k][2]>>
    BY <1>1, <1>2 DEF Extraction!IsText
  <2>3. \A k \in 1..Len(c) : c[k] = d[k]
    BY <2>1, <2>2
  <2>4. QED
    BY <1>1, <1>2, <2>1, <2>3, ListEqual
<1>7. QED
  BY <1>5, <1>6 DEF a, b, c, d

LEMMA OneAlike ==
    ASSUME NEW n, NEW v, NEW w
    PROVE  Like(<<Extraction!Part(n, v)>>, <<Extraction!Part(n, w)>>)
              <=> Extraction!Told(v) = Extraction!Told(w)
<1> DEFINE p == Extraction!Part(n, v)
           q == Extraction!Part(n, w)
           s == <<p>>
           t == <<q>>
<1>1. p.name = n /\ p.value = v /\ q.name = n /\ q.value = w
  BY PartFields
<1> HIDE DEF p, q
<1>2. Len(s) = 1 /\ s[1] = p /\ Len(t) = 1 /\ t[1] = q
  OBVIOUS
<1> HIDE DEF s, t
<1>3. \A i \in 1..1 : i = 1
  OBVIOUS
<1>4. 1 \in 1..1
  OBVIOUS
<1>5. Like(s, t) <=> Extraction!Told(v) = Extraction!Told(w)
  BY <1>1, <1>2, <1>3, <1>4 DEF Like
<1>6. QED
  BY <1>5 DEF s, t, p, q

-----------------------------------------------------------------------------
(* One extractor.                                                           *)
LEMMA PartsAre ==
    ASSUME NEW e, Works(e), NEW r \in Asking, NEW o \in Extraction!SetToSeqs(DOMAIN r.query)
    PROVE  AreParts(Extraction!PartsOf(e, r, o))
<1>1. CASE e.on = "Method"
  BY <1>1, OnePart DEF Extraction!PartsOf
<1>2. CASE e.on = "Version"
  BY <1>2, OnePart DEF Extraction!PartsOf
<1>3. CASE e.on = "Path"
  BY <1>3, PathAreParts DEF Extraction!PartsOf
<1>4. CASE e.on = "Header"
  <2>1. Extraction!PartsOf(e, r, o) = Extraction!HeaderParts(e, r)
    BY <1>4 DEF Extraction!PartsOf
  <2>2. e.select = "Exact" \/ e.select = "Starts"
    BY <1>4 DEF Works, Extraction!ExtractorOK
  <2>3. QED
    BY <1>4, <2>1, <2>2, ExactHeader, PrefixedHeader
<1>5. CASE e.on = "Query"
  <2>1. Extraction!PartsOf(e, r, o) = Extraction!QueryParts(e, r, o)
    BY <1>5 DEF Extraction!PartsOf
  <2>2. e.select = "Exact" \/ e.select = "Starts"
    BY <1>5 DEF Works, Extraction!ExtractorOK
  <2>3. CASE e.select = "Exact"
    BY <2>1, <2>3, ParseAll DEF Extraction!QueryParts
  <2>4. CASE e.select = "Starts"
    <3>1. AreParts(Extraction!PrefixedParts(e, Extraction!Parse(r.query), o))
      BY PrefixedQuery
    <3>2. Extraction!QueryParts(e, r, o) =
            Extraction!SortedByName(Extraction!PrefixedParts(e, Extraction!Parse(r.query), o))
      BY <2>4 DEF Extraction!QueryParts
    <3>3. QED
      BY <2>1, <3>1, <3>2, SortedIs
  <2>5. QED
    BY <2>2, <2>3, <2>4
<1>6. CASE e.on = "Body"
  BY <1>6, BodyAreParts DEF Extraction!PartsOf
<1>7. QED
  BY <1>1, <1>2, <1>3, <1>4, <1>5, <1>6 DEF Works, Extraction!ExtractorOK

Lower(e) == e.on = "Header" /\ e.select = "Starts" => Lowercase[e.name] = e.name

LEMMA PartsAlike ==
    ASSUME NEW e, Works(e),
           NEW r \in Asking, NEW s \in Asking, Extraction!Parses(r), Extraction!Parses(s),
           NEW o \in Extraction!SetToSeqs(DOMAIN r.query),
           NEW p \in Extraction!SetToSeqs(DOMAIN s.query)
    PROVE  /\ Extraction!Sees(e, r) = Extraction!Sees(e, s)
                => Like(Extraction!PartsOf(e, r, o), Extraction!PartsOf(e, s, p))
           /\ Lower(e) /\ Like(Extraction!PartsOf(e, r, o), Extraction!PartsOf(e, s, p))
                => Extraction!Sees(e, r) = Extraction!Sees(e, s)
<1>1. CASE e.on = "Method"
  <2>1. /\ Extraction!Sees(e, r) = r.method /\ Extraction!Sees(e, s) = s.method
        /\ Extraction!PartsOf(e, r, o) = <<Extraction!Part("method", r.method)>>
        /\ Extraction!PartsOf(e, s, p) = <<Extraction!Part("method", s.method)>>
    BY <1>1 DEF Extraction!Sees, Extraction!PartsOf
  <2>2. Extraction!Told(r.method) = r.method /\ Extraction!Told(s.method) = s.method
    BY RequestFacts, ToldOf
  <2>3. QED
    BY <2>1, <2>2, OneAlike
<1>2. CASE e.on = "Version"
  <2>1. /\ Extraction!Sees(e, r) = r.version /\ Extraction!Sees(e, s) = s.version
        /\ Extraction!PartsOf(e, r, o) = <<Extraction!Part("version", r.version)>>
        /\ Extraction!PartsOf(e, s, p) = <<Extraction!Part("version", s.version)>>
    BY <1>2 DEF Extraction!Sees, Extraction!PartsOf
  <2>2. Extraction!Told(r.version) = r.version /\ Extraction!Told(s.version) = s.version
    BY RequestFacts, ToldOf
  <2>3. QED
    BY <2>1, <2>2, OneAlike
<1>3. CASE e.on = "Path"
  BY <1>3, PathAlike DEF Extraction!PartsOf
<1>4. CASE e.on = "Header"
  <2>1. /\ Extraction!PartsOf(e, r, o) = Extraction!HeaderParts(e, r)
        /\ Extraction!PartsOf(e, s, p) = Extraction!HeaderParts(e, s)
    BY <1>4 DEF Extraction!PartsOf
  <2>2. e.select = "Exact" \/ e.select = "Starts"
    BY <1>4 DEF Works, Extraction!ExtractorOK
  <2>3. CASE e.select = "Exact"
    <3>1. /\ Len(Extraction!HeaderParts(e, r)) = 1
          /\ Extraction!HeaderParts(e, r)[1].name = e.name
          /\ Extraction!Told(Extraction!HeaderParts(e, r)[1].value) = Extraction!Sees(e, r)
      BY <1>4, <2>3, ExactHeader
    <3>2. /\ Len(Extraction!HeaderParts(e, s)) = 1
          /\ Extraction!HeaderParts(e, s)[1].name = e.name
          /\ Extraction!Told(Extraction!HeaderParts(e, s)[1].value) = Extraction!Sees(e, s)
      BY <1>4, <2>3, ExactHeader
    <3>3. (\A i \in 1..1 : i = 1) /\ 1 \in 1..1
      OBVIOUS
    <3>4. Like(Extraction!HeaderParts(e, r), Extraction!HeaderParts(e, s))
            <=> Extraction!Sees(e, r) = Extraction!Sees(e, s)
      BY <3>1, <3>2, <3>3 DEF Like
    <3>5. QED
      BY <2>1, <3>4
  <2>4. CASE e.select = "Starts"
    BY <1>4, <2>1, <2>4, PrefixedAlike DEF Lower
  <2>5. QED
    BY <2>2, <2>3, <2>4
<1>5. CASE e.on = "Query"
  <2>1. /\ Extraction!PartsOf(e, r, o) = Extraction!QueryParts(e, r, o)
        /\ Extraction!PartsOf(e, s, p) = Extraction!QueryParts(e, s, p)
    BY <1>5 DEF Extraction!PartsOf
  <2>2. e.select = "Exact" \/ e.select = "Starts"
    BY <1>5 DEF Works, Extraction!ExtractorOK
  <2>3. CASE e.select = "Exact"
    BY <1>5, <2>1, <2>3, ExactQuery
  <2>4. CASE e.select = "Starts"
    BY <1>5, <2>1, <2>4, PrefixedQueryAlike
  <2>5. QED
    BY <2>2, <2>3, <2>4
<1>6. CASE e.on = "Body"
  BY <1>6, BodyAlike DEF Extraction!PartsOf
<1>7. QED
  BY <1>1, <1>2, <1>3, <1>4, <1>5, <1>6 DEF Works, Extraction!ExtractorOK

-----------------------------------------------------------------------------
(* A chain of extractors, and its keys.                                     *)
Chained(c) == Extraction!IsList(c) /\ \A i \in 1..Len(c) : Works(c[i])

ChainBlocks(c, r, o) == [k \in 1..Len(c) |-> Extraction!PartsOf(c[(Len(c) - k) + 1], r, o)]

LEMMA ChainOf ==
    ASSUME config \in Extractors, Extraction!ExtractorsOf(config) # Error
    PROVE  Chained(Extraction!ExtractorsOf(config))
<1>1. /\ config.kind \in {"Null", "Undefined", "Value"}
      /\ config.kind = "Value" =>
            /\ Extraction!IsList(config.list)
            /\ \A i \in DOMAIN config.list : Extraction!ExtractorOK(config.list[i])
  BY ServiceAssumption DEF Extraction!ConstantsOK
<1>2. CASE config.kind = "Null"
  <2>1. Extraction!ExtractorsOf(config) = <<>>
    BY <1>2 DEF Extraction!ExtractorsOf
  <2>2. \A i \in 1..0 : FALSE
    OBVIOUS
  <2>3. QED
    BY <2>1, <2>2, EmptyParts DEF Chained
<1>3. CASE config.kind = "Undefined"
  <2> DEFINE p == [on |-> "Path", captures |-> Captures]
             m == [on |-> "Method"]
             c == <<p, m>>
  <2>1. Extraction!ExtractorsOf(config) = c
    BY <1>3 DEF Extraction!ExtractorsOf
  <2>2. Extraction!CapturesOK(Captures)
    BY ServiceAssumption DEF Extraction!ConstantsOK
  <2>3. p.on = "Path" /\ p.captures = Captures /\ m.on = "Method"
    OBVIOUS
  <2> HIDE DEF p, m
  <2>4. Works(p) /\ Works(m)
    BY <2>2, <2>3 DEF Works, Extraction!ExtractorOK
  <2>5. c = [i \in 1..2 |-> c[i]] /\ c[1] = p /\ c[2] = m /\ \A i \in 1..2 : i = 1 \/ i = 2
    OBVIOUS
  <2> HIDE DEF c
  <2>6. Extraction!IsList(c) /\ Len(c) = 2
    BY <2>5, ListOf
  <2>7. Chained(c)
    BY <2>4, <2>5, <2>6 DEF Chained
  <2>8. QED
    BY <2>1, <2>7
<1>4. CASE config.kind = "Value"
  <2> DEFINE l == config.list
             c == [i \in DOMAIN l |-> Extraction!Extractor(l[i])]
  <2>1. \A i \in DOMAIN l : Extraction!Extractor(l[i]) # Error
    BY <1>4 DEF Extraction!ExtractorsOf
  <2>2. Extraction!ExtractorsOf(config) = c
    BY <1>4, <2>1 DEF Extraction!ExtractorsOf
  <2>3. Extraction!IsList(l) /\ DOMAIN l = 1..Len(l) /\ Len(l) \in Nat
    BY <1>1, <1>4, ListFacts
  <2>4. c = [i \in 1..Len(l) |-> c[i]] /\ \A i \in 1..Len(l) : c[i] = Extraction!Extractor(l[i])
    BY <2>3
  <2> HIDE DEF c
  <2>5. Extraction!IsList(c) /\ Len(c) = Len(l)
    BY <2>3, <2>4, ListOf
  <2>6. ASSUME NEW i \in 1..Len(l) PROVE Works(c[i])
    <3> DEFINE e == l[i]
    <3>1. Extraction!ExtractorOK(e) /\ Extraction!Extractor(e) # Error
      BY <1>1, <1>4, <2>1, <2>3
    <3> HIDE DEF e
    <3>2. Extraction!Extractor(e) = e
      BY <3>1 DEF Extraction!Extractor, Extraction!ExtractorOK, Extraction!BodyOK,
         Extraction!HeaderExtractor, Extraction!QueryExtractor, Extraction!BodyExtractor
    <3>3. (e.on = "Body" /\ e.form = "Jq" => e.filter # Bad)
          /\ (e.on = "Body" /\ e.form = "Regex" => e.matches # Bad)
      BY <3>1 DEF Extraction!Extractor, Extraction!BodyExtractor
    <3>4. Works(e)
      BY <3>1, <3>3 DEF Works
    <3>5. c[i] = e
      BY <2>4, <3>2 DEF e
    <3>6. QED
      BY <3>4, <3>5
  <2>7. QED
    BY <2>2, <2>5, <2>6 DEF Chained
<1>5. QED
  BY <1>1, <1>2, <1>3, <1>4

LEMMA KeyIs ==
    ASSUME NEW c, Chained(c), NEW r \in Asking, NEW o \in Extraction!SetToSeqs(DOMAIN r.query)
    PROVE  /\ Extraction!KeyOf(c, r, o) =
                [prefix |-> "", version |-> "0",
                 parts |-> Extraction!FlattenSeq(ChainBlocks(c, r, o))]
           /\ Lists(ChainBlocks(c, r, o), Len(c))
           /\ AreParts(Extraction!FlattenSeq(ChainBlocks(c, r, o)))
<1> DEFINE n == Len(c)
           X(e) == Extraction!PartsOf(e, r, o)
           f == [i \in DOMAIN c |-> X(c[i])]
           B == ChainBlocks(c, r, o)
<1>1. DOMAIN c = 1..n /\ n \in Nat
  BY ListFacts DEF Chained
<1>2. Extraction!KeyOf(c, r, o) =
        [prefix |-> "", version |-> "0",
         parts |-> Extraction!FlattenSeq(Extraction!Reverse(f))]
  BY DEF Extraction!KeyOf
<1>3. f = [i \in 1..n |-> f[i]] /\ \A i \in 1..n : f[i] = X(c[i])
  BY <1>1
<1> HIDE DEF f
<1>4. Len(f) = n
  BY <1>1, <1>3, ListOf
<1>5. \A k \in 1..n : (n - k) + 1 \in 1..n
  BY <1>1
<1>6. B = [k \in 1..n |-> X(c[(n - k) + 1])]
  BY DEF ChainBlocks
<1>7. Extraction!Reverse(f) = [k \in 1..n |-> f[(n - k) + 1]]
  BY <1>4 DEF Extraction!Reverse
<1>8. \A k \in 1..n : f[(n - k) + 1] = X(c[(n - k) + 1])
  BY <1>3, <1>5
<1> HIDE DEF n, X
<1>9. Extraction!Reverse(f) = B
  BY <1>6, <1>7, <1>8
<1>10. B = [k \in 1..n |-> B[k]] /\ \A k \in 1..n : B[k] = X(c[(n - k) + 1])
  BY <1>6
<1>11. ASSUME NEW k \in 1..n PROVE AreParts(B[k])
  <2>1. Works(c[(n - k) + 1])
    BY <1>5 DEF Chained, n
  <2>2. AreParts(X(c[(n - k) + 1]))
    BY <2>1, PartsAre DEF X
  <2>3. QED
    BY <1>10, <2>2
<1> HIDE DEF B
<1>12. AreParts(Extraction!FlattenSeq(B)) /\ Lists(B, n)
  BY <1>1, <1>10, <1>11, FlatParts
<1>13. QED
  BY <1>2, <1>9, <1>12 DEF B, n

LEMMA KeyPartsAre ==
    ASSUME NEW c, Chained(c), NEW r \in Asking, NEW o \in Extraction!SetToSeqs(DOMAIN r.query)
    PROVE  /\ Extraction!KeyOf(c, r, o).parts = Extraction!FlattenSeq(ChainBlocks(c, r, o))
           /\ Lists(ChainBlocks(c, r, o), Len(c))
<1> DEFINE K == Extraction!KeyOf(c, r, o)
           B == ChainBlocks(c, r, o)
           F == Extraction!FlattenSeq(B)
<1>1. K = [prefix |-> "", version |-> "0", parts |-> F]
  BY KeyIs
<1>2. Lists(B, Len(c))
  BY KeyIs
<1> HIDE DEF K, B, F
<1>3. K.parts = F
  BY <1>1
<1>4. QED
  BY <1>2, <1>3 DEF K, B, F

LEMMA KeysAlike ==
    ASSUME NEW c, Chained(c),
           NEW r \in Asking, NEW s \in Asking, Extraction!Parses(r), Extraction!Parses(s),
           NEW o \in Extraction!SetToSeqs(DOMAIN r.query),
           NEW p \in Extraction!SetToSeqs(DOMAIN s.query),
           \A i \in 1..Len(c) : Extraction!Sees(c[i], r) = Extraction!Sees(c[i], s)
    PROVE  Like(Extraction!KeyOf(c, r, o).parts, Extraction!KeyOf(c, s, p).parts)
<1> DEFINE n == Len(c)
           B == ChainBlocks(c, r, o)
           C == ChainBlocks(c, s, p)
<1>1. Extraction!KeyOf(c, r, o).parts = Extraction!FlattenSeq(B) /\ Lists(B, n)
  BY KeyPartsAre
<1>2. Extraction!KeyOf(c, s, p).parts = Extraction!FlattenSeq(C) /\ Lists(C, n)
  BY KeyPartsAre
<1>3. ASSUME NEW k \in 1..n PROVE Like(B[k], C[k])
  <2> DEFINE e == c[(n - k) + 1]
  <2>1. (n - k) + 1 \in 1..n
    BY <1>1 DEF Lists
  <2>2. Works(e) /\ Extraction!Sees(e, r) = Extraction!Sees(e, s)
    BY <2>1 DEF Chained
  <2>3. B[k] = Extraction!PartsOf(e, r, o) /\ C[k] = Extraction!PartsOf(e, s, p)
    BY DEF ChainBlocks
  <2> HIDE DEF e
  <2>4. QED
    BY <2>2, <2>3, PartsAlike
<1> HIDE DEF B, C
<1>4. Like(Extraction!FlattenSeq(B), Extraction!FlattenSeq(C))
  BY <1>1, <1>2, <1>3, FlatListLike
<1>5. QED
  BY <1>1, <1>2, <1>4

(* No two extractors of a chain use one name.                               *)
NamesDiffer(c) ==
    \A i, j \in 1..Len(c) : i # j => Extraction!NamesOf(c[i]) \cap Extraction!NamesOf(c[j]) = {}

LEMMA NamesOfParts ==
    ASSUME NEW e, NEW r \in Asking, NEW o \in Extraction!SetToSeqs(DOMAIN r.query),
           AreParts(Extraction!PartsOf(e, r, o))
    PROVE  \A i \in 1..Len(Extraction!PartsOf(e, r, o)) :
              Extraction!PartsOf(e, r, o)[i].name \in Extraction!NamesOf(e)
<1> DEFINE s == Extraction!PartsOf(e, r, o)
<1>1. DOMAIN s = 1..Len(s)
  BY ListFacts DEF AreParts
<1>2. \A i \in 1..Len(s) : s[i].name \in Extraction!NamesIn(s)
  BY <1>1 DEF Extraction!NamesIn
<1>3. Extraction!NamesIn(s) \subseteq
        UNION {Extraction!NamesIn(Extraction!PartsOf(e, r, order)) :
               order \in Extraction!SetToSeqs(DOMAIN r.query)}
  OBVIOUS
<1>4. Extraction!NamesIn(s) \subseteq Extraction!NamesOf(e)
  BY <1>3 DEF Extraction!NamesOf
<1>5. QED
  BY <1>2, <1>4

LEMMA ChainApart ==
    ASSUME NEW c, Chained(c), NamesDiffer(c),
           NEW r \in Asking, NEW o \in Extraction!SetToSeqs(DOMAIN r.query),
           NEW N, \A k \in 1..Len(c) : N[k] = Extraction!NamesOf(c[(Len(c) - k) + 1])
    PROVE  Apart(ChainBlocks(c, r, o), Len(c), N)
<1> DEFINE n == Len(c)
           B == ChainBlocks(c, r, o)
<1>1. n \in Nat
  BY ListFacts DEF Chained
<1>2. ASSUME NEW k \in 1..n, NEW j \in 1..n, NEW i \in 1..Len(B[k])
      PROVE  B[k][i].name \in N[j] <=> k = j
  <2> DEFINE a == (n - k) + 1
             b == (n - j) + 1
  <2>1. a \in 1..n /\ b \in 1..n /\ (a = b <=> k = j)
    <3> HIDE DEF n, B
    <3>1. k \in Nat /\ j \in Nat /\ 1 <= k /\ k <= n /\ 1 <= j /\ j <= n
      BY <1>1
    <3>2. QED
      BY <1>1, <3>1
  <2>2. B[k] = Extraction!PartsOf(c[a], r, o)
    BY DEF ChainBlocks
  <2>3. Works(c[a])
    BY <2>1 DEF Chained
  <2>4. N[k] = Extraction!NamesOf(c[a]) /\ N[j] = Extraction!NamesOf(c[b])
    OBVIOUS
  <2> HIDE DEF a, b, B
  <2>5. AreParts(Extraction!PartsOf(c[a], r, o))
    BY <2>3, PartsAre
  <2>6. B[k][i].name \in Extraction!NamesOf(c[a])
    BY <2>2, <2>5, NamesOfParts
  <2>7. a # b => Extraction!NamesOf(c[a]) \cap Extraction!NamesOf(c[b]) = {}
    BY <2>1 DEF NamesDiffer
  <2>8. QED
    BY <2>1, <2>4, <2>6, <2>7
<1> HIDE DEF B
<1>3. QED
  BY <1>2 DEF Apart, B

LEMMA KeysDiffer ==
    ASSUME NEW c, Chained(c), NamesDiffer(c), \A i \in 1..Len(c) : Lower(c[i]),
           NEW r \in Asking, NEW s \in Asking, Extraction!Parses(r), Extraction!Parses(s),
           NEW o \in Extraction!SetToSeqs(DOMAIN r.query),
           NEW p \in Extraction!SetToSeqs(DOMAIN s.query),
           Like(Extraction!KeyOf(c, r, o).parts, Extraction!KeyOf(c, s, p).parts)
    PROVE  \A i \in 1..Len(c) : Extraction!Sees(c[i], r) = Extraction!Sees(c[i], s)
<1> DEFINE n == Len(c)
           B == ChainBlocks(c, r, o)
           C == ChainBlocks(c, s, p)
           N == [k \in 1..n |-> Extraction!NamesOf(c[(n - k) + 1])]
<1>1. Extraction!KeyOf(c, r, o).parts = Extraction!FlattenSeq(B) /\ Lists(B, n)
  BY KeyPartsAre
<1>2. Extraction!KeyOf(c, s, p).parts = Extraction!FlattenSeq(C) /\ Lists(C, n)
  BY KeyPartsAre
<1>3. \A k \in 1..Len(c) : N[k] = Extraction!NamesOf(c[(Len(c) - k) + 1])
  OBVIOUS
<1> HIDE DEF N
<1>4. Apart(B, n, N) /\ Apart(C, n, N)
  BY <1>3, ChainApart
<1>5. \A k \in 1..n : Like(B[k], C[k])
  <2> HIDE DEF B, C, n
  <2>1. Like(Extraction!FlattenSeq(B), Extraction!FlattenSeq(C))
    BY <1>1, <1>2
  <2>2. QED
    BY ONLY <1>1, <1>2, <1>4, <2>1, FlatListAlike
<1>6. ASSUME NEW i \in 1..n PROVE Extraction!Sees(c[i], r) = Extraction!Sees(c[i], s)
  <2> DEFINE k == (n - i) + 1
  <2>1. k \in 1..n /\ (n - k) + 1 = i
    BY <1>1 DEF Lists
  <2> HIDE DEF k
  <2>2. B[k] = Extraction!PartsOf(c[i], r, o) /\ C[k] = Extraction!PartsOf(c[i], s, p)
    BY <2>1 DEF ChainBlocks
  <2>3. Works(c[i]) /\ Lower(c[i])
    BY DEF Chained
  <2>4. Like(B[k], C[k])
    BY <1>5, <2>1
  <2> HIDE DEF B, C
  <2>5. QED
    BY <2>2, <2>3, <2>4, PartsAlike
<1>7. QED
  BY <1>6

-----------------------------------------------------------------------------
(* Keys in their two forms.                                                 *)
KeyWith(s) == [prefix |-> "", version |-> "0", parts |-> s]

LEMMA KeyFields ==
    \A s : KeyWith(s).prefix = "" /\ KeyWith(s).version = "0" /\ KeyWith(s).parts = s
  BY DEF KeyWith

(* The places of the parts that have a value.                               *)
ValuedAt(s) == {i \in 1..Len(s) : s[i].value # None}

LEMMA ValuedIs ==
    ASSUME NEW s, AreParts(s)
    PROVE  /\ Extraction!Valued(s) = Extraction!Pick(s, ValuedAt(s))
           /\ \A i \in ValuedAt(s) : /\ Rank(ValuedAt(s), i) \in DOMAIN Extraction!Valued(s)
                                     /\ Extraction!Valued(s)[Rank(ValuedAt(s), i)] = s[i]
<1> DEFINE at == ValuedAt(s)
           n  == Len(s)
<1>1. n \in Nat /\ DOMAIN s = 1..n
  BY ListFacts DEF AreParts
<1>2. at \in SUBSET (1..n)
  BY DEF ValuedAt
<1>3. Extraction!Valued(s) = Extraction!Pick(s, at)
  BY <1>1 DEF Extraction!Valued, ValuedAt
<1>4. Extraction!Pick(s, at) = [k \in 1..Cardinality(at) |-> s[Extraction!Ranked(at, k)]]
  BY SameCardinality DEF Extraction!Pick
<1> HIDE DEF at, n
<1>5. \A i \in at : Rank(at, i) \in 1..Cardinality(at)
  BY <1>1, <1>2, Ranks
<1>6. \A i \in at : Extraction!Ranked(at, Rank(at, i)) = i
  BY <1>1, <1>2, RankedIs
<1>7. \A i \in at : /\ Rank(at, i) \in DOMAIN Extraction!Valued(s)
                    /\ Extraction!Valued(s)[Rank(at, i)] = s[i]
  BY <1>3, <1>4, <1>5, <1>6
<1>8. QED
  BY <1>3, <1>7 DEF at

LEMMA DecodedParts ==
    ASSUME NEW s, AreParts(s)
    PROVE  Extraction!BitcodeDecode(Extraction!BitcodeEncode(KeyWith(s))).parts = s
<1> DEFINE n   == Len(s)
           at  == ValuedAt(s)
           v   == Extraction!Valued(s)
           val == [i \in DOMAIN v |-> v[i].value]
           d   == Extraction!BitcodeColumns(KeyWith(s), val)
           V(i) == IF d.some[i] THEN d.values[Extraction!Cardinality({j \in 1..i : d.some[j]})]
                   ELSE None
<1>1. n \in Nat /\ DOMAIN s = 1..n
  BY ListFacts DEF AreParts
<1>2. Extraction!BitcodeEncode(KeyWith(s)) = d
  BY KeyFields DEF Extraction!BitcodeEncode
<1>3. Extraction!BitcodeDecode(d).parts =
        [i \in DOMAIN d.names |-> Extraction!Part(d.names[i], V(i))]
  BY DEF Extraction!BitcodeDecode
<1>4. d.names = [i \in DOMAIN s |-> s[i].name]
  BY KeyFields DEF Extraction!BitcodeColumns
<1>5. \A i \in DOMAIN s : d.some[i] <=> s[i].value # None
  <2> DEFINE K == KeyWith(s)
             N == [i \in DOMAIN K.parts |-> K.parts[i].name]
             F == [i \in DOMAIN K.parts |-> K.parts[i].value # None]
  <2>1. d = [names |-> N, some |-> F, values |-> val, version |-> K.version, prefix |-> K.prefix]
    BY DEF Extraction!BitcodeColumns
  <2>2. K.parts = s
    BY KeyFields
  <2> HIDE DEF K
  <2>3. \A i \in DOMAIN s : F[i] <=> s[i].value # None
    BY <2>2
  <2> HIDE DEF d, N, F, val
  <2>4. d.some = F
    BY <2>1
  <2>5. QED
    BY <2>3, <2>4
<1>6. d.values = val
  BY DEF Extraction!BitcodeColumns
<1> HIDE DEF d
<1>7. DOMAIN d.names = 1..n /\ \A i \in 1..n : d.names[i] = s[i].name
  BY <1>1, <1>4
<1>8. \A i \in 1..n : d.some[i] <=> s[i].value # None
  BY <1>1, <1>5
<1>9. ASSUME NEW i \in 1..n PROVE V(i) = s[i].value
  <2>1. CASE s[i].value = None
    BY <1>8, <2>1
  <2>2. CASE s[i].value # None
    <3>1. \A j \in 1..i : j \in 1..n
      BY <1>1
    <3>2. {j \in 1..i : d.some[j]} = {j \in at : j <= i}
      BY <1>1, <1>8, <3>1 DEF ValuedAt
    <3>3. Extraction!Cardinality({j \in 1..i : d.some[j]}) = Rank(at, i)
      BY <3>2, SameCardinality DEF Rank
    <3>4. i \in at
      BY <2>2 DEF ValuedAt
    <3>5. Rank(at, i) \in DOMAIN v /\ v[Rank(at, i)] = s[i]
      BY <3>4, ValuedIs
    <3> HIDE DEF v, at
    <3>6. val[Rank(at, i)] = s[i].value
      BY <3>5
    <3> HIDE DEF val
    <3>7. QED
      BY <1>6, <1>8, <2>2, <3>3, <3>6
  <2>3. QED
    BY <2>1, <2>2
<1> HIDE DEF V
<1>10. \A i \in 1..n : s[i] = Extraction!Part(s[i].name, s[i].value)
  BY DEF AreParts
<1>11. s = [i \in 1..n |-> s[i]]
  BY DEF AreParts, Extraction!IsList
<1> HIDE DEF n
<1>12. [i \in DOMAIN d.names |-> Extraction!Part(d.names[i], V(i))] = s
  BY <1>7, <1>9, <1>10, <1>11
<1>13. QED
  BY <1>2, <1>3, <1>12

LEMMA Decoded ==
    ASSUME NEW s, AreParts(s)
    PROVE  Extraction!BitcodeDecode(Extraction!BitcodeEncode(KeyWith(s))) = KeyWith(s)
<1> DEFINE e == Extraction!BitcodeEncode(KeyWith(s))
           d == Extraction!BitcodeDecode(e)
<1>1. d.parts = s
  BY DecodedParts
<1>2. e.prefix = "" /\ e.version = "0"
  BY KeyFields DEF Extraction!BitcodeEncode, Extraction!BitcodeColumns
<1> HIDE DEF e
<1>3. d = [prefix |-> e.prefix, version |-> e.version, parts |-> d.parts]
  BY DEF Extraction!BitcodeDecode
<1> HIDE DEF d
<1>4. d = KeyWith(s)
  BY <1>1, <1>2, <1>3 DEF KeyWith
<1>5. QED
  BY <1>4 DEF d, e

-----------------------------------------------------------------------------
(* A key in UrlEncoded form: the pairs of its parts, behind two of its own. *)
UrlPair(p)  == <<p.name, Extraction!Told(p.value)>>
UrlPairs(s) == [i \in DOMAIN s |-> UrlPair(s[i])]

LEMMA UrlIs ==
    ASSUME NEW s, format = "UrlEncoded"
    PROVE  Extraction!UrlEncode(KeyWith(s)) = <<<<"_prefix", "">>, <<"_version", "0">>>> \o UrlPairs(s)
  BY KeyFields DEF Extraction!UrlEncode, UrlPairs, UrlPair, Extraction!Told

LEMMA Behind ==
    ASSUME NEW S, NEW a \in Seq(S), NEW x \in Seq(S), NEW y \in Seq(S), a \o x = a \o y
    PROVE  x = y
<1>1. Len(x) = Len(y)
  <2>1. Len(a \o x) = Len(a) + Len(x) /\ Len(a \o y) = Len(a) + Len(y)
    OBVIOUS
  <2>2. Len(a) \in Nat /\ Len(x) \in Nat /\ Len(y) \in Nat
    OBVIOUS
  <2>3. QED
    BY <2>1, <2>2
<1>2. ASSUME NEW i \in 1..Len(x) PROVE x[i] = y[i]
  <2>1. (a \o x)[Len(a) + i] = x[i] /\ (a \o y)[Len(a) + i] = y[i]
    BY <1>1
  <2>2. QED
    BY <2>1
<1>3. QED
  BY <1>1, <1>2, SeqEqual

LEMMA PairsAlike ==
    ASSUME NEW s, NEW t, AreParts(s), AreParts(t)
    PROVE  UrlPairs(s) = UrlPairs(t) <=> Like(s, t)
<1>1. /\ Len(s) \in Nat /\ DOMAIN s = 1..Len(s) /\ Len(t) \in Nat /\ DOMAIN t = 1..Len(t)
  BY ListFacts DEF AreParts
<1> DEFINE p == UrlPairs(s)
           q == UrlPairs(t)
<1>2. p = [i \in 1..Len(s) |-> p[i]] /\ q = [i \in 1..Len(t) |-> q[i]]
  BY <1>1 DEF UrlPairs
<1>3. \A i \in 1..Len(s) : p[i] = <<s[i].name, Extraction!Told(s[i].value)>>
  BY <1>1 DEF UrlPairs, UrlPair
<1>4. \A i \in 1..Len(t) : q[i] = <<t[i].name, Extraction!Told(t[i].value)>>
  BY <1>1 DEF UrlPairs, UrlPair
<1> HIDE DEF p, q
<1>5. Extraction!IsList(p) /\ Len(p) = Len(s) /\ Extraction!IsList(q) /\ Len(q) = Len(t)
  BY <1>1, <1>2, ListOf
<1>6. ASSUME p = q PROVE Like(s, t)
  BY <1>3, <1>4, <1>5, <1>6 DEF Like
<1>7. ASSUME Like(s, t) PROVE p = q
  <2>1. Len(p) = Len(q)
    BY <1>5, <1>7 DEF Like
  <2>2. \A i \in 1..Len(p) : p[i] = q[i]
    BY <1>3, <1>4, <1>5, <1>7, <2>1 DEF Like
  <2>3. QED
    BY <1>5, <2>1, <2>2, ListEqual
<1>8. QED
  BY <1>6, <1>7 DEF p, q

LEMMA UrlAlike ==
    ASSUME NEW s, NEW t, AreParts(s), AreParts(t), format = "UrlEncoded"
    PROVE  Extraction!UrlEncode(KeyWith(s)) = Extraction!UrlEncode(KeyWith(t)) <=> Like(s, t)
<1> DEFINE x == <<"_prefix", "">>
           y == <<"_version", "0">>
           a == <<x, y>>
           p == UrlPairs(s)
           q == UrlPairs(t)
           S == {x, y} \cup {p[i] : i \in 1..Len(p)} \cup {q[i] : i \in 1..Len(q)}
<1>1. Extraction!UrlEncode(KeyWith(s)) = a \o p /\ Extraction!UrlEncode(KeyWith(t)) = a \o q
  BY UrlIs
<1>2. /\ Len(s) \in Nat /\ DOMAIN s = 1..Len(s) /\ Len(t) \in Nat /\ DOMAIN t = 1..Len(t)
  BY ListFacts DEF AreParts
<1>3. p = [i \in 1..Len(s) |-> p[i]] /\ q = [i \in 1..Len(t) |-> q[i]]
  BY <1>2 DEF UrlPairs
<1>4. p = q <=> Like(s, t)
  BY PairsAlike
<1> HIDE DEF p, q
<1>5. Extraction!IsList(p) /\ Extraction!IsList(q)
  BY <1>2, <1>3, ListOf
<1>6. p \in Seq({p[i] : i \in 1..Len(p)}) /\ q \in Seq({q[i] : i \in 1..Len(q)})
  BY <1>5, ListFacts
<1> HIDE DEF x, y
<1>7. a \in Seq({x, y})
  OBVIOUS
<1> HIDE DEF a
<1>8. a \in Seq(S) /\ p \in Seq(S) /\ q \in Seq(S)
  BY <1>6, <1>7
<1> HIDE DEF S
<1>9. a \o p = a \o q => p = q
  BY <1>8, Behind
<1>10. QED
  BY <1>1, <1>4, <1>9

LEMMA BitcodeAlike ==
    ASSUME NEW s, NEW t, AreParts(s), AreParts(t), format = "Bitcode"
    PROVE  Extraction!BitcodeEncode(KeyWith(s)) = Extraction!BitcodeEncode(KeyWith(t)) <=> Like(s, t)
<1>1. ASSUME Extraction!BitcodeEncode(KeyWith(s)) = Extraction!BitcodeEncode(KeyWith(t))
      PROVE  Like(s, t)
  <2>1. s = t
    BY <1>1, DecodedParts
  <2>2. QED
    BY <2>1 DEF Like
<1>2. ASSUME Like(s, t) PROVE s = t
  <2>1. \A v : Extraction!Told(v) = v
    BY DEF Extraction!Told
  <2>2. Len(s) = Len(t) /\ \A i \in 1..Len(s) : s[i].name = t[i].name /\ s[i].value = t[i].value
    BY <1>2, <2>1 DEF Like
  <2>3. \A i \in 1..Len(s) : s[i] = t[i]
    BY <2>2 DEF AreParts
  <2>4. QED
    BY <2>2, <2>3, ListEqual DEF AreParts
<1>3. QED
  BY <1>1, <1>2

LEMMA Serialized ==
    ASSUME NEW s, NEW t, AreParts(s), AreParts(t), format \in {"Bitcode", "UrlEncoded"}
    PROVE  Extraction!Serialize(format, KeyWith(s)) = Extraction!Serialize(format, KeyWith(t))
              <=> Like(s, t)
<1>1. CASE format = "Bitcode"
  BY <1>1, BitcodeAlike DEF Extraction!Serialize
<1>2. CASE format = "UrlEncoded"
  BY <1>2, UrlAlike DEF Extraction!Serialize
<1>3. QED
  BY <1>1, <1>2

LEMMA KeysSerialized ==
    ASSUME NEW c, Chained(c), format \in KeyFormats,
           NEW r \in Asking, NEW o \in Extraction!SetToSeqs(DOMAIN r.query),
           NEW s \in Asking, NEW p \in Extraction!SetToSeqs(DOMAIN s.query)
    PROVE  Extraction!Serialize(format, Extraction!KeyOf(c, r, o)) =
             Extraction!Serialize(format, Extraction!KeyOf(c, s, p))
             <=> Like(Extraction!KeyOf(c, r, o).parts, Extraction!KeyOf(c, s, p).parts)
<1> DEFINE x == Extraction!FlattenSeq(ChainBlocks(c, r, o))
           y == Extraction!FlattenSeq(ChainBlocks(c, s, p))
<1>1. Extraction!KeyOf(c, r, o) = KeyWith(x)
  BY KeyIs DEF KeyWith
<1>2. Extraction!KeyOf(c, s, p) = KeyWith(y)
  BY KeyIs DEF KeyWith
<1>3. AreParts(x)
  BY KeyIs
<1>4. AreParts(y)
  BY KeyIs
<1> HIDE DEF x, y
<1>5. format \in {"Bitcode", "UrlEncoded"}
  BY KeyFacts
<1>6. Extraction!Serialize(format, KeyWith(x)) = Extraction!Serialize(format, KeyWith(y))
        <=> Like(x, y)
  BY <1>3, <1>4, <1>5, Serialized
<1>7. QED
  BY <1>1, <1>2, <1>6, KeyFields

(* What a request is stored under, in the format of the backend.            *)
IsKeyOf(data, r) ==
    \E o \in Extraction!SetToSeqs(DOMAIN r.query) :
        data = Extraction!Serialize(format, Extraction!KeyOf(chain, r, o))

AnswerOK ==
    /\ answer.asked \in Asking
    /\ \E o \in Extraction!SetToSeqs(DOMAIN answer.asked.query) :
          answer.key = Extraction!KeyOf(chain, answer.asked, o)
    /\ answer.found # None =>
          /\ answer.found \in Asking
          /\ IsKeyOf(Extraction!Serialize(format, answer.key), answer.found)
    /\ answer.found = None =>
          \A r \in answer.stored :
              /\ r \in Asking
              /\ \E data : IsKeyOf(data, r) /\ data # Extraction!Serialize(format, answer.key)

(* Every entry is stored under the key of its own request, and what is      *)
(* found is the entry of the key that was asked for.                        *)
KInv ==
    /\ config \in Extractors /\ format \in KeyFormats
    /\ chain = None \/ chain = Extraction!ExtractorsOf(config)
    /\ chain \in {None, Error} => DOMAIN store = {} /\ answer = None
    /\ \A data \in DOMAIN store : store[data] \in Asking /\ IsKeyOf(data, store[data])
    /\ answer # None => AnswerOK

LEMMA InitK == Extraction!Init => KInv
<1> SUFFICES ASSUME Extraction!Init PROVE KInv
  OBVIOUS
<1>1. /\ config \in Extractors /\ format \in KeyFormats /\ chain = None /\ answer = None
      /\ store = [k \in {} |-> None]
  BY DEF Extraction!Init
<1>2. DOMAIN store = {}
  BY <1>1
<1>3. QED
  BY <1>1, <1>2 DEF KInv

LEMMA SameKeys ==
    ASSUME UNCHANGED <<format, chain>>
    PROVE  \A data, r : IsKeyOf(data, r)' <=> IsKeyOf(data, r)
  BY DEF IsKeyOf, Extraction!Serialize

LEMMA AskK ==
    ASSUME KInv, NEW r \in Asking, NEW o \in Extraction!SetToSeqs(DOMAIN r.query),
           Extraction!Ask(r, o)
    PROVE  KInv'
<1> DEFINE K    == Extraction!KeyOf(chain, r, o)
           data == Extraction!Serialize(format, K)
           hit  == data \in DOMAIN store
           full == Extraction!Cardinality(DOMAIN store) = MAX_ENTRIES
           ans  == [asked |-> r, key |-> K, found |-> IF hit THEN store[data] ELSE None,
                    stored |-> {store[k] : k \in DOMAIN store}]
<1>1. /\ chain \notin {None, Error} /\ answer' = ans
      /\ store' = IF hit \/ full THEN store
                  ELSE [k \in DOMAIN store \cup {data} |-> IF k = data THEN r ELSE store[k]]
      /\ UNCHANGED <<config, format, chain>>
  BY DEF Extraction!Ask
<1>2. /\ answer'.asked = r /\ answer'.key = K
      /\ answer'.found = IF hit THEN store[data] ELSE None
      /\ answer'.stored = {store[k] : k \in DOMAIN store}
  <2> HIDE DEF K, hit, data
  <2>1. QED
    BY <1>1
<1>3. IsKeyOf(data, r)
  BY DEF IsKeyOf
<1> HIDE DEF K, data, full, ans
<1>4. \A k \in DOMAIN store' : store'[k] \in Asking /\ IsKeyOf(k, store'[k])
  <2>1. CASE hit \/ full
    BY <1>1, <2>1 DEF KInv
  <2>2. CASE ~(hit \/ full)
    <3>1. store' = [k \in DOMAIN store \cup {data} |-> IF k = data THEN r ELSE store[k]]
      BY <1>1, <2>2
    <3>2. \A k \in DOMAIN store' : \/ k = data /\ store'[k] = r
                                   \/ k \in DOMAIN store /\ store'[k] = store[k]
      BY <3>1
    <3>3. QED
      BY <1>3, <3>2 DEF KInv
  <2>3. QED
    BY <2>1, <2>2
<1>5. Extraction!Serialize(format, answer'.key) = data
  BY <1>2 DEF data
<1>6. Extraction!Serialize(format', answer'.key) = data
  BY <1>1, <1>5
<1>7. \A d, s : IsKeyOf(d, s)' <=> IsKeyOf(d, s)
  BY <1>1, SameKeys
<1>8. answer'.found # None => answer'.found \in Asking /\ IsKeyOf(data, answer'.found)
  BY <1>2 DEF KInv
<1>9. ASSUME answer'.found = None, NEW s \in answer'.stored
      PROVE  s \in Asking /\ \E d : IsKeyOf(d, s) /\ d # data
  <2>1. PICK k \in DOMAIN store : s = store[k]
    BY <1>2
  <2>2. s \in Asking /\ IsKeyOf(k, s)
    BY <2>1 DEF KInv
  <2>3. ~hit
    <3>1. SUFFICES ASSUME hit PROVE FALSE
      OBVIOUS
    <3>2. answer'.found = store[data] /\ store[data] \in Asking
      BY <1>2, <3>1 DEF KInv
    <3>3. store[data] # None
      BY <3>2, RequestFacts
    <3>4. QED
      BY <1>9, <3>2, <3>3
  <2>4. k # data
    BY <2>3
  <2>5. QED
    BY <2>2, <2>4
<1>10. \E p \in Extraction!SetToSeqs(DOMAIN r.query) :
          answer'.key = Extraction!KeyOf(chain', r, p)
  BY <1>1, <1>2 DEF K
<1>11. AnswerOK'
  <2>1. answer'.asked \in Asking
    BY <1>2
  <2>2. \E p \in Extraction!SetToSeqs(DOMAIN answer'.asked.query) :
           answer'.key = Extraction!KeyOf(chain', answer'.asked, p)
    BY <1>2, <1>10
  <2>3. answer'.found # None =>
           answer'.found \in Asking /\ IsKeyOf(Extraction!Serialize(format, answer.key), answer.found)'
    BY <1>6, <1>7, <1>8
  <2>4. answer'.found = None =>
          \A s \in answer'.stored :
              s \in Asking /\ \E d : IsKeyOf(d, s)' /\ d # Extraction!Serialize(format', answer'.key)
    BY <1>6, <1>7, <1>9
  <2>5. QED
    BY <2>1, <2>2, <2>3, <2>4 DEF AnswerOK
<1>12. \A k \in DOMAIN store' : store'[k] \in Asking /\ IsKeyOf(k, store[k])'
  BY <1>4, <1>7
<1>13. /\ config' \in Extractors /\ format' \in KeyFormats
       /\ chain' = None \/ chain' = Extraction!ExtractorsOf(config')
       /\ chain' \notin {None, Error}
  BY <1>1 DEF KInv
<1>14. QED
  BY <1>11, <1>12, <1>13 DEF KInv

LEMMA NextK == KInv /\ (Extraction!Next \/ UNCHANGED Extraction!vars) => KInv'
<1> SUFFICES ASSUME KInv, Extraction!Next \/ UNCHANGED Extraction!vars PROVE KInv'
  OBVIOUS
<1>1. CASE Extraction!IntoExtractors
  <2>1. /\ chain = None /\ chain' = Extraction!ExtractorsOf(config)
        /\ config' = config /\ format' = format /\ store' = store /\ answer' = answer
    BY <1>1 DEF Extraction!IntoExtractors
  <2>2. DOMAIN store = {} /\ answer = None
    BY <2>1 DEF KInv
  <2>3. DOMAIN store' = {} /\ answer' = None
    BY <2>1, <2>2
  <2>4. QED
    BY <2>1, <2>3 DEF KInv
<1>2. CASE \E r \in Asking : \E o \in Extraction!SetToSeqs(DOMAIN r.query) : Extraction!Ask(r, o)
  <2>1. PICK r \in Asking : \E o \in Extraction!SetToSeqs(DOMAIN r.query) : Extraction!Ask(r, o)
    BY <1>2
  <2>2. PICK o \in Extraction!SetToSeqs(DOMAIN r.query) : Extraction!Ask(r, o)
    BY <2>1
  <2>3. QED
    BY <2>2, AskK
<1>3. CASE UNCHANGED Extraction!vars
  <2>1. /\ config' = config /\ format' = format /\ chain' = chain /\ store' = store
        /\ answer' = answer
    BY <1>3 DEF Extraction!vars
  <2>2. \A d, s : IsKeyOf(d, s)' <=> IsKeyOf(d, s)
    BY <2>1, SameKeys
  <2>3. \A k \in DOMAIN store' : store'[k] \in Asking /\ IsKeyOf(k, store[k])'
    BY <2>1, <2>2 DEF KInv
  <2>4. AnswerOK => AnswerOK'
    BY <2>1, <2>2 DEF AnswerOK
  <2>5. QED
    BY <2>1, <2>3, <2>4 DEF KInv
<1>4. QED
  BY <1>1, <1>2, <1>3 DEF Extraction!Next

-----------------------------------------------------------------------------
LEMMA AnswerFacts ==
    ASSUME KInv, answer # None
    PROVE  AnswerOK /\ Chained(chain) /\ DOMAIN chain = 1..Len(chain) /\ format \in KeyFormats
<1>1. chain \notin {None, Error}
  BY DEF KInv
<1>2. chain = Extraction!ExtractorsOf(config) /\ config \in Extractors
  BY <1>1 DEF KInv
<1>3. Chained(chain)
  BY <1>1, <1>2, ChainOf
<1>4. QED
  BY <1>3, ListFacts DEF KInv, Chained

LEMMA FoundForTheSame == KInv => Extraction!FoundForTheSameRequest
<1> SUFFICES ASSUME KInv, Extraction!Found, Extraction!NamesApart, Extraction!PrefixesInLowercase,
                    Extraction!Parsed
             PROVE  Extraction!Same
  BY DEF Extraction!FoundForTheSameRequest
<1> DEFINE r == answer.asked
           s == answer.found
<1>1. answer # None /\ s # None
  BY DEF Extraction!Found
<1>2. AnswerOK /\ Chained(chain) /\ DOMAIN chain = 1..Len(chain) /\ format \in KeyFormats
  BY <1>1, AnswerFacts
<1>3. Extraction!Parses(r) /\ Extraction!Parses(s)
  BY DEF Extraction!Parsed
<1>4. NamesDiffer(chain)
  BY <1>2 DEF NamesDiffer, Extraction!NamesApart
<1>5. \A i \in 1..Len(chain) : Lower(chain[i])
  BY <1>2 DEF Lower, Extraction!PrefixesInLowercase
<1>6. r \in Asking /\ s \in Asking
  BY <1>1, <1>2 DEF AnswerOK
<1>7. PICK o \in Extraction!SetToSeqs(DOMAIN r.query) :
         answer.key = Extraction!KeyOf(chain, r, o)
  BY <1>2 DEF AnswerOK
<1>8. PICK p \in Extraction!SetToSeqs(DOMAIN s.query) :
         Extraction!Serialize(format, answer.key) =
            Extraction!Serialize(format, Extraction!KeyOf(chain, s, p))
  BY <1>1, <1>2 DEF AnswerOK, IsKeyOf
<1> HIDE DEF r, s
<1>9. Like(Extraction!KeyOf(chain, r, o).parts, Extraction!KeyOf(chain, s, p).parts)
  BY <1>2, <1>6, <1>7, <1>8, KeysSerialized
<1>10. \A i \in 1..Len(chain) : Extraction!Sees(chain[i], r) = Extraction!Sees(chain[i], s)
  BY <1>2, <1>3, <1>4, <1>5, <1>6, <1>9, KeysDiffer
<1>11. QED
  BY <1>2, <1>10 DEF Extraction!Same, Extraction!Agree, r, s

LEMMA FoundAgain == KInv => Extraction!FoundAgain
<1> SUFFICES ASSUME KInv, answer # None, answer.found = None, NEW s \in answer.stored,
                    Extraction!Parses(s), Extraction!Parses(answer.asked),
                    Extraction!Agree(answer.asked, s)
             PROVE  FALSE
  BY DEF Extraction!FoundAgain
<1> DEFINE r == answer.asked
<1>1. AnswerOK /\ Chained(chain) /\ DOMAIN chain = 1..Len(chain) /\ format \in KeyFormats
  BY AnswerFacts
<1>2. r \in Asking /\ s \in Asking
  BY <1>1 DEF AnswerOK
<1>3. PICK o \in Extraction!SetToSeqs(DOMAIN r.query) :
         answer.key = Extraction!KeyOf(chain, r, o)
  BY <1>1 DEF AnswerOK
<1>4. PICK data : IsKeyOf(data, s) /\ data # Extraction!Serialize(format, answer.key)
  BY <1>1 DEF AnswerOK
<1>5. PICK p \in Extraction!SetToSeqs(DOMAIN s.query) :
         data = Extraction!Serialize(format, Extraction!KeyOf(chain, s, p))
  BY <1>4 DEF IsKeyOf
<1>6. \A i \in 1..Len(chain) : Extraction!Sees(chain[i], r) = Extraction!Sees(chain[i], s)
  BY <1>1 DEF Extraction!Agree
<1>7. Extraction!Parses(r)
  OBVIOUS
<1> HIDE DEF r
<1>8. Like(Extraction!KeyOf(chain, r, o).parts, Extraction!KeyOf(chain, s, p).parts)
  BY <1>1, <1>2, <1>6, <1>7, KeysAlike
<1>9. Extraction!Serialize(format, answer.key) = data
  BY <1>1, <1>2, <1>3, <1>5, <1>8, KeysSerialized
<1>10. QED
  BY <1>4, <1>9

LEMMA Reversible == KInv => Extraction!BitcodeIsReversible
<1> SUFFICES ASSUME KInv, answer # None
             PROVE  Extraction!BitcodeDecode(Extraction!BitcodeEncode(answer.key)) = answer.key
  BY DEF Extraction!BitcodeIsReversible
<1> DEFINE r == answer.asked
<1>1. AnswerOK /\ Chained(chain)
  BY AnswerFacts
<1>2. r \in Asking
  BY <1>1 DEF AnswerOK
<1>3. PICK o \in Extraction!SetToSeqs(DOMAIN r.query) :
         answer.key = Extraction!KeyOf(chain, r, o)
  BY <1>1 DEF AnswerOK
<1> DEFINE s == Extraction!FlattenSeq(ChainBlocks(chain, r, o))
<1> HIDE DEF r
<1>4. answer.key = KeyWith(s)
  BY <1>1, <1>2, <1>3, KeyIs DEF KeyWith
<1>5. AreParts(s)
  BY <1>1, <1>2, KeyIs
<1> HIDE DEF s
<1>6. QED
  BY <1>4, <1>5, Decoded

LEMMA RequestsToldApart == KInv /\ part = "keys" => KeysTellRequestsApart
  BY FoundForTheSame, FoundAgain, Reversible DEF KeysTellRequestsApart
=============================================================================
