----------------------------- MODULE ListProofs -----------------------------
(***************************************************************************)
(* What Lists computes, for every slice, and the two principles that       *)
(* proofs about a loop need: induction over its rounds, and that the       *)
(* function a recursion defines exists. Both are about sets and functions, *)
(* so they can be cited like any other lemma.                              *)
(***************************************************************************)
EXTENDS Lists, SequencesExt, FiniteSetTheorems, FunctionTheorems, SequenceTheorems,
        NaturalsInduction, WellFoundedInduction, TLAPS

-----------------------------------------------------------------------------
(* Numbers *)

(* A nonempty set of naturals has a least element. *)
LEMMA SmallestIn ==
    ASSUME NEW S \in SUBSET Nat, S # {}
    PROVE  \E x \in S : \A y \in S : x <= y
<1> DEFINE Less == OpToRel(<, Nat)
<1>1. PICK x \in S : \A y \in S : ~(<<y, x>> \in Less)
  BY NatLessThanWellFounded, WFMin
<1>2. \A m, n \in Nat : m < n => <<m, n>> \in Less
  BY DEF OpToRel
<1> HIDE DEF Less
<1>3. ASSUME NEW y \in S PROVE x <= y
  <2>1. x \in Nat /\ y \in Nat
    OBVIOUS
  <2>2. ~(y < x)
    BY <1>1, <1>2, <2>1
  <2>3. QED
    BY <2>1, <2>2
<1>4. QED
  BY <1>3

LEMMA LargestIn ==
    ASSUME NEW n \in Nat, NEW S \in SUBSET (1..n), S # {}
    PROVE  \E x \in S : \A y \in S : y <= x
<1> DEFINE Bounds == {b \in Nat : \A y \in S : y <= b}
<1>1. n \in Bounds
  OBVIOUS
<1>2. PICK b \in Bounds : \A c \in Bounds : b <= c
  BY <1>1, SmallestIn
<1>3. b \in S
  <2>1. SUFFICES ASSUME b \notin S PROVE FALSE
    OBVIOUS
  <2>2. b \in Nat /\ \A y \in S : y \in Nat /\ y <= b /\ y # b /\ 1 <= y
    BY <2>1
  <2>3. b # 0
    <3>1. PICK y \in S : TRUE
      OBVIOUS
    <3>2. y \in Nat /\ 1 <= y /\ y <= b /\ b \in Nat
      BY <2>2
    <3>3. QED
      BY <3>2
  <2>4. b - 1 \in Nat /\ \A y \in S : y <= b - 1
    <3>1. b - 1 \in Nat
      BY <2>2, <2>3
    <3>2. ASSUME NEW y \in S PROVE y <= b - 1
      <4>1. y \in Nat /\ b \in Nat /\ y <= b /\ y # b
        BY <2>2
      <4>2. QED
        BY <4>1
    <3>3. QED
      BY <3>1, <3>2
  <2>5. b - 1 \in Bounds
    BY <2>4
  <2>6. b <= b - 1
    BY <1>2, <2>5
  <2>7. QED
    BY <2>2, <2>6
<1>4. QED
  BY <1>2, <1>3

(* Each of the first places belongs to exactly one of what is kept.        *)
LEMMA RankedOnce ==
    ASSUME NEW n \in Nat, NEW K \in SUBSET (1..n)
    PROVE  /\ IsFiniteSet(K) /\ Cardinality(K) \in Nat /\ Cardinality(K) <= n
           /\ Cardinality(K) = n => K = 1..n
           /\ \A m \in 1..Cardinality(K) : \E k \in K : Cardinality({l \in K : l <= k}) = m
           /\ \A k \in K : Cardinality({l \in K : l <= k}) \in 1..Cardinality(K)
           /\ \A k, l \in K : k < l => Cardinality({i \in K : i <= k}) # Cardinality({i \in K : i <= l})
<1> DEFINE Upto(k) == {l \in K : l <= k}
           rank == [k \in K |-> Cardinality(Upto(k))]
           c == Cardinality(K)
<1>1. IsFiniteSet(1..n) /\ Cardinality(1..n) = n
  BY FS_Interval
<1>2. IsFiniteSet(K) /\ c \in Nat /\ c <= n /\ (c = n => K = 1..n)
  BY <1>1, FS_Subset, FS_CardinalityType
<1> HIDE DEF c
<1>3. \A k \in K : IsFiniteSet(Upto(k)) /\ Cardinality(Upto(k)) \in 1..c
  <2> SUFFICES ASSUME NEW k \in K PROVE IsFiniteSet(Upto(k)) /\ Cardinality(Upto(k)) \in 1..c
    OBVIOUS
  <2>1. Upto(k) \in SUBSET K /\ k \in Upto(k)
    OBVIOUS
  <2> HIDE DEF Upto
  <2>2. IsFiniteSet(Upto(k)) /\ Cardinality(Upto(k)) <= c /\ Cardinality(Upto(k)) \in Nat
    BY <1>2, <2>1, FS_Subset, FS_CardinalityType DEF c
  <2>3. Cardinality(Upto(k)) # 0
    BY <2>1, <2>2, FS_EmptySet
  <2>4. QED
    BY <1>2, <2>2, <2>3
<1>4. \A k, l \in K : k < l => Cardinality(Upto(k)) # Cardinality(Upto(l))
  <2> SUFFICES ASSUME NEW k \in K, NEW l \in K, k < l PROVE Cardinality(Upto(k)) # Cardinality(Upto(l))
    OBVIOUS
  <2>1. Upto(k) \in SUBSET Upto(l) /\ l \in Upto(l) /\ l \notin Upto(k)
    <3>1. k \in Int /\ l \in Int /\ \A i \in K : i \in Int
      OBVIOUS
    <3>2. Upto(k) \in SUBSET Upto(l)
      <4> SUFFICES ASSUME NEW i \in Upto(k) PROVE i \in Upto(l)
        OBVIOUS
      <4>1. i \in K /\ i \in Int /\ i <= k
        BY <3>1
      <4>2. i <= l
        BY <3>1, <4>1
      <4>3. QED
        BY <4>1, <4>2
    <3>3. l \in Upto(l)
      BY <3>1
    <3>4. l \notin Upto(k)
      BY <3>1
    <3>5. QED
      BY <3>2, <3>3, <3>4
  <2> HIDE DEF Upto
  <2>2. QED
    BY <1>3, <2>1, FS_Subset
<1> HIDE DEF Upto
<1>5. rank \in Injection(K, 1..c)
  <2>1. rank \in [K -> 1..c]
    BY <1>3
  <2>2. \A k, l \in K : rank[k] = rank[l] => k = l
    BY <1>4
  <2> HIDE DEF rank
  <2>3. QED
    BY <2>1, <2>2 DEF Injection, IsInjective
<1>6. IsFiniteSet(1..c) /\ Cardinality(1..c) = c
  BY <1>2, FS_Interval
<1>7. rank \in Surjection(K, 1..c)
  BY <1>5, <1>6, FS_Injection DEF c
<1>8. \A m \in 1..c : \E k \in K : rank[k] = m
  BY <1>7 DEF Surjection
<1>9. QED
  BY <1>2, <1>3, <1>4, <1>8 DEF c, Upto

-----------------------------------------------------------------------------
(* Rounds of a loop *)

(* What holds before the first round and after each round that it held     *)
(* before holds after them all.                                            *)
LEMMA Rounds ==
    ASSUME NEW N \in Nat, NEW T, 0 \in T, \A n \in 1..N : n - 1 \in T => n \in T
    PROVE  \A n \in 0..N : n \in T
<1> SUFFICES ASSUME {n \in 0..N : n \notin T} # {} PROVE FALSE
  OBVIOUS
<1>1. {n \in 0..N : n \notin T} \in SUBSET Nat
  OBVIOUS
<1>2. PICK n \in {m \in 0..N : m \notin T} : \A m \in {m \in 0..N : m \notin T} : n <= m
  <2> DEFINE S == {m \in 0..N : m \notin T}
  <2> HIDE DEF S
  <2>1. S \in SUBSET Nat /\ S # {}
    BY <1>1 DEF S
  <2>2. \E x \in S : \A y \in S : x <= y
    BY <2>1, SmallestIn
  <2>3. QED
    BY <2>2 DEF S
<1>3. n \in 1..N /\ n - 1 \in 0..N
  OBVIOUS
<1>4. n - 1 \notin T
  OBVIOUS
<1>5. QED
  BY <1>2, <1>3, <1>4

(* A loop over N rounds with a state in A: the function of its states.     *)
IsLoop(f, N, A, base, step) ==
    f \in [0..N -> A] /\ f[0] = base /\ \A n \in 1..N : f[n] = step[<<f[n - 1], n>>]

LEMMA LoopExists ==
    ASSUME NEW N \in Nat, NEW A, NEW base \in A, NEW step,
           \A a \in A : \A n \in 1..N : step[<<a, n>>] \in A
    PROVE  \E f : IsLoop(f, N, A, base, step)
<1> DEFINE Runs(m) == {f \in [0..m -> A] :
                          f[0] = base /\ \A n \in 1..m : f[n] = step[<<f[n - 1], n>>]}
           T == {m \in 0..N : Runs(m) # {}}
<1>1. 0 \in T
  <2>1. [n \in 0..0 |-> base] \in Runs(0)
    OBVIOUS
  <2>2. QED
    BY <2>1
<1>2. ASSUME NEW n \in 1..N, n - 1 \in T PROVE n \in T
  <2>1. PICK f : f \in Runs(n - 1)
    BY <1>2
  <2> DEFINE g == [k \in 0..n |-> IF k = n THEN step[<<f[n - 1], n>>] ELSE f[k]]
  <2>2. n \in Nat /\ n - 1 \in Nat /\ n - 1 \in 0..(n - 1) /\ n \in 1..N
    OBVIOUS
  <2>3. f \in [0..(n - 1) -> A] /\ f[0] = base /\ \A k \in 1..(n - 1) : f[k] = step[<<f[k - 1], k>>]
    BY <2>1
  <2>4. step[<<f[n - 1], n>>] \in A
    BY <2>2, <2>3
  <2>5. \A k \in 0..n : k # n => k \in 0..(n - 1) /\ (k # 0 => k \in 1..(n - 1) /\ k - 1 \in 0..(n - 1))
    BY <2>2
  <2>6. /\ DOMAIN g = 0..n /\ g[n] = step[<<f[n - 1], n>>]
        /\ \A k \in 0..n : k # n => g[k] = f[k]
    BY <2>2
  <2> HIDE DEF g
  <2>7. \A k \in 0..n : g[k] \in A
    BY <2>3, <2>4, <2>5, <2>6
  <2>8. g \in [0..n -> A]
    <3>1. g = [k \in 0..n |-> g[k]]
      BY DEF g
    <3>2. QED
      BY <2>7, <3>1
  <2>9. g[0] = base
    BY <2>2, <2>3, <2>6
  <2>10. \A k \in 1..n : g[k] = step[<<g[k - 1], k>>]
    <3> SUFFICES ASSUME NEW k \in 1..n PROVE g[k] = step[<<g[k - 1], k>>]
      OBVIOUS
    <3>1. k - 1 \in 0..n /\ k - 1 # n /\ k \in 0..n
      BY <2>2
    <3>2. g[k - 1] = f[k - 1]
      BY <2>6, <3>1
    <3>3. CASE k = n
      BY <2>6, <3>2, <3>3
    <3>4. CASE k # n
      BY <2>3, <2>5, <2>6, <3>1, <3>2, <3>4
    <3>5. QED
      BY <3>3, <3>4
  <2>11. QED
    <3>1. g \in Runs(n)
      BY <2>8, <2>9, <2>10
    <3>2. QED
      BY <3>1
<1> HIDE DEF T
<1>3. N \in T
  BY <1>1, <1>2, Rounds
<1>4. QED
  BY <1>3 DEF T, IsLoop

-----------------------------------------------------------------------------
(* What is picked *)

LEMMA ListOf ==
    ASSUME NEW S, NEW n \in Nat, NEW f \in [1..n -> S]
    PROVE  f \in Seq(S) /\ Len(f) = n /\ DOMAIN f = 1..n
<1>1. f \in UNION {[1..m -> S] : m \in Nat}
  OBVIOUS
<1>2. f \in Seq(S)
  BY <1>1, SeqDef
<1>3. Len(f) \in Nat /\ DOMAIN f = 1..Len(f)
  BY <1>2, LenProperties
<1>4. QED
  BY <1>2, <1>3

LEMMA PlaceFacts ==
    ASSUME NEW N \in Nat, NEW K \in SUBSET (1..N)
    PROVE  /\ IsFiniteSet(K) /\ Cardinality(K) \in Nat
           /\ \A n \in 1..Cardinality(K) : Place(K, n) \in K
           /\ \A m, n \in 1..Cardinality(K) : Place(K, m) = Place(K, n) => m = n
           /\ \A k \in K : \E n \in 1..Cardinality(K) : Place(K, n) = k
<1> DEFINE rank(k) == Cardinality({l \in K : l <= k})
           c == Cardinality(K)
<1>1. /\ IsFiniteSet(K) /\ c \in Nat
      /\ \A m \in 1..c : \E k \in K : rank(k) = m
      /\ \A k \in K : rank(k) \in 1..c
      /\ \A k, l \in K : k < l => rank(k) # rank(l)
  BY RankedOnce
<1>2. \A n : Place(K, n) = CHOOSE k \in K : rank(k) = n
  BY DEF Place
<1> HIDE DEF rank, c
<1>3. \A n \in 1..c : Place(K, n) \in K /\ rank(Place(K, n)) = n
  BY <1>1, <1>2
<1>4. \A k, l \in K : rank(k) = rank(l) => k = l
  <2> SUFFICES ASSUME NEW k \in K, NEW l \in K, rank(k) = rank(l), k # l PROVE FALSE
    OBVIOUS
  <2>1. k < l \/ l < k
    OBVIOUS
  <2>2. QED
    BY <1>1, <2>1
<1>5. \A k \in K : Place(K, rank(k)) = k
  BY <1>1, <1>3, <1>4
<1>6. \A m, n \in 1..c : Place(K, m) = Place(K, n) => m = n
  BY <1>3
<1>7. QED
  BY <1>1, <1>3, <1>5, <1>6 DEF c

LEMMA PickedFacts ==
    ASSUME NEW S, NEW seq \in Seq(S), NEW K \in SUBSET (DOMAIN seq)
    PROVE  /\ Picked(seq, K) \in Seq(S)
           /\ Len(Picked(seq, K)) = Cardinality(K) /\ Cardinality(K) \in Nat
           /\ DOMAIN Picked(seq, K) = 1..Cardinality(K)
           /\ \A n \in 1..Cardinality(K) : Place(K, n) \in K /\ Picked(seq, K)[n] = seq[Place(K, n)]
<1>1. DOMAIN seq = 1..Len(seq) /\ Len(seq) \in Nat /\ \A k \in DOMAIN seq : seq[k] \in S
  BY LenProperties, ElementOfSeq
<1>2. K \in SUBSET (1..Len(seq))
  BY <1>1
<1>3. /\ Cardinality(K) \in Nat
      /\ \A n \in 1..Cardinality(K) : Place(K, n) \in K
  BY <1>1, <1>2, PlaceFacts
<1>4. Picked(seq, K) = [n \in 1..Cardinality(K) |-> seq[Place(K, n)]]
  BY DEF Picked
<1>5. Picked(seq, K) \in [1..Cardinality(K) -> S]
  BY <1>1, <1>3, <1>4
<1>6. Picked(seq, K) \in Seq(S)
  BY <1>3, <1>5, SeqDef
<1>7. DOMAIN Picked(seq, K) = 1..Cardinality(K)
  BY <1>4
<1>8. Len(Picked(seq, K)) = Cardinality(K)
  BY <1>3, <1>6, <1>7, LenProperties
<1>9. QED
  BY <1>3, <1>4, <1>6, <1>7, <1>8

(* What is picked of different things differs.                             *)
LEMMA PickedDiffer ==
    ASSUME NEW S, NEW seq \in Seq(S), NEW K \in SUBSET (DOMAIN seq),
           \A k, l \in K : seq[k] = seq[l] => k = l
    PROVE  IsInjective(Picked(seq, K))
<1>1. DOMAIN seq = 1..Len(seq) /\ Len(seq) \in Nat
  BY LenProperties
<1>2. \A m, n \in 1..Cardinality(K) : Place(K, m) = Place(K, n) => m = n
  BY <1>1, PlaceFacts
<1>3. QED
  BY <1>2, PickedFacts DEF IsInjective

-----------------------------------------------------------------------------
(* Sums *)

LEMMA SumsRun ==
    ASSUME NEW seq \in Seq(Int)
    PROVE  /\ Sums(seq) \in [0..Len(seq) -> Int] /\ Sums(seq)[0] = 0
           /\ \A n \in 1..Len(seq) : Sums(seq)[n] = Sums(seq)[n - 1] + seq[n]
           /\ Len(seq) \in Nat /\ Total(seq) \in Int
<1> DEFINE N == Len(seq)
           Eq(u) == u = [n \in 0..N |-> IF n = 0 THEN 0 ELSE u[n - 1] + seq[n]]
           step == [p \in Int \X (1..N) |-> p[1] + seq[p[2]]]
<1>1. N \in Nat /\ \A n \in 1..N : seq[n] \in Int
  BY LenProperties, ElementOfSeq
<1>2. step \in [Int \X (1..N) -> Int]
  BY <1>1
<1>3. \A a \in Int, n \in 1..N : step[<<a, n>>] = a + seq[n]
  OBVIOUS
<1> HIDE DEF step
<1>4. PICK f : IsLoop(f, N, Int, 0, step)
  <2> HIDE DEF N
  <2>1. 0 \in Int /\ N \in Nat /\ \A a \in Int : \A n \in 1..N : step[<<a, n>>] \in Int
    BY <1>1, <1>2
  <2>2. \E f : IsLoop(f, N, Int, 0, step)
    BY <2>1, LoopExists
  <2>3. QED
    BY <2>2
<1>5. \A n \in 1..N : f[n] = f[n - 1] + seq[n]
  <2> SUFFICES ASSUME NEW n \in 1..N PROVE f[n] = f[n - 1] + seq[n]
    OBVIOUS
  <2>1. n - 1 \in 0..N
    BY <1>1
  <2>2. QED
    BY <1>3, <1>4, <2>1 DEF IsLoop
<1>6. Eq(f)
  <2>1. f = [n \in 0..N |-> f[n]]
    BY <1>4 DEF IsLoop
  <2>2. \A n \in 0..N : f[n] = IF n = 0 THEN 0 ELSE f[n - 1] + seq[n]
    BY <1>1, <1>4, <1>5 DEF IsLoop
  <2>3. QED
    BY <2>1, <2>2
<1>7. Sums(seq) = CHOOSE u : Eq(u)
  BY DEF Sums
<1>8. Eq(Sums(seq))
  <2> HIDE DEF Eq
  <2>1. QED
    BY <1>6, <1>7
<1> DEFINE s == Sums(seq)
<1>9. /\ DOMAIN s = 0..N /\ s[0] = 0
      /\ \A n \in 1..N : s[n] = s[n - 1] + seq[n]
  BY <1>1, <1>8
<1>10. \A n \in 0..N : s[n] \in Int
  <2> DEFINE T == {n \in 0..N : s[n] \in Int}
  <2>1. 0 \in T
    BY <1>1, <1>9
  <2>2. \A n \in 1..N : n - 1 \in T => n \in T
    BY <1>1, <1>9
  <2> HIDE DEF T
  <2>3. \A n \in 0..N : n \in T
    BY <1>1, <2>1, <2>2, Rounds
  <2>4. QED
    BY <2>3 DEF T
<1>11. s \in [0..N -> Int]
  <2>1. s = [n \in 0..N |-> s[n]]
    BY <1>8
  <2>2. QED
    BY <1>10, <2>1
<1>12. N \in 0..N
  BY <1>1
<1>13. QED
  BY <1>1, <1>9, <1>10, <1>11, <1>12 DEF Total

(* What a proof about two sums goes round with. *)
LEMMA SumsStep ==
    ASSUME NEW seq \in Seq(Int), NEW N, N = Len(seq)
    PROVE  /\ N \in Nat /\ Sums(seq)[0] = 0 /\ Total(seq) = Sums(seq)[N] /\ Total(seq) \in Int
           /\ \A n \in 1..N : /\ n - 1 \in 0..N /\ n \in 0..N
                              /\ Sums(seq)[n - 1] \in Int /\ Sums(seq)[n] \in Int /\ seq[n] \in Int
                              /\ Sums(seq)[n] = Sums(seq)[n - 1] + seq[n]
<1>1. /\ Sums(seq) \in [0..N -> Int] /\ Sums(seq)[0] = 0 /\ N \in Nat /\ Total(seq) \in Int
      /\ \A n \in 1..N : Sums(seq)[n] = Sums(seq)[n - 1] + seq[n]
  BY SumsRun
<1>2. \A n \in 1..N : n - 1 \in 0..N /\ n \in 0..N /\ seq[n] \in Int
  BY <1>1, ElementOfSeq
<1>3. \A n \in 0..N : Sums(seq)[n] \in Int
  BY <1>1
<1>4. QED
  BY <1>1, <1>2, <1>3 DEF Total

(* The sums of two slices compare as their numbers do. *)
LEMMA TotalsCompare ==
    ASSUME NEW s \in Seq(Int), NEW t \in Seq(Int), Len(s) = Len(t),
           \A n \in 1..Len(s) : s[n] <= t[n]
    PROVE  Total(s) <= Total(t)
<1> DEFINE N == Len(s)
           T == {n \in 0..N : Sums(s)[n] <= Sums(t)[n]}
<1>1. N = Len(s) /\ N = Len(t) /\ \A n \in 1..N : s[n] <= t[n]
  OBVIOUS
<1> HIDE DEF N
<1>2. N \in Nat
  BY <1>1, SumsStep
<1>3. 0 \in T
  BY <1>1, <1>2, SumsStep
<1>4. \A n \in 1..N : n - 1 \in T => n \in T
  <2> SUFFICES ASSUME NEW n \in 1..N, n - 1 \in T PROVE n \in T
    OBVIOUS
  <2>1. /\ Sums(s)[n - 1] \in Int /\ s[n] \in Int /\ Sums(s)[n] = Sums(s)[n - 1] + s[n]
        /\ n \in 0..N
    BY <1>1, SumsStep
  <2>2. Sums(t)[n - 1] \in Int /\ t[n] \in Int /\ Sums(t)[n] = Sums(t)[n - 1] + t[n]
    BY <1>1, SumsStep
  <2>3. Sums(s)[n - 1] <= Sums(t)[n - 1] /\ s[n] <= t[n]
    BY <1>1
  <2>4. Sums(s)[n] <= Sums(t)[n]
    BY <2>1, <2>2, <2>3
  <2>5. QED
    BY <2>1, <2>4
<1> HIDE DEF T
<1>5. \A n \in 0..N : n \in T
  BY <1>2, <1>3, <1>4, Rounds
<1>6. Sums(s)[N] <= Sums(t)[N]
  BY <1>2, <1>5 DEF T
<1>7. QED
  BY <1>1, <1>6, SumsStep

LEMMA TotalsAdd ==
    ASSUME NEW s \in Seq(Int), NEW t \in Seq(Int), NEW u \in Seq(Int),
           Len(s) = Len(u), Len(t) = Len(u),
           \A n \in 1..Len(u) : u[n] = s[n] + t[n]
    PROVE  Total(u) = Total(s) + Total(t)
<1> DEFINE N == Len(u)
           T == {n \in 0..N : Sums(u)[n] = Sums(s)[n] + Sums(t)[n]}
<1>1. N = Len(s) /\ N = Len(t) /\ N = Len(u) /\ \A n \in 1..N : u[n] = s[n] + t[n]
  OBVIOUS
<1> HIDE DEF N
<1>2. N \in Nat
  BY <1>1, SumsStep
<1>3. 0 \in T
  BY <1>1, <1>2, SumsStep
<1>4. \A n \in 1..N : n - 1 \in T => n \in T
  <2> SUFFICES ASSUME NEW n \in 1..N, n - 1 \in T PROVE n \in T
    OBVIOUS
  <2>1. Sums(s)[n - 1] \in Int /\ s[n] \in Int /\ Sums(s)[n] = Sums(s)[n - 1] + s[n]
    BY <1>1, SumsStep
  <2>2. Sums(t)[n - 1] \in Int /\ t[n] \in Int /\ Sums(t)[n] = Sums(t)[n - 1] + t[n]
    BY <1>1, SumsStep
  <2>3. Sums(u)[n] = Sums(u)[n - 1] + u[n] /\ n \in 0..N
    BY <1>1, SumsStep
  <2>4. Sums(u)[n - 1] = Sums(s)[n - 1] + Sums(t)[n - 1] /\ u[n] = s[n] + t[n]
    BY <1>1
  <2>5. Sums(u)[n] = Sums(s)[n] + Sums(t)[n]
    <3>1. \A a, b, x, y \in Int : (a + b) + (x + y) = (a + x) + (b + y)
      OBVIOUS
    <3>2. Sums(u)[n] = (Sums(s)[n - 1] + Sums(t)[n - 1]) + (s[n] + t[n])
      BY <2>3, <2>4
    <3>3. Sums(u)[n] = (Sums(s)[n - 1] + s[n]) + (Sums(t)[n - 1] + t[n])
      BY <2>1, <2>2, <3>1, <3>2
    <3>4. QED
      BY <2>1, <2>2, <3>3
  <2>6. QED
    BY <2>3, <2>5
<1> HIDE DEF T
<1>5. \A n \in 0..N : n \in T
  BY <1>2, <1>3, <1>4, Rounds
<1>6. Sums(u)[N] = Sums(s)[N] + Sums(t)[N]
  BY <1>2, <1>5 DEF T
<1>7. QED
  BY <1>1, <1>6, SumsStep

LEMMA TotalScales ==
    ASSUME NEW c \in Int, NEW s \in Seq(Int), NEW t \in Seq(Int), Len(s) = Len(t),
           \A n \in 1..Len(s) : t[n] = c * s[n]
    PROVE  Total(t) = c * Total(s)
<1> DEFINE N == Len(s)
           T == {n \in 0..N : Sums(t)[n] = c * Sums(s)[n]}
<1>1. N = Len(s) /\ N = Len(t) /\ \A n \in 1..N : t[n] = c * s[n]
  OBVIOUS
<1> HIDE DEF N
<1>2. N \in Nat
  BY <1>1, SumsStep
<1>3. 0 \in T
  BY <1>1, <1>2, SumsStep
<1>4. \A n \in 1..N : n - 1 \in T => n \in T
  <2> SUFFICES ASSUME NEW n \in 1..N, n - 1 \in T PROVE n \in T
    OBVIOUS
  <2>1. Sums(s)[n - 1] \in Int /\ s[n] \in Int /\ Sums(s)[n] = Sums(s)[n - 1] + s[n]
    BY <1>1, SumsStep
  <2>2. Sums(t)[n] = Sums(t)[n - 1] + t[n] /\ n \in 0..N
    BY <1>1, SumsStep
  <2>3. Sums(t)[n - 1] = c * Sums(s)[n - 1] /\ t[n] = c * s[n]
    BY <1>1
  <2>4. \A a, b \in Int : c * a + c * b = c * (a + b)
    OBVIOUS
  <2>5. Sums(t)[n] = c * Sums(s)[n]
    BY <2>1, <2>2, <2>3, <2>4
  <2>6. QED
    BY <2>2, <2>5
<1> HIDE DEF T
<1>5. \A n \in 0..N : n \in T
  BY <1>2, <1>3, <1>4, Rounds
<1>6. Sums(t)[N] = c * Sums(s)[N]
  BY <1>2, <1>5 DEF T
<1>7. QED
  BY <1>1, <1>6, SumsStep

(* The same number at some places, nothing at the others.                  *)
LEMMA TotalAtPlaces ==
    ASSUME NEW s \in Seq(Int), NEW K \in SUBSET (1..Len(s)), NEW v \in Int,
           \A n \in 1..Len(s) : s[n] = IF n \in K THEN v ELSE 0
    PROVE  Total(s) = Cardinality(K) * v
<1> DEFINE N == Len(s)
           Upto(n) == K \cap (1..n)
           T == {n \in 0..N : IsFiniteSet(Upto(n)) /\ Sums(s)[n] = Cardinality(Upto(n)) * v}
<1>1. N = Len(s) /\ K \in SUBSET (1..N) /\ \A n \in 1..N : s[n] = IF n \in K THEN v ELSE 0
  OBVIOUS
<1> HIDE DEF N
<1>2. N \in Nat
  BY <1>1, SumsStep
<1>3. Upto(0) = {}
  OBVIOUS
<1>4. ASSUME NEW n \in 1..N
      PROVE  /\ n \notin Upto(n - 1)
             /\ n \in K => Upto(n) = Upto(n - 1) \cup {n}
             /\ n \notin K => Upto(n) = Upto(n - 1)
  <2>1. n \in Nat /\ 1..n = (1..(n - 1)) \cup {n} /\ n \notin 1..(n - 1)
    BY <1>2
  <2>2. QED
    BY <2>1
<1> HIDE DEF Upto
<1>5. 0 \in T
  <2>1. Sums(s)[0] = 0 /\ 0 \in 0..N
    BY <1>1, <1>2, SumsStep
  <2>2. IsFiniteSet(Upto(0)) /\ Cardinality(Upto(0)) = 0 /\ 0 * v = 0
    <3>1. IsFiniteSet({}) /\ Cardinality({}) = 0
      BY FS_EmptySet
    <3>2. 0 * v = 0
      OBVIOUS
    <3>3. QED
      BY <1>3, <3>1, <3>2
  <2>3. QED
    BY <2>1, <2>2
<1>6. \A n \in 1..N : n - 1 \in T => n \in T
  <2> SUFFICES ASSUME NEW n \in 1..N, n - 1 \in T PROVE n \in T
    OBVIOUS
  <2> DEFINE c == Cardinality(Upto(n - 1))
  <2>1. IsFiniteSet(Upto(n - 1)) /\ Sums(s)[n - 1] = c * v
    OBVIOUS
  <2>2. c \in Nat
    BY <2>1, FS_CardinalityType
  <2>3. Sums(s)[n] = Sums(s)[n - 1] + s[n] /\ Sums(s)[n - 1] \in Int /\ n \in 0..N
    BY <1>1, SumsStep
  <2>4. CASE n \in K
    <3>1. Upto(n) = Upto(n - 1) \cup {n} /\ n \notin Upto(n - 1)
      BY <1>4, <2>4
    <3>2. IsFiniteSet(Upto(n)) /\ Cardinality(Upto(n)) = c + 1
      <4> DEFINE U == Upto(n - 1)
      <4>1. IsFiniteSet(U) /\ n \notin U /\ Upto(n) = U \cup {n} /\ c = Cardinality(U)
        BY <2>1, <3>1
      <4> HIDE DEF U, c
      <4>2. IsFiniteSet(U \cup {n}) /\ Cardinality(U \cup {n}) = Cardinality(U) + 1
        BY <4>1, FS_AddElement
      <4>3. QED
        BY <4>1, <4>2
    <3>3. Sums(s)[n] = c * v + v
      BY <1>1, <2>1, <2>3, <2>4
    <3>4. c * v + v = (c + 1) * v
      <4> HIDE DEF c
      <4>1. QED
        BY <2>2
    <3> HIDE DEF c
    <3>5. QED
      BY <2>3, <3>2, <3>3, <3>4
  <2>5. CASE n \notin K
    <3>1. Upto(n) = Upto(n - 1) /\ s[n] = 0
      BY <1>1, <1>4, <2>5
    <3>2. Sums(s)[n] = Sums(s)[n - 1]
      BY <2>3, <3>1
    <3>3. QED
      BY <2>1, <2>3, <3>1, <3>2
  <2>6. QED
    BY <2>4, <2>5
<1> HIDE DEF T
<1>7. \A n \in 0..N : n \in T
  BY <1>2, <1>5, <1>6, Rounds
<1>8. Upto(N) = K
  BY <1>1 DEF Upto
<1>9. Sums(s)[N] = Cardinality(K) * v
  BY <1>2, <1>7, <1>8 DEF T
<1>10. QED
  BY <1>1, <1>9, SumsStep

(* A sum lies between what the least and the greatest would add up to.     *)
LEMMA TotalBounds ==
    ASSUME NEW s \in Seq(Int), NEW lo \in Int, NEW hi \in Int,
           \A n \in 1..Len(s) : lo <= s[n] /\ s[n] <= hi
    PROVE  Total(s) \in Int /\ lo * Len(s) <= Total(s) /\ Total(s) <= hi * Len(s)
<1> DEFINE N == Len(s)
           low == [n \in 1..N |-> lo]
           high == [n \in 1..N |-> hi]
<1>1. N \in Nat /\ Total(s) \in Int /\ N = Len(s)
  BY SumsRun
<1>2. /\ low \in [1..N -> Int] /\ high \in [1..N -> Int]
      /\ \A n \in 1..N : low[n] = lo /\ high[n] = hi
      /\ DOMAIN low = 1..N /\ DOMAIN high = 1..N
  OBVIOUS
<1> HIDE DEF N, low, high
<1>3. low \in Seq(Int) /\ high \in Seq(Int)
  BY <1>1, <1>2, SeqDef
<1>4. Len(low) = N /\ Len(high) = N
  BY <1>1, <1>2, <1>3, LenProperties
<1>5. Cardinality(1..N) = N
  <2>1. 1 \in Int /\ N \in Int
    BY <1>1
  <2>2. Cardinality(1..N) = IF 1 > N THEN 0 ELSE N - 1 + 1
    BY <2>1, FS_Interval
  <2>3. QED
    BY <1>1, <2>2
<1>6. 1..N \in SUBSET (1..Len(low)) /\ \A n \in 1..Len(low) : low[n] = IF n \in 1..N THEN lo ELSE 0
  BY <1>2, <1>4
<1>7. 1..N \in SUBSET (1..Len(high)) /\ \A n \in 1..Len(high) : high[n] = IF n \in 1..N THEN hi ELSE 0
  BY <1>2, <1>4
<1> DEFINE K == 1..N
<1>8. Total(low) = N * lo
  <2>1. K \in SUBSET (1..Len(low)) /\ (\A n \in 1..Len(low) : low[n] = IF n \in K THEN lo ELSE 0)
    BY <1>6
  <2>2. Cardinality(K) = N
    BY <1>5
  <2> HIDE DEF K
  <2>3. Total(low) = Cardinality(K) * lo
    BY <1>3, <2>1, TotalAtPlaces
  <2>4. QED
    BY <2>2, <2>3
<1>9. Total(high) = N * hi
  <2>1. K \in SUBSET (1..Len(high)) /\ (\A n \in 1..Len(high) : high[n] = IF n \in K THEN hi ELSE 0)
    BY <1>7
  <2>2. Cardinality(K) = N
    BY <1>5
  <2> HIDE DEF K
  <2>3. Total(high) = Cardinality(K) * hi
    BY <1>3, <2>1, TotalAtPlaces
  <2>4. QED
    BY <2>2, <2>3
<1>10. Total(low) <= Total(s)
  <2>1. Len(low) = Len(s) /\ \A n \in 1..Len(low) : low[n] <= s[n]
    BY <1>1, <1>2, <1>4
  <2>2. QED
    BY <1>3, <2>1, TotalsCompare
<1>11. Total(s) <= Total(high)
  <2>1. Len(s) = Len(high) /\ \A n \in 1..Len(s) : s[n] <= high[n]
    BY <1>1, <1>2, <1>4
  <2>2. QED
    BY <1>3, <2>1, TotalsCompare
<1>12. N * lo = lo * N /\ N * hi = hi * N
  BY <1>1
<1>13. QED
  BY <1>1, <1>8, <1>9, <1>10, <1>11, <1>12

-----------------------------------------------------------------------------
(* Sums of fractions *)

Fractions == Int \X (Nat \ {0})

LEMMA AddedType ==
    ASSUME NEW x \in Fractions, NEW y \in Fractions
    PROVE  /\ Added(x, y) \in Fractions
           /\ Added(x, y)[1] = x[1] * y[2] + y[1] * x[2] /\ Added(x, y)[2] = x[2] * y[2]
<1>1. /\ x[1] \in Int /\ x[2] \in Nat /\ x[2] >= 1
      /\ y[1] \in Int /\ y[2] \in Nat /\ y[2] >= 1
  BY DEF Fractions
<1>2. \A a \in Int, b \in Int : a * b \in Int
  OBVIOUS
<1>3. \A a \in Nat, b \in Nat : a * b \in Nat /\ (a >= 1 /\ b >= 1 => a * b # 0)
  OBVIOUS
<1>4. x[1] * y[2] \in Int /\ y[1] * x[2] \in Int /\ x[2] * y[2] \in Nat \ {0}
  <2>1. x[2] \in Int /\ y[2] \in Int
    BY <1>1
  <2>2. QED
    BY <1>1, <1>2, <1>3, <2>1
<1>5. QED
  BY <1>4 DEF Added, Fractions

LEMMA FractionSumsRun ==
    ASSUME NEW seq \in Seq(Fractions), NEW N, N = Len(seq)
    PROVE  /\ N \in Nat /\ FractionSums(seq)[0] = <<0, 1>> /\ FractionTotal(seq) = FractionSums(seq)[N]
           /\ FractionTotal(seq) \in Fractions
           /\ \A n \in 1..N : /\ n - 1 \in 0..N /\ n \in 0..N
                              /\ FractionSums(seq)[n - 1] \in Fractions /\ seq[n] \in Fractions
                              /\ FractionSums(seq)[n] = Added(FractionSums(seq)[n - 1], seq[n])
<1> DEFINE Eq(u) == u = [n \in 0..N |-> IF n = 0 THEN <<0, 1>> ELSE Added(u[n - 1], seq[n])]
           step == [p \in Fractions \X (1..N) |-> Added(p[1], seq[p[2]])]
<1>1. N \in Nat /\ \A n \in 1..N : seq[n] \in Fractions
  BY LenProperties, ElementOfSeq
<1>2. \A a \in Fractions : \A n \in 1..N : step[<<a, n>>] = Added(a, seq[n])
  OBVIOUS
<1>3. \A a \in Fractions : \A n \in 1..N : Added(a, seq[n]) \in Fractions
  BY <1>1, AddedType
<1> HIDE DEF step
<1>4. PICK f : IsLoop(f, N, Fractions, <<0, 1>>, step)
  <2>1. <<0, 1>> \in Fractions
    BY DEF Fractions
  <2>2. \A a \in Fractions : \A n \in 1..N : step[<<a, n>>] \in Fractions
    BY <1>2, <1>3
  <2>3. \E f : IsLoop(f, N, Fractions, <<0, 1>>, step)
    BY <1>1, <2>1, <2>2, LoopExists
  <2>4. QED
    BY <2>3
<1>5. /\ f \in [0..N -> Fractions] /\ f[0] = <<0, 1>>
      /\ \A n \in 1..N : f[n] = step[<<f[n - 1], n>>]
  BY <1>4 DEF IsLoop
<1>6. \A n \in 1..N : n - 1 \in 0..N /\ n \in 0..N /\ n # 0
  BY <1>1
<1>7. \A n \in 1..N : f[n] = Added(f[n - 1], seq[n])
  BY <1>2, <1>5, <1>6
<1>8. Eq(f)
  <2>1. f = [n \in 0..N |-> f[n]]
    BY <1>5
  <2>2. \A n \in 0..N : n # 0 => n \in 1..N
    BY <1>1
  <2>3. \A n \in 0..N : f[n] = IF n = 0 THEN <<0, 1>> ELSE Added(f[n - 1], seq[n])
    BY <1>5, <1>7, <2>2
  <2>4. QED
    BY <2>1, <2>3
<1>9. FractionSums(seq) = CHOOSE u : Eq(u)
  BY DEF FractionSums
<1>10. Eq(FractionSums(seq))
  <2> HIDE DEF Eq
  <2>1. QED
    BY <1>8, <1>9
<1> DEFINE s == FractionSums(seq)
<1>11. s[0] = <<0, 1>> /\ \A n \in 1..N : s[n] = Added(s[n - 1], seq[n])
  BY <1>1, <1>6, <1>10
<1> HIDE DEF s, Eq
<1>12. \A n \in 0..N : s[n] \in Fractions
  <2> DEFINE T == {n \in 0..N : s[n] \in Fractions}
  <2>1. 0 \in T
    <3>1. <<0, 1>> \in Fractions /\ 0 \in 0..N
      BY <1>1 DEF Fractions
    <3>2. QED
      BY <1>11, <3>1
  <2>2. \A n \in 1..N : n - 1 \in T => n \in T
    BY <1>3, <1>6, <1>11
  <2> HIDE DEF T
  <2>3. \A n \in 0..N : n \in T
    BY <1>1, <2>1, <2>2, Rounds
  <2>4. QED
    BY <2>3 DEF T
<1>13. N \in 0..N
  BY <1>1
<1>14. QED
  BY <1>1, <1>6, <1>11, <1>12, <1>13 DEF s, FractionTotal

(* A sum of fractions lies above or below, or at, the sum of integers that *)
(* lie above or below, or at, each of them.                                *)
LEMMA FractionsCompare ==
    ASSUME NEW w \in Seq(Int), NEW x \in Seq(Fractions), Len(w) = Len(x)
    PROVE  /\ (\A n \in 1..Len(x) : w[n] * x[n][2] <= x[n][1])
                 => Total(w) * FractionTotal(x)[2] <= FractionTotal(x)[1]
           /\ (\A n \in 1..Len(x) : x[n][1] <= w[n] * x[n][2])
                 => FractionTotal(x)[1] <= Total(w) * FractionTotal(x)[2]
<1> DEFINE N == Len(x)
           F(n) == FractionSums(x)[n]
           Lo == {n \in 0..N : Sums(w)[n] * F(n)[2] <= F(n)[1]}
           Hi == {n \in 0..N : F(n)[1] <= Sums(w)[n] * F(n)[2]}
<1>1. N = Len(w) /\ N = Len(x)
  OBVIOUS
<1> HIDE DEF N
<1>2. N \in Nat /\ 0 \in 0..N /\ N \in 0..N
  BY <1>1, SumsStep
<1>3. 0 \in Lo /\ 0 \in Hi
  <2>1. Sums(w)[0] = 0
    BY <1>1, SumsStep
  <2>2. F(0) = <<0, 1>>
    BY <1>1, FractionSumsRun
  <2>3. QED
    BY <1>2, <2>1, <2>2
<1>4. ASSUME NEW n \in 1..N
      PROVE  /\ Sums(w)[n - 1] \in Int /\ w[n] \in Int /\ Sums(w)[n] = Sums(w)[n - 1] + w[n]
             /\ F(n - 1)[1] \in Int /\ F(n - 1)[2] \in Nat /\ x[n][1] \in Int /\ x[n][2] \in Nat
             /\ F(n)[1] = F(n - 1)[1] * x[n][2] + x[n][1] * F(n - 1)[2]
             /\ F(n)[2] = F(n - 1)[2] * x[n][2]
             /\ n \in 0..N
  <2>1. Sums(w)[n - 1] \in Int /\ w[n] \in Int /\ Sums(w)[n] = Sums(w)[n - 1] + w[n] /\ n \in 0..N
    BY <1>1, SumsStep
  <2>2. F(n - 1) \in Fractions /\ x[n] \in Fractions /\ F(n) = Added(F(n - 1), x[n])
    BY <1>1, FractionSumsRun
  <2>3. F(n)[1] = F(n - 1)[1] * x[n][2] + x[n][1] * F(n - 1)[2] /\ F(n)[2] = F(n - 1)[2] * x[n][2]
    <3> HIDE DEF F
    <3>1. QED
      BY <2>2, AddedType
  <2>4. \A y \in Fractions : y[1] \in Int /\ y[2] \in Nat
    BY DEF Fractions
  <2> HIDE DEF F
  <2>5. QED
    BY <2>1, <2>2, <2>3, <2>4
<1> HIDE DEF F
<1>5. ASSUME NEW a \in Int, NEW b \in Nat, NEW c \in Int, NEW d \in Nat, NEW s \in Int, NEW v \in Int
      PROVE  /\ s * b <= a /\ v * d <= c => (s + v) * (b * d) <= a * d + c * b
             /\ a <= s * b /\ c <= v * d => a * d + c * b <= (s + v) * (b * d)
  <2>1. (s + v) * (b * d) = (s * b) * d + (v * d) * b
    OBVIOUS
  <2>2. \A p, q \in Int, m \in Nat : p <= q => p * m <= q * m
    OBVIOUS
  <2>3. s * b \in Int /\ v * d \in Int
    OBVIOUS
  <2>4. /\ s * b <= a => (s * b) * d <= a * d
        /\ v * d <= c => (v * d) * b <= c * b
        /\ a <= s * b => a * d <= (s * b) * d
        /\ c <= v * d => c * b <= (v * d) * b
    BY <2>2, <2>3
  <2> DEFINE P == (s * b) * d
             Q == (v * d) * b
             A == a * d
             C == c * b
             L == (s + v) * (b * d)
  <2>5. P \in Int /\ Q \in Int /\ A \in Int /\ C \in Int /\ L = P + Q
    BY <2>1, <2>3
  <2>6. /\ s * b <= a => P <= A
        /\ v * d <= c => Q <= C
        /\ a <= s * b => A <= P
        /\ c <= v * d => C <= Q
    BY <2>4
  <2> HIDE DEF P, Q, A, C, L
  <2>7. /\ s * b <= a /\ v * d <= c => L <= A + C
        /\ a <= s * b /\ c <= v * d => A + C <= L
    BY <2>5, <2>6
  <2>8. QED
    BY <2>7 DEF P, Q, A, C, L
<1>6. ASSUME \A n \in 1..N : w[n] * x[n][2] <= x[n][1]
      PROVE  Total(w) * FractionTotal(x)[2] <= FractionTotal(x)[1]
  <2>1. \A n \in 1..N : n - 1 \in Lo => n \in Lo
    <3> SUFFICES ASSUME NEW n \in 1..N, n - 1 \in Lo PROVE n \in Lo
      OBVIOUS
    <3>1. Sums(w)[n - 1] * F(n - 1)[2] <= F(n - 1)[1]
      OBVIOUS
    <3>2. w[n] * x[n][2] <= x[n][1]
      BY <1>6
    <3>3. (Sums(w)[n - 1] + w[n]) * (F(n - 1)[2] * x[n][2])
              <= F(n - 1)[1] * x[n][2] + x[n][1] * F(n - 1)[2]
      BY <1>4, <1>5, <3>1, <3>2
    <3>4. Sums(w)[n] * F(n)[2] <= F(n)[1] /\ n \in 0..N
      BY <1>4, <3>3
    <3>5. QED
      BY <3>4
  <2> HIDE DEF Lo
  <2>2. \A n \in 0..N : n \in Lo
    BY <1>2, <1>3, <2>1, Rounds
  <2>3. Sums(w)[N] * F(N)[2] <= F(N)[1]
    BY <1>2, <2>2 DEF Lo
  <2>4. Total(w) = Sums(w)[N] /\ FractionTotal(x) = F(N)
    BY <1>1, SumsStep, FractionSumsRun DEF F
  <2>5. QED
    BY <2>3, <2>4
<1>7. ASSUME \A n \in 1..N : x[n][1] <= w[n] * x[n][2]
      PROVE  FractionTotal(x)[1] <= Total(w) * FractionTotal(x)[2]
  <2>1. \A n \in 1..N : n - 1 \in Hi => n \in Hi
    <3> SUFFICES ASSUME NEW n \in 1..N, n - 1 \in Hi PROVE n \in Hi
      OBVIOUS
    <3>1. F(n - 1)[1] <= Sums(w)[n - 1] * F(n - 1)[2]
      OBVIOUS
    <3>2. x[n][1] <= w[n] * x[n][2]
      BY <1>7
    <3>3. F(n - 1)[1] * x[n][2] + x[n][1] * F(n - 1)[2]
              <= (Sums(w)[n - 1] + w[n]) * (F(n - 1)[2] * x[n][2])
      BY <1>4, <1>5, <3>1, <3>2
    <3>4. F(n)[1] <= Sums(w)[n] * F(n)[2] /\ n \in 0..N
      BY <1>4, <3>3
    <3>5. QED
      BY <3>4
  <2> HIDE DEF Hi
  <2>2. \A n \in 0..N : n \in Hi
    BY <1>2, <1>3, <2>1, Rounds
  <2>3. F(N)[1] <= Sums(w)[N] * F(N)[2]
    BY <1>2, <2>2 DEF Hi
  <2>4. Total(w) = Sums(w)[N] /\ FractionTotal(x) = F(N)
    BY <1>1, SumsStep, FractionSumsRun DEF F
  <2>5. QED
    BY <2>3, <2>4
<1>8. QED
  BY <1>1, <1>6, <1>7

-----------------------------------------------------------------------------
(* Slices one after the other *)

(* FlattenSeq goes round its slices, and each round appends one.           *)
LEMMA FlattenRun ==
    ASSUME NEW S, NEW seqs \in Seq(Seq(S))
    PROVE  \E f \in [0..Len(seqs) -> Seq(S)] :
              /\ f[0] = <<>> /\ FlattenSeq(seqs) = f[Len(seqs)]
              /\ \A n \in 1..Len(seqs) : f[n] = f[n - 1] \o seqs[n]
<1> DEFINE N == Len(seqs)
           Q == Seq(S)
           Eq(u) == u = [n \in 1..N |-> IF n = 1 THEN seqs[n] ELSE u[n - 1] \o seqs[n]]
           step == [p \in Q \X (1..N) |-> p[1] \o seqs[p[2]]]
<1>1. N \in Nat /\ \A n \in 1..N : seqs[n] \in Q
  BY LenProperties, ElementOfSeq
<1>2. \A a \in Q, n \in 1..N : step[<<a, n>>] = a \o seqs[n] /\ step[<<a, n>>] \in Q
  BY <1>1, ConcatProperties
<1>3. <<>> \in Q
  OBVIOUS
<1>4. \E f : IsLoop(f, N, Q, <<>>, step)
  <2> HIDE DEF N, Q, step
  <2>1. \A a \in Q : \A n \in 1..N : step[<<a, n>>] \in Q
    BY <1>2
  <2>2. QED
    BY <1>1, <1>3, <2>1, LoopExists
<1>5. PICK f : IsLoop(f, N, Q, <<>>, step)
  BY <1>4
<1>6. f \in [0..N -> Q] /\ f[0] = <<>> /\ \A n \in 1..N : n - 1 \in 0..N /\ f[n] = f[n - 1] \o seqs[n]
  <2>1. f \in [0..N -> Q] /\ f[0] = <<>> /\ \A n \in 1..N : f[n] = step[<<f[n - 1], n>>]
    BY <1>5 DEF IsLoop
  <2>2. \A n \in 1..N : n - 1 \in 0..N
    BY <1>1
  <2>3. \A n \in 1..N : f[n - 1] \in Q
    BY <2>1, <2>2
  <2> HIDE DEF Q, N, step
  <2>4. \A n \in 1..N : step[<<f[n - 1], n>>] = f[n - 1] \o seqs[n]
    BY <1>2, <2>3
  <2>5. QED
    BY <2>1, <2>2, <2>4
<1>7. FlattenSeq(seqs) = f[N]
  <2>1. CASE N = 0
    <3>1. seqs = <<>>
      BY <2>1, EmptySeq
    <3>2. FlattenSeq(seqs) = seqs
      BY <2>1 DEF FlattenSeq
    <3>3. QED
      BY <1>6, <2>1, <3>1, <3>2
  <2>2. CASE N # 0
    <3> DEFINE g == [n \in 1..N |-> f[n]]
    <3>1. N \in 1..N /\ 1 \in 1..N
      BY <1>1, <2>2
    <3>2. f[1] = seqs[1]
      <4>0. 1 - 1 = 0
        OBVIOUS
      <4>1. f[1] = <<>> \o seqs[1]
        BY <1>6, <3>1, <4>0, Zenon
      <4>2. seqs[1] \in Q
        BY <1>1, <3>1
      <4>3. QED
        BY <4>1, <4>2, ConcatEmptySeq
    <3>3. \A n \in 1..N : n # 1 => n - 1 \in 1..N
      BY <1>1
    <3>4. \A n \in 1..N : g[n] = IF n = 1 THEN seqs[n] ELSE g[n - 1] \o seqs[n]
      BY <1>6, <3>2, <3>3
    <3>5. Eq(g)
      <4>1. g = [n \in 1..N |-> g[n]]
        OBVIOUS
      <4> HIDE DEF g
      <4>2. QED
        BY <3>4, <4>1
    <3>6. FlattenSeq(seqs) = (CHOOSE u : Eq(u))[N]
      BY <2>2 DEF FlattenSeq
    <3> DEFINE h == CHOOSE u : Eq(u)
    <3>7. Eq(h)
      <4> HIDE DEF Eq, g
      <4>1. QED
        BY <3>5
    <3>8. DOMAIN h = 1..N /\ \A n \in 1..N : h[n] = IF n = 1 THEN seqs[n] ELSE h[n - 1] \o seqs[n]
      BY <3>7
    <3> HIDE DEF h
    <3> DEFINE T == {n \in 0..N : n # 0 => h[n] = f[n]}
    <3>9. 0 \in T
      BY <1>1
    <3>10. \A n \in 1..N : n - 1 \in T => n \in T
      <4> SUFFICES ASSUME NEW n \in 1..N, n - 1 \in T PROVE h[n] = f[n]
        BY <1>1
      <4>1. CASE n = 1
        BY <3>2, <3>8, <4>1
      <4>2. CASE n # 1
        <5>1. h[n - 1] = f[n - 1]
          BY <1>1, <4>2
        <5>2. QED
          BY <1>6, <3>8, <4>2, <5>1
      <4>3. QED
        BY <4>1, <4>2
    <3> HIDE DEF T
    <3>11. \A n \in 0..N : n \in T
      BY <1>1, <3>9, <3>10, Rounds
    <3>12. h[N] = f[N]
      BY <1>1, <2>2, <3>11 DEF T
    <3>13. QED
      BY <3>6, <3>12 DEF h
  <2>3. QED
    BY <2>1, <2>2
<1>8. QED
  BY <1>6, <1>7

(* Its elements are those of the slices.                                   *)
LEMMA Flattened ==
    ASSUME NEW S, NEW seqs \in Seq(Seq(S))
    PROVE  /\ FlattenSeq(seqs) \in Seq(S)
           /\ \A p \in DOMAIN FlattenSeq(seqs) : \E k \in DOMAIN seqs : \E i \in DOMAIN seqs[k] :
                 FlattenSeq(seqs)[p] = seqs[k][i]
           /\ (\A k, l \in DOMAIN seqs : \A i \in DOMAIN seqs[k], j \in DOMAIN seqs[l] :
                    seqs[k][i] = seqs[l][j] => k = l /\ i = j)
                 => IsInjective(FlattenSeq(seqs))
<1> DEFINE N == Len(seqs)
           Apart == \A k, l \in 1..N : \A i \in DOMAIN seqs[k], j \in DOMAIN seqs[l] :
                       seqs[k][i] = seqs[l][j] => k = l /\ i = j
<1>1. PICK f \in [0..N -> Seq(S)] : /\ f[0] = <<>> /\ FlattenSeq(seqs) = f[N]
                                    /\ \A n \in 1..N : f[n] = f[n - 1] \o seqs[n]
  BY FlattenRun
<1>2. N \in Nat /\ DOMAIN seqs = 1..N /\ N \in 0..N
  BY LenProperties
<1>3. \A n \in 1..N : seqs[n] \in Seq(S) /\ n \in 0..N /\ n - 1 \in 0..N
  BY <1>2, ElementOfSeq
<1> DEFINE Found(n) == \A p \in DOMAIN f[n] : \E k \in 1..n : \E i \in DOMAIN seqs[k] : f[n][p] = seqs[k][i]
           T == {n \in 0..N : Found(n) /\ (Apart => IsInjective(f[n]))}
<1>4. 0 \in T
  <2>1. DOMAIN f[0] = {}
    BY <1>1
  <2>2. QED
    BY <1>2, <2>1 DEF IsInjective
<1>5. ASSUME NEW n \in 1..N, n - 1 \in T PROVE n \in T
  <2> DEFINE a == f[n - 1]
             b == seqs[n]
             c == f[n]
  <2>0. n \in Nat /\ n >= 1
    BY <1>2
  <2>1. a \in Seq(S) /\ b \in Seq(S) /\ c = a \o b
    BY <1>1, <1>3, Zenon
  <2>2. Found(n - 1) /\ (Apart => IsInjective(a))
    BY <1>5
  <2>3. /\ Len(a) \in Nat /\ Len(b) \in Nat /\ Len(c) = Len(a) + Len(b)
        /\ DOMAIN a = 1..Len(a) /\ DOMAIN b = 1..Len(b) /\ DOMAIN c = 1..(Len(a) + Len(b))
        /\ \A p \in 1..(Len(a) + Len(b)) : c[p] = IF p <= Len(a) THEN a[p] ELSE b[p - Len(a)]
    <3> HIDE DEF a, b, c
    <3>1. QED
      BY <2>1, ConcatProperties, LenProperties
  <2>a. \A k : k \in 1..(n - 1) => k \in 1..n /\ k # n /\ k \in 1..N
    BY <1>2, <2>0
  <2>b. n \in 1..n
    BY <2>0
  <2>c. /\ \A p \in DOMAIN a : p \in DOMAIN c /\ c[p] = a[p]
        /\ \A p \in DOMAIN c : p \in DOMAIN a \/ (p - Len(a) \in DOMAIN b /\ c[p] = b[p - Len(a)])
        /\ \A p, q \in DOMAIN c : p - Len(a) = q - Len(a) => p = q
    <3> HIDE DEF a, b, c
    <3>1. QED
      BY <2>3
  <2>4. \A p \in DOMAIN a : p \in DOMAIN c /\ c[p] = a[p]
    BY <2>c
  <2>5. \A p \in DOMAIN c : p \in DOMAIN a \/ (p - Len(a) \in DOMAIN b /\ c[p] = b[p - Len(a)])
    BY <2>c
  <2>6. Found(n)
    <3> SUFFICES ASSUME NEW p \in DOMAIN c
                 PROVE  \E k \in 1..n : \E i \in DOMAIN seqs[k] : c[p] = seqs[k][i]
      OBVIOUS
    <3>1. CASE p \in DOMAIN a
      <4>1. PICK k \in 1..(n - 1) : \E i \in DOMAIN seqs[k] : a[p] = seqs[k][i]
        BY <2>2, <3>1
      <4>2. QED
        BY <2>4, <2>a, <3>1, <4>1
    <3>2. CASE p - Len(a) \in DOMAIN b /\ c[p] = b[p - Len(a)]
      BY <2>b, <3>2
    <3>3. QED
      BY <2>5, <3>1, <3>2
  <2>7. ASSUME Apart PROVE IsInjective(c)
    <3> SUFFICES ASSUME NEW p \in DOMAIN c, NEW q \in DOMAIN c, c[p] = c[q] PROVE p = q
      BY DEF IsInjective
    <3>1. \A x, y \in DOMAIN a : a[x] = a[y] => x = y
      BY <2>2, <2>7 DEF IsInjective
    <3>2. \A x \in DOMAIN a : \A y \in DOMAIN b : a[x] # b[y]
      <4> SUFFICES ASSUME NEW x \in DOMAIN a, NEW y \in DOMAIN b, a[x] = b[y] PROVE FALSE
        OBVIOUS
      <4>1. PICK k \in 1..(n - 1) : \E i \in DOMAIN seqs[k] : a[x] = seqs[k][i]
        BY <2>2
      <4>2. PICK i \in DOMAIN seqs[k] : a[x] = seqs[k][i]
        BY <4>1
      <4>3. seqs[k][i] = seqs[n][y] /\ k \in 1..N /\ k # n
        BY <2>a, <4>2
      <4>4. QED
        BY <2>7, <4>3
    <3>3. \A x, y \in DOMAIN b : b[x] = b[y] => x = y
      BY <2>7
    <3>4. CASE p \in DOMAIN a /\ q \in DOMAIN a
      BY <2>4, <3>1, <3>4
    <3>5. CASE p \in DOMAIN a /\ q \notin DOMAIN a
      BY <2>4, <2>5, <3>2, <3>5
    <3>6. CASE p \notin DOMAIN a /\ q \in DOMAIN a
      BY <2>4, <2>5, <3>2, <3>6
    <3>7. CASE p \notin DOMAIN a /\ q \notin DOMAIN a
      <4>1. p - Len(a) = q - Len(a)
        BY <2>5, <3>3, <3>7
      <4>2. QED
        BY <2>c, <4>1
    <3>8. QED
      BY <3>4, <3>5, <3>6, <3>7
  <2>8. QED
    BY <1>3, <2>6, <2>7
<1> HIDE DEF T
<1>6. \A n \in 0..N : n \in T
  BY <1>2, <1>4, <1>5, Rounds
<1>7. Found(N) /\ (Apart => IsInjective(f[N]))
  BY <1>2, <1>6 DEF T
<1> DEFINE all == FlattenSeq(seqs)
<1>8. all \in Seq(S) /\ all = f[N]
  BY <1>1, <1>2
<1>9. \A p \in DOMAIN all : \E k \in DOMAIN seqs : \E i \in DOMAIN seqs[k] : all[p] = seqs[k][i]
  <2>1. DOMAIN seqs = 1..N
    BY <1>2
  <2>2. \A p \in DOMAIN f[N] : \E k \in 1..N : \E i \in DOMAIN seqs[k] : f[N][p] = seqs[k][i]
    BY <1>7
  <2> HIDE DEF N, all
  <2>3. QED
    BY <1>8, <2>1, <2>2
<1>10. (\A k, l \in DOMAIN seqs : \A i \in DOMAIN seqs[k], j \in DOMAIN seqs[l] :
            seqs[k][i] = seqs[l][j] => k = l /\ i = j) => IsInjective(all)
  <2> SUFFICES ASSUME \A k, l \in DOMAIN seqs : \A i \in DOMAIN seqs[k], j \in DOMAIN seqs[l] :
                         seqs[k][i] = seqs[l][j] => k = l /\ i = j
               PROVE  IsInjective(all)
    OBVIOUS
  <2>1. DOMAIN seqs = 1..N
    BY <1>2
  <2> HIDE DEF N, all, Found
  <2>2. Apart
    BY <2>1
  <2> HIDE DEF Apart
  <2>3. IsInjective(f[N])
    BY <1>7, <2>2
  <2>4. QED
    BY <1>8, <2>3
<1>11. QED
  BY <1>8, <1>9, <1>10

(* More slices make no shorter list. *)
LEMMA FlattenGrows ==
    ASSUME NEW S, NEW seqs \in Seq(Seq(S)), NEW n \in 0..Len(seqs)
    PROVE  /\ FlattenSeq([k \in 1..n |-> seqs[k]]) \in Seq(S)
           /\ Len(FlattenSeq([k \in 1..n |-> seqs[k]])) <= Len(FlattenSeq(seqs))
<1> DEFINE N == Len(seqs)
           t == [k \in 1..n |-> seqs[k]]
<1>1. N \in Nat /\ n \in Nat /\ n <= N /\ \A k \in 1..N : seqs[k] \in Seq(S)
  BY LenProperties, ElementOfSeq
<1>2. t \in [1..n -> Seq(S)]
  BY <1>1
<1>3. \A k \in 1..n : t[k] = seqs[k] /\ k \in 1..N /\ k - 1 \in 0..n
  BY <1>1
<1> HIDE DEF t
<1>4. t \in Seq(Seq(S)) /\ Len(t) = n
  BY <1>1, <1>2, ListOf
<1>5. PICK g \in [0..n -> Seq(S)] : /\ g[0] = <<>> /\ FlattenSeq(t) = g[n]
                                    /\ \A k \in 1..n : g[k] = g[k - 1] \o t[k]
  BY <1>4, FlattenRun
<1>6. PICK f \in [0..N -> Seq(S)] : /\ f[0] = <<>> /\ FlattenSeq(seqs) = f[N]
                                    /\ \A k \in 1..N : f[k] = f[k - 1] \o seqs[k]
  BY FlattenRun
<1>7. f[n] = g[n]
  <2> DEFINE T == {k \in 0..n : f[k] = g[k]}
  <2>1. 0 \in T
    BY <1>1, <1>5, <1>6
  <2>2. \A k \in 1..n : k - 1 \in T => k \in T
    <3> SUFFICES ASSUME NEW k \in 1..n, k - 1 \in T PROVE f[k] = g[k]
      BY <1>1
    <3>1. f[k - 1] = g[k - 1]
      OBVIOUS
    <3> HIDE DEF T, N
    <3>2. QED
      BY <1>3, <1>5, <1>6, <3>1, Zenon
  <2> HIDE DEF T
  <2>3. \A k \in 0..n : k \in T
    BY <1>1, <2>1, <2>2, Rounds
  <2>4. n \in 0..n
    BY <1>1
  <2>5. QED
    BY <2>3, <2>4 DEF T
<1>8. Len(f[n]) <= Len(f[N])
  <2> DEFINE T == {k \in 0..N : k >= n => Len(f[n]) <= Len(f[k])}
  <2>a. \A k \in 0..N : f[k] \in Seq(S) /\ Len(f[k]) \in Nat
    BY <1>6, LenProperties
  <2>b. n \in 0..N /\ N \in 0..N /\ 0 \in 0..N
    BY <1>1
  <2>1. 0 \in T
    <3>1. 0 >= n => n = 0
      BY <1>1
    <3>2. Len(f[0]) <= Len(f[0])
      BY <2>a, <2>b
    <3>3. QED
      BY <2>b, <3>1, <3>2
  <2>2. \A k \in 1..N : k - 1 \in T => k \in T
    <3> SUFFICES ASSUME NEW k \in 1..N, k - 1 \in T, k >= n PROVE Len(f[n]) <= Len(f[k])
      BY <1>1
    <3>0. f[k] = f[k - 1] \o seqs[k]
      BY <1>6, Zenon
    <3>1. k \in 0..N /\ k - 1 \in 0..N /\ f[k] = f[k - 1] \o seqs[k]
      <4> HIDE DEF T
      <4>1. k \in 0..N /\ k - 1 \in 0..N
        BY <1>1
      <4>2. QED
        BY <3>0, <4>1
    <3>2. Len(f[k]) = Len(f[k - 1]) + Len(seqs[k]) /\ Len(seqs[k]) \in Nat
      <4>1. f[k - 1] \in Seq(S) /\ seqs[k] \in Seq(S)
        BY <1>1, <2>a, <3>1
      <4>2. Len(f[k - 1] \o seqs[k]) = Len(f[k - 1]) + Len(seqs[k])
        BY <4>1, ConcatProperties
      <4>3. Len(seqs[k]) \in Nat
        BY <4>1, LenProperties
      <4>4. QED
        BY <3>1, <4>2, <4>3
    <3>3. Len(f[k - 1]) \in Nat /\ Len(f[k]) \in Nat /\ Len(f[n]) \in Nat
      BY <2>a, <2>b, <3>1
    <3>4. CASE k = n
      BY <3>3, <3>4
    <3>5. CASE k # n
      <4>1. k - 1 >= n
        BY <1>1, <3>5
      <4>2. Len(f[n]) <= Len(f[k - 1])
        BY <4>1
      <4> HIDE DEF T, N
      <4>3. \A a, b, c, d \in Nat : a <= b /\ d = b + c => a <= d
        OBVIOUS
      <4>4. QED
        BY <3>2, <3>3, <4>2, <4>3
    <3>6. QED
      BY <3>4, <3>5
  <2> HIDE DEF T
  <2>3. \A k \in 0..N : k \in T
    BY <1>1, <2>1, <2>2, Rounds
  <2>4. QED
    BY <1>1, <2>b, <2>3 DEF T
<1>9. n \in 0..n
  BY <1>1
<1>10. FlattenSeq(t) \in Seq(S) /\ Len(FlattenSeq(t)) <= Len(FlattenSeq(seqs))
  BY <1>5, <1>6, <1>7, <1>8, <1>9
<1>11. QED
  BY <1>10 DEF t
=============================================================================
