---------------------------- MODULE Faces_proofs ----------------------------
(***************************************************************************)
(* Proofs about the faces of a picture and of a video.                     *)
(*                                                                         *)
(* Of ImageRuntime, for any number of callers, slots and pictures: every   *)
(* slot is accounted for (SlotsAccounted) and an answer is the caller's    *)
(* own (ResultIsOwn), whatever the order in which the threads of the       *)
(* decode kernel add their candidates (Detected).                          *)
(*                                                                         *)
(* Of VideoTracks, for any video, sampling and gallery: every face is in   *)
(* one tracklet (FacesTrackedOnce) and nobody is seen in two places at     *)
(* once (OnePlaceAtOnce).                                                  *)
(*                                                                         *)
(* Both rest on the first part, about lists: sorting, filtering, and what  *)
(* is computed step by step along one.                                     *)
(***************************************************************************)
EXTENDS ImageRuntime, VideoTracks, FiniteSetTheorems, WellFoundedInduction, TLAPS

-----------------------------------------------------------------------------
(* Lists: positions in order.                                              *)

\* In a strict order of a finite set, each place is somebody's and everybody
\* has one.
LEMMA Places ==
  ASSUME NEW S, IsFiniteSet(S), NEW before \in [S -> SUBSET S],
         \A i \in S : i \notin before[i],
         \A i \in S : \A j \in before[i] : before[j] \subseteq before[i],
         \A i, j \in S : i # j => i \in before[j] \/ j \in before[i]
  PROVE  /\ Cardinality(S) \in Nat
         /\ \A n \in 1..Cardinality(S) : AtPlace(before, n) \in S
         /\ \A i \in S : \E n \in 1..Cardinality(S) : AtPlace(before, n) = i
         /\ \A n, m \in 1..Cardinality(S) :
              n < m => AtPlace(before, n) \in before[AtPlace(before, m)]
<1> DEFINE k == Cardinality(S)
           rank == [i \in S |-> Cardinality(before[i]) + 1]
<1>1. k \in Nat  BY FS_CardinalityType
<1>2. \A i \in S : /\ IsFiniteSet(before[i]) /\ Cardinality(before[i]) \in Nat
                   /\ Cardinality(before[i]) < k
  <2> SUFFICES ASSUME NEW i \in S
               PROVE  /\ IsFiniteSet(before[i]) /\ Cardinality(before[i]) \in Nat
                      /\ Cardinality(before[i]) < k
    OBVIOUS
  <2>1. before[i] \in SUBSET S /\ before[i] # S  OBVIOUS
  <2>2. IsFiniteSet(before[i]) /\ Cardinality(before[i]) <= k
          /\ Cardinality(before[i]) # k  BY <2>1, FS_Subset
  <2>3. Cardinality(before[i]) \in Nat  BY <2>2, FS_CardinalityType
  <2> QED  BY <1>1, <2>2, <2>3
<1>3. ASSUME NEW i \in S, NEW j \in S, j \in before[i]
      PROVE  Cardinality(before[j]) < Cardinality(before[i])
  <2>1. before[j] \in SUBSET before[i] /\ before[j] # before[i]  BY <1>3
  <2>2. IsFiniteSet(before[i])  BY <1>2
  <2>3. Cardinality(before[j]) <= Cardinality(before[i])
          /\ Cardinality(before[j]) # Cardinality(before[i])  BY <2>1, <2>2, FS_Subset
  <2> QED  BY <2>3, <1>2
<1>4. rank \in Injection(S, 1..k)
  <2>1. rank \in [S -> 1..k]  BY <1>1, <1>2
  <2>2. \A i, j \in S : rank[i] = rank[j] => i = j
    <3> SUFFICES ASSUME NEW i \in S, NEW j \in S, rank[i] = rank[j], i # j PROVE FALSE
      OBVIOUS
    <3>1. Cardinality(before[i]) = Cardinality(before[j])  BY <1>2
    <3> QED  BY <3>1, <1>2, <1>3
  <2> HIDE DEF rank, k
  <2> QED  BY <2>1, <2>2 DEF Injection, IsInjective
<1>5. rank \in Surjection(S, 1..k)
  <2>1. IsFiniteSet(1..k) /\ Cardinality(1..k) = k  BY <1>1, FS_Interval
  <2> HIDE DEF rank
  <2> QED  BY <1>4, <2>1, FS_Injection
<1>6. \A n \in 1..k : /\ AtPlace(before, n) \in S
                      /\ Cardinality(before[AtPlace(before, n)]) = n - 1
  <2> SUFFICES ASSUME NEW n \in 1..k
               PROVE  /\ AtPlace(before, n) \in S
                      /\ Cardinality(before[AtPlace(before, n)]) = n - 1
    OBVIOUS
  <2>1. PICK i \in S : rank[i] = n
    <3> HIDE DEF rank, k
    <3> QED  BY <1>5 DEF Surjection
  <2>2. Cardinality(before[i]) = n - 1  BY <2>1, <1>2
  <2>3. DOMAIN before = S  OBVIOUS
  <2>4. \E j \in DOMAIN before : Cardinality(before[j]) = n - 1  BY <2>2, <2>3
  <2> QED  BY <2>3, <2>4 DEF AtPlace
<1>7. \A i \in S : \E n \in 1..k : AtPlace(before, n) = i
  <2> SUFFICES ASSUME NEW i \in S PROVE \E n \in 1..k : AtPlace(before, n) = i  OBVIOUS
  <2> DEFINE j == AtPlace(before, rank[i])
  <2>1. rank[i] \in 1..k  BY <1>1, <1>2
  <2>2. j \in S /\ Cardinality(before[j]) = rank[i] - 1  BY <1>6, <2>1
  <2>3. Cardinality(before[j]) = Cardinality(before[i])  BY <2>2, <1>2
  <2> HIDE DEF j
  <2>4. j = i  BY <2>2, <2>3, <1>2, <1>3
  <2> QED  BY <2>1, <2>4 DEF j
<1>8. \A n, m \in 1..k : n < m => AtPlace(before, n) \in before[AtPlace(before, m)]
  <2> SUFFICES ASSUME NEW n \in 1..k, NEW m \in 1..k, n < m
               PROVE  AtPlace(before, n) \in before[AtPlace(before, m)]
    OBVIOUS
  <2>1. /\ AtPlace(before, n) \in S /\ Cardinality(before[AtPlace(before, n)]) = n - 1
        /\ AtPlace(before, m) \in S /\ Cardinality(before[AtPlace(before, m)]) = m - 1
    BY <1>6
  <2>2. n - 1 < m - 1  OBVIOUS
  <2> HIDE DEF k
  <2>3. AtPlace(before, n) # AtPlace(before, m)  BY <2>1, <2>2
  <2>4. ~(AtPlace(before, m) \in before[AtPlace(before, n)])
    <3> SUFFICES ASSUME AtPlace(before, m) \in before[AtPlace(before, n)] PROVE FALSE  OBVIOUS
    <3>1. m - 1 < n - 1  BY <1>3, <2>1
    <3>2. n \in Nat /\ m \in Nat  BY DEF k
    <3> QED  BY <3>1, <3>2
  <2> QED  BY <2>1, <2>3, <2>4
<1> QED  BY <1>1, <1>6, <1>7, <1>8

\* argsort: the same candidates, the better ones first.
LEMMA Sorted ==
  ASSUME NEW picture, NEW slots \in Seq(Anchors(picture)),
         picture.score \in [Anchors(picture) -> Nat], IsInjective(slots)
  PROVE  LET sorted == Argsort(picture, slots)
         IN  /\ sorted \in Seq(Anchors(picture)) /\ IsInjective(sorted)
             /\ ToSet(sorted) = ToSet(slots)
             /\ \A i, j \in DOMAIN sorted :
                  i < j => picture.score[sorted[i]] >= picture.score[sorted[j]]
<1> DEFINE S == DOMAIN slots
           score(i) == picture.score[slots[i]]
           before == [i \in S |-> {j \in S : score(j) > score(i) \/ (score(j) = score(i) /\ j < i)}]
           sorted == Argsort(picture, slots)
<1>1. S = 1..Len(slots) /\ Len(slots) \in Nat  OBVIOUS
<1>2. IsFiniteSet(S) /\ Cardinality(S) = Len(slots)  BY <1>1, FS_Interval
<1>3. \A i \in S : slots[i] \in Anchors(picture) /\ score(i) \in Nat /\ i \in Nat  BY <1>1
<1>4. sorted = [n \in S |-> slots[AtPlace(before, n)]]  BY DEF Argsort
<1>5. before \in [S -> SUBSET S]  OBVIOUS
<1>6. \A i, j \in S : j \in before[i] <=> score(j) > score(i) \/ (score(j) = score(i) /\ j < i)
  OBVIOUS
<1> HIDE DEF before, S, score, sorted
<1>7. \A i \in S : i \notin before[i]  BY <1>3, <1>6
<1>8. \A i \in S : \A j \in before[i] : before[j] \subseteq before[i]
  <2> SUFFICES ASSUME NEW i \in S, NEW j \in before[i], NEW x \in before[j]
               PROVE  x \in before[i]
    OBVIOUS
  <2>1. j \in S /\ x \in S  BY <1>5
  <2> QED  BY <2>1, <1>3, <1>6
<1>9. \A i, j \in S : i # j => i \in before[j] \/ j \in before[i]  BY <1>3, <1>6
<1>10. /\ \A n \in S : AtPlace(before, n) \in S
       /\ \A i \in S : \E n \in S : AtPlace(before, n) = i
       /\ \A n, m \in S : n < m => AtPlace(before, n) \in before[AtPlace(before, m)]
  <2>1. S = 1..Cardinality(S)  BY <1>1, <1>2
  <2>2. /\ \A n \in 1..Cardinality(S) : AtPlace(before, n) \in S
        /\ \A i \in S : \E n \in 1..Cardinality(S) : AtPlace(before, n) = i
        /\ \A n, m \in 1..Cardinality(S) :
             n < m => AtPlace(before, n) \in before[AtPlace(before, m)]
    BY <1>2, <1>5, <1>7, <1>8, <1>9, Places
  <2> QED  BY <2>1, <2>2
<1>11. sorted \in [S -> Anchors(picture)]  BY <1>3, <1>4, <1>10
<1>12. sorted \in Seq(Anchors(picture)) /\ DOMAIN sorted = S  BY <1>1, <1>11
<1>13. ToSet(sorted) = ToSet(slots)
  <2>1. ToSet(sorted) = {sorted[n] : n \in S}  BY <1>12 DEF ToSet
  <2>2. ToSet(slots) = {slots[i] : i \in S}  BY DEF ToSet, S
  <2>3. \A n \in S : sorted[n] \in ToSet(slots)  BY <1>4, <1>10, <2>2
  <2>4. \A i \in S : slots[i] \in ToSet(sorted)  BY <1>4, <1>10, <2>1
  <2> QED  BY <2>1, <2>2, <2>3, <2>4
<1>14. IsInjective(sorted)
  <2> SUFFICES ASSUME NEW n \in S, NEW m \in S, sorted[n] = sorted[m], n # m PROVE FALSE
    BY <1>12 DEF IsInjective
  <2>1. AtPlace(before, n) = AtPlace(before, m)  BY <1>4, <1>10 DEF IsInjective, S
  <2>2. n < m \/ m < n  BY <1>3
  <2> QED  BY <2>1, <2>2, <1>7, <1>10
<1>15. ASSUME NEW i \in S, NEW j \in S, i < j
       PROVE  picture.score[sorted[i]] >= picture.score[sorted[j]]
  <2> DEFINE a == AtPlace(before, i)   b == AtPlace(before, j)
  <2>1. a \in S /\ b \in S /\ a \in before[b]  BY <1>10, <1>15
  <2>2. score(a) >= score(b)  BY <2>1, <1>3, <1>6
  <2>3. sorted[i] = slots[a] /\ sorted[j] = slots[b]  BY <1>4
  <2> QED  BY <2>2, <2>3 DEF score
<1> QED  BY <1>12, <1>13, <1>14, <1>15 DEF sorted

\* A finite set of numbers has a greatest element: of the sets of what lies
\* above an element, a smallest one is empty.
LEMMA Greatest ==
  ASSUME NEW T \in SUBSET Nat, IsFiniteSet(T), T # {}
  PROVE  \E m \in T : \A n \in T : n <= m
<1> DEFINE Above(m) == {n \in T : m < n}
           Tails == {Above(m) : m \in T}
           R == StrictSubsetOrdering(T)
<1>1. IsWellFoundedOn(R, FiniteSubsetsOf(T))  BY FS_StrictSubsetOrderingWellFounded
<1>2. FiniteSubsetsOf(T) = SUBSET T  BY FS_FiniteSubsetsOfFinite
<1>3. Tails \subseteq SUBSET T /\ Tails # {}  OBVIOUS
<1> HIDE DEF R, Tails
<1>4. PICK U \in Tails : \A V \in Tails : ~(<<V, U>> \in R)
  <2>1. Tails \subseteq FiniteSubsetsOf(T)  BY <1>2, <1>3
  <2> QED  BY <1>1, <1>3, <2>1, WFMin
<1>5. PICK m \in T : U = Above(m)  BY <1>4 DEF Tails
<1>6. Above(m) = {}
  <2> SUFFICES ASSUME NEW n \in T, m < n PROVE FALSE  OBVIOUS
  <2>1. \A q \in T : n < q => m < q  OBVIOUS
  <2>2. Above(n) \subseteq Above(m)  BY <2>1
  <2>3. n \in Above(m) /\ n \notin Above(n)  OBVIOUS
  <2>4. Above(n) \in Tails  BY DEF Tails
  <2>5. <<Above(n), Above(m)>> \in R  BY <2>2, <2>3 DEF R, StrictSubsetOrdering
  <2> QED  BY <2>4, <2>5, <1>4, <1>5
<1> QED  BY <1>6

\* What holds at 0 and is passed on from each number to the next holds up to
\* the last one.
LEMMA Climb ==
  ASSUME NEW len \in Nat, NEW T \in SUBSET (0..len), 0 \in T,
         \A n \in T : n < len => n + 1 \in T
  PROVE  \A n \in 0..len : n \in T
<1> DEFINE Run(m) == \A n \in 0..m : n \in T
           R == {m \in 0..len : Run(m)}
<1>1. R \in SUBSET Nat /\ IsFiniteSet(R)
  <2>1. R \in SUBSET (0..len) /\ 0..len \subseteq Nat  OBVIOUS
  <2>2. IsFiniteSet(0..len)  BY FS_Interval
  <2> HIDE DEF R
  <2> QED  BY <2>1, <2>2, FS_Subset
<1>2. 0 \in R  OBVIOUS
<1>3. PICK m \in R : \A k \in R : k <= m
  <2> HIDE DEF R
  <2> QED  BY <1>1, <1>2, Greatest
<1>4. m \in 0..len /\ Run(m)  BY <1>3
<1>5. ASSUME m < len PROVE FALSE
  <2>1. m \in T /\ m + 1 \in T  BY <1>4, <1>5
  <2>2. Run(m + 1)  BY <1>4, <2>1
  <2>3. m + 1 \in R  BY <1>4, <1>5, <2>2
  <2> QED  BY <1>3, <1>4, <2>3
<1> QED  BY <1>4, <1>5

\* Whatever is computed step by step over the positions of a list exists.
Steps(A, init, len, step) == init \in A /\ len \in Nat /\ step \in [1..len -> [A -> A]]
Course(A, init, len, step, f) ==
  f \in [0..len -> A] /\ f[0] = init /\ \A n \in 1..len : f[n] = step[n][f[n - 1]]

LEMMA Recursion ==
  ASSUME NEW A, NEW init, NEW len, NEW step, Steps(A, init, len, step)
  PROVE  \E f : Course(A, init, len, step, f)
<1> USE DEF Steps
<1> DEFINE Upto(m, f) == f[0] = init /\ \A n \in 1..m : f[n] = step[n][f[n - 1]]
           T == {m \in 0..len : \E f \in [0..len -> A] : Upto(m, f)}
<1>1. 0 \in T
  <2>1. Upto(0, [n \in 0..len |-> init])  OBVIOUS
  <2>2. [n \in 0..len |-> init] \in [0..len -> A]  OBVIOUS
  <2> HIDE DEF Upto
  <2> QED  BY <2>1, <2>2
<1>2. ASSUME NEW m \in T, m < len PROVE m + 1 \in T
  <2>1. m \in 0..len /\ m + 1 \in 1..len /\ m + 1 \in 0..len  BY <1>2
  <2>2. PICK f \in [0..len -> A] : Upto(m, f)  BY <1>2
  <2> DEFINE g == [f EXCEPT ![m + 1] = step[m + 1][f[m]]]
  <2>3. f[m] \in A /\ step[m + 1][f[m]] \in A  BY <2>1
  <2>4. g \in [0..len -> A]  BY <2>3
  <2>5. \A n \in 0..m : g[n] = f[n]  BY <2>1
  <2>6. g[m + 1] = step[m + 1][f[m]]  BY <2>1
  <2> HIDE DEF g
  <2>7. ASSUME NEW n \in 1..(m + 1) PROVE g[n] = step[n][g[n - 1]]
    <3>1. CASE n = m + 1
      <4>1. n - 1 = m /\ m \in 0..m  BY <2>1, <3>1
      <4> QED  BY <3>1, <4>1, <2>5, <2>6
    <3>2. CASE n \in 1..m
      <4>1. n - 1 \in 0..m /\ n \in 0..m  BY <3>2
      <4> QED  BY <3>2, <4>1, <2>2, <2>5
    <3> QED  BY <2>1, <3>1, <3>2
  <2>8. g[0] = init  BY <2>1, <2>2, <2>5
  <2>9. Upto(m + 1, g)  BY <2>7, <2>8
  <2> QED  BY <2>1, <2>4, <2>9
<1>3. T \in SUBSET (0..len)  OBVIOUS
<1>4. len \in T
  <2> HIDE DEF T
  <2>1. \A n \in 0..len : n \in T  BY <1>1, <1>2, <1>3, Climb
  <2>2. len \in 0..len  OBVIOUS
  <2> QED  BY <2>1, <2>2
<1> QED  BY <1>4 DEF Course

\* The sum of a list of integers is one.
LEMMA Totals ==
  ASSUME NEW numbers \in Seq(Int)
  PROVE  Total(numbers) \in Int
<1> DEFINE len == Len(numbers)
           step == [n \in 1..len |-> [a \in Int |-> a + numbers[n]]]
           Sums(sum) == sum = [n \in 0..len |-> IF n = 0 THEN 0 ELSE sum[n - 1] + numbers[n]]
           sum == CHOOSE sum : Sums(sum)
<1>1. len \in Nat /\ \A n \in 1..len : numbers[n] \in Int  OBVIOUS
<1>2. step \in [1..len -> [Int -> Int]]  BY <1>1
<1>3. \A a \in Int, n \in 1..len : step[n][a] = a + numbers[n]  OBVIOUS
<1>4. Total(numbers) = sum[len]  BY DEF Total
<1> HIDE DEF len, step
<1>5. PICK f \in [0..len -> Int] : f[0] = 0 /\ \A n \in 1..len : f[n] = step[n][f[n - 1]]
  <2>1. Steps(Int, 0, len, step)  BY <1>1, <1>2 DEF Steps
  <2>2. PICK f : Course(Int, 0, len, step, f)  BY <2>1, Recursion
  <2> QED  BY <2>2 DEF Course
<1>6. Sums(f)
  <2>1. \A n \in 1..len : f[n - 1] \in Int  BY <1>1
  <2>2. \A n \in 1..len : f[n] = f[n - 1] + numbers[n]  BY <1>3, <1>5, <2>1
  <2>3. \A n \in 0..len : n = 0 \/ n \in 1..len  BY <1>1
  <2>4. \A n \in 0..len : f[n] = IF n = 0 THEN 0 ELSE f[n - 1] + numbers[n]
    BY <1>5, <2>2, <2>3
  <2> QED  BY <2>4
<1>7. Sums(sum)  BY <1>6
<1>8. \A n \in 0..len : sum[n] = IF n = 0 THEN 0 ELSE sum[n - 1] + numbers[n]
  <2> HIDE DEF sum
  <2> QED  BY <1>7
<1> HIDE DEF sum
<1> DEFINE T == {n \in 0..len : sum[n] \in Int}
<1>9. 0 \in T  BY <1>1, <1>8
<1>10. ASSUME NEW n \in T, n < len PROVE n + 1 \in T
  <2>1. n \in 0..len /\ sum[n] \in Int /\ n + 1 \in 1..len /\ (n + 1) - 1 = n
    BY <1>1, <1>10
  <2>2. sum[n + 1] = sum[n] + numbers[n + 1]  BY <2>1, <1>8
  <2> QED  BY <1>1, <2>1, <2>2
<1>11. len \in T
  <2>1. T \in SUBSET (0..len)  OBVIOUS
  <2> HIDE DEF T
  <2>2. \A n \in 0..len : n \in T  BY <1>1, <1>9, <1>10, <2>1, Climb
  <2>3. len \in 0..len  BY <1>1
  <2> QED  BY <2>2, <2>3
<1> QED  BY <1>4, <1>11

\* A list whose n-th element is the p[n]-th of another one, of which all the
\* positions in I are taken, once each.
Chooses(A, s, I, r, p) ==
  /\ r \in Seq(A) /\ Len(r) = Cardinality(I) /\ Cardinality(I) \in Nat
  /\ p \in [1..Cardinality(I) -> I]
  /\ \A n \in 1..Cardinality(I) : r[n] = s[p[n]]
  /\ \A i \in I : \E n \in 1..Cardinality(I) : p[n] = i

\* Picked: the elements at these positions, in their order.
LEMMA Picking ==
  ASSUME NEW A, NEW s \in Seq(A), NEW I \in SUBSET DOMAIN s
  PROVE  \E p : /\ Chooses(A, s, I, Picked(s, I), p)
                /\ \A n, m \in 1..Cardinality(I) : n < m => p[n] < p[m]
<1> DEFINE before == [i \in I |-> {j \in I : j < i}]
           k == Cardinality(I)
           p == [n \in 1..k |-> AtPlace(before, n)]
           r == [n \in 1..k |-> s[AtPlace(before, n)]]
<1>1. DOMAIN s = 1..Len(s) /\ Len(s) \in Nat /\ \A i \in DOMAIN s : s[i] \in A  OBVIOUS
<1>2. I \in SUBSET Nat  BY <1>1
<1>3. IsFiniteSet(I)
  <2>1. IsFiniteSet(DOMAIN s)  BY <1>1, FS_Interval
  <2> QED  BY <2>1, FS_Subset
<1>4. before \in [I -> SUBSET I] /\ \A i, j \in I : j \in before[i] <=> j < i  OBVIOUS
<1>5. Picked(s, I) = r  BY DEF Picked
<1> HIDE DEF before, k
<1>6. /\ \A i \in I : i \notin before[i]
      /\ \A i, j \in I : i # j => i \in before[j] \/ j \in before[i]
  BY <1>2, <1>4
<1>7. \A i \in I : \A j \in before[i] : before[j] \subseteq before[i]
  <2> SUFFICES ASSUME NEW i \in I, NEW j \in before[i], NEW x \in before[j] PROVE x \in before[i]
    OBVIOUS
  <2>1. j \in I /\ x \in I  BY <1>4
  <2> QED  BY <2>1, <1>2, <1>4
<1>8. /\ k \in Nat
      /\ \A n \in 1..k : AtPlace(before, n) \in I
      /\ \A i \in I : \E n \in 1..k : AtPlace(before, n) = i
      /\ \A n, m \in 1..k : n < m => AtPlace(before, n) \in before[AtPlace(before, m)]
  BY <1>3, <1>4, <1>6, <1>7, Places DEF k
<1>9. p \in [1..k -> I] /\ \A n \in 1..k : r[n] = s[p[n]]  BY <1>8
<1>10. r \in Seq(A) /\ Len(r) = k  BY <1>1, <1>8
<1>11. \A n, m \in 1..k : n < m => p[n] < p[m]  BY <1>4, <1>8
<1>12. \A i \in I : \E n \in 1..k : p[n] = i  BY <1>8
<1> HIDE DEF p, r
<1>13. Chooses(A, s, I, r, p)  BY <1>8, <1>9, <1>10, <1>12 DEF Chooses, k
<1> QED  BY <1>5, <1>11, <1>13 DEF k

\* SortedBy: a list of the same elements, by their keys.
LEMMA Sorting ==
  ASSUME NEW A, NEW s \in Seq(A), NEW keys,
         \A i \in DOMAIN s : keys[i][1] \in Int /\ keys[i][2] \in Int
  PROVE  \E p : /\ Chooses(A, s, DOMAIN s, SortedBy(s, keys), p)
                /\ Cardinality(DOMAIN s) = Len(s)
                /\ \A n, m \in 1..Len(s) : n < m => p[n] # p[m] /\ ~Less(keys[p[m]], keys[p[n]])
<1> DEFINE I == DOMAIN s
           Ahead(j, i) == Less(keys[j], keys[i]) \/ (~Less(keys[i], keys[j]) /\ j < i)
           before == [i \in I |-> {j \in I : Ahead(j, i)}]
           k == Len(s)
           p == [n \in 1..k |-> AtPlace(before, n)]
           r == [n \in 1..k |-> s[AtPlace(before, n)]]
<1>1. I = 1..k /\ k \in Nat /\ \A i \in I : s[i] \in A  OBVIOUS
<1>2. IsFiniteSet(I) /\ Cardinality(I) = k  BY <1>1, FS_Interval
<1>3. before \in [I -> SUBSET I] /\ \A i, j \in I : j \in before[i] <=> Ahead(j, i)  OBVIOUS
<1>4. SortedBy(s, keys) = r  BY <1>1 DEF SortedBy
<1>5. \A i \in I : ~Ahead(i, i)  BY <1>1 DEF Less
<1>6. \A i, j \in I : i # j => Ahead(i, j) \/ Ahead(j, i)  BY <1>1 DEF Less
<1>7. \A i, j, x \in I : Ahead(j, i) /\ Ahead(x, j) => Ahead(x, i)
  <2> SUFFICES ASSUME NEW i \in I, NEW j \in I, NEW x \in I, Ahead(j, i), Ahead(x, j)
               PROVE  Ahead(x, i)
    OBVIOUS
  <2> QED  BY <1>1 DEF Less
<1>8. \A i, j \in I : Ahead(j, i) => ~Less(keys[i], keys[j])  BY DEF Less
<1> HIDE DEF before, k, I, Ahead
<1>9. \A i \in I : i \notin before[i]  BY <1>3, <1>5
<1>10. \A i, j \in I : i # j => i \in before[j] \/ j \in before[i]  BY <1>3, <1>6
<1>11. \A i \in I : \A j \in before[i] : before[j] \subseteq before[i]
  <2> SUFFICES ASSUME NEW i \in I, NEW j \in before[i], NEW x \in before[j] PROVE x \in before[i]
    OBVIOUS
  <2>1. j \in I /\ x \in I  BY <1>3
  <2> QED  BY <2>1, <1>3, <1>7
<1>12. /\ \A n \in 1..Cardinality(I) : AtPlace(before, n) \in I
       /\ \A i \in I : \E n \in 1..Cardinality(I) : AtPlace(before, n) = i
       /\ \A n, m \in 1..Cardinality(I) :
            n < m => AtPlace(before, n) \in before[AtPlace(before, m)]
  BY <1>2, <1>3, <1>9, <1>10, <1>11, Places
<1>13. p \in [1..k -> I] /\ \A n \in 1..k : r[n] = s[p[n]]  BY <1>2, <1>12
<1>14. r \in Seq(A) /\ Len(r) = k
  <2>1. \A n \in 1..k : s[AtPlace(before, n)] \in A  BY <1>1, <1>2, <1>12
  <2>2. r \in [1..k -> A] /\ k \in Nat  BY <1>1, <2>1
  <2> HIDE DEF r
  <2> QED  BY <2>2
<1>15. \A i \in I : \E n \in 1..k : p[n] = i  BY <1>2, <1>12
<1>16. ASSUME NEW n \in 1..k, NEW m \in 1..k, n < m
       PROVE  p[n] # p[m] /\ ~Less(keys[p[m]], keys[p[n]])
  <2>1. p[n] \in before[p[m]] /\ p[n] \in I /\ p[m] \in I  BY <1>2, <1>12, <1>13, <1>16
  <2> HIDE DEF p
  <2> QED  BY <2>1, <1>3, <1>8, <1>9
<1> HIDE DEF p, r
<1>17. Chooses(A, s, I, r, p)  BY <1>1, <1>2, <1>13, <1>14, <1>15 DEF Chooses
<1> QED  BY <1>2, <1>4, <1>16, <1>17 DEF I, k

LEMMA Least ==
  ASSUME NEW T \in SUBSET Nat, T # {}
  PROVE  \E m \in T : \A n \in T : m <= n
<1>1. SUFFICES ASSUME ~\E m \in T : \A n \in T : m <= n PROVE FALSE  OBVIOUS
<1>2. PICK b \in T : TRUE  OBVIOUS
<1> DEFINE L == {n \in 0..b : \A k \in T : n <= k}
<1>3. 0 \in L  OBVIOUS
<1>4. ASSUME NEW n \in L, n < b PROVE n + 1 \in L
  <2>1. n \in Nat /\ n + 1 \in 0..b /\ \A k \in T : n <= k  BY <1>4
  <2>2. n \notin T  BY <1>1, <2>1
  <2>3. \A k \in T : n # k /\ k \in Nat  BY <2>2
  <2>4. \A k \in T : n + 1 <= k  BY <2>1, <2>3
  <2> QED  BY <2>1, <2>4
<1>5. \A n \in 0..b : n \in L
  <2>1. b \in Nat /\ L \in SUBSET (0..b)  OBVIOUS
  <2> HIDE DEF L
  <2> QED  BY <1>3, <1>4, <2>1, Climb
<1>6. b \in L  BY <1>5
<1> QED  BY <1>1, <1>2, <1>6

LEMMA ListOf ==
  ASSUME NEW U, NEW n \in Nat, NEW a \in [1..n -> U]
  PROVE  a \in Seq(U) /\ Len(a) = n
  OBVIOUS

Joins(a, b, r) ==
  /\ Len(r) = Len(a) + Len(b) /\ DOMAIN r = 1..(Len(a) + Len(b))
  /\ \A i \in 1..Len(a) : r[i] = a[i]
  /\ \A n \in 1..Len(b) : r[Len(a) + n] = b[n]
LEMMA TwoLists ==
  ASSUME NEW U, NEW a \in Seq(U), NEW b \in Seq(U)
  PROVE  a \o b \in Seq(U) /\ Joins(a, b, a \o b)
  BY DEF Joins

LEMMA JoinedSet ==
  ASSUME NEW U, NEW a \in Seq(U), NEW b \in Seq(U)
  PROVE  a \o b \in Seq(U) /\ ToSet(a \o b) = ToSet(a) \cup ToSet(b)
<1> DEFINE r == a \o b
<1>1. Joins(a, b, r) /\ r \in Seq(U)  BY TwoLists
<1>2. /\ Len(a) \in Nat /\ Len(b) \in Nat
      /\ DOMAIN a = 1..Len(a) /\ DOMAIN b = 1..Len(b)
  OBVIOUS
<1> HIDE DEF r
<1>3. \A i \in DOMAIN r : i \in 1..Len(a) \/ \E n \in 1..Len(b) : i = Len(a) + n
  <2> SUFFICES ASSUME NEW i \in DOMAIN r, i \notin 1..Len(a)
               PROVE  \E n \in 1..Len(b) : i = Len(a) + n
    OBVIOUS
  <2>1. i - Len(a) \in 1..Len(b) /\ i = Len(a) + (i - Len(a))  BY <1>1, <1>2 DEF Joins
  <2> QED  BY <2>1
<1>4. ASSUME NEW i \in DOMAIN r PROVE r[i] \in ToSet(a) \cup ToSet(b)
  <2>1. CASE i \in 1..Len(a)
    <3>1. r[i] = a[i]  BY <1>1, <2>1 DEF Joins
    <3> QED  BY <1>2, <2>1, <3>1 DEF ToSet
  <2>2. CASE \E n \in 1..Len(b) : i = Len(a) + n
    <3>1. \E n \in 1..Len(b) : r[i] = b[n]  BY <1>1, <2>2 DEF Joins
    <3> QED  BY <1>2, <3>1 DEF ToSet
  <2> QED  BY <1>3, <2>1, <2>2
<1>5. \A i \in 1..Len(a) : i \in DOMAIN r  BY <1>1, <1>2 DEF Joins
<1>6. \A n \in 1..Len(b) : Len(a) + n \in DOMAIN r  BY <1>1, <1>2 DEF Joins
<1>7. \A x \in ToSet(a) : x \in ToSet(r)  BY <1>1, <1>2, <1>5 DEF ToSet, Joins
<1>8. \A x \in ToSet(b) : x \in ToSet(r)  BY <1>1, <1>2, <1>6 DEF ToSet, Joins
<1>9. ToSet(r) = {r[i] : i \in DOMAIN r}  BY DEF ToSet
<1> QED  BY <1>1, <1>4, <1>7, <1>8, <1>9 DEF r

LEMMA PickedSet ==
  ASSUME NEW U, NEW s \in Seq(U), NEW I \in SUBSET (1..Len(s))
  PROVE  Picked(s, I) \in Seq(U) /\ \A x \in ToSet(Picked(s, I)) : \E i \in I : x = s[i]
<1>1. I \in SUBSET DOMAIN s  OBVIOUS
<1>2. PICK p : Chooses(U, s, I, Picked(s, I), p)  BY <1>1, Picking
<1> DEFINE r == Picked(s, I)
<1>3. /\ r \in Seq(U) /\ Len(r) = Cardinality(I)
      /\ \A n \in 1..Cardinality(I) : p[n] \in I /\ r[n] = s[p[n]]
  BY <1>2 DEF Chooses
<1> HIDE DEF r
<1>4. DOMAIN r = 1..Cardinality(I)  BY <1>3
<1>5. ToSet(r) = {r[n] : n \in DOMAIN r}  BY DEF ToSet
<1>6. \A x \in ToSet(r) : \E i \in I : x = s[i]
  <2> SUFFICES ASSUME NEW x \in ToSet(r) PROVE \E i \in I : x = s[i]  OBVIOUS
  <2>1. PICK n \in 1..Cardinality(I) : x = r[n]  BY <1>4, <1>5
  <2> QED  BY <1>3, <2>1
<1> QED  BY <1>3, <1>6 DEF r

LEMMA ListSet ==
  ASSUME NEW U, NEW s \in Seq(U)
  PROVE  \A x : x \in ToSet(s) <=> \E i \in 1..Len(s) : x = s[i]
<1>1. DOMAIN s = 1..Len(s)  OBVIOUS
<1> QED  BY <1>1 DEF ToSet

\* nms: the exact scan keeps a set, and only that of which it holds.
Kept(picture, sorted, kept, n) ==
  /\ kept \in SUBSET ToSet(sorted)
  /\ \A i \in 1..n :
       sorted[i] \in kept <=>
         /\ Scanned(picture, sorted[i])
         /\ \A j \in 1 .. (i - 1) :
              sorted[j] \in kept => ~Overlap(picture.box[sorted[i]], picture.box[sorted[j]])

LEMMA Scan ==
  ASSUME NEW picture, NEW sorted \in Seq(Anchors(picture)), IsInjective(sorted)
  PROVE  Kept(picture, sorted, NMS(picture, sorted), Len(sorted))
<1> DEFINE len == Len(sorted)
           T == {n \in 0..len : \E kept : Kept(picture, sorted, kept, n)}
<1>1. len \in Nat /\ DOMAIN sorted = 1..len  OBVIOUS
<1>2. T \in SUBSET Nat /\ IsFiniteSet(T)
  <2>1. T \in SUBSET (0..len) /\ 0..len \subseteq Nat  BY <1>1
  <2>2. IsFiniteSet(0..len)  BY <1>1, FS_Interval
  <2> HIDE DEF T
  <2> QED  BY <2>1, <2>2, FS_Subset
<1>3. 0 \in T
  <2>1. Kept(picture, sorted, {}, 0)  BY DEF Kept
  <2> QED  BY <1>1, <2>1
<1>4. PICK n \in T : \A m \in T : m <= n
  <2> HIDE DEF T
  <2> QED  BY <1>2, <1>3, Greatest
<1>5. PICK kept : Kept(picture, sorted, kept, n)  BY <1>4
<1>6. ASSUME n # len PROVE FALSE
  <2> DEFINE p == n + 1
             free == /\ Scanned(picture, sorted[p])
                     /\ \A j \in 1..n : sorted[j] \in kept =>
                          ~Overlap(picture.box[sorted[p]], picture.box[sorted[j]])
             more == IF free THEN kept \cup {sorted[p]} ELSE kept \ {sorted[p]}
  <2>1. n \in Nat /\ p \in 1..len
    <3>1. n \in 0..len  BY <1>4
    <3>2. len \in Nat  BY <1>1
    <3> HIDE DEF T, len
    <3> QED  BY <3>1, <3>2, <1>6
  <2>2. \A i \in 1..n : sorted[i] # sorted[p] /\ i \in 1..len
    <3>1. \A i \in 1..n : i \in 1..len /\ i # p
      <4> HIDE DEF T, len
      <4> QED  BY <1>1, <2>1
    <3>2. \A i, j \in 1..len : sorted[i] = sorted[j] => i = j  BY <1>1 DEF IsInjective
    <3> HIDE DEF p
    <3> QED  BY <2>1, <3>1, <3>2
  <2>3. \A i \in 1..n : sorted[i] \in more <=> sorted[i] \in kept  BY <2>2
  <2>4. sorted[p] \in more <=> free  OBVIOUS
  <2>5. more \in SUBSET ToSet(sorted)
    <3>1. kept \in SUBSET ToSet(sorted)  BY <1>5 DEF Kept
    <3>2. sorted[p] \in ToSet(sorted)  BY <1>1, <2>1 DEF ToSet
    <3> QED  BY <3>1, <3>2
  <2> HIDE DEF more
  <2>6. ASSUME NEW i \in 1..p
        PROVE  sorted[i] \in more <=>
                 /\ Scanned(picture, sorted[i])
                 /\ \A j \in 1 .. (i - 1) : sorted[j] \in more =>
                      ~Overlap(picture.box[sorted[i]], picture.box[sorted[j]])
    <3>1. \A j \in 1..(i - 1) : j \in 1..n  BY <2>1
    <3>2. CASE i = p
      <4>1. i - 1 = n  BY <2>1, <3>2
      <4> QED  BY <4>1, <2>3, <2>4, <3>2
    <3>3. CASE i # p
      <4>1. i \in 1..n  BY <2>1, <3>3
      <4>2. sorted[i] \in kept <=>
              /\ Scanned(picture, sorted[i])
              /\ \A j \in 1 .. (i - 1) : sorted[j] \in kept =>
                   ~Overlap(picture.box[sorted[i]], picture.box[sorted[j]])
        BY <4>1, <1>5 DEF Kept
      <4> QED  BY <3>1, <4>1, <4>2, <2>3
    <3> QED  BY <3>2, <3>3
  <2>7. Kept(picture, sorted, more, p)  BY <2>5, <2>6 DEF Kept
  <2>8. p \in T  BY <2>1, <2>7
  <2>9. p <= n  BY <2>8, <1>4
  <2> QED  BY <2>1, <2>9
<1>7. Kept(picture, sorted, kept, len)  BY <1>5, <1>6
<1>8. NMS(picture, sorted) = CHOOSE k \in SUBSET ToSet(sorted) : Kept(picture, sorted, k, len)
  BY <1>1 DEF NMS, Kept
<1>9. kept \in SUBSET ToSet(sorted)  BY <1>7 DEF Kept
<1> QED  BY <1>7, <1>8, <1>9

\* compact: what is kept, each once, in the order in which it was sorted.
LEMMA Compacted ==
  ASSUME NEW A, NEW sorted \in Seq(A), IsInjective(sorted), NEW kept \in SUBSET ToSet(sorted)
  PROVE  LET found == Compact(sorted, kept)
         IN  /\ found \in Seq(A) /\ ToSet(found) = kept
             /\ IsInjective(found)
             /\ \A n, m \in DOMAIN found : n < m =>
                  \E i, j \in DOMAIN sorted : /\ i < j
                                             /\ found[n] = sorted[i] /\ found[m] = sorted[j]
<1> DEFINE S == {i \in DOMAIN sorted : sorted[i] \in kept}
           before == [i \in S |-> {j \in S : j < i}]
           k == Cardinality(S)
           found == Compact(sorted, kept)
<1>1. DOMAIN sorted = 1..Len(sorted) /\ Len(sorted) \in Nat  OBVIOUS
<1>2. S \in SUBSET Nat /\ S \in SUBSET DOMAIN sorted  BY <1>1
<1>3. IsFiniteSet(S)
  <2>1. IsFiniteSet(DOMAIN sorted)  BY <1>1, FS_Interval
  <2> HIDE DEF S
  <2> QED  BY <1>2, <2>1, FS_Subset
<1>4. before \in [S -> SUBSET S]  OBVIOUS
<1>5. \A i, j \in S : j \in before[i] <=> j < i  OBVIOUS
<1>6. found = [n \in 1..k |-> sorted[AtPlace(before, n)]]  BY DEF Compact, Picked
<1>7. \A i \in S : sorted[i] \in kept /\ sorted[i] \in A  BY <1>1
<1>8. \A a \in kept : \E i \in S : sorted[i] = a  BY DEF ToSet
<1> HIDE DEF S, before, found
<1>9. \A i \in S : i \notin before[i]  BY <1>2, <1>5
<1>10. \A i \in S : \A j \in before[i] : before[j] \subseteq before[i]
  <2> SUFFICES ASSUME NEW i \in S, NEW j \in before[i], NEW x \in before[j]
               PROVE  x \in before[i]
    OBVIOUS
  <2>1. j \in S /\ x \in S  BY <1>4
  <2> QED  BY <2>1, <1>2, <1>5
<1>11. \A i, j \in S : i # j => i \in before[j] \/ j \in before[i]  BY <1>2, <1>5
<1>12. /\ k \in Nat
       /\ \A n \in 1..k : AtPlace(before, n) \in S
       /\ \A i \in S : \E n \in 1..k : AtPlace(before, n) = i
       /\ \A n, m \in 1..k : n < m => AtPlace(before, n) \in before[AtPlace(before, m)]
  BY <1>3, <1>4, <1>9, <1>10, <1>11, Places
<1> HIDE DEF k
<1>13. found \in Seq(A) /\ DOMAIN found = 1..k  BY <1>6, <1>7, <1>12
<1>14. ToSet(found) = kept
  <2>1. ToSet(found) = {found[n] : n \in 1..k}  BY <1>13 DEF ToSet
  <2>2. \A n \in 1..k : found[n] \in kept  BY <1>6, <1>7, <1>12
  <2>3. \A a \in kept : \E n \in 1..k : found[n] = a  BY <1>6, <1>8, <1>12
  <2> QED  BY <2>1, <2>2, <2>3
<1>15. ASSUME NEW n \in 1..k, NEW m \in 1..k, n < m
       PROVE  \E i, j \in DOMAIN sorted : /\ i < j
                                          /\ found[n] = sorted[i] /\ found[m] = sorted[j]
  <2> DEFINE i == AtPlace(before, n)   j == AtPlace(before, m)
  <2>1. i \in S /\ j \in S /\ i < j  BY <1>5, <1>12, <1>15
  <2>2. found[n] = sorted[i] /\ found[m] = sorted[j]  BY <1>6
  <2> HIDE DEF i, j
  <2> QED  BY <2>1, <2>2, <1>2
<1>16. IsInjective(found)
  <2> SUFFICES ASSUME NEW n \in 1..k, NEW m \in 1..k, n < m, found[n] = found[m] PROVE FALSE
    BY <1>12, <1>13 DEF IsInjective
  <2>1. PICK i, j \in DOMAIN sorted : i < j /\ found[n] = sorted[i] /\ found[m] = sorted[j]
    BY <1>15
  <2>2. i = j  BY <2>1 DEF IsInjective
  <2> QED  BY <1>1, <2>1, <2>2
<1> QED  BY <1>13, <1>14, <1>15, <1>16 DEF found

-----------------------------------------------------------------------------
(* Pictures: the detector.                                                 *)

Pictured(picture) ==
  IsFiniteSet(Anchors(picture)) /\ picture.score \in [Anchors(picture) -> Nat]

\* The candidates that the threads have added when "todo" are left: all the
\* others, unless the buffer is full.
Gathered(picture, todo, cands) ==
  /\ todo \subseteq Decoded(picture)
  /\ cands \in Seq(Anchors(picture)) /\ IsInjective(cands)
  /\ Len(cands) <= MaxCandidates
  /\ ToSet(cands) \subseteq Decoded(picture) \ todo
  /\ Len(cands) < MaxCandidates => ToSet(cands) = Decoded(picture) \ todo

LEMMA GatheredNone ==
  ASSUME NEW picture
  PROVE  Gathered(picture, Decoded(picture), <<>>)
<1>1. <<>> \in Seq(Anchors(picture)) /\ Len(<<>>) = 0 /\ DOMAIN <<>> = {}  OBVIOUS
<1>2. ToSet(<<>>) = {} /\ IsInjective(<<>>)  BY <1>1 DEF ToSet, IsInjective
<1> QED  BY <1>1, <1>2, DetectionAssumption DEF Gathered

LEMMA GatheredNext ==
  ASSUME NEW picture, NEW todo, NEW cands, Gathered(picture, todo, cands), NEW a \in todo
  PROVE  Gathered(picture, todo \ {a}, DecodeThread(cands, a))
<1>1. a \in Decoded(picture) /\ a \in Anchors(picture)  BY DEF Gathered, Decoded
<1>2. cands \in Seq(Anchors(picture)) /\ Len(cands) \in Nat /\ DOMAIN cands = 1..Len(cands)
  BY DEF Gathered
<1>3. CASE Len(cands) < MaxCandidates
  <2> DEFINE more == Append(cands, a)
  <2>1. /\ more \in Seq(Anchors(picture)) /\ Len(more) = Len(cands) + 1
        /\ DOMAIN more = 1..(Len(cands) + 1)
        /\ \A i \in 1..Len(cands) : more[i] = cands[i]
        /\ more[Len(cands) + 1] = a
    BY <1>1, <1>2
  <2>2. ToSet(cands) = Decoded(picture) \ todo  BY <1>3 DEF Gathered
  <2>3. \A i \in 1..Len(cands) : cands[i] \in ToSet(cands)  BY <1>2 DEF ToSet
  <2>4. \A i \in 1..Len(cands) : cands[i] # a  BY <2>2, <2>3
  <2> HIDE DEF more
  <2>5. ToSet(more) = ToSet(cands) \cup {a}
    <3>1. \A x \in ToSet(more) : x \in ToSet(cands) \cup {a}
      <4> SUFFICES ASSUME NEW i \in 1..(Len(cands) + 1) PROVE more[i] \in ToSet(cands) \cup {a}
        BY <2>1 DEF ToSet
      <4>1. i \in 1..Len(cands) \/ i = Len(cands) + 1  BY <1>2
      <4> QED  BY <4>1, <2>1, <2>3
    <3>2. \A i \in 1..Len(cands) : i \in DOMAIN more /\ more[i] = cands[i]  BY <1>2, <2>1
    <3>3. Len(cands) + 1 \in DOMAIN more  BY <1>2, <2>1
    <3>4. \A i \in DOMAIN more : more[i] \in ToSet(more)  BY DEF ToSet
    <3>5. a \in ToSet(more)  BY <2>1, <3>3, <3>4
    <3>6. ToSet(cands) \subseteq ToSet(more)
      <4> SUFFICES ASSUME NEW i \in DOMAIN cands PROVE cands[i] \in ToSet(more)  BY DEF ToSet
      <4> QED  BY <1>2, <3>2, <3>4
    <3> QED  BY <3>1, <3>5, <3>6
  <2>6. IsInjective(more)
    <3> SUFFICES ASSUME NEW i \in 1..(Len(cands) + 1), NEW j \in 1..(Len(cands) + 1),
                        more[i] = more[j]
                 PROVE  i = j
      BY <2>1 DEF IsInjective
    <3>1. \A n \in 1..(Len(cands) + 1) : n \in 1..Len(cands) \/ n = Len(cands) + 1  BY <1>2
    <3>2. \A n, m \in 1..Len(cands) : cands[n] = cands[m] => n = m
      BY <1>2 DEF Gathered, IsInjective
    <3> QED  BY <3>1, <3>2, <2>1, <2>4
  <2>7. ToSet(more) = Decoded(picture) \ (todo \ {a})
    BY <2>2, <2>5, <1>1 DEF Gathered
  <2>8. Len(more) <= MaxCandidates  BY <1>2, <1>3, <2>1, DetectionAssumption
  <2>9. DecodeThread(cands, a) = more  BY <1>3 DEF DecodeThread, more
  <2> QED  BY <2>1, <2>6, <2>7, <2>8, <2>9 DEF Gathered
<1>4. CASE ~(Len(cands) < MaxCandidates)
  <2>1. DecodeThread(cands, a) = cands  BY <1>4 DEF DecodeThread
  <2> QED  BY <1>4, <2>1 DEF Gathered
<1> QED  BY <1>3, <1>4

\* Good detections come out, and of all candidates if they fitted the buffer.
LEMMA Detected ==
  ASSUME NEW picture, Pictured(picture), NEW cands, Gathered(picture, {}, cands)
  PROVE  LET sorted == Argsort(picture, cands)
             found == Compact(sorted, NMS(picture, sorted))
         IN  found \in Seq(Anchors(picture)) /\ GoodDetections(picture, found)
<1> DEFINE sorted == Argsort(picture, cands)
           kept == NMS(picture, sorted)
           found == Compact(sorted, kept)
           score == picture.score
           clash(a, b) == Overlap(picture.box[a], picture.box[b])
<1>1. /\ sorted \in Seq(Anchors(picture)) /\ IsInjective(sorted)
      /\ ToSet(sorted) = ToSet(cands)
      /\ \A i, j \in DOMAIN sorted : i < j => score[sorted[i]] >= score[sorted[j]]
  BY Sorted DEF Gathered, Pictured
<1> HIDE DEF sorted
<1>2. Kept(picture, sorted, kept, Len(sorted))  BY <1>1, Scan
<1>3. kept \in SUBSET ToSet(sorted)  BY <1>2 DEF Kept
<1> HIDE DEF kept
<1>4. /\ found \in Seq(Anchors(picture)) /\ ToSet(found) = kept
      /\ IsInjective(found)
      /\ \A n, m \in DOMAIN found : n < m =>
           \E i, j \in DOMAIN sorted : /\ i < j
                                      /\ found[n] = sorted[i] /\ found[m] = sorted[j]
  BY <1>1, <1>3, Compacted
<1> HIDE DEF found
<1>5. DOMAIN sorted = 1..Len(sorted) /\ Len(sorted) \in Nat  BY <1>1
<1>6. \A i \in DOMAIN sorted :
        sorted[i] \in kept <=>
          /\ Scanned(picture, sorted[i])
          /\ \A j \in 1 .. (i - 1) : sorted[j] \in kept => ~clash(sorted[i], sorted[j])
  BY <1>2, <1>5 DEF Kept
<1>7. ToSet(sorted) \subseteq Anchors(picture)  BY <1>1 DEF ToSet
<1>8. \A a \in ToSet(sorted) : \E i \in DOMAIN sorted : sorted[i] = a  BY DEF ToSet
<1>9. kept \subseteq Faces(picture)  BY <1>3, <1>6, <1>7, <1>8 DEF Faces
<1>10. ASSUME NEW n \in DOMAIN found, NEW m \in DOMAIN found, n < m
       PROVE  score[found[n]] >= score[found[m]] /\ ~clash(found[n], found[m])
  <2>1. PICK i, j \in DOMAIN sorted : i < j /\ found[n] = sorted[i] /\ found[m] = sorted[j]
    BY <1>4, <1>10
  <2>2. sorted[i] \in kept /\ sorted[j] \in kept  BY <2>1, <1>4 DEF ToSet
  <2>3. i \in 1..(j - 1)  BY <2>1, <1>5
  <2>4. ~clash(sorted[j], sorted[i])  BY <2>2, <2>3, <1>6
  <2>5. ~clash(sorted[i], sorted[j])  BY <2>4 DEF Overlap
  <2> QED  BY <1>1, <2>1, <2>5
<1>11. ASSUME Cardinality(Decoded(picture)) <= MaxCandidates
       PROVE  ToSet(cands) = Decoded(picture)
  <2>1. CASE Len(cands) < MaxCandidates  BY <2>1 DEF Gathered
  <2>2. CASE ~(Len(cands) < MaxCandidates)
    <3>1. Len(cands) \in Nat /\ DOMAIN cands = 1..Len(cands)  BY DEF Gathered
    <3>2. Len(cands) = MaxCandidates
      <4> DEFINE n == Len(cands)
      <4>1. n <= MaxCandidates /\ MaxCandidates \in Nat
        BY DetectionAssumption DEF Gathered
      <4>2. n \in Nat /\ ~(n < MaxCandidates)  BY <2>2, <3>1
      <4> HIDE DEF n
      <4>3. n = MaxCandidates  BY <4>1, <4>2
      <4> QED  BY <4>3 DEF n
    <3>3. \A i \in 1..Len(cands) : cands[i] \in ToSet(cands)  BY <3>1 DEF ToSet
    <3>4. cands \in [1..Len(cands) -> ToSet(cands)]
      <4>1. cands = [i \in 1..Len(cands) |-> cands[i]]  BY <3>1 DEF Gathered
      <4> QED  BY <3>3, <4>1
    <3>5. cands \in Injection(1..Len(cands), ToSet(cands))
      BY <3>4 DEF Gathered, Injection, IsInjective
    <3>6. cands \in Surjection(1..Len(cands), ToSet(cands))
      BY <3>1, <3>4 DEF ToSet, Surjection
    <3>7. ExistsBijection(1..Len(cands), ToSet(cands))
      BY <3>5, <3>6 DEF ExistsBijection, Bijection
    <3>8. IsFiniteSet(1..Len(cands)) /\ Cardinality(1..Len(cands)) = Len(cands)
      <4> DEFINE n == Len(cands)
      <4>1. 1 \in Int /\ n \in Int /\ n \in Nat  BY <3>1
      <4> HIDE DEF n
      <4>2. IsFiniteSet(1..n) /\ Cardinality(1..n) = n  BY <4>1, FS_Interval
      <4> QED  BY <4>2 DEF n
    <3>9. Cardinality(ToSet(cands)) = MaxCandidates  BY <3>2, <3>7, <3>8, FS_Bijection
    <3>10. IsFiniteSet(Decoded(picture))  BY FS_Subset DEF Decoded, Pictured
    <3>11. ToSet(cands) \in SUBSET Decoded(picture)  BY DEF Gathered
    <3>12. /\ Cardinality(ToSet(cands)) <= Cardinality(Decoded(picture))
           /\ Cardinality(Decoded(picture)) = Cardinality(ToSet(cands))
                => Decoded(picture) = ToSet(cands)
      BY <3>10, <3>11, FS_Subset
    <3>13. Cardinality(Decoded(picture)) \in Nat  BY <3>10, FS_CardinalityType
    <3> QED  BY <1>11, <3>9, <3>12, <3>13, DetectionAssumption
  <2> QED  BY <2>1, <2>2
<1>12. ASSUME Cardinality(Decoded(picture)) <= MaxCandidates,
              NEW a \in Faces(picture) \ kept
       PROVE  \E b \in kept : clash(a, b) /\ score[b] >= score[a]
  <2>1. a \in Decoded(picture)
    <3>1. a \in Anchors(picture) /\ score[a] > ConfThreshold  BY <1>12 DEF Faces, Scanned
    <3>2. score[a] \in Nat  BY <3>1 DEF Pictured
    <3> QED  BY <3>1, <3>2, DetectionAssumption DEF Decoded
  <2>2. PICK i \in DOMAIN sorted : sorted[i] = a  BY <2>1, <1>1, <1>8, <1>11, <1>12
  <2>3. Scanned(picture, sorted[i])  BY <2>2, <1>12 DEF Faces
  <2>4. PICK j \in 1..(i - 1) : sorted[j] \in kept /\ clash(sorted[i], sorted[j])
    BY <1>6, <1>12, <2>2, <2>3
  <2>5. j \in DOMAIN sorted /\ j < i  BY <1>5, <2>4
  <2>6. score[sorted[j]] >= score[sorted[i]]  BY <1>1, <2>5
  <2> QED  BY <2>2, <2>4, <2>6
<1>13. GoodDetections(picture, found)
  BY <1>4, <1>9, <1>10, <1>12 DEF GoodDetections
<1> QED  BY <1>4, <1>13 DEF found, kept, sorted

-----------------------------------------------------------------------------
(* Pictures: the invariant.                                                *)

Seen == UNION {Anchors(Picture[p]) : p \in Faced}
Points == {"idle", "queued", "acquire", "wait", "decode", "threads", "chunk", "copy", "unwind"}
Busy == {"decode", "threads", "chunk", "copy", "unwind"}
Outcomes == {"none", "ok", "failed", "decode failed", "EMPTY_IMAGE", "GPU_OVERLOADED"}
Observations == [index : Nat, face : Seen, from : Pictures \X Seen]
Filled(T, n) == {s \in Seq(T) : Len(s) <= n}
Calls == [at : Points, picture : Pictures, slot : Slots \cup {Nobody},
          todo : SUBSET Seen, cands : Filled(Seen, MaxCandidates), found : Seq(Seen),
          start : Nat, size : Nat, outcome : Outcomes, result : Seq(Observations)]

TypeInv ==
  /\ runtime \in {"absent", "ready", "refused"}
  /\ slot \in [Slots -> {"initialized", "unavailable", "in_use"}]
  /\ gil \in Callers \cup {Nobody}
  /\ call \in [Callers -> Calls]
  /\ host \in [Slots -> Filled(Pictures \X Seen, MaxFaces)]

\* SlotsAccounted, whether the runtime is up or not.
SlotInv ==
  /\ \A c \in Callers : Inferring(c) <=> call[c].slot # Nobody
  /\ \A s \in Slots : slot[s] = "in_use" <=> \E c \in Callers : call[c].slot = s
  /\ \A c, d \in Callers : c # d /\ Inferring(c) /\ Inferring(d) => call[c].slot # call[d].slot

\* The first n observations are those of the first n faces.
Own(r, n) ==
  /\ Len(r.result) = n
  /\ \A i \in 1..n : r.result[i] =
       [index |-> i - 1, face |-> r.found[i], from |-> <<r.picture, r.found[i]>>]

\* A chunk's faces are in the buffers when they are about to be read.
Landed(r, buffer) ==
  LET rest == Len(r.found) - r.start
  IN  /\ r.size = IF rest < MaxFaces THEN rest ELSE MaxFaces
      /\ r.size <= Len(buffer)
      /\ \A i \in 1..r.size : buffer[i] = <<r.picture, r.found[r.start + i]>>

Answer(r) ==
  /\ GoodDetections(Picture[r.picture], [i \in DOMAIN r.result |-> r.result[i].face])
  /\ \A i \in DOMAIN r.result :
       r.result[i].index = i - 1 /\ r.result[i].from = <<r.picture, r.result[i].face>>

\* What is true of a call at each point of it, given the buffers of the slots.
Sound(r, h) ==
  /\ r.at \in {"acquire", "wait"} \cup Busy => r.picture # Empty
  /\ r.at \in {"threads", "chunk", "copy"} => r.picture \in Faced
  /\ r.at \in {"queued", "acquire", "wait", "decode", "threads"} =>
       r.start = 0 /\ r.result = <<>>
  /\ r.at \in {"queued", "acquire", "wait", "decode"} => r.cands = <<>>
  /\ r.at = "threads" => Gathered(Picture[r.picture], r.todo, r.cands)
  /\ r.at \in {"chunk", "copy"} =>
       /\ GoodDetections(Picture[r.picture], r.found)
       /\ r.start < Len(r.found) /\ Own(r, r.start)
  /\ r.at = "copy" => Landed(r, h[r.slot])
  /\ r.at \in {"idle", "unwind"} /\ r.outcome = "ok" => Answer(r)

RuntimeInv ==
  /\ TypeInv
  /\ SlotInv
  /\ \A c \in Callers : Sound(call[c], host)

LEMMA PicturesSeen ==
  ASSUME NEW p \in Faced
  PROVE  Pictured(Picture[p]) /\ Anchors(Picture[p]) \subseteq Seen
BY RuntimeAssumption DEF Pictured, Seen

LEMMA EmptyFilled == ASSUME NEW T, NEW n \in Nat PROVE <<>> \in Filled(T, n)
BY DEF Filled

LEMMA IdleType ==
  ASSUME NEW outcome \in Outcomes, NEW p \in Pictures, NEW result \in Seq(Observations)
  PROVE  Idle(outcome, p, result) \in Calls
<1>1. <<>> \in Filled(Seen, MaxCandidates)  BY EmptyFilled, DetectionAssumption
<1> QED  BY <1>1 DEF Idle, Calls, Points

LEMMA IdleSound ==
  ASSUME NEW outcome, NEW p, NEW result, NEW h,
         outcome = "ok" => Answer(Idle(outcome, p, result))
  PROVE  Sound(Idle(outcome, p, result), h)
<1>1. Idle(outcome, p, result).at = "idle" /\ Idle(outcome, p, result).outcome = outcome
  BY DEF Idle
<1> HIDE DEF Idle
<1> QED  BY <1>1 DEF Sound, Busy

LEMMA InvInit == Init => RuntimeInv
<1> SUFFICES ASSUME Init PROVE RuntimeInv  OBVIOUS
<1> DEFINE none == Idle("none", Empty, <<>>)
<1>1. none \in Calls
  <2>1. "none" \in Outcomes /\ Empty \in Pictures /\ <<>> \in Seq(Observations)
    BY RuntimeAssumption DEF Outcomes
  <2> QED  BY <2>1, IdleType
<1>2. none.at = "idle" /\ none.slot = Nobody  BY DEF Idle
<1>3. \A h : Sound(none, h)  BY IdleSound
<1> HIDE DEF none
<1>4. call = [c \in Callers |-> none]  BY DEF Init, none
<1>5. \A c \in Callers : call[c] = none  BY <1>4
<1>6. TypeInv
  <2>1. <<>> \in Filled(Pictures \X Seen, MaxFaces)  BY EmptyFilled, RuntimeAssumption
  <2> QED  BY <1>1, <1>4, <2>1 DEF Init, TypeInv
<1>7. SlotInv  BY <1>2, <1>5, RuntimeAssumption DEF Init, SlotInv, Inferring
<1>8. \A c \in Callers : Sound(call[c], host)  BY <1>3, <1>5
<1> QED  BY <1>6, <1>7, <1>8 DEF RuntimeInv

\* A step of one call that neither takes a slot nor gives one back.
LEMMA Moves ==
  ASSUME RuntimeInv, NEW c \in Callers, NEW r \in Calls,
         call' = [call EXCEPT ![c] = r], r.slot = call[c].slot,
         r.at \in Busy <=> call[c].at \in Busy,
         UNCHANGED <<runtime, slot, host>>, gil' \in Callers \cup {Nobody},
         Sound(r, host)
  PROVE  RuntimeInv'
<1>1. call' \in [Callers -> Calls] /\ call'[c] = r
        /\ \A d \in Callers \ {c} : call'[d] = call[d]
  BY DEF RuntimeInv, TypeInv
<1>2. TypeInv'  BY <1>1 DEF RuntimeInv, TypeInv
<1>3. \A d \in Callers : /\ call'[d].slot = call[d].slot
                         /\ call'[d].at \in Busy <=> call[d].at \in Busy
  BY <1>1
<1>4. SlotInv'  BY <1>3 DEF RuntimeInv, SlotInv, Inferring, Busy
<1>5. \A d \in Callers : Sound(call'[d], host')  BY <1>1 DEF RuntimeInv
<1> QED  BY <1>2, <1>4, <1>5 DEF RuntimeInv

-----------------------------------------------------------------------------
(* Pictures: the steps.                                                    *)

LEMMA SubmitInv ==
  ASSUME RuntimeInv, NEW c \in Callers, NEW p \in Pictures, Submit(c, p)
  PROVE  RuntimeInv'
<1> DEFINE r == [Idle("none", p, <<>>) EXCEPT !.at = "queued"]
<1>1. Idle("none", p, <<>>) \in Calls
  <2>1. "none" \in Outcomes /\ <<>> \in Seq(Observations)  BY DEF Outcomes
  <2> QED  BY <2>1, IdleType
<1>2. r \in Calls  BY <1>1 DEF Calls, Points
<1>3. /\ r.at = "queued" /\ r.slot = Nobody /\ r.start = 0 /\ r.result = <<>>
      /\ r.cands = <<>>
  BY DEF Idle
<1>4. call[c].at = "idle" /\ call' = [call EXCEPT ![c] = r]
        /\ UNCHANGED <<runtime, slot, gil, host>>
  BY DEF Submit
<1> HIDE DEF r
<1>5. call[c].slot = Nobody  BY <1>4 DEF RuntimeInv, SlotInv, Inferring
<1>6. Sound(r, host)  BY <1>3 DEF Sound, Busy
<1>7. gil' \in Callers \cup {Nobody}  BY <1>4 DEF RuntimeInv, TypeInv
<1> QED  BY <1>2, <1>3, <1>4, <1>5, <1>6, <1>7, Moves DEF Busy

\* A call that ends without an answer, before it has a slot.
LEMMA RefusedInv ==
  ASSUME RuntimeInv, NEW c \in Callers, NEW outcome \in Outcomes, outcome # "ok",
         call[c].at \notin Busy, NEW p \in Pictures,
         call' = [call EXCEPT ![c] = Idle(outcome, p, <<>>)],
         UNCHANGED <<runtime, slot, host>>, gil' \in Callers \cup {Nobody}
  PROVE  RuntimeInv'
<1> DEFINE r == Idle(outcome, p, <<>>)
<1>1. r \in Calls
  <2>1. <<>> \in Seq(Observations)  OBVIOUS
  <2> QED  BY <2>1, IdleType
<1>2. Sound(r, host)  BY IdleSound
<1>3. r.at = "idle" /\ r.slot = Nobody  BY DEF Idle
<1>4. call[c].slot = Nobody  BY DEF RuntimeInv, SlotInv, Inferring, Busy
<1>5. call' = [call EXCEPT ![c] = r]  OBVIOUS
<1> HIDE DEF r
<1> QED  BY <1>1, <1>2, <1>3, <1>4, <1>5, Moves DEF Busy

LEMMA EnterInv ==
  ASSUME RuntimeInv, NEW c \in Callers, Enter(c)
  PROVE  RuntimeInv'
<1>1. call[c].at = "queued" /\ UNCHANGED <<runtime, slot, host>>  BY DEF Enter
<1>2. call[c] \in Calls /\ gil \in Callers \cup {Nobody}  BY DEF RuntimeInv, TypeInv
<1>3. CASE call[c].picture = Empty
  <2>1. call' = [call EXCEPT ![c] = Idle("EMPTY_IMAGE", Empty, <<>>)] /\ gil' = gil
    BY <1>3 DEF Enter
  <2>2. "EMPTY_IMAGE" \in Outcomes /\ Empty \in Pictures /\ call[c].at \notin Busy
    BY <1>1, RuntimeAssumption DEF Outcomes, Busy
  <2> QED  BY <1>1, <1>2, <2>1, <2>2, RefusedInv
<1>4. CASE call[c].picture # Empty
  <2> DEFINE r == [call[c] EXCEPT !.at = "acquire"]
  <2>1. call' = [call EXCEPT ![c] = r] /\ gil' = c  BY <1>4 DEF Enter
  <2>2. r \in Calls  BY <1>2 DEF Calls, Points
  <2>3. r.at = "acquire" /\ r.slot = call[c].slot  BY <1>2 DEF Calls
  <2>4. Sound(r, host)
    <3>1. /\ r.picture = call[c].picture /\ r.start = call[c].start
          /\ r.result = call[c].result /\ r.cands = call[c].cands
      BY <1>2 DEF Calls
    <3>2. Sound(call[c], host)  BY DEF RuntimeInv
    <3> HIDE DEF r
    <3> QED  BY <1>1, <1>4, <2>3, <3>1, <3>2 DEF Sound, Busy
  <2> HIDE DEF r
  <2> QED  BY <1>1, <2>1, <2>2, <2>3, <2>4, Moves DEF Busy
<1> QED  BY <1>3, <1>4

LEMMA AcquireInv ==
  ASSUME RuntimeInv, NEW c \in Callers, Acquire(c)
  PROVE  RuntimeInv'
<1>1. call[c].at \in {"acquire", "wait"} /\ UNCHANGED <<runtime, host>>  BY DEF Acquire
<1>2. call[c] \in Calls /\ gil \in Callers \cup {Nobody}  BY DEF RuntimeInv, TypeInv
<1>3. Sound(call[c], host)  BY DEF RuntimeInv
<1>4. CASE /\ Available = {} /\ call[c].at = "acquire"
           /\ call' = [call EXCEPT ![c].at = "wait"]
           /\ UNCHANGED <<slot, gil>>
  <2> DEFINE r == [call[c] EXCEPT !.at = "wait"]
  <2>1. call' = [call EXCEPT ![c] = r]  BY <1>4
  <2>2. r \in Calls  BY <1>2 DEF Calls, Points
  <2>3. /\ r.at = "wait" /\ r.slot = call[c].slot
        /\ r.picture = call[c].picture /\ r.start = call[c].start
        /\ r.result = call[c].result /\ r.cands = call[c].cands
    BY <1>2 DEF Calls
  <2> HIDE DEF r
  <2>4. Sound(r, host)  BY <1>1, <1>3, <2>3 DEF Sound, Busy
  <2> QED  BY <1>1, <1>2, <1>4, <2>1, <2>2, <2>3, <2>4, Moves DEF Busy
<1>5. ASSUME NEW s \in Available, slot' = Taken(s), gil' = Nobody,
             call' = [call EXCEPT ![c].at = "decode", ![c].slot = s]
      PROVE  RuntimeInv'
  <2> DEFINE r == [call[c] EXCEPT !.at = "decode", !.slot = s]
  <2>1. s \in Slots /\ slot[s] = "initialized"  BY <1>5 DEF Available
  <2>2. call' = [call EXCEPT ![c] = r]  BY <1>5
  <2>3. r \in Calls  BY <1>2, <2>1 DEF Calls, Points
  <2>4. /\ r.at = "decode" /\ r.slot = s
        /\ r.picture = call[c].picture /\ r.start = call[c].start
        /\ r.result = call[c].result /\ r.cands = call[c].cands
    BY <1>2 DEF Calls
  <2> HIDE DEF r
  <2>5. Sound(r, host)  BY <1>1, <1>3, <2>4 DEF Sound, Busy
  <2>6. call' \in [Callers -> Calls] /\ call'[c] = r
          /\ \A d \in Callers \ {c} : call'[d] = call[d]
    BY <2>2, <2>3 DEF RuntimeInv, TypeInv
  <2>7. slot' \in [Slots -> {"initialized", "unavailable", "in_use"}] /\ slot'[s] = "in_use"
          /\ \A t \in Slots \ {s} : slot'[t] = slot[t]
    BY <1>5, <2>1 DEF Taken, RuntimeInv, TypeInv
  <2>8. TypeInv'  BY <1>1, <1>5, <2>6, <2>7 DEF RuntimeInv, TypeInv
  <2>9. \A d \in Callers : call[d].slot # s  BY <2>1 DEF RuntimeInv, SlotInv
  <2>10. call[c].slot = Nobody  BY <1>1 DEF RuntimeInv, SlotInv, Inferring
  <2>11. s # Nobody  BY <2>1, RuntimeAssumption
  <2>12. SlotInv'
    <3>1. \A d \in Callers : Inferring(d)' <=> call'[d].slot # Nobody
      BY <2>4, <2>6, <2>11 DEF RuntimeInv, SlotInv, Inferring
    <3>2. \A t \in Slots : slot'[t] = "in_use" <=> \E d \in Callers : call'[d].slot = t
      <4> SUFFICES ASSUME NEW t \in Slots
                   PROVE  slot'[t] = "in_use" <=> \E d \in Callers : call'[d].slot = t
        OBVIOUS
      <4>1. CASE t = s  BY <4>1, <2>4, <2>6, <2>7
      <4>2. CASE t # s
        <5>1. slot[t] = "in_use" <=> \E d \in Callers : call[d].slot = t
          BY DEF RuntimeInv, SlotInv
        <5>2. t # Nobody  BY RuntimeAssumption
        <5>3. \A d \in Callers : call'[d].slot = t <=> call[d].slot = t
          BY <4>2, <5>2, <2>4, <2>6, <2>10
        <5> QED  BY <4>2, <5>1, <5>3, <2>7
      <4> QED  BY <4>1, <4>2
    <3>3. \A d, e \in Callers : d # e /\ Inferring(d)' /\ Inferring(e)'
                                  => call'[d].slot # call'[e].slot
      BY <2>4, <2>6, <2>9 DEF RuntimeInv, SlotInv, Inferring
    <3> QED  BY <3>1, <3>2, <3>3 DEF SlotInv
  <2>13. \A d \in Callers : Sound(call'[d], host')  BY <1>1, <2>5, <2>6 DEF RuntimeInv
  <2> QED  BY <2>8, <2>12, <2>13 DEF RuntimeInv
<1> QED  BY <1>4, <1>5 DEF Acquire

LEMMA TimeoutInv ==
  ASSUME RuntimeInv, NEW c \in Callers, Timeout(c)
  PROVE  RuntimeInv'
<1>1. call[c].picture \in Pictures  BY DEF RuntimeInv, TypeInv, Calls
<1>2. "GPU_OVERLOADED" \in Outcomes /\ call[c].at \notin Busy  BY DEF Timeout, Outcomes, Busy
<1>3. gil' \in Callers \cup {Nobody} /\ UNCHANGED <<runtime, slot, host>>
        /\ call' = [call EXCEPT ![c] = Idle("GPU_OVERLOADED", call[c].picture, <<>>)]
  BY DEF Timeout
<1> QED  BY <1>1, <1>2, <1>3, RefusedInv

LEMMA UnwindInv ==
  ASSUME RuntimeInv, NEW c \in Callers, Unwind(c)
  PROVE  RuntimeInv'
<1> DEFINE result == IF call[c].outcome = "ok" THEN call[c].result ELSE <<>>
           r == Idle(call[c].outcome, call[c].picture, result)
           s == call[c].slot
<1>1. /\ call[c].at = "unwind" /\ UNCHANGED <<runtime, gil, host>>
      /\ slot' = [slot EXCEPT ![s] = "initialized"]
      /\ call' = [call EXCEPT ![c] = r]
  BY DEF Unwind
<1>2. call[c] \in Calls  BY DEF RuntimeInv, TypeInv
<1>3. r \in Calls
  <2>1. /\ call[c].outcome \in Outcomes /\ call[c].picture \in Pictures
        /\ result \in Seq(Observations)
    BY <1>2 DEF Calls
  <2> HIDE DEF result
  <2> QED  BY <2>1, IdleType
<1>4. Sound(r, host)
  <2>1. call[c].outcome = "ok" => Answer(call[c])
    BY <1>1 DEF RuntimeInv, Sound
  <2>2. call[c].outcome = "ok" => Answer(r)
    <3>1. r.picture = call[c].picture /\ (call[c].outcome = "ok" => r.result = call[c].result)
      BY DEF Idle
    <3> HIDE DEF r
    <3> QED  BY <2>1, <3>1 DEF Answer
  <2> HIDE DEF result
  <2> QED  BY <2>2, IdleSound
<1>5. r.at = "idle" /\ r.slot = Nobody  BY DEF Idle
<1> HIDE DEF r, result
<1>6. s \in Slots  BY <1>1, <1>2 DEF RuntimeInv, SlotInv, Inferring, Calls
<1> HIDE DEF s
<1>7. call' \in [Callers -> Calls] /\ call'[c] = r
        /\ \A d \in Callers \ {c} : call'[d] = call[d]
  BY <1>1, <1>3 DEF RuntimeInv, TypeInv
<1>8. slot' \in [Slots -> {"initialized", "unavailable", "in_use"}] /\ slot'[s] = "initialized"
        /\ \A t \in Slots \ {s} : slot'[t] = slot[t]
  BY <1>1, <1>6 DEF RuntimeInv, TypeInv
<1>9. TypeInv'  BY <1>1, <1>7, <1>8 DEF RuntimeInv, TypeInv
<1>10. \A d \in Callers \ {c} : call[d].slot # s
  <2> SUFFICES ASSUME NEW d \in Callers \ {c}, call[d].slot = s PROVE FALSE  OBVIOUS
  <2>1. s # Nobody  BY <1>6, RuntimeAssumption
  <2>2. Inferring(d) /\ Inferring(c)  BY <2>1, <1>1 DEF RuntimeInv, SlotInv, Inferring
  <2> QED  BY <2>2 DEF RuntimeInv, SlotInv, s
<1>11. SlotInv'
  <2>1. \A d \in Callers : Inferring(d)' <=> call'[d].slot # Nobody
    BY <1>5, <1>7 DEF RuntimeInv, SlotInv, Inferring
  <2>2. \A t \in Slots : slot'[t] = "in_use" <=> \E d \in Callers : call'[d].slot = t
    <3> SUFFICES ASSUME NEW t \in Slots
                 PROVE  slot'[t] = "in_use" <=> \E d \in Callers : call'[d].slot = t
      OBVIOUS
    <3>1. t # Nobody  BY RuntimeAssumption
    <3>2. CASE t = s
      <4>1. \A d \in Callers : call'[d].slot # s  BY <1>5, <1>7, <1>10, <3>1, <3>2
      <4> QED  BY <3>2, <4>1, <1>8
    <3>3. CASE t # s
      <4>1. slot[t] = "in_use" <=> \E d \in Callers : call[d].slot = t
        BY DEF RuntimeInv, SlotInv
      <4>2. \A d \in Callers : call'[d].slot = t <=> call[d].slot = t
        BY <3>1, <3>3, <1>5, <1>7 DEF s
      <4> QED  BY <3>3, <4>1, <4>2, <1>8
    <3> QED  BY <3>2, <3>3
  <2>3. \A d, e \in Callers : d # e /\ Inferring(d)' /\ Inferring(e)'
                                => call'[d].slot # call'[e].slot
    BY <1>5, <1>7 DEF RuntimeInv, SlotInv, Inferring
  <2> QED  BY <2>1, <2>2, <2>3 DEF SlotInv
<1>12. \A d \in Callers : Sound(call'[d], host')  BY <1>1, <1>4, <1>7 DEF RuntimeInv
<1> QED  BY <1>9, <1>11, <1>12 DEF RuntimeInv

LEMMA FailInv ==
  ASSUME RuntimeInv, NEW c \in Callers, call[c].at \in Busy \ {"unwind"},
         NEW outcome \in {"failed", "decode failed"}, Finish(c, outcome),
         UNCHANGED <<runtime, slot, gil, host>>
  PROVE  RuntimeInv'
<1> DEFINE r == [call[c] EXCEPT !.at = "unwind", !.outcome = outcome]
<1>1. call[c] \in Calls /\ gil \in Callers \cup {Nobody}  BY DEF RuntimeInv, TypeInv
<1>2. call' = [call EXCEPT ![c] = r]  BY DEF Finish
<1>3. r \in Calls
  <2>1. outcome \in Outcomes  BY DEF Outcomes
  <2> QED  BY <1>1, <2>1 DEF Calls, Points
<1>4. /\ r.at = "unwind" /\ r.outcome = outcome /\ r.slot = call[c].slot
      /\ r.picture = call[c].picture
  BY <1>1 DEF Calls
<1> HIDE DEF r
<1>5. Sound(r, host)
  <2>1. Sound(call[c], host)  BY DEF RuntimeInv
  <2> QED  BY <2>1, <1>4 DEF Sound, Busy
<1> QED  BY <1>1, <1>2, <1>3, <1>4, <1>5, Moves DEF Busy

LEMMA DecodeInv ==
  ASSUME RuntimeInv, NEW c \in Callers, Decode(c)
  PROVE  RuntimeInv'
<1>1. call[c].at = "decode" /\ UNCHANGED <<runtime, slot, gil, host>>  BY DEF Decode
<1>2. call[c] \in Calls /\ gil \in Callers \cup {Nobody}  BY DEF RuntimeInv, TypeInv
<1>3. CASE call[c].picture \in Corrupt
  <2>1. Finish(c, "decode failed")  BY <1>3 DEF Decode
  <2> QED  BY <1>1, <2>1, FailInv DEF Busy
<1>4. CASE call[c].picture \notin Corrupt
  <2> DEFINE picture == Picture[call[c].picture]
             r == [call[c] EXCEPT !.at = "threads", !.todo = Decoded(picture)]
  <2>1. call' = [call EXCEPT ![c] = r]  BY <1>4 DEF Decode
  <2>2. Sound(call[c], host)  BY DEF RuntimeInv
  <2>3. call[c].picture \in Faced  BY <1>1, <1>2, <1>4, <2>2 DEF Sound, Busy, Faced, Calls
  <2>4. Decoded(picture) \in SUBSET Seen  BY <2>3, PicturesSeen DEF Decoded
  <2>5. /\ r \in Calls /\ r.at = "threads" /\ r.slot = call[c].slot
        /\ r.picture = call[c].picture /\ r.todo = Decoded(picture)
        /\ r.start = call[c].start /\ r.result = call[c].result
        /\ r.cands = call[c].cands
    BY <1>2, <2>4 DEF Calls, Points
  <2>6. Gathered(picture, Decoded(picture), <<>>)  BY GatheredNone
  <2> HIDE DEF r
  <2>7. Sound(r, host)  BY <1>1, <2>2, <2>3, <2>5, <2>6 DEF Sound, Busy, Faced
  <2> QED  BY <1>1, <1>2, <2>1, <2>5, <2>7, Moves DEF Busy
<1> QED  BY <1>3, <1>4

LEMMA ThreadInv ==
  ASSUME RuntimeInv, NEW c \in Callers, NEW a \in call[c].todo, Thread(c, a)
  PROVE  RuntimeInv'
<1> DEFINE picture == Picture[call[c].picture]
           todo == call[c].todo \ {a}
           cands == DecodeThread(call[c].cands, a)
           r == [call[c] EXCEPT !.todo = todo, !.cands = cands]
<1>1. call[c].at = "threads" /\ UNCHANGED <<runtime, slot, gil, host>>  BY DEF Thread
<1>2. call[c] \in Calls /\ gil \in Callers \cup {Nobody}  BY DEF RuntimeInv, TypeInv
<1>3. call' = [call EXCEPT ![c] = r]  BY DEF Thread
<1>4. Sound(call[c], host)  BY DEF RuntimeInv
<1>5. call[c].picture \in Faced  BY <1>1, <1>4 DEF Sound
<1>6. Gathered(picture, todo, cands)
  <2>1. Gathered(picture, call[c].todo, call[c].cands)  BY <1>1, <1>4 DEF Sound
  <2> QED  BY <2>1, GatheredNext
<1>7. todo \in SUBSET Seen /\ cands \in Filled(Seen, MaxCandidates)
  <2>1. Anchors(picture) \subseteq Seen  BY <1>5, PicturesSeen
  <2>2. cands \in Seq(Anchors(picture)) /\ Len(cands) <= MaxCandidates  BY <1>6 DEF Gathered
  <2>3. call[c].todo \in SUBSET Seen  BY <1>2 DEF Calls
  <2> HIDE DEF cands
  <2>4. cands \in Seq(Seen)  BY <2>1, <2>2
  <2> QED  BY <2>2, <2>3, <2>4 DEF Filled
<1> HIDE DEF cands, todo
<1>8. /\ r \in Calls /\ r.at = "threads" /\ r.slot = call[c].slot
      /\ r.picture = call[c].picture /\ r.todo = todo /\ r.cands = cands
      /\ r.start = call[c].start /\ r.result = call[c].result
  BY <1>1, <1>2, <1>7 DEF Calls
<1> HIDE DEF r
<1>9. Sound(r, host)  BY <1>1, <1>4, <1>5, <1>6, <1>8 DEF Sound, Busy
<1> QED  BY <1>1, <1>2, <1>3, <1>8, <1>9, Moves

\* No face is an answer, and the only one without observations.
LEMMA EmptyAnswer ==
  ASSUME NEW r, GoodDetections(Picture[r.picture], <<>>), r.result = <<>>
  PROVE  Answer(r)
<1>1. DOMAIN r.result = {} /\ [i \in DOMAIN r.result |-> r.result[i].face] = <<>>  OBVIOUS
<1> QED  BY <1>1 DEF Answer

LEMMA DetectInv ==
  ASSUME RuntimeInv, NEW c \in Callers, Detect(c)
  PROVE  RuntimeInv'
<1> DEFINE picture == Picture[call[c].picture]
           sorted == Argsort(picture, call[c].cands)
           found == Compact(sorted, NMS(picture, sorted))
           at == IF found = <<>> THEN "unwind" ELSE "chunk"
           outcome == IF found = <<>> THEN "ok" ELSE "none"
           r == [call[c] EXCEPT !.found = found, !.cands = <<>>, !.at = at, !.outcome = outcome]
<1>1. call[c].at = "threads" /\ call[c].todo = {} /\ UNCHANGED <<runtime, slot, gil, host>>
  BY DEF Detect
<1>2. call[c] \in Calls /\ gil \in Callers \cup {Nobody}  BY DEF RuntimeInv, TypeInv
<1>3. call' = [call EXCEPT ![c] = r]  BY DEF Detect
<1>4. Sound(call[c], host)  BY DEF RuntimeInv
<1>5. call[c].picture \in Faced /\ Gathered(picture, {}, call[c].cands)
  BY <1>1, <1>4 DEF Sound
<1>6. found \in Seq(Anchors(picture)) /\ GoodDetections(picture, found)
  BY <1>5, PicturesSeen, Detected
<1>7. found \in Seq(Seen)
  <2>1. Anchors(picture) \subseteq Seen  BY <1>5, PicturesSeen
  <2> HIDE DEF found
  <2> QED  BY <1>6, <2>1
<1> HIDE DEF found, sorted
<1>8. /\ r \in Calls /\ r.at = at /\ r.outcome = outcome /\ r.slot = call[c].slot
      /\ r.picture = call[c].picture /\ r.found = found
      /\ r.start = call[c].start /\ r.result = call[c].result
  <2>1. at \in Points /\ outcome \in Outcomes  BY DEF Points, Outcomes
  <2>2. <<>> \in Filled(Seen, MaxCandidates)  BY EmptyFilled, DetectionAssumption
  <2> HIDE DEF at, outcome
  <2> QED  BY <1>2, <1>7, <2>1, <2>2 DEF Calls
<1> HIDE DEF r
<1>9. r.start = 0 /\ r.result = <<>> /\ r.picture # Empty
  BY <1>1, <1>4, <1>8 DEF Sound, Busy
<1>10. Sound(r, host)
  <2>1. CASE found = <<>>
    <3>1. Answer(r)  BY <2>1, <1>6, <1>8, <1>9, EmptyAnswer
    <3> QED  BY <2>1, <3>1, <1>8, <1>9 DEF Sound, Busy
  <2>2. CASE found # <<>>
    <3>1. Len(found) \in Nat /\ Len(found) # 0  BY <2>2, <1>7
    <3>2. Own(r, 0)  BY <1>9 DEF Own
    <3> QED  BY <2>2, <3>1, <3>2, <1>5, <1>6, <1>8, <1>9 DEF Sound, Busy
  <2> QED  BY <2>1, <2>2
<1>11. r.at \in Busy /\ call[c].at \in Busy  BY <1>1, <1>8 DEF Busy
<1> QED  BY <1>1, <1>2, <1>3, <1>8, <1>10, <1>11, Moves

LEMMA Joined ==
  ASSUME NEW T, NEW s \in Seq(T), NEW t \in Seq(T)
  PROVE  /\ s \o t \in Seq(T) /\ Len(s \o t) = Len(s) + Len(t)
         /\ \A i \in 1..Len(s) : (s \o t)[i] = s[i]
         /\ \A i \in 1..Len(t) : (s \o t)[Len(s) + i] = t[i]
OBVIOUS

LEMMA Overwrites ==
  ASSUME NEW T, NEW n \in Nat, NEW buffer \in Filled(T, n), NEW written \in Filled(T, n)
  PROVE  LET new == Overwritten(buffer, written)
         IN  /\ new \in Filled(T, n) /\ Len(written) <= Len(new)
             /\ \A i \in 1..Len(written) : new[i] = written[i]
<1> DEFINE rest == SubSeq(buffer, Len(written) + 1, Len(buffer))
           w == Len(written)   b == Len(buffer)
<1>1. /\ buffer \in Seq(T) /\ written \in Seq(T)
      /\ w \in Nat /\ b \in Nat /\ w <= n /\ b <= n
  BY DEF Filled
<1>2. rest \in Seq(T)  BY <1>1
<1>3. Len(rest) = IF w < b THEN b - w ELSE 0  BY <1>1
<1> HIDE DEF rest
<1>4. /\ written \o rest \in Seq(T) /\ Len(written \o rest) = w + Len(rest)
      /\ \A i \in 1..w : (written \o rest)[i] = written[i]
  BY <1>1, <1>2, Joined
<1>5. Overwritten(buffer, written) = written \o rest  BY DEF Overwritten, rest
<1> HIDE DEF w, b
<1>6. w <= w + Len(rest) /\ w + Len(rest) <= n  BY <1>1, <1>3
<1> QED  BY <1>4, <1>5, <1>6 DEF Filled, w

\* A chunk is what is left of the faces, up to the recognizer's batch.
LEMMA Chunk ==
  ASSUME RuntimeInv, NEW c \in Callers, call[c].at \in {"chunk", "copy"}
  PROVE  /\ call[c].picture \in Faced
         /\ call[c].found \in Seq(Seen) /\ Len(call[c].found) \in Nat
         /\ call[c].start \in Nat /\ call[c].start < Len(call[c].found)
         /\ ChunkSize(c) \in 1..(Len(call[c].found) - call[c].start)
         /\ ChunkSize(c) <= MaxFaces
         /\ ChunkSize(c) = MaxFaces \/ ChunkSize(c) = Len(call[c].found) - call[c].start
<1> DEFINE n == Len(call[c].found)   start == call[c].start
<1>1. /\ call[c].picture \in Faced
      /\ call[c].found \in Seq(Seen) /\ n \in Nat /\ start \in Nat /\ start < n
  BY DEF RuntimeInv, TypeInv, Calls, Sound
<1>2. ChunkSize(c) = IF n - start < MaxFaces THEN n - start ELSE MaxFaces  BY DEF ChunkSize
<1> HIDE DEF n, start
<1>3. ChunkSize(c) \in 1..(n - start) /\ ChunkSize(c) <= MaxFaces
        /\ (ChunkSize(c) = MaxFaces \/ ChunkSize(c) = n - start)
  BY <1>1, <1>2, RuntimeAssumption
<1> QED  BY <1>1, <1>3 DEF n, start

LEMMA RecognizeInv ==
  ASSUME RuntimeInv, NEW c \in Callers, Recognize(c)
  PROVE  RuntimeInv'
<1> DEFINE s == call[c].slot
           n == ChunkSize(c)
           start == call[c].start
           faces == SubSeq(call[c].found, start + 1, start + n)
           written == [i \in DOMAIN faces |-> <<call[c].picture, faces[i]>>]
           buffer == Overwritten(host[s], written)
           r == [call[c] EXCEPT !.at = "copy", !.size = n]
<1>1. call[c].at = "chunk" /\ UNCHANGED <<runtime, slot, gil>>  BY DEF Recognize
<1>2. call[c] \in Calls /\ gil \in Callers \cup {Nobody}  BY DEF RuntimeInv, TypeInv
<1>3. call' = [call EXCEPT ![c] = r] /\ host' = [host EXCEPT ![s] = buffer]
  BY DEF Recognize
<1>4. Sound(call[c], host)  BY DEF RuntimeInv
<1>5. /\ call[c].picture \in Faced
      /\ call[c].found \in Seq(Seen) /\ Len(call[c].found) \in Nat
      /\ start \in Nat /\ start < Len(call[c].found)
      /\ n \in 1..(Len(call[c].found) - start) /\ n <= MaxFaces /\ n \in Nat
  BY <1>1, Chunk
<1>6. call[c].picture \in Pictures  BY <1>5 DEF Faced
<1>7. n = IF Len(call[c].found) - start < MaxFaces THEN Len(call[c].found) - start ELSE MaxFaces
  BY DEF ChunkSize
<1>8. s \in Slots  BY <1>1, <1>2 DEF RuntimeInv, SlotInv, Inferring, Calls
<1> HIDE DEF n, start, s
<1>9. /\ faces \in Seq(Seen) /\ Len(faces) = n
      /\ \A i \in 1..n : faces[i] = call[c].found[start + i]
  <2> DEFINE found == call[c].found
  <2>1. /\ found \in Seq(Seen) /\ start \in Nat /\ n \in Nat /\ n >= 1
        /\ start + n <= Len(found)
    BY <1>5
  <2> HIDE DEF found
  <2>2. SubSeq(found, start + 1, start + n) \in Seq(Seen)  BY <2>1
  <2>3. Len(SubSeq(found, start + 1, start + n)) = n  BY <2>1
  <2>4. \A i \in 1..n : SubSeq(found, start + 1, start + n)[i] = found[start + i]  BY <2>1
  <2> QED  BY <2>2, <2>3, <2>4 DEF found
<1> HIDE DEF faces
<1>10. /\ written \in Seq(Pictures \X Seen) /\ Len(written) = n
       /\ \A i \in 1..n : written[i] = <<call[c].picture, call[c].found[start + i]>>
  <2>1. DOMAIN faces = 1..n /\ n \in Nat  BY <1>5, <1>9
  <2>2. \A i \in 1..n : <<call[c].picture, faces[i]>> \in Pictures \X Seen
    BY <1>6, <1>9, <2>1
  <2>3. written \in [1..n -> Pictures \X Seen]  BY <2>1, <2>2
  <2> QED  BY <1>9, <2>1, <2>3
<1> HIDE DEF written
<1>11. /\ buffer \in Filled(Pictures \X Seen, MaxFaces) /\ n <= Len(buffer)
       /\ \A i \in 1..n : buffer[i] = <<call[c].picture, call[c].found[start + i]>>
  <2>1. host[s] \in Filled(Pictures \X Seen, MaxFaces)  BY <1>8 DEF RuntimeInv, TypeInv
  <2>2. written \in Filled(Pictures \X Seen, MaxFaces)  BY <1>5, <1>10 DEF Filled
  <2>3. MaxFaces \in Nat  BY RuntimeAssumption
  <2> QED  BY <1>10, <2>1, <2>2, <2>3, Overwrites
<1> HIDE DEF buffer
<1>12. /\ r \in Calls /\ r.at = "copy" /\ r.slot = s /\ r.size = n
       /\ r.picture = call[c].picture /\ r.found = call[c].found
       /\ r.start = start /\ r.result = call[c].result
  <2>1. n \in Nat /\ "copy" \in Points  BY <1>5 DEF Points
  <2> QED  BY <1>2, <2>1 DEF Calls, start, s
<1> HIDE DEF r
<1>13. call' \in [Callers -> Calls] /\ call'[c] = r
         /\ \A d \in Callers \ {c} : call'[d] = call[d]
  BY <1>3, <1>12 DEF RuntimeInv, TypeInv
<1>14. host' \in [Slots -> Filled(Pictures \X Seen, MaxFaces)] /\ host'[s] = buffer
         /\ \A t \in Slots \ {s} : host'[t] = host[t]
  BY <1>3, <1>8, <1>11 DEF RuntimeInv, TypeInv
<1>15. TypeInv'  BY <1>1, <1>13, <1>14 DEF RuntimeInv, TypeInv
<1>16. SlotInv'
  <2>1. \A d \in Callers : call'[d].slot = call[d].slot /\ (Inferring(d)' <=> Inferring(d))
    BY <1>1, <1>12, <1>13 DEF Inferring, s
  <2> QED  BY <2>1, <1>1 DEF RuntimeInv, SlotInv
<1>17. Sound(r, host')
  <2>1. Landed(r, host'[r.slot])  BY <1>7, <1>11, <1>12, <1>14 DEF Landed
  <2>2. Own(r, r.start)  BY <1>1, <1>4, <1>12 DEF Sound, Own, start
  <2> QED  BY <1>1, <1>4, <1>5, <1>12, <2>1, <2>2 DEF Sound, Busy
<1>18. ASSUME NEW d \in Callers \ {c} PROVE Sound(call[d], host')
  <2>1. Sound(call[d], host)  BY DEF RuntimeInv
  <2>2. CASE call[d].at = "copy"
    <3>1. call[d].slot \in Slots /\ call[d].slot # s
      BY <1>1, <2>2 DEF RuntimeInv, TypeInv, SlotInv, Inferring, Calls, s
    <3>2. host'[call[d].slot] = host[call[d].slot]  BY <3>1, <1>14
    <3> QED  BY <2>1, <3>2 DEF Sound
  <2>3. CASE call[d].at # "copy"  BY <2>1, <2>3 DEF Sound
  <2> QED  BY <2>2, <2>3
<1> QED  BY <1>13, <1>15, <1>16, <1>17, <1>18 DEF RuntimeInv

LEMMA ObserveInv ==
  ASSUME RuntimeInv, NEW c \in Callers, Observe(c)
  PROVE  RuntimeInv'
<1> DEFINE picture == call[c].picture
           found == call[c].found
           result == call[c].result
           n == call[c].size
           start == call[c].start
           later == start + MaxFaces
           last == later >= Len(found)
           buffer == host[call[c].slot]
           observed == [i \in 1..n |-> Observation(c, i)]
           at == IF last THEN "unwind" ELSE "chunk"
           outcome == IF last THEN "ok" ELSE "none"
           r == [call[c] EXCEPT !.result = result \o observed, !.start = later, !.at = at,
                                !.outcome = outcome]
<1>1. call[c].at = "copy" /\ UNCHANGED <<runtime, slot, gil, host>>  BY DEF Observe
<1>2. call[c] \in Calls /\ gil \in Callers \cup {Nobody}  BY DEF RuntimeInv, TypeInv
<1>3. call' = [call EXCEPT ![c] = r]  BY DEF Observe
<1>4. Sound(call[c], host)  BY DEF RuntimeInv
<1>5. Landed(call[c], buffer) /\ Own(call[c], start)
        /\ GoodDetections(Picture[picture], found)
  BY <1>1, <1>4 DEF Sound
<1>6. n = ChunkSize(c)  BY <1>5 DEF Landed, ChunkSize
<1>7. /\ picture \in Faced /\ found \in Seq(Seen) /\ Len(found) \in Nat
      /\ start \in Nat /\ start < Len(found)
      /\ n \in 1..(Len(found) - start) /\ n <= MaxFaces
      /\ n = MaxFaces \/ n = Len(found) - start
  BY <1>1, <1>6, Chunk
<1>8. picture \in Pictures /\ result \in Seq(Observations)  BY <1>2 DEF Calls
<1>9. /\ Len(result) = start
      /\ \A i \in 1..start : result[i] =
           [index |-> i - 1, face |-> found[i], from |-> <<picture, found[i]>>]
  BY <1>5 DEF Own
<1>10. \A i \in 1..n : Observation(c, i) =
         [index |-> start + i - 1, face |-> found[start + i],
          from |-> <<picture, found[start + i]>>]
  BY <1>5 DEF Landed, Observation
<1> HIDE DEF n, start, found, picture, result, buffer
<1>11. observed \in Seq(Observations) /\ Len(observed) = n
  <2>1. \A i \in 1..n : found[start + i] \in Seen /\ start + i - 1 \in Nat  BY <1>7
  <2>2. \A i \in 1..n : Observation(c, i) \in Observations
    BY <1>8, <1>10, <2>1 DEF Observations
  <2>3. n \in Nat  BY <1>7
  <2> QED  BY <2>2, <2>3
<1>12. \A i \in 1..n : observed[i] =
         [index |-> start + i - 1, face |-> found[start + i],
          from |-> <<picture, found[start + i]>>]
  BY <1>10
<1> HIDE DEF observed
<1> DEFINE all == result \o observed
<1>13. /\ all \in Seq(Observations) /\ Len(all) = start + n
       /\ \A i \in 1..start : all[i] = result[i]
       /\ \A i \in 1..n : all[start + i] = observed[i]
  <2>1. /\ all \in Seq(Observations) /\ Len(all) = Len(result) + Len(observed)
        /\ \A i \in 1..Len(result) : all[i] = result[i]
        /\ \A i \in 1..Len(observed) : all[Len(result) + i] = observed[i]
    <3>1. result \in Seq(Observations) /\ observed \in Seq(Observations)  BY <1>8, <1>11
    <3>2. /\ result \o observed \in Seq(Observations)
          /\ Len(result \o observed) = Len(result) + Len(observed)
          /\ \A i \in 1..Len(result) : (result \o observed)[i] = result[i]
          /\ \A i \in 1..Len(observed) : (result \o observed)[Len(result) + i] = observed[i]
      BY <3>1, Joined
    <3> QED  BY <3>2
  <2> HIDE DEF all
  <2> QED  BY <1>9, <1>11, <2>1
<1> HIDE DEF all
<1>14. \A i \in 1..(start + n) : all[i] =
         [index |-> i - 1, face |-> found[i], from |-> <<picture, found[i]>>]
  <2> SUFFICES ASSUME NEW i \in 1..(start + n)
               PROVE  all[i] = [index |-> i - 1, face |-> found[i], from |-> <<picture, found[i]>>]
    OBVIOUS
  <2>1. CASE i <= start
    <3>1. i \in 1..start  BY <2>1, <1>7
    <3> QED  BY <3>1, <1>9, <1>13
  <2>2. CASE ~(i <= start)
    <3> DEFINE j == i - start
    <3>1. j \in 1..n /\ start + j = i /\ start + j - 1 = i - 1  BY <2>2, <1>7
    <3> HIDE DEF j
    <3>2. all[start + j] = observed[j]  BY <3>1, <1>13
    <3>3. observed[j] = [index |-> start + j - 1, face |-> found[start + j],
                         from |-> <<picture, found[start + j]>>]
      BY <3>1, <1>12
    <3> QED  BY <3>1, <3>2, <3>3
  <2> QED  BY <2>1, <2>2
<1>15. later \in Nat /\ at \in Points /\ outcome \in Outcomes
  BY <1>7, RuntimeAssumption DEF Points, Outcomes
<1>16. IF last THEN start + n = Len(found) ELSE start + n = later /\ later < Len(found)
  BY <1>7, RuntimeAssumption
<1> HIDE DEF later, last
<1>17. /\ r.at = at /\ r.outcome = outcome /\ r.slot = call[c].slot
       /\ r.picture = picture /\ r.found = found /\ r.start = later /\ r.result = all
  BY <1>2 DEF Calls, picture, found, all, result
<1>18. r \in Calls
  <2>1. r = [call[c] EXCEPT !.result = all, !.start = later, !.at = at, !.outcome = outcome]
    BY DEF all
  <2> QED  BY <1>2, <1>13, <1>15, <2>1 DEF Calls
<1> HIDE DEF r
<1>19. Sound(r, host)
  <2>1. r.picture # Empty  BY <1>7, <1>17 DEF Faced
  <2>2. CASE last
    <3>1. at = "unwind" /\ outcome = "ok" /\ DOMAIN all = 1..Len(found)
      BY <1>7, <1>13, <1>16, <2>2
    <3>2. \A i \in 1..Len(found) : all[i] =
            [index |-> i - 1, face |-> found[i], from |-> <<picture, found[i]>>]
      BY <1>14, <1>16, <2>2
    <3>3. [i \in DOMAIN all |-> all[i].face] = found
      <4>1. ASSUME NEW i \in 1..Len(found) PROVE all[i].face = found[i]
        <5>1. all[i] = [index |-> i - 1, face |-> found[i], from |-> <<picture, found[i]>>]
          BY <3>2
        <5> QED  BY <5>1
      <4>2. found = [i \in 1..Len(found) |-> found[i]]  BY <1>7
      <4> QED  BY <3>1, <4>1, <4>2
    <3>4. \A i \in DOMAIN all : all[i].index = i - 1 /\ all[i].from = <<picture, all[i].face>>
      BY <3>2, <3>1
    <3>5. Answer(r)  BY <1>5, <1>17, <3>3, <3>4 DEF Answer, picture, found
    <3> QED  BY <1>17, <2>1, <3>1, <3>5 DEF Sound, Busy
  <2>3. CASE ~last
    <3>1. at = "chunk" /\ outcome = "none"  BY <2>3
    <3>2. Own(r, later)  BY <1>13, <1>14, <1>16, <1>17, <2>3 DEF Own
    <3> QED
      BY <1>5, <1>7, <1>16, <1>17, <2>1, <2>3, <3>1, <3>2 DEF Sound, Busy, picture, found
  <2> QED  BY <2>2, <2>3
<1>20. r.at \in Busy /\ call[c].at \in Busy  BY <1>1, <1>17 DEF Busy
<1> QED  BY <1>1, <1>2, <1>3, <1>17, <1>18, <1>19, <1>20, Moves

-----------------------------------------------------------------------------
LEMMA InvStep == RuntimeInv /\ [Next]_vars => RuntimeInv'
<1> SUFFICES ASSUME RuntimeInv, [Next]_vars PROVE RuntimeInv'  OBVIOUS
<1>1. CASE Construct
  <2>1. runtime' \in {"absent", "ready", "refused"} /\ UNCHANGED <<slot, gil, call, host>>
    BY <1>1 DEF Construct
  <2> QED  BY <2>1 DEF RuntimeInv, TypeInv, SlotInv, Inferring
<1>2. ASSUME NEW c \in Callers, NEW p \in Pictures, Submit(c, p) PROVE RuntimeInv'
  BY <1>2, SubmitInv
<1>3. ASSUME NEW c \in Callers, Step(c) PROVE RuntimeInv'
  <2>1. CASE Enter(c)  BY <2>1, EnterInv
  <2>2. CASE Acquire(c)  BY <2>2, AcquireInv
  <2>3. CASE Timeout(c)  BY <2>3, TimeoutInv
  <2>4. CASE Unwind(c)  BY <2>4, UnwindInv
  <2>5. CASE Decode(c)  BY <2>5, DecodeInv
  <2>6. CASE Detect(c)  BY <2>6, DetectInv
  <2>7. CASE Recognize(c)  BY <2>7, RecognizeInv
  <2>8. CASE Observe(c)  BY <2>8, ObserveInv
  <2>9. CASE \E a \in call[c].todo : Thread(c, a)  BY <2>9, ThreadInv
  <2>10. CASE Fail(c)
    <3>1. call[c].at \in Busy \ {"unwind"} /\ Finish(c, "failed")
            /\ UNCHANGED <<runtime, slot, gil, host>>
      BY <2>10 DEF Fail, Busy
    <3> QED  BY <3>1, FailInv
  <2> QED  BY <1>3, <2>1, <2>2, <2>3, <2>4, <2>5, <2>6, <2>7, <2>8, <2>9, <2>10 DEF Step, Work
<1>4. CASE UNCHANGED vars
  BY <1>4 DEF vars, RuntimeInv, TypeInv, SlotInv, Inferring
<1> QED  BY <1>1, <1>2, <1>3, <1>4 DEF Next

\* The inductive invariant: a slot belongs to the one call that infers on it,
\* and at each call point the buffers of its slot hold what that call's own
\* picture made of them.
THEOREM RuntimeInvariant == Spec => []RuntimeInv
<1> QED  BY InvInit, InvStep, PTL DEF Spec

\* The types of ImageRuntime, and its buffers never hold more than they are
\* allocated for (detector_max_candidates, the recognizer's batch).
THEOREM RuntimeTypeCorrect == Spec => []TypeOK
<1>1. RuntimeInv => TypeOK
  BY DEF RuntimeInv, TypeInv, TypeOK, Calls, Filled, Points
<1> QED  BY <1>1, RuntimeInvariant, PTL

\* Every slot of a runtime that is up is in use exactly while one call infers
\* on it (acquire_slot, slot_guard), for any number of threads and slots.
THEOREM SlotsAreAccounted == Spec => []SlotsAccounted
<1>1. RuntimeInv => SlotsAccounted  BY DEF RuntimeInv, SlotInv, SlotsAccounted
<1> QED  BY <1>1, RuntimeInvariant, PTL

\* Every answer is made of good detections of the caller's own picture, in
\* order, each with its own embedding and crop (ExecutionSlot::infer_jpeg), for
\* any pictures, any order of the kernel's threads and any batch size.
THEOREM ResultsAreOwn == Spec => []ResultIsOwn
<1>1. RuntimeInv => ResultIsOwn  BY DEF RuntimeInv, Sound, Answer, ResultIsOwn
<1> QED  BY <1>1, RuntimeInvariant, PTL

-----------------------------------------------------------------------------
(* Videos: the invariant.                                                  *)

Sightings == [frame : Nat, pts : Int, ordinal : Nat, x : Int, vec : Int, quality : Nat, key : Nat]

Forward(t) == \A i, j \in 1..Len(t) : i < j => t[i].frame < t[j].frame
Tracklets == {t \in Seq(Sightings) : t # <<>> /\ Rising(t) /\ Forward(t)}

\* The frame is not before any face of the tracklet, and after them all if it has one.
Behind(t, f) == End(t) <= f.index /\ (f.faces # <<>> => End(t) < f.index)
Lined(fs) == \A i, j \in 1..Len(fs) :
  i < j => /\ fs[i].index <= fs[j].index
           /\ fs[i].faces # <<>> /\ fs[j].faces # <<>> => fs[i].index < fs[j].index

TrackingInv ==
  /\ video \in Videos /\ next \in Nat \ {0}
  /\ phase \in {"sample", "track", "merge", "resolve", "done", "failed"}
  /\ frames \in Seq(Frames) /\ Lined(frames)
  /\ active \in Seq(Tracklets) /\ closed \in Seq(Tracklets)
  /\ phase = "sample" => next = 1 /\ active = <<>> /\ closed = <<>>
  /\ phase = "track" => /\ next <= Len(frames) + 1
                        /\ \A t \in ToSet(closed) \cup ToSet(active) :
                             \A k \in next..Len(frames) : Behind(t, frames[k])
  /\ phase \notin {"sample", "track"} => active = <<>>

Apart(t, u) == End(t) < First(u) \/ End(u) < First(t)
Parted(parts) == \A k, l \in DOMAIN parts : k # l => Apart(parts[k], parts[l])
CanonicalTracks == {c \in [tracklets : Seq(Tracklets), rep : Int] : Parted(c.tracklets)}
MergeInv ==
  /\ tracks \in Seq(CanonicalTracks)
  /\ phase \in {"sample", "track"} => tracks = <<>>

FacesUpto(n) == 0..(100 + n)
Answers == [face : Nat, new : BOOLEAN]
ResolveInv ==
  /\ outcomes \in Seq(Answers)
  /\ IsFiniteSet(gallery)
  /\ \A p \in gallery : p.face \in FacesUpto(Len(outcomes))
  /\ \A o \in 1..Len(outcomes) : outcomes[o].face \in FacesUpto(Len(outcomes))
  /\ phase \in {"sample", "track", "merge"} => outcomes = <<>>
  /\ phase = "resolve" => next = Len(outcomes) + 1
  /\ Len(outcomes) <= Len(tracks)
TracksInv == TrackingInv /\ MergeInv /\ ResolveInv


-----------------------------------------------------------------------------
(* Videos: sampling.                                                       *)

Distinct(all) ==
  \A i, j \in DOMAIN all :
    i # j /\ all[i].faces # <<>> /\ all[j].faces # <<>> => all[i].index # all[j].index

LEMMA FrameFields ==
  ASSUME NEW f \in Frames
  PROVE  f.index \in Nat /\ f.pts \in Int /\ f.faces \in Seq(Observed)
  BY DEF Frames

LEMMA ReadInOrder ==
  ASSUME video \in Videos
  PROVE  ReadFrames \in Seq(Frames) /\ Distinct(ReadFrames)
<1> DEFINE s == video.frames
           all == Append(s, FooterFrame)
<1>1. s \in Seq(Frames) /\ \A i, j \in 1..Len(s) : i < j => s[i].index < s[j].index
  BY TracksAssumption
<1>2. FooterFrame \in Frames /\ FooterFrame.faces = <<>>
  <2>1. <<>> \in Seq(Observed)  OBVIOUS
  <2> QED  BY <2>1 DEF Frames, FooterFrame
<1>3. \A i \in 1..Len(s) : s[i].index \in Nat  BY <1>1, FrameFields
<1> HIDE DEF s
<1>4. /\ all \in Seq(Frames) /\ DOMAIN all = 1..(Len(s) + 1) /\ Len(s) \in Nat
      /\ \A i \in 1..Len(s) : all[i] = s[i]
      /\ all[Len(s) + 1] = FooterFrame
  <2> HIDE DEF Frames, FooterFrame
  <2> QED  BY <1>1, <1>2
<1> HIDE DEF all
<1>5. Distinct(all)
  <2> SUFFICES ASSUME NEW i \in DOMAIN all, NEW j \in DOMAIN all, i # j,
                      all[i].faces # <<>>, all[j].faces # <<>>
               PROVE  all[i].index # all[j].index
    BY DEF Distinct
  <2>1. i # Len(s) + 1 /\ j # Len(s) + 1  BY <1>2, <1>4
  <2>2. i \in 1..Len(s) /\ j \in 1..Len(s)  BY <1>4, <2>1
  <2>3. i < j \/ j < i  BY <2>2, <1>4
  <2> QED  BY <1>1, <1>3, <1>4, <2>2, <2>3
<1> QED  BY <1>4, <1>5 DEF ReadFrames, all, s

\* _subsample_frames by time: some of the frames.
LEMMA KeptFrames ==
  ASSUME NEW s \in Seq(Frames), NEW fps
  PROVE  KeptByTime(fps, s) \in Seq(Frames)
<1> DEFINE len == Len(s)
           A == Seq(Frames)
           step == [n \in 1..len |-> [k \in A |-> KeepStep(fps, k, s[n])]]
           Keeps(kept) == kept = [n \in 0..len |->
                            IF n = 0 THEN <<>> ELSE KeepStep(fps, kept[n - 1], s[n])]
           kept == CHOOSE kept : Keeps(kept)
<1>1. len \in Nat /\ \A n \in 1..len : s[n] \in Frames  OBVIOUS
<1>2. KeptByTime(fps, s) = kept[len]  BY DEF KeptByTime
<1>3. <<>> \in A  OBVIOUS
<1>4. \A k \in A, n \in 1..len : KeepStep(fps, k, s[n]) \in A
  <2> HIDE DEF len
  <2> SUFFICES ASSUME NEW k \in A, NEW n \in 1..len PROVE KeepStep(fps, k, s[n]) \in A  OBVIOUS
  <2>1. s[n] \in Frames  BY <1>1
  <2>2. Append(k, s[n]) \in A  BY <2>1
  <2> QED  BY <2>2 DEF KeepStep
<1> HIDE DEF len, A
<1>5. step \in [1..len -> [A -> A]]  BY <1>4
<1>6. \A k \in A, n \in 1..len : step[n][k] = KeepStep(fps, k, s[n])  OBVIOUS
<1> HIDE DEF step
<1>7. PICK f : Course(A, <<>>, len, step, f)
  <2>1. Steps(A, <<>>, len, step)  BY <1>1, <1>3, <1>5 DEF Steps
  <2> QED  BY <2>1, Recursion
<1>8. Keeps(f)
  <2>1. f \in [0..len -> A] /\ f[0] = <<>> /\ \A n \in 1..len : f[n] = step[n][f[n - 1]]
    BY <1>7 DEF Course
  <2>2. \A n \in 1..len : f[n - 1] \in A  BY <1>1, <2>1
  <2>3. \A n \in 1..len : f[n] = KeepStep(fps, f[n - 1], s[n])  BY <1>6, <2>1, <2>2
  <2>4. \A n \in 0..len : n = 0 \/ n \in 1..len  BY <1>1
  <2>5. \A n \in 0..len : f[n] = IF n = 0 THEN <<>> ELSE KeepStep(fps, f[n - 1], s[n])
    BY <2>1, <2>3, <2>4
  <2> QED  BY <2>1, <2>5
<1>9. Keeps(kept)  BY <1>8
<1>10. \A n \in 0..len : kept[n] = IF n = 0 THEN <<>> ELSE KeepStep(fps, kept[n - 1], s[n])
  <2> HIDE DEF kept
  <2> QED  BY <1>9
<1> HIDE DEF kept
<1> DEFINE T == {n \in 0..len : kept[n] \in A}
<1>11. 0 \in T  BY <1>1, <1>3, <1>10
<1>12. ASSUME NEW n \in T, n < len PROVE n + 1 \in T
  <2>1. n \in 0..len /\ kept[n] \in A /\ n + 1 \in 1..len /\ n + 1 \in 0..len /\ (n + 1) - 1 = n
    BY <1>1, <1>12
  <2>2. kept[n + 1] = KeepStep(fps, kept[n], s[n + 1])  BY <2>1, <1>10
  <2> QED  BY <1>4, <2>1, <2>2
<1>13. len \in T
  <2>1. T \in SUBSET (0..len)  OBVIOUS
  <2> HIDE DEF T
  <2>2. \A n \in 0..len : n \in T  BY <1>1, <1>11, <1>12, <2>1, Climb
  <2>3. len \in 0..len  BY <1>1
  <2> QED  BY <2>2, <2>3
<1> QED  BY <1>2, <1>13 DEF A

LEMMA RenumberedFrames ==
  ASSUME NEW kept \in Seq(Frames)
  PROVE  Renumbered(kept) \in Seq(Frames) /\ Distinct(Renumbered(kept))
<1> DEFINE r == [i \in 1..Len(kept) |-> [kept[i] EXCEPT !.index = i - 1]]
<1>1. ASSUME NEW i \in 1..Len(kept)
      PROVE  [kept[i] EXCEPT !.index = i - 1] \in Frames
               /\ [kept[i] EXCEPT !.index = i - 1].index = i - 1
  <2>1. kept[i] \in Frames /\ i - 1 \in Nat  OBVIOUS
  <2> DEFINE f == kept[i]  n == i - 1
  <2> HIDE DEF f, n
  <2>2. f \in Frames /\ n \in Nat  BY <2>1 DEF f, n
  <2>3. [f EXCEPT !.index = n] \in Frames /\ [f EXCEPT !.index = n].index = n  BY <2>2 DEF Frames
  <2> QED  BY <2>3 DEF f, n
<1>2. Len(kept) \in Nat  OBVIOUS
<1>3. /\ r \in Seq(Frames) /\ DOMAIN r = 1..Len(kept)
      /\ \A i \in 1..Len(kept) : r[i].index = i - 1
  <2> HIDE DEF Frames
  <2>1. r \in [1..Len(kept) -> Frames]  BY <1>1
  <2>2. \A i \in 1..Len(kept) : r[i].index = i - 1  BY <1>1
  <2> HIDE DEF r
  <2> QED  BY <1>2, <2>1, <2>2
<1> HIDE DEF r
<1>4. Distinct(r)  BY <1>2, <1>3 DEF Distinct
<1> QED  BY <1>3, <1>4 DEF r, Renumbered

LEMMA ByTimeFrames ==
  ASSUME NEW all \in Seq(Frames)
  PROVE  ByTime(all) \in Seq(Frames)
<1> DEFINE keys == [i \in DOMAIN all |-> <<all[i].pts, all[i].index>>]
<1>1. \A i \in DOMAIN all : all[i] \in Frames  OBVIOUS
<1>2. \A i \in DOMAIN all : keys[i][1] \in Int /\ keys[i][2] \in Int  BY <1>1, FrameFields
<1> HIDE DEF keys
<1>3. PICK p : Chooses(Frames, all, DOMAIN all, SortedBy(all, keys), p)  BY <1>2, Sorting
<1> QED  BY <1>3 DEF Chooses, ByTime, keys

\* _subsample_frames: frames, of which no two with a face have one number.
LEMMA SampledFrames ==
  ASSUME NEW mode, NEW all \in Seq(Frames), Distinct(all)
  PROVE  Sampled(mode, all) \in Seq(Frames) /\ Distinct(Sampled(mode, all))
<1> DEFINE sorted == ByTime(all)
           I == {i \in 1..Len(sorted) : sorted[i].index % mode.n = 0}
<1>1. sorted \in Seq(Frames)  BY ByTimeFrames
<1> HIDE DEF sorted
<1>2. KeptByTime(mode.n, sorted) \in Seq(Frames)  BY <1>1, KeptFrames
<1>3. Picked(sorted, I) \in Seq(Frames)
  <2>1. I \in SUBSET DOMAIN sorted  BY <1>1
  <2> HIDE DEF I
  <2>2. PICK p : Chooses(Frames, sorted, I, Picked(sorted, I), p)  BY <1>1, <2>1, Picking
  <2> QED  BY <2>2 DEF Chooses
<1> QED  BY <1>2, <1>3, RenumberedFrames DEF Sampled, sorted

\* The tracker takes the frames in the order of their numbers.
LEMMA ByIndexLined ==
  ASSUME NEW all \in Seq(Frames), Distinct(all)
  PROVE  ByIndex(all) \in Seq(Frames) /\ Lined(ByIndex(all))
<1> DEFINE keys == [i \in DOMAIN all |-> <<all[i].index, all[i].pts>>]
           r == SortedBy(all, keys)
           k == Len(all)
<1>1. DOMAIN all = 1..k /\ k \in Nat /\ \A i \in DOMAIN all : all[i] \in Frames  OBVIOUS
<1>2. \A i \in DOMAIN all : keys[i][1] = all[i].index /\ keys[i][2] = all[i].pts  OBVIOUS
<1>3. \A i \in DOMAIN all : all[i].index \in Int /\ all[i].pts \in Int  BY <1>1, FrameFields
<1> HIDE DEF keys, r, k
<1>4. PICK p : /\ Chooses(Frames, all, DOMAIN all, r, p)
               /\ Cardinality(DOMAIN all) = k
               /\ \A n, m \in 1..k : n < m => p[n] # p[m] /\ ~Less(keys[p[m]], keys[p[n]])
  <2>1. \A i \in DOMAIN all : keys[i][1] \in Int /\ keys[i][2] \in Int  BY <1>2, <1>3
  <2> QED  BY <2>1, Sorting DEF r, k
<1>5. /\ r \in Seq(Frames) /\ Len(r) = k
      /\ \A n \in 1..k : p[n] \in DOMAIN all /\ r[n] = all[p[n]]
  BY <1>4 DEF Chooses
<1>6. Lined(r)
  <2> SUFFICES ASSUME NEW n \in 1..k, NEW m \in 1..k, n < m
               PROVE  /\ r[n].index <= r[m].index
                      /\ r[n].faces # <<>> /\ r[m].faces # <<>> => r[n].index < r[m].index
    BY <1>5 DEF Lined
  <2> DEFINE i == p[n]  j == p[m]
  <2>1. i \in DOMAIN all /\ j \in DOMAIN all /\ i # j /\ r[n] = all[i] /\ r[m] = all[j]
    BY <1>4, <1>5
  <2>2. ~Less(keys[j], keys[i])  BY <1>4
  <2> HIDE DEF i, j
  <2>3. all[i].index <= all[j].index  BY <1>2, <1>3, <2>1, <2>2 DEF Less
  <2>4. all[i].faces # <<>> /\ all[j].faces # <<>> => all[i].index # all[j].index
    BY <2>1 DEF Distinct
  <2> QED  BY <1>3, <2>1, <2>3, <2>4
<1> QED  BY <1>5, <1>6 DEF ByIndex, r, keys

-----------------------------------------------------------------------------
(* Videos: appearance intervals.                                           *)

LEMMA SightingFields ==
  ASSUME NEW d \in Sightings
  PROVE  /\ d.frame \in Nat /\ d.pts \in Int /\ d.ordinal \in Nat /\ d.x \in Int /\ d.vec \in Int
         /\ d.quality \in Nat /\ d.key \in Nat
  BY DEF Sightings

LEMMA TrackletFields ==
  ASSUME NEW t \in Tracklets
  PROVE  /\ t \in Seq(Sightings) /\ Len(t) \in Nat \ {0} /\ DOMAIN t = 1..Len(t)
         /\ Head(t) = t[1] /\ Last(t) = t[Len(t)] /\ t[1] \in Sightings /\ t[Len(t)] \in Sightings
         /\ First(t) = t[1].frame /\ End(t) = t[Len(t)].frame
         /\ First(t) \in Nat /\ End(t) \in Nat
         /\ \A i \in 1..Len(t) : /\ t[i] \in Sightings /\ t[i].frame \in Nat
                                 /\ First(t) <= t[i].frame /\ t[i].frame <= End(t)
<1>1. t \in Seq(Sightings) /\ t # <<>> /\ Forward(t)  BY DEF Tracklets
<1>2. /\ Len(t) \in Nat \ {0} /\ DOMAIN t = 1..Len(t) /\ Head(t) = t[1] /\ Last(t) = t[Len(t)]
      /\ \A i \in 1..Len(t) : t[i] \in Sightings
  <2> HIDE DEF Sightings
  <2> QED  BY <1>1 DEF Last
<1>3. \A i \in 1..Len(t) : t[i].frame \in Nat  BY <1>2, SightingFields
<1>4. First(t) = t[1].frame /\ End(t) = t[Len(t)].frame  BY <1>2 DEF First, End
<1>5. ASSUME NEW i \in 1..Len(t) PROVE First(t) <= t[i].frame /\ t[i].frame <= End(t)
  <2>1. i = 1 \/ 1 < i  OBVIOUS
  <2>2. i = Len(t) \/ i < Len(t)
    <3>1. Len(t) \in Nat  BY <1>2
    <3> QED  BY <3>1
  <2>3. 1 \in 1..Len(t) /\ Len(t) \in 1..Len(t)  BY <1>2
  <2> QED  BY <1>1, <1>3, <1>4, <2>1, <2>2, <2>3 DEF Forward
<1>6. 1 \in 1..Len(t) /\ Len(t) \in 1..Len(t)  BY <1>2
<1> QED  BY <1>1, <1>2, <1>3, <1>4, <1>5, <1>6

\* sorted(tracklets, key=...): by their first frames.
LEMMA OrderedTracklets ==
  ASSUME NEW all \in Seq(Tracklets)
  PROVE  \E p : /\ Chooses(Tracklets, all, DOMAIN all, Ordered(all), p)
                /\ Cardinality(DOMAIN all) = Len(all)
                /\ \A n, m \in 1..Len(all) :
                     n < m => p[n] # p[m] /\ First(Ordered(all)[n]) <= First(Ordered(all)[m])
<1> DEFINE keys == [i \in DOMAIN all |-> <<First(all[i]), Head(all[i]).ordinal>>]
           r == SortedBy(all, keys)
           k == Len(all)
<1>1. DOMAIN all = 1..k /\ k \in Nat /\ \A i \in DOMAIN all : all[i] \in Tracklets  OBVIOUS
<1>2. \A i \in DOMAIN all : keys[i][1] = First(all[i]) /\ keys[i][2] = Head(all[i]).ordinal  OBVIOUS
<1>3. \A i \in DOMAIN all : First(all[i]) \in Int /\ Head(all[i]).ordinal \in Int
  <2> SUFFICES ASSUME NEW i \in DOMAIN all
               PROVE  First(all[i]) \in Int /\ Head(all[i]).ordinal \in Int
    OBVIOUS
  <2> DEFINE t == all[i]
  <2>1. t \in Tracklets  BY <1>1
  <2> HIDE DEF t
  <2>2. Head(t) = t[1] /\ t[1] \in Sightings /\ First(t) \in Nat  BY <2>1, TrackletFields
  <2>3. Head(t).ordinal \in Nat  BY <2>2, SightingFields
  <2> QED  BY <2>2, <2>3 DEF t
<1> HIDE DEF keys, r, k
<1>4. PICK p : /\ Chooses(Tracklets, all, DOMAIN all, r, p)
               /\ Cardinality(DOMAIN all) = k
               /\ \A n, m \in 1..k : n < m => p[n] # p[m] /\ ~Less(keys[p[m]], keys[p[n]])
  <2>1. \A i \in DOMAIN all : keys[i][1] \in Int /\ keys[i][2] \in Int  BY <1>2, <1>3
  <2> QED  BY <2>1, Sorting DEF r, k
<1>5. \A n \in 1..k : p[n] \in DOMAIN all /\ r[n] = all[p[n]]  BY <1>4 DEF Chooses
<1>6. ASSUME NEW n \in 1..k, NEW m \in 1..k, n < m PROVE First(r[n]) <= First(r[m])
  <2> DEFINE i == p[n]  j == p[m]
  <2>1. i \in DOMAIN all /\ j \in DOMAIN all /\ r[n] = all[i] /\ r[m] = all[j]  BY <1>5
  <2>2. ~Less(keys[j], keys[i])  BY <1>4, <1>6
  <2> HIDE DEF i, j
  <2>3. First(all[i]) <= First(all[j])  BY <1>2, <1>3, <2>1, <2>2 DEF Less
  <2> QED  BY <2>1, <2>3
<1> QED  BY <1>4, <1>6 DEF Ordered, r, k, keys

Spans == [start : Int, end : Int, from : Int, to : Int, count : Int]
LEMMA SpanFields ==
  ASSUME NEW b \in Spans
  PROVE  b.start \in Int /\ b.end \in Int /\ b.from \in Int /\ b.to \in Int /\ b.count \in Int
  BY DEF Spans

LEMMA IntervalSpan ==
  ASSUME NEW t \in Tracklets
  PROVE  /\ Interval(t) \in Spans
         /\ Interval(t).start = First(t) /\ Interval(t).end = End(t)
<1>1. /\ Head(t) \in Sightings /\ Last(t) \in Sightings /\ Len(t) \in Int
      /\ First(t) \in Int /\ End(t) \in Int
  BY TrackletFields
<1>2. Head(t).pts \in Int /\ Last(t).pts \in Int  BY <1>1, SightingFields
<1> QED  BY <1>1, <1>2 DEF Spans, Interval

\* One interval more: what was covered stays so, and it is.
Covers(parts, i) == \E n \in DOMAIN parts : parts[n].start <= i.start /\ i.end <= parts[n].end
LEMMA MergedCovers ==
  ASSUME NEW done \in Seq(Spans), NEW i \in Spans
  PROVE  /\ Merged(done, i) \in Seq(Spans)
         /\ (done # <<>> => Last(done).start <= i.start) =>
              /\ Merged(done, i) # <<>> /\ Last(Merged(done, i)).start <= i.start
              /\ Covers(Merged(done, i), i)
              /\ \A j \in Spans : Covers(done, j) => Covers(Merged(done, i), j)
<1> DEFINE len == Len(done)
<1>1. len \in Nat /\ DOMAIN done = 1..len /\ \A n \in 1..len : done[n] \in Spans  OBVIOUS
<1>2. \A b \in Spans : b.start \in Int /\ b.end \in Int  BY SpanFields
<1>3. CASE done # <<>> /\ Last(done).end >= i.start - 1
  <2> DEFINE b == Last(done)
             m == [start |-> b.start, end |-> Larger(b.end, i.end), from |-> b.from,
                   to |-> Larger(b.to, i.to), count |-> b.count + i.count]
             r == Append(Front(done), m)
  <2>1. len # 0 /\ b = done[len] /\ b \in Spans  BY <1>1, <1>3 DEF Last
  <2> HIDE DEF b
  <2>2. m \in Spans /\ m.start = b.start /\ m.end = Larger(b.end, i.end)
    <3>1. /\ b.start \in Int /\ b.end \in Int /\ b.from \in Int /\ b.to \in Int /\ b.count \in Int
          /\ i.start \in Int /\ i.end \in Int /\ i.from \in Int /\ i.to \in Int /\ i.count \in Int
      BY <2>1, SpanFields
    <3>2. Larger(b.end, i.end) \in Int /\ Larger(b.to, i.to) \in Int /\ b.count + i.count \in Int
      BY <3>1 DEF Larger
    <3> QED  BY <3>1, <3>2 DEF Spans
  <2>3. Merged(done, i) = r  BY <1>3 DEF Merged, b
  <2> HIDE DEF m
  <2>4. /\ r \in Seq(Spans) /\ Len(r) = len /\ DOMAIN r = 1..len
        /\ r[len] = m /\ \A n \in 1..(len - 1) : r[n] = done[n]
    <3> HIDE DEF Spans
    <3>1. /\ Front(done) \in Seq(Spans) /\ Len(Front(done)) = len - 1
          /\ \A n \in 1..(len - 1) : Front(done)[n] = done[n]
      BY <1>1, <2>1 DEF Front
    <3>2. Append(Front(done), m) \in Seq(Spans)  BY <2>2, <3>1
    <3>3. /\ Len(Append(Front(done), m)) = Len(Front(done)) + 1
          /\ Append(Front(done), m)[Len(Front(done)) + 1] = m
          /\ \A n \in 1..Len(Front(done)) : Append(Front(done), m)[n] = Front(done)[n]
      BY <2>2, <3>1
    <3> HIDE DEF len
    <3>4. (len - 1) + 1 = len  BY <1>1
    <3>5. Len(r) = len /\ r[len] = m  BY <3>1, <3>3, <3>4
    <3>6. \A n \in 1..(len - 1) : r[n] = done[n]  BY <3>1, <3>3
    <3>7. DOMAIN r = 1..Len(r)  BY <3>2
    <3> QED  BY <3>2, <3>5, <3>6, <3>7
  <2> HIDE DEF r, len
  <2>5. Last(r) = m /\ r # <<>>  BY <1>1, <2>1, <2>4 DEF Last
  <2>6. i.end <= m.end /\ b.end <= m.end  BY <1>2, <2>1, <2>2 DEF Larger
  <2>7. b.start <= i.start => Covers(r, i)  BY <1>1, <2>1, <2>2, <2>4, <2>6 DEF Covers
  <2>8. ASSUME NEW j \in Spans, NEW n \in DOMAIN done, done[n].start <= j.start, j.end <= done[n].end
        PROVE  Covers(r, j)
    <3>1. CASE n = len
      <4>1. m.start <= j.start /\ j.end <= m.end  BY <1>2, <2>1, <2>2, <2>6, <2>8, <3>1
      <4>2. len \in DOMAIN r  BY <1>1, <2>1, <2>4
      <4> QED  BY <4>1, <4>2, <2>4 DEF Covers
    <3>2. CASE n # len
      <4>1. n \in 1..(len - 1) /\ n \in DOMAIN r  BY <1>1, <2>4, <3>2
      <4> QED  BY <4>1, <2>4, <2>8 DEF Covers
    <3> QED  BY <3>1, <3>2
  <2>9. \A j \in Spans : Covers(done, j) => Covers(r, j)  BY <2>8 DEF Covers
  <2>10. Last(r).start = b.start  BY <2>2, <2>5
  <2> QED  BY <1>3, <2>3, <2>4, <2>5, <2>7, <2>9, <2>10 DEF b
<1>4. CASE ~(done # <<>> /\ Last(done).end >= i.start - 1)
  <2> DEFINE r == Append(done, i)
  <2>1. Merged(done, i) = r  BY <1>4 DEF Merged
  <2>2. /\ r \in Seq(Spans) /\ DOMAIN r = 1..(len + 1) /\ Len(r) = len + 1
        /\ r[len + 1] = i /\ \A n \in 1..len : r[n] = done[n]
    <3> HIDE DEF Spans
    <3> QED  BY <1>1
  <2> HIDE DEF r, len
  <2>3. Last(r) = i /\ r # <<>>  BY <1>1, <2>2 DEF Last
  <2>4. len + 1 \in DOMAIN r  BY <1>1, <2>2
  <2>5. Covers(r, i) /\ i.start <= i.start  BY <1>2, <2>2, <2>4 DEF Covers
  <2>6. \A n \in DOMAIN done : n \in DOMAIN r /\ r[n] = done[n]  BY <1>1, <2>2
  <2>7. \A j \in Spans : Covers(done, j) => Covers(r, j)  BY <2>6 DEF Covers
  <2> QED  BY <2>1, <2>2, <2>3, <2>5, <2>7
<1> QED  BY <1>3, <1>4

\* _build_appearance_intervals: every face of a track is in one of its intervals.
LEMMA IntervalsCover ==
  ASSUME NEW track, track.tracklets \in Seq(Tracklets)
  PROVE  /\ Intervals(track) \in Seq(Spans)
         /\ \A k \in DOMAIN track.tracklets :
              Covers(Intervals(track), Interval(track.tracklets[k]))
<1> DEFINE all == track.tracklets
           sorted == Ordered(all)
           len == Len(sorted)
           A == Seq(Spans)
           step == [n \in 1..len |-> [d \in A |-> Merged(d, Interval(sorted[n]))]]
           Merges(done) == done = [n \in 0..len |->
                             IF n = 0 THEN <<>> ELSE Merged(done[n - 1], Interval(sorted[n]))]
           done == CHOOSE done : Merges(done)
<1>1. Intervals(track) = done[len]  BY DEF Intervals
<1>2. PICK p : /\ Chooses(Tracklets, all, DOMAIN all, sorted, p)
               /\ Cardinality(DOMAIN all) = Len(all)
               /\ \A n, m \in 1..Len(all) : n < m => First(sorted[n]) <= First(sorted[m])
  BY OrderedTracklets
<1>3. /\ sorted \in Seq(Tracklets) /\ len = Len(all) /\ len \in Nat
      /\ \A n \in 1..len : sorted[n] \in Tracklets
      /\ \A k \in DOMAIN all : \E n \in 1..len : all[k] = sorted[n]
  <2>1. sorted \in Seq(Tracklets) /\ len = Len(all) /\ len \in Nat  BY <1>2 DEF Chooses
  <2>2. \A n \in 1..len : sorted[n] \in Tracklets
    <3> HIDE DEF sorted
    <3> QED  BY <2>1
  <2>3. \A k \in DOMAIN all : \E n \in 1..len : p[n] = k /\ sorted[n] = all[p[n]]
    BY <1>2, <2>1 DEF Chooses
  <2> QED  BY <2>1, <2>2, <2>3
<1>4. \A n, m \in 1..len : n < m => First(sorted[n]) <= First(sorted[m])  BY <1>2, <1>3
<1> HIDE DEF all, sorted, len
<1> DEFINE i(n) == Interval(sorted[n])
<1>5. \A n \in 1..len : i(n) \in Spans /\ i(n).start = First(sorted[n]) /\ First(sorted[n]) \in Nat
  BY <1>3, IntervalSpan, TrackletFields
<1>6. <<>> \in A  OBVIOUS
<1>7. \A d \in A, n \in 1..len : Merged(d, i(n)) \in A  BY <1>5, MergedCovers
<1> HIDE DEF A
<1>8. step \in [1..len -> [A -> A]] /\ \A d \in A, n \in 1..len : step[n][d] = Merged(d, i(n))
  BY <1>7
<1> HIDE DEF step
<1>9. PICK f : Course(A, <<>>, len, step, f)
  <2>1. Steps(A, <<>>, len, step)  BY <1>3, <1>6, <1>8 DEF Steps
  <2> QED  BY <2>1, Recursion
<1>10. Merges(f)
  <2>1. f \in [0..len -> A] /\ f[0] = <<>> /\ \A n \in 1..len : f[n] = step[n][f[n - 1]]
    BY <1>9 DEF Course
  <2>2. \A n \in 1..len : f[n - 1] \in A  BY <1>3, <2>1
  <2>3. \A n \in 1..len : f[n] = Merged(f[n - 1], i(n))  BY <1>8, <2>1, <2>2
  <2>4. \A n \in 0..len : n = 0 \/ n \in 1..len  BY <1>3
  <2>5. \A n \in 0..len : f[n] = IF n = 0 THEN <<>> ELSE Merged(f[n - 1], i(n))
    BY <2>1, <2>3, <2>4
  <2> QED  BY <2>1, <2>5
<1>11. Merges(done)  BY <1>10
<1>12. \A n \in 0..len : done[n] = IF n = 0 THEN <<>> ELSE Merged(done[n - 1], i(n))
  <2> HIDE DEF done
  <2> QED  BY <1>11
<1> HIDE DEF done, i
<1> DEFINE T == {n \in 0..len : /\ done[n] \in A
                                /\ \A m \in 1..n : Covers(done[n], i(m))
                                /\ n > 0 => Last(done[n]).start <= i(n).start
                                /\ n = 0 => done[n] = <<>>}
<1>13. 0 \in T  BY <1>3, <1>6, <1>12
<1>14. ASSUME NEW n \in T, n < len PROVE n + 1 \in T
  <2>1. /\ n \in 0..len /\ done[n] \in A /\ n + 1 \in 1..len /\ n + 1 \in 0..len
        /\ (n + 1) - 1 = n /\ n + 1 # 0
    BY <1>3, <1>14
  <2> DEFINE more == done[n + 1]
  <2>2. more = Merged(done[n], i(n + 1))  BY <2>1, <1>12
  <2>3. done[n] # <<>> => Last(done[n]).start <= i(n + 1).start
    <3>1. CASE n = 0  BY <1>14, <3>1
    <3>2. CASE n # 0
      <4>1. n \in 1..len /\ n < n + 1 /\ n > 0  BY <1>3, <2>1, <3>2
      <4>2. Last(done[n]).start <= i(n).start  BY <1>14, <4>1
      <4>3. First(sorted[n]) <= First(sorted[n + 1])  BY <1>4, <2>1, <4>1
      <4>4. i(n).start = First(sorted[n]) /\ i(n + 1).start = First(sorted[n + 1])
              /\ First(sorted[n]) \in Nat /\ First(sorted[n + 1]) \in Nat
        BY <1>5, <2>1, <4>1 DEF i
      <4>5. done[n] # <<>> => Last(done[n]).start \in Int
        <5> SUFFICES ASSUME done[n] # <<>> PROVE Last(done[n]).start \in Int  OBVIOUS
        <5>1. done[n] \in Seq(Spans)  BY <2>1 DEF A
        <5>2. Last(done[n]) \in Spans
          <6> HIDE DEF Spans
          <6> DEFINE s == done[n]
          <6> HIDE DEF s
          <6>1. s \in Seq(Spans) /\ s # <<>>  BY <5>1 DEF s
          <6>2. Last(s) \in Spans  BY <6>1 DEF Last
          <6> QED  BY <6>2 DEF s
        <5> QED  BY <5>2, SpanFields
      <4> QED  BY <4>2, <4>3, <4>4, <4>5
    <3> QED  BY <3>1, <3>2
  <2>4. i(n + 1) \in Spans  BY <1>5, <2>1 DEF i
  <2>5. done[n] \in Seq(Spans)  BY <2>1 DEF A
  <2>6. /\ more \in A /\ Last(more).start <= i(n + 1).start /\ Covers(more, i(n + 1))
        /\ \A j \in Spans : Covers(done[n], j) => Covers(more, j)
    BY <2>2, <2>3, <2>4, <2>5, MergedCovers DEF A
  <2> HIDE DEF more
  <2>7. ASSUME NEW m \in 1..(n + 1) PROVE Covers(more, i(m))
    <3>1. m = n + 1 \/ m \in 1..n  BY <2>1
    <3>2. \A k \in 1..n : i(k) \in Spans  BY <1>5, <2>1, <1>3 DEF i
    <3> QED  BY <1>14, <2>6, <3>1, <3>2
  <2> QED  BY <2>1, <2>6, <2>7 DEF more
<1>15. len \in T
  <2>1. T \in SUBSET (0..len)  OBVIOUS
  <2> HIDE DEF T
  <2>2. \A n \in 0..len : n \in T  BY <1>3, <1>13, <1>14, <2>1, Climb
  <2>3. len \in 0..len  BY <1>3
  <2> QED  BY <2>2, <2>3
<1>16. done[len] \in Seq(Spans) /\ \A n \in 1..len : Covers(done[len], i(n))  BY <1>15 DEF A
<1>17. \A k \in DOMAIN all : Covers(done[len], Interval(all[k]))  BY <1>3, <1>16 DEF i
<1> QED  BY <1>1, <1>16, <1>17 DEF all

-----------------------------------------------------------------------------
(* Videos: tracking.                                                       *)

LEMMA FrameDetections ==
  ASSUME NEW f \in Frames
  PROVE  /\ Detections(f) \in Seq(Sightings)
         /\ \A i \in 1..Len(Detections(f)) :
              Detections(f)[i].frame = f.index /\ Detections(f)[i].ordinal = i
         /\ f.faces = <<>> => Detections(f) = <<>>
<1> DEFINE I == {i \in 1..Len(f.faces) : f.faces[i].eligible}
           eligible == Picked(f.faces, I)
           k == Cardinality(I)
           r == [i \in 1..Len(eligible) |-> Detection(f, eligible[i], i)]
<1>1. f.faces \in Seq(Observed) /\ f.index \in Nat /\ f.pts \in Int  BY FrameFields
<1>2. I \in SUBSET DOMAIN f.faces  BY <1>1
<1>3. f.faces = <<>> => I = {}  BY <1>1
<1> HIDE DEF I
<1>4. PICK p : Chooses(Observed, f.faces, I, eligible, p)  BY <1>1, <1>2, Picking
<1>5. eligible \in Seq(Observed) /\ Len(eligible) = k /\ k \in Nat  BY <1>4 DEF Chooses
<1>6. Detections(f) = r  BY DEF Detections, I
<1>7. I = {} => k = 0  BY FS_EmptySet
<1> HIDE DEF eligible, k
<1>8. ASSUME NEW i \in 1..Len(eligible)
      PROVE  /\ Detection(f, eligible[i], i) \in Sightings
             /\ Detection(f, eligible[i], i).frame = f.index
             /\ Detection(f, eligible[i], i).ordinal = i
  <2> DEFINE d == eligible[i]
  <2>1. d \in Observed /\ i \in Nat
    <3> HIDE DEF Observed
    <3> QED  BY <1>5
  <2> HIDE DEF d
  <2>2. d.x \in Int /\ d.vec \in Int /\ d.quality \in Nat /\ d.key \in Nat  BY <2>1 DEF Observed
  <2>3. /\ Detection(f, d, i) \in Sightings
        /\ Detection(f, d, i).frame = f.index /\ Detection(f, d, i).ordinal = i
    BY <1>1, <2>1, <2>2 DEF Sightings, Detection
  <2> QED  BY <2>3 DEF d
<1>9. /\ r \in Seq(Sightings) /\ Len(r) = k
      /\ \A i \in 1..k : r[i].frame = f.index /\ r[i].ordinal = i
  <2> HIDE DEF Sightings
  <2> DEFINE D(i) == Detection(f, eligible[i], i)
  <2>1. \A i \in 1..k : D(i) \in Sightings /\ D(i).frame = f.index /\ D(i).ordinal = i
    BY <1>5, <1>8
  <2>2. r = [i \in 1..k |-> D(i)]  BY <1>5
  <2> HIDE DEF D, r
  <2> QED  BY <1>5, <2>1, <2>2
<1>10. k = 0 => r = <<>>
  <2> HIDE DEF r
  <2> QED  BY <1>9
<1>11. f.faces = <<>> => r = <<>>  BY <1>3, <1>7, <1>10
<1>12. \A i \in 1..Len(r) : r[i].frame = f.index /\ r[i].ordinal = i  BY <1>9
<1> HIDE DEF r
<1> QED  BY <1>6, <1>9, <1>11, <1>12

\* A face appended to a tracklet, and a tracklet of one face.
LEMMA Lengthened ==
  ASSUME NEW t \in Tracklets, NEW d \in Sightings,
         End(t) < d.frame, d.frame - End(t) - 1 <= MaxGap
  PROVE  /\ Append(t, d) \in Tracklets /\ End(Append(t, d)) = d.frame
         /\ Len(Append(t, d)) = Len(t) + 1 /\ Append(t, d)[Len(t) + 1] = d
         /\ \A i \in 1..Len(t) : Append(t, d)[i] = t[i]
<1> DEFINE r == Append(t, d)  n == Len(t)
<1>1. /\ t \in Seq(Sightings) /\ n \in Nat \ {0} /\ End(t) = t[n].frame
      /\ \A i \in 1..n : t[i].frame \in Nat /\ t[i].frame <= End(t)
  BY TrackletFields
<1>2. d.frame \in Nat  BY SightingFields
<1>3. Rising(t) /\ Forward(t)  BY DEF Tracklets
<1>4. /\ r \in Seq(Sightings) /\ Len(r) = n + 1 /\ r[n + 1] = d
      /\ \A i \in 1..n : r[i] = t[i]
  <2> HIDE DEF Sightings
  <2> QED  BY <1>1
<1> HIDE DEF r, n
<1>5. r # <<>> /\ Last(r) = d  BY <1>1, <1>4 DEF Last
<1>6. Forward(r)
  <2> SUFFICES ASSUME NEW i \in 1..(n + 1), NEW j \in 1..(n + 1), i < j
               PROVE  r[i].frame < r[j].frame
    BY <1>4 DEF Forward
  <2>1. i \in 1..n  BY <1>1
  <2>2. CASE j = n + 1
    <3>1. r[i].frame = t[i].frame /\ r[j].frame = d.frame  BY <1>4, <2>1, <2>2
    <3>2. t[i].frame \in Nat /\ t[i].frame <= End(t) /\ End(t) \in Nat  BY <1>1, <2>1
    <3> QED  BY <1>2, <3>1, <3>2
  <2>3. CASE j \in 1..n
    <3>1. t[i].frame < t[j].frame  BY <1>3, <2>1, <2>3 DEF Forward, n
    <3> QED  BY <1>4, <2>1, <2>3, <3>1
  <2> QED  BY <1>1, <2>2, <2>3
<1>7. Rising(r)
  <2> SUFFICES ASSUME NEW i \in 2..(n + 1)
               PROVE  r[i - 1].frame < r[i].frame /\ r[i].frame - r[i - 1].frame - 1 <= MaxGap
    BY <1>4 DEF Rising
  <2>1. i - 1 \in 1..n  BY <1>1
  <2>2. CASE i = n + 1
    <3>1. i - 1 = n  BY <1>1, <2>2
    <3>2. r[i - 1].frame = End(t) /\ r[i].frame = d.frame  BY <1>1, <1>4, <2>1, <2>2, <3>1
    <3> QED  BY <3>2
  <2>3. CASE i \in 2..n
    <3>1. i \in 1..n  BY <2>3
    <3>2. t[i - 1].frame < t[i].frame /\ t[i].frame - t[i - 1].frame - 1 <= MaxGap
      BY <1>3, <2>3 DEF Rising, n
    <3> QED  BY <1>4, <2>1, <3>1, <3>2
  <2> QED  BY <1>1, <2>2, <2>3
<1>8. r \in Tracklets  BY <1>4, <1>5, <1>6, <1>7 DEF Tracklets
<1> QED  BY <1>4, <1>5, <1>8 DEF End, r, n

LEMMA Started ==
  ASSUME NEW d \in Sightings
  PROVE  <<d>> \in Tracklets /\ End(<<d>>) = d.frame
<1> DEFINE r == <<d>>
<1>1. r \in Seq(Sightings) /\ r # <<>> /\ Len(r) = 1 /\ r[1] = d
  <2> HIDE DEF Sightings
  <2> QED  OBVIOUS
<1> HIDE DEF r
<1>2. Rising(r) /\ Forward(r)  BY <1>1 DEF Rising, Forward
<1>3. End(r) = d.frame  BY <1>1 DEF End, Last
<1> QED  BY <1>1, <1>2, <1>3 DEF Tracklets, r

LEMMA PairFields ==
  ASSUME NEW alive \in Seq(Tracklets), NEW dets \in Seq(Sightings), NEW p \in Pairs(alive, dets)
  PROVE  /\ p = <<p[1], p[2]>> /\ p[1] \in 1..Len(alive) /\ p[2] \in 1..Len(dets)
         /\ p[1] \in Nat /\ p[2] \in Nat
         /\ Gap(alive, dets, p) \in Int
<1>1. p \in (1..Len(alive)) \X (1..Len(dets))  BY DEF Pairs
<1>2. p = <<p[1], p[2]>> /\ p[1] \in 1..Len(alive) /\ p[2] \in 1..Len(dets)  BY <1>1
<1> DEFINE i == p[1]  j == p[2]
<1> HIDE DEF i, j
<1>3. alive[i] \in Tracklets
  <2>1. i \in 1..Len(alive)  BY <1>2 DEF i
  <2> HIDE DEF Tracklets
  <2> QED  BY <2>1
<1>4. dets[j] \in Sightings
  <2>1. j \in 1..Len(dets)  BY <1>2 DEF j
  <2> HIDE DEF Sightings
  <2> QED  BY <2>1
<1>5. Last(alive[i]).x \in Int  BY <1>3, TrackletFields, SightingFields
<1>6. dets[j].x \in Int  BY <1>4, SightingFields
<1>7. Gap(alive, dets, p) \in Int  BY <1>5, <1>6 DEF Gap, Distance, i, j
<1> QED  BY <1>2, <1>7

LEMMA BeforeOrders ==
  ASSUME NEW alive \in Seq(Tracklets), NEW dets \in Seq(Sightings)
  PROVE  /\ \A p \in Pairs(alive, dets) : ~Before(alive, dets, p, p)
         /\ \A p, q \in Pairs(alive, dets) :
              p # q => Before(alive, dets, p, q) \/ Before(alive, dets, q, p)
         /\ \A p, q, r \in Pairs(alive, dets) :
              Before(alive, dets, p, q) /\ Before(alive, dets, q, r) => Before(alive, dets, p, r)
<1> DEFINE S == Pairs(alive, dets)
           gap(p) == Gap(alive, dets, p)
           Ahead(p, q) == \/ gap(p) < gap(q)
                          \/ /\ gap(p) = gap(q)
                             /\ p[1] < q[1] \/ (p[1] = q[1] /\ p[2] < q[2])
<1>1. \A p \in S : p = <<p[1], p[2]>> /\ p[1] \in Nat /\ p[2] \in Nat /\ gap(p) \in Int
  BY PairFields
<1>2. \A p, q : Before(alive, dets, p, q) <=> Ahead(p, q)  BY DEF Before
<1> HIDE DEF S, gap
<1>3. \A p \in S : ~Ahead(p, p)  BY <1>1
<1>4. ASSUME NEW p \in S, NEW q \in S, p # q PROVE Ahead(p, q) \/ Ahead(q, p)
  <2>1. p[1] # q[1] \/ p[2] # q[2]  BY <1>1, <1>4
  <2> QED  BY <1>1, <2>1
<1>5. ASSUME NEW p \in S, NEW q \in S, NEW r \in S, Ahead(p, q), Ahead(q, r)
      PROVE  Ahead(p, r)
  <2>1. /\ gap(p) \in Int /\ gap(q) \in Int /\ gap(r) \in Int
        /\ p[1] \in Nat /\ q[1] \in Nat /\ r[1] \in Nat
        /\ p[2] \in Nat /\ q[2] \in Nat /\ r[2] \in Nat
    BY <1>1
  <2> QED  BY <2>1, <1>5
<1> HIDE DEF Ahead
<1> QED  BY <1>2, <1>3, <1>4, <1>5 DEF S

\* The greedy choice: taken are those that clash with none taken before.
Greedy(alive, dets, taken, p) ==
  p \in taken <=> ~\E q \in taken : Clash(q, p) /\ Before(alive, dets, q, p)

LEMMA MatchingGreedy ==
  ASSUME NEW alive \in Seq(Tracklets), NEW dets \in Seq(Sightings)
  PROVE  /\ Matching(alive, dets) \in SUBSET Pairs(alive, dets)
         /\ \A p \in Pairs(alive, dets) : Greedy(alive, dets, Matching(alive, dets), p)
<1> DEFINE S == Pairs(alive, dets)
           Ahead(p, q) == Before(alive, dets, p, q)
           before == [p \in S |-> {q \in S : Ahead(q, p)}]
           k == Cardinality(S)
           o == [n \in 1..k |-> AtPlace(before, n)]
           Good(taken, p) == Greedy(alive, dets, taken, p)
           T == {n \in 0..k : \E taken \in SUBSET S : \A m \in 1..n : Good(taken, o[m])}
<1>1. IsFiniteSet(S)
  <2>1. Len(alive) \in Nat /\ Len(dets) \in Nat
    <3> HIDE DEF Tracklets, Sightings
    <3> QED  OBVIOUS
  <2>2. IsFiniteSet(1..Len(alive)) /\ IsFiniteSet(1..Len(dets))  BY <2>1, FS_Interval
  <2>3. IsFiniteSet((1..Len(alive)) \X (1..Len(dets)))  BY <2>2, FS_Product
  <2>4. S \in SUBSET ((1..Len(alive)) \X (1..Len(dets)))  BY DEF Pairs
  <2> QED  BY <2>3, <2>4, FS_Subset
<1>2. /\ \A p \in S : ~Ahead(p, p)
      /\ \A p, q \in S : p # q => Ahead(p, q) \/ Ahead(q, p)
      /\ \A p, q, r \in S : Ahead(p, q) /\ Ahead(q, r) => Ahead(p, r)
  BY BeforeOrders
<1>3. before \in [S -> SUBSET S] /\ \A p, q \in S : q \in before[p] <=> Ahead(q, p)  OBVIOUS
<1> HIDE DEF S, Ahead, before
<1>4. /\ \A p \in S : p \notin before[p]
      /\ \A p, q \in S : p # q => p \in before[q] \/ q \in before[p]
  BY <1>2, <1>3
<1>5. \A p \in S : \A q \in before[p] : before[q] \subseteq before[p]
  <2> SUFFICES ASSUME NEW p \in S, NEW q \in before[p], NEW x \in before[q] PROVE x \in before[p]
    OBVIOUS
  <2>1. q \in S /\ x \in S  BY <1>3
  <2> QED  BY <2>1, <1>2, <1>3
<1>6. /\ k \in Nat
      /\ \A n \in 1..k : AtPlace(before, n) \in S
      /\ \A p \in S : \E n \in 1..k : AtPlace(before, n) = p
      /\ \A n, m \in 1..k : n < m => AtPlace(before, n) \in before[AtPlace(before, m)]
  BY <1>1, <1>3, <1>4, <1>5, Places
<1> HIDE DEF k
<1>7. /\ \A n \in 1..k : o[n] \in S
      /\ \A p \in S : \E n \in 1..k : o[n] = p
      /\ \A n, m \in 1..k : n < m => Ahead(o[n], o[m])
  BY <1>3, <1>6
<1> HIDE DEF o
<1>8. \A n, m \in 1..k : Ahead(o[n], o[m]) => n < m
  <2> SUFFICES ASSUME NEW n \in 1..k, NEW m \in 1..k, Ahead(o[n], o[m]), ~(n < m) PROVE FALSE
    OBVIOUS
  <2>1. n = m \/ m < n  BY <1>6
  <2>2. ~Ahead(o[n], o[n])  BY <1>2, <1>7
  <2>3. m < n => Ahead(o[n], o[n])  BY <1>2, <1>7
  <2> QED  BY <2>1, <2>2, <2>3
<1>9. 0 \in T  BY <1>6
<1>10. ASSUME NEW n \in T, n < k PROVE n + 1 \in T
  <2>1. n \in Nat /\ n + 1 \in 1..k /\ n + 1 \in 0..k /\ \A m \in 1..n : m \in 1..k /\ m < n + 1
    BY <1>6, <1>10
  <2>2. PICK taken \in SUBSET S : \A m \in 1..n : Good(taken, o[m])  BY <1>10
  <2> DEFINE p == o[n + 1]
             free == ~\E q \in taken : Clash(q, p) /\ Ahead(q, p)
             more == IF free THEN taken \cup {p} ELSE taken \ {p}
  <2>3. p \in S /\ more \in SUBSET S  BY <1>7, <2>1
  <2>4. \A q \in S : q # p => (q \in more <=> q \in taken)  OBVIOUS
  <2>5. p \in more <=> free  OBVIOUS
  <2> HIDE DEF p, more
  <2>6. ASSUME NEW m \in 1..(n + 1) PROVE Good(more, o[m])
    <3>1. o[m] \in S /\ m \in 1..k  BY <1>7, <2>1
    <3>2. ASSUME NEW q \in S, Ahead(q, o[m]) PROVE q # p
      <4>1. PICK i \in 1..k : o[i] = q  BY <1>7
      <4>2. i < m  BY <1>8, <3>1, <3>2, <4>1
      <4>3. ~(n + 1 < i) /\ i # n + 1  BY <2>1, <3>1, <4>2
      <4>4. i < n + 1  BY <2>1, <4>3, <4>2
      <4>5. Ahead(q, p)  BY <1>7, <2>1, <4>1, <4>4 DEF p
      <4> QED  BY <1>2, <2>3, <4>5
    <3>3. \A q \in S : Ahead(q, o[m]) => (q \in more <=> q \in taken)  BY <2>4, <3>2
    <3>4. (\E q \in more : Clash(q, o[m]) /\ Ahead(q, o[m]))
            <=> (\E q \in taken : Clash(q, o[m]) /\ Ahead(q, o[m]))
      BY <2>2, <2>3, <3>3
    <3>5. CASE m = n + 1
      <4>1. o[m] = p  BY <3>5 DEF p
      <4> QED  BY <2>5, <3>4, <4>1 DEF Greedy, Ahead
    <3>6. CASE m \in 1..n
      <4>1. o[m] # p
        <5>1. Ahead(o[m], p)  BY <1>7, <2>1, <3>6 DEF p
        <5> QED  BY <1>2, <2>3, <5>1
      <4>2. o[m] \in more <=> o[m] \in taken  BY <2>4, <3>1, <4>1
      <4>3. Good(taken, o[m])  BY <2>2, <3>6
      <4> QED  BY <3>4, <4>2, <4>3 DEF Greedy, Ahead
    <3> QED  BY <2>1, <3>5, <3>6
  <2> QED  BY <2>1, <2>3, <2>6
<1>11. k \in T
  <2>1. T \in SUBSET (0..k)  OBVIOUS
  <2> HIDE DEF T
  <2>2. \A n \in 0..k : n \in T  BY <1>6, <1>9, <1>10, <2>1, Climb
  <2>3. k \in 0..k  BY <1>6
  <2> QED  BY <2>2, <2>3
<1>12. \E taken \in SUBSET S : \A p \in S : Good(taken, p)
  <2>1. PICK taken \in SUBSET S : \A m \in 1..k : Good(taken, o[m])  BY <1>11
  <2>2. \A p \in S : Good(taken, p)  BY <1>7, <2>1
  <2> QED  BY <2>2
<1> DEFINE best == CHOOSE taken \in SUBSET S : \A p \in S : Good(taken, p)
<1>13. best \in SUBSET S /\ \A p \in S : Good(best, p)
  <2> HIDE DEF Good
  <2> QED  BY <1>12
<1>14. Matching(alive, dets) = best  BY DEF Matching, Greedy, S
<1> HIDE DEF best
<1> QED  BY <1>13, <1>14 DEF S

\* A tracklet and a detection are matched once at most.
LEMMA MatchedOnce ==
  ASSUME NEW alive \in Seq(Tracklets), NEW dets \in Seq(Sightings),
         NEW p \in Matching(alive, dets), NEW q \in Matching(alive, dets),
         p[1] = q[1] \/ p[2] = q[2]
  PROVE  p = q
<1> SUFFICES ASSUME p # q PROVE FALSE  OBVIOUS
<1>1. p \in Pairs(alive, dets) /\ q \in Pairs(alive, dets)  BY MatchingGreedy
<1>2. Before(alive, dets, p, q) \/ Before(alive, dets, q, p)  BY <1>1, BeforeOrders
<1>3. Clash(p, q) /\ Clash(q, p)  BY DEF Clash
<1>4. Greedy(alive, dets, Matching(alive, dets), p) /\ Greedy(alive, dets, Matching(alive, dets), q)
  BY <1>1, MatchingGreedy
<1> QED  BY <1>2, <1>3, <1>4 DEF Greedy

\* The tracklets after a frame: each of those alive, with the detection it is
\* matched with if there is one, then one for each detection that is left.
Fresh(alive, dets) == {d \in 1..Len(dets) : \A p \in Matching(alive, dets) : p[2] # d}
Continued(alive, dets, i) ==
  IF \E d \in 1..Len(dets) : <<i, d>> \in Matching(alive, dets)
  THEN Append(alive[i], dets[CHOOSE d \in 1..Len(dets) : <<i, d>> \in Matching(alive, dets)])
  ELSE alive[i]

Extends(alive, dets, more, q) ==
  LET k == Cardinality(Fresh(alive, dets))
  IN  /\ \E U : more \in Seq(U)
      /\ k \in Nat /\ q \in [1..k -> Fresh(alive, dets)]
      /\ \A n, m \in 1..k : n < m => q[n] < q[m]
      /\ \A d \in Fresh(alive, dets) : \E n \in 1..k : q[n] = d
      /\ Len(more) = Len(alive) + k /\ DOMAIN more = 1..(Len(alive) + k)
      /\ \A i \in 1..Len(alive) : more[i] = Continued(alive, dets, i)
      /\ \A n \in 1..k : more[Len(alive) + n] = <<dets[q[n]]>>

LEMMA ExtendedParts ==
  ASSUME NEW alive \in Seq(Tracklets), NEW dets \in Seq(Sightings)
  PROVE  \E q : Extends(alive, dets, Extended(alive, dets), q)
<1> DEFINE fresh == Fresh(alive, dets)
           len == Len(alive)  k == Cardinality(fresh)
           new == Picked(dets, fresh)
           a == [i \in 1..len |-> Continued(alive, dets, i)]
           b == [n \in 1..k |-> <<new[n]>>]
<1>1. fresh \in SUBSET DOMAIN dets  BY DEF Fresh
<1>2. Extended(alive, dets) = a \o b  BY DEF Extended, Continued, Fresh
<1>3. len \in Nat  OBVIOUS
<1> HIDE DEF fresh, len
<1>4. PICK q : /\ Chooses(Sightings, dets, fresh, new, q)
               /\ \A n, m \in 1..k : n < m => q[n] < q[m]
  BY <1>1, Picking
<1>5. /\ k \in Nat /\ q \in [1..k -> fresh]
      /\ \A n \in 1..k : new[n] = dets[q[n]]
      /\ \A d \in fresh : \E n \in 1..k : q[n] = d
  BY <1>4 DEF Chooses
<1> DEFINE U == {a[i] : i \in 1..len} \cup {b[n] : n \in 1..k}
<1>6. a \in [1..len -> U] /\ b \in [1..k -> U]  OBVIOUS
<1>7. \A i \in 1..len : a[i] = Continued(alive, dets, i)  OBVIOUS
<1>8. \A n \in 1..k : b[n] = <<dets[q[n]]>>  BY <1>5
<1> HIDE DEF a, b, k, U, new
<1>9. /\ a \in Seq(U) /\ Len(a) = len
      /\ b \in Seq(U) /\ Len(b) = k
  <2>1. k \in Nat  BY <1>5
  <2> QED  BY <1>3, <1>6, <2>1, ListOf
<1>10. /\ Len(a \o b) = len + k /\ DOMAIN (a \o b) = 1..(len + k)
       /\ \A i \in 1..len : (a \o b)[i] = a[i]
       /\ \A n \in 1..k : (a \o b)[len + n] = b[n]
  <2>1. Joins(a, b, a \o b)  BY <1>9, TwoLists
  <2>2. Len(a) = len /\ Len(b) = k  BY <1>9
  <2> DEFINE r == a \o b
  <2> HIDE DEF r
  <2>3. Joins(a, b, r)  BY <2>1 DEF r
  <2>4. /\ Len(r) = len + k /\ DOMAIN r = 1..(len + k)
        /\ \A i \in 1..len : r[i] = a[i]
        /\ \A n \in 1..k : r[len + n] = b[n]
    BY <2>2, <2>3 DEF Joins
  <2> QED  BY <2>4 DEF r
<1>11. Extends(alive, dets, a \o b, q)
  <2>1. \E V : a \o b \in Seq(V)  BY <1>9, TwoLists
  <2> QED  BY <2>1, <1>4, <1>5, <1>7, <1>8, <1>10 DEF k, fresh, len, Extends
<1> QED  BY <1>2, <1>11

LEMMA ContinuedTracklet ==
  ASSUME NEW alive \in Seq(Tracklets), NEW f \in Frames, NEW i \in 1..Len(alive),
         Behind(alive[i], f), Alive(alive[i], f),
         NEW d \in 1..Len(Detections(f))
  PROVE  LET more == Append(alive[i], Detections(f)[d])
         IN  more \in Tracklets /\ End(more) = f.index /\ f.faces # <<>>
<1> DEFINE dets == Detections(f)  t == alive[i]  e == dets[d]
<1>1. dets \in Seq(Sightings) /\ e.frame = f.index /\ f.faces # <<>>
  <2>1. /\ dets \in Seq(Sightings)
        /\ \A n \in 1..Len(dets) : dets[n].frame = f.index
        /\ f.faces = <<>> => dets = <<>>
    BY FrameDetections
  <2>2. dets = <<>> => Len(dets) = 0  OBVIOUS
  <2>3. d \in 1..Len(dets)  OBVIOUS
  <2> HIDE DEF dets
  <2> QED  BY <2>1, <2>2, <2>3
<1>2. e \in Sightings
  <2>1. d \in 1..Len(dets)  OBVIOUS
  <2> HIDE DEF Sightings, dets
  <2> QED  BY <1>1, <2>1
<1>3. t \in Tracklets
  <2> HIDE DEF Tracklets
  <2> QED  OBVIOUS
<1>4. End(t) < e.frame /\ e.frame - End(t) - 1 <= MaxGap  BY <1>1 DEF Behind, Alive, End
<1> QED  BY <1>1, <1>2, <1>3, <1>4, Lengthened

LEMMA ExtendedTracklets ==
  ASSUME NEW alive \in Seq(Tracklets), NEW f \in Frames,
         \A i \in 1..Len(alive) : Behind(alive[i], f) /\ Alive(alive[i], f)
  PROVE  LET more == Extended(alive, Detections(f))
         IN  /\ more \in Seq(Tracklets)
             /\ \A t \in ToSet(more) : t \in ToSet(alive) \/ (End(t) = f.index /\ f.faces # <<>>)
<1> DEFINE dets == Detections(f)
           more == Extended(alive, dets)
           k == Cardinality(Fresh(alive, dets))
           New(t) == End(t) = f.index /\ f.faces # <<>>
<1>1. f.faces = <<>> => dets = <<>>  BY FrameDetections
<1>2. \A n \in 1..Len(dets) : dets[n].frame = f.index  BY FrameDetections
<1>3. dets \in Seq(Sightings)  BY FrameDetections
<1>4. PICK q : Extends(alive, dets, more, q)  BY <1>3, ExtendedParts
<1>5. Len(alive) \in Nat /\ DOMAIN alive = 1..Len(alive)
  <2> HIDE DEF Tracklets
  <2> QED  OBVIOUS
<1>6. ASSUME NEW i \in 1..Len(alive)
      PROVE  Continued(alive, dets, i) \in Tracklets
               /\ (Continued(alive, dets, i) = alive[i] \/ New(Continued(alive, dets, i)))
  <2>1. CASE \E d \in 1..Len(dets) : <<i, d>> \in Matching(alive, dets)
    <3> DEFINE d == CHOOSE d \in 1..Len(dets) : <<i, d>> \in Matching(alive, dets)
    <3>1. d \in 1..Len(dets)  BY <2>1
    <3>2. Continued(alive, dets, i) = Append(alive[i], dets[d])  BY <2>1 DEF Continued
    <3> HIDE DEF d
    <3>3. Append(alive[i], dets[d]) \in Tracklets /\ New(Append(alive[i], dets[d]))
      BY <3>1, ContinuedTracklet
    <3> QED  BY <3>2, <3>3
  <2>2. CASE ~\E d \in 1..Len(dets) : <<i, d>> \in Matching(alive, dets)
    <3>1. Continued(alive, dets, i) = alive[i]  BY <2>2 DEF Continued
    <3>2. alive[i] \in Tracklets
      <4> HIDE DEF Tracklets
      <4> QED  OBVIOUS
    <3> QED  BY <3>1, <3>2
  <2> QED  BY <2>1, <2>2
<1>7. ASSUME NEW d \in Fresh(alive, dets)
      PROVE  <<dets[d]>> \in Tracklets /\ New(<<dets[d]>>)
  <2>1. d \in 1..Len(dets) /\ dets # <<>>
    <3>1. d \in 1..Len(dets)  BY DEF Fresh
    <3>2. dets = <<>> => Len(dets) = 0  OBVIOUS
    <3> HIDE DEF dets
    <3> QED  BY <3>1, <3>2
  <2>2. dets[d] \in Sightings
    <3> HIDE DEF Sightings, dets
    <3> QED  BY <1>3, <2>1
  <2> QED  BY <1>1, <1>2, <2>1, <2>2, Started
<1> HIDE DEF New, k, more, dets
<1>8. /\ k \in Nat /\ DOMAIN more = 1..(Len(alive) + k)
      /\ \A i \in 1..Len(alive) : more[i] = Continued(alive, dets, i)
      /\ \A n \in 1..k : more[Len(alive) + n] = <<dets[q[n]]>> /\ q[n] \in Fresh(alive, dets)
  BY <1>4 DEF Extends, k
<1>9. ASSUME NEW i \in DOMAIN more
      PROVE  more[i] \in Tracklets /\ (more[i] \in ToSet(alive) \/ New(more[i]))
  <2>1. CASE i \in 1..Len(alive)
    <3>1. alive[i] \in ToSet(alive)  BY <1>5, <2>1 DEF ToSet
    <3> QED  BY <1>6, <1>8, <2>1, <3>1
  <2>2. CASE i \notin 1..Len(alive)
    <3> DEFINE n == i - Len(alive)
    <3>1. n \in 1..k /\ i = Len(alive) + n  BY <1>5, <1>8, <2>2
    <3> HIDE DEF n
    <3> QED  BY <1>7, <1>8, <3>1
  <2> QED  BY <2>1, <2>2
<1>10. Len(more) = Len(alive) + k /\ more = [i \in DOMAIN more |-> more[i]]
  <2>1. Len(more) = Len(alive) + k /\ \E U : more \in Seq(U)  BY <1>4 DEF Extends, k
  <2>2. PICK U : more \in Seq(U)  BY <2>1
  <2> QED  BY <2>1, <2>2
<1>11. more \in Seq(Tracklets)
  <2>1. more \in [1..(Len(alive) + k) -> Tracklets]  BY <1>8, <1>9, <1>10
  <2>2. Len(alive) + k \in Nat  BY <1>5, <1>8
  <2> QED  BY <2>1, <2>2, ListOf
<1>12. \A t \in ToSet(more) : t \in ToSet(alive) \/ New(t)  BY <1>9 DEF ToSet
<1> QED  BY <1>11, <1>12 DEF New, more, dets

LEMMA TrackFrameInv == TracksInv /\ TrackFrame => TracksInv'
<1> SUFFICES ASSUME TracksInv, TrackFrame PROVE TracksInv'  OBVIOUS
<1> DEFINE f == frames[next]
           alive == {i \in 1..Len(active) : Alive(active[i], f)}
           P == Picked(active, alive)
           Q == Picked(active, (1..Len(active)) \ alive)
           more == Extended(P, Detections(f))
<1>1. /\ phase = "track" /\ next <= Len(frames) /\ next' = next + 1
      /\ closed' = closed \o Q /\ active' = more
      /\ UNCHANGED <<video, phase, frames, tracks, crops, outcomes, gallery, overlay>>
  BY DEF TrackFrame
<1>2. /\ frames \in Seq(Frames) /\ Lined(frames) /\ next \in Nat \ {0}
      /\ active \in Seq(Tracklets) /\ closed \in Seq(Tracklets)
      /\ \A t \in ToSet(closed) \cup ToSet(active) : \A k \in next..Len(frames) : Behind(t, frames[k])
  BY <1>1 DEF TracksInv, TrackingInv
<1>3. f \in Frames /\ next \in 1..Len(frames) /\ Len(frames) \in Nat
  <2>1. next \in 1..Len(frames) /\ Len(frames) \in Nat  BY <1>1, <1>2
  <2> HIDE DEF Frames
  <2> QED  BY <1>2, <2>1
<1> HIDE DEF f
<1>4. P \in Seq(Tracklets) /\ \A x \in ToSet(P) : \E i \in alive : x = active[i]
  <2> alive \in SUBSET (1..Len(active))  OBVIOUS
  <2> HIDE DEF alive
  <2> QED  BY <1>2, PickedSet
<1>5. Q \in Seq(Tracklets) /\ \A x \in ToSet(Q) : \E i \in 1..Len(active) : x = active[i]
  <2> HIDE DEF alive
  <2>1. (1..Len(active)) \ alive \in SUBSET (1..Len(active))  OBVIOUS
  <2> QED  BY <1>2, <2>1, PickedSet
<1>6. \A i \in 1..Len(active) : active[i] \in ToSet(active)  BY <1>2 DEF ToSet
<1>7. \A x \in ToSet(P) : x \in ToSet(active) /\ Alive(x, f)  BY <1>4, <1>6
<1>8. \A x \in ToSet(Q) : x \in ToSet(active)  BY <1>5, <1>6
<1> HIDE DEF alive, P, Q
<1>9. \A n \in 1..Len(P) : P[n] \in ToSet(P)
  <2> HIDE DEF Tracklets
  <2> QED  BY <1>4 DEF ToSet
<1>10. \A n \in 1..Len(P) : Behind(P[n], f) /\ Alive(P[n], f)
  <2>1. next \in next..Len(frames)  BY <1>3
  <2> QED  BY <1>2, <1>7, <1>9, <2>1 DEF f
<1>11. /\ more \in Seq(Tracklets)
       /\ \A t \in ToSet(more) : t \in ToSet(P) \/ (End(t) = f.index /\ f.faces # <<>>)
  BY <1>3, <1>4, <1>10, ExtendedTracklets
<1> HIDE DEF more
<1>12. closed' \in Seq(Tracklets) /\ ToSet(closed') = ToSet(closed) \cup ToSet(Q)
  BY <1>1, <1>2, <1>5, JoinedSet
<1>13. ASSUME NEW t \in ToSet(closed') \cup ToSet(active'), NEW k \in next'..Len(frames)
       PROVE  Behind(t, frames[k])
  <2>1. k \in next..Len(frames) /\ next < k /\ k \in 1..Len(frames)  BY <1>1, <1>3
  <2>2. CASE t \in ToSet(closed) \cup ToSet(active)  BY <1>2, <2>1, <2>2
  <2>3. CASE End(t) = f.index /\ f.faces # <<>>
    <3>1. /\ f.index <= frames[k].index
          /\ f.faces # <<>> /\ frames[k].faces # <<>> => f.index < frames[k].index
      BY <1>2, <1>3, <2>1 DEF Lined, f
    <3> QED  BY <2>3, <3>1 DEF Behind
  <2> QED  BY <1>1, <1>7, <1>8, <1>11, <1>12, <2>2, <2>3
<1>14. TrackingInv'
  <2>1. next' \in Nat \ {0} /\ next' <= Len(frames) + 1  BY <1>1, <1>2, <1>3
  <2>2. video \in Videos  BY DEF TracksInv, TrackingInv
  <2> QED  BY <1>1, <1>2, <1>11, <1>12, <1>13, <2>1, <2>2 DEF TrackingInv
<1>15. MergeInv'  BY <1>1 DEF TracksInv, MergeInv
<1>16. ResolveInv'  BY <1>1 DEF TracksInv, ResolveInv
<1> QED  BY <1>14, <1>15, <1>16 DEF TracksInv

LEMMA TracksInvInit == TracksInit => TracksInv
<1> SUFFICES ASSUME TracksInit PROVE TracksInv  OBVIOUS
<1>1. /\ video \in Videos /\ gallery \in Galleries /\ phase = "sample" /\ frames = <<>>
      /\ next = 1 /\ active = <<>> /\ closed = <<>> /\ tracks = <<>> /\ outcomes = <<>>
  BY DEF TracksInit
<1>2. <<>> \in Seq(Frames) /\ <<>> \in Seq(Tracklets) /\ <<>> \in Seq(CanonicalTracks)
      /\ Len(<<>>) = 0 /\ DOMAIN <<>> = {}
  <2> HIDE DEF Frames, Tracklets, CanonicalTracks
  <2> QED  OBVIOUS
<1>3. Lined(frames)  BY <1>1, <1>2 DEF Lined
<1>4. IsFiniteSet(gallery) /\ \A p \in gallery : p.face \in 1..100
  BY <1>1, TracksAssumption
<1>5. TrackingInv  BY <1>1, <1>2, <1>3 DEF TrackingInv
<1>6. MergeInv  BY <1>1, <1>2 DEF MergeInv
<1>7. ResolveInv
  <2>1. \A p \in gallery : p.face \in FacesUpto(Len(outcomes))
    <3>1. Len(outcomes) = 0 /\ 100 + 0 = 100  BY <1>1, <1>2
    <3>2. \A n \in 1..100 : n \in 0..100  OBVIOUS
    <3> QED  BY <1>4, <3>1, <3>2 DEF FacesUpto
  <2>2. <<>> \in Seq(Answers)
    <3> HIDE DEF Answers
    <3> QED  OBVIOUS
  <2> QED  BY <1>1, <1>2, <1>4, <2>1, <2>2 DEF ResolveInv
<1> QED  BY <1>5, <1>6, <1>7 DEF TracksInv

LEMMA SampleFramesInv == TracksInv /\ SampleFrames => TracksInv'
<1> SUFFICES ASSUME TracksInv, SampleFrames PROVE TracksInv'  OBVIOUS
<1>1. PICK mode \in Modes : frames' = ByIndex(Sampled(mode, ReadFrames))  BY DEF SampleFrames
<1>2. /\ phase = "sample" /\ phase' = "track"
      /\ UNCHANGED <<video, next, active, closed, tracks, crops, outcomes, gallery, overlay>>
  BY DEF SampleFrames
<1>3. video \in Videos /\ next = 1 /\ active = <<>> /\ closed = <<>> /\ outcomes = <<>>
  BY <1>2 DEF TracksInv, TrackingInv, ResolveInv
<1>4. frames' \in Seq(Frames) /\ Lined(frames')
  <2> DEFINE r == ReadFrames  s == Sampled(mode, r)
  <2>1. r \in Seq(Frames) /\ Distinct(r)  BY <1>3, ReadInOrder
  <2> HIDE DEF r
  <2>2. s \in Seq(Frames) /\ Distinct(s)  BY <2>1, SampledFrames
  <2> HIDE DEF s
  <2>3. ByIndex(s) \in Seq(Frames) /\ Lined(ByIndex(s))  BY <2>2, ByIndexLined
  <2> QED  BY <1>1, <2>3 DEF r, s
<1>5. ToSet(<<>>) = {}  BY DEF ToSet
<1>6. Len(frames') \in Nat
  <2> HIDE DEF Frames
  <2> QED  BY <1>4
<1>7. TrackingInv'
  <2>1. active \in Seq(Tracklets) /\ closed \in Seq(Tracklets)  BY DEF TracksInv, TrackingInv
  <2> QED  BY <1>2, <1>3, <1>4, <1>5, <1>6, <2>1 DEF TrackingInv
<1>8. MergeInv'  BY <1>2 DEF TracksInv, MergeInv
<1>9. ResolveInv'  BY <1>2 DEF TracksInv, ResolveInv
<1> QED  BY <1>7, <1>8, <1>9 DEF TracksInv

LEMMA CloseTrackletsInv == TracksInv /\ CloseTracklets => TracksInv'
<1> SUFFICES ASSUME TracksInv, CloseTracklets PROVE TracksInv'  OBVIOUS
<1>1. /\ phase = "track" /\ phase' = "merge" /\ next' = 1 /\ active' = <<>>
      /\ closed' = Ordered(closed \o active)
      /\ UNCHANGED <<video, frames, tracks, crops, outcomes, gallery, overlay>>
  BY DEF CloseTracklets
<1>2. active \in Seq(Tracklets) /\ closed \in Seq(Tracklets)  BY DEF TracksInv, TrackingInv
<1>3. closed \o active \in Seq(Tracklets)  BY <1>2, JoinedSet
<1>4. closed' \in Seq(Tracklets)  BY <1>1, <1>3, OrderedTracklets DEF Chooses
<1>5. <<>> \in Seq(Tracklets)
  <2> HIDE DEF Tracklets
  <2> QED  OBVIOUS
<1>6. TrackingInv'  BY <1>1, <1>4, <1>5 DEF TracksInv, TrackingInv
<1>7. MergeInv'  BY <1>1 DEF TracksInv, MergeInv
<1>8. ResolveInv'  BY <1>1 DEF TracksInv, ResolveInv
<1> QED  BY <1>6, <1>7, <1>8 DEF TracksInv

-----------------------------------------------------------------------------
(* Videos: merging.                                                        *)

LEMMA MeanInt ==
  ASSUME NEW numbers \in Seq(Int), numbers # <<>>
  PROVE  Mean(numbers) \in Int
<1>1. Len(numbers) \in Nat \ {0}  OBVIOUS
<1>2. Total(numbers) \in Int  BY Totals
<1> QED  BY <1>1, <1>2 DEF Mean

LEMMA RepresentativeInt ==
  ASSUME NEW t \in Tracklets
  PROVE  Representative(t) \in Int
<1> DEFINE I == {i \in 1..Len(t) : t[i].vec # NoVector}
           s == Picked(t, I)
           v == [i \in 1..Len(s) |-> s[i].vec]
<1>1. t \in Seq(Sightings)  BY TrackletFields
<1>2. I \in SUBSET (1..Len(t))  OBVIOUS
<1> HIDE DEF I
<1>3. s \in Seq(Sightings)  BY <1>1, <1>2, PickedSet
<1> HIDE DEF s
<1>4. Len(s) \in Nat /\ \A i \in 1..Len(s) : s[i] \in Sightings
  <2> HIDE DEF Sightings
  <2> QED  BY <1>3
<1>5. \A i \in 1..Len(s) : s[i].vec \in Int  BY <1>4, SightingFields
<1>6. v \in Seq(Int) /\ Len(v) = Len(s)  BY <1>4, <1>5
<1>7. s # <<>> => v # <<>>
  <2> HIDE DEF Sightings
  <2> QED  BY <1>3, <1>6
<1>8. Representative(t) = IF s = <<>> THEN NoVector ELSE Mean(v)  BY DEF Representative, s, I
<1> HIDE DEF v
<1>9. NoVector \in Int  BY DEF NoVector
<1> QED  BY <1>6, <1>7, <1>8, <1>9, MeanInt

LEMMA ScoreRange ==
  ASSUME NEW u \in Int, NEW v \in Int
  PROVE  Score(u, v) \in Nat /\ Score(u, v) <= 1000
<1>1. Distance(u, v) \in Nat  BY DEF Distance
<1> QED  BY <1>1 DEF Score

LEMMA BestJoinable ==
  ASSUME NEW t \in Tracklets, tracks \in Seq(CanonicalTracks), Joinable(t) # {}
  PROVE  Best(t) \in Joinable(t)
<1> DEFINE J == Joinable(t)
           s == [i \in J |-> Score(Representative(t), tracks[i].rep)]
           T == {s[i] : i \in J}
<1>1. J \in SUBSET Nat /\ \A i \in J : tracks[i] \in CanonicalTracks
  <2>1. J \in SUBSET (1..Len(tracks))  BY DEF Joinable
  <2> HIDE DEF J, CanonicalTracks
  <2> QED  BY <2>1
<1> HIDE DEF J
<1> DEFINE top == 1000
<1>2. \A i \in J : s[i] \in Nat /\ s[i] <= top
  <2> SUFFICES ASSUME NEW i \in J PROVE s[i] \in Nat /\ s[i] <= top  OBVIOUS
  <2>1. tracks[i].rep \in Int  BY <1>1 DEF CanonicalTracks
  <2>2. Representative(t) \in Int  BY RepresentativeInt
  <2>3. s[i] = Score(Representative(t), tracks[i].rep)  OBVIOUS
  <2> DEFINE u == Representative(t)  v == tracks[i].rep
  <2> HIDE DEF s, u, v
  <2>4. u \in Int /\ v \in Int /\ s[i] = Score(u, v)  BY <2>1, <2>2, <2>3 DEF u, v
  <2>5. Score(u, v) \in Nat /\ Score(u, v) <= 1000  BY <2>4, ScoreRange
  <2> QED  BY <2>4, <2>5
<1>3. J # {}  BY DEF J
<1>4. top \in Nat  OBVIOUS
<1> HIDE DEF s, top
<1>5. PICK m \in T : \A n \in T : n <= m
  <2>1. T # {} /\ \A n \in T : n \in 0..top  BY <1>2, <1>3, <1>4
  <2> HIDE DEF T
  <2>2. IsFiniteSet(0..top)  BY <1>4, FS_Interval
  <2>3. T \in SUBSET (0..top) /\ T \in SUBSET Nat  BY <1>4, <2>1
  <2>4. IsFiniteSet(T)  BY <2>2, <2>3, FS_Subset
  <2> QED  BY <2>1, <2>3, <2>4, Greatest
<1> DEFINE B == {i \in J : s[i] = m}
<1>6. PICK i \in B : \A j \in B : i <= j
  <2>1. B \in SUBSET Nat /\ B # {}  BY <1>1, <1>5
  <2> HIDE DEF B
  <2> QED  BY <2>1, Least
<1>7. \A j \in J : s[i] > s[j] \/ (s[i] = s[j] /\ i <= j)
  <2> SUFFICES ASSUME NEW j \in J PROVE s[i] > s[j] \/ (s[i] = s[j] /\ i <= j)  OBVIOUS
  <2>1. s[i] = m /\ i \in J  BY <1>6
  <2>2. s[j] \in T /\ s[j] \in Nat /\ s[i] \in Nat
    <3>1. s[j] \in T  OBVIOUS
    <3> QED  BY <1>2, <2>1, <3>1
  <2>3. s[j] <= m  BY <1>5, <2>2
  <2>4. s[j] = m => i <= j  BY <1>6
  <2> HIDE DEF T, B
  <2> QED  BY <2>1, <2>2, <2>3, <2>4
<1>8. i \in J  BY <1>6
<1>9. \E k \in J : \A j \in J : s[k] > s[j] \/ (s[k] = s[j] /\ k <= j)  BY <1>7, <1>8
<1>10. Best(t) = CHOOSE k \in J : \A j \in J : s[k] > s[j] \/ (s[k] = s[j] /\ k <= j)
  BY DEF Best, J, s
<1> HIDE DEF B, T
<1>11. Best(t) \in J  BY <1>9, <1>10
<1> QED  BY <1>11 DEF J

LEMMA CanonicalFields ==
  ASSUME NEW c \in CanonicalTracks
  PROVE  c.tracklets \in Seq(Tracklets) /\ c.rep \in Int /\ Parted(c.tracklets)
  BY DEF CanonicalTracks

LEMMA NewCanonical ==
  ASSUME NEW t \in Tracklets
  PROVE  NewTrack(t) \in CanonicalTracks
<1> DEFINE r == <<t>>
<1>1. r \in Seq(Tracklets) /\ DOMAIN r = {1}
  <2> HIDE DEF Tracklets
  <2> QED  OBVIOUS
<1> HIDE DEF r
<1>2. Parted(r)  BY <1>1 DEF Parted
<1>3. Representative(t) \in Int  BY RepresentativeInt
<1> QED  BY <1>1, <1>2, <1>3 DEF NewTrack, CanonicalTracks, r

LEMMA EnlargedCanonical ==
  ASSUME NEW c \in CanonicalTracks, NEW t \in Tracklets, ~Overlaps(c, t)
  PROVE  Enlarged(c, t) \in CanonicalTracks
<1> DEFINE parts == c.tracklets  n == Len(parts)
           r == Append(parts, t)
           v == <<c.rep, Representative(t)>>
<1>1. parts \in Seq(Tracklets) /\ c.rep \in Int /\ Parted(parts)  BY CanonicalFields
<1>2. Mean(v) \in Int
  <2>1. v \in Seq(Int) /\ v # <<>>  BY <1>1, RepresentativeInt
  <2> HIDE DEF v
  <2> QED  BY <2>1, MeanInt
<1>3. \A i \in 1..n : ~(First(t) <= End(parts[i]) /\ First(parts[i]) <= End(t))
  BY DEF Overlaps
<1> HIDE DEF parts, v
<1>4. /\ r \in Seq(Tracklets) /\ DOMAIN r = 1..(n + 1) /\ n \in Nat
      /\ r[n + 1] = t /\ \A i \in 1..n : r[i] = parts[i] /\ parts[i] \in Tracklets
      /\ DOMAIN parts = 1..n
  <2> HIDE DEF Tracklets
  <2> QED  BY <1>1
<1> HIDE DEF r, n
<1>5. \A i \in 1..n : Apart(parts[i], t) /\ Apart(t, parts[i])
  <2> SUFFICES ASSUME NEW i \in 1..n PROVE Apart(parts[i], t) /\ Apart(t, parts[i])  OBVIOUS
  <2>1. /\ First(t) \in Nat /\ End(t) \in Nat
        /\ First(parts[i]) \in Nat /\ End(parts[i]) \in Nat
    BY <1>4, TrackletFields
  <2> QED  BY <1>3, <2>1 DEF Apart
<1>6. Parted(r)
  <2> SUFFICES ASSUME NEW k \in 1..(n + 1), NEW l \in 1..(n + 1), k # l PROVE Apart(r[k], r[l])
    BY <1>4 DEF Parted
  <2>1. \A i \in 1..(n + 1) : i \in 1..n \/ i = n + 1  BY <1>4
  <2>2. CASE k \in 1..n /\ l \in 1..n  BY <1>1, <1>4, <2>2 DEF Parted
  <2>3. CASE k = n + 1 /\ l \in 1..n  BY <1>4, <1>5, <2>3
  <2>4. CASE k \in 1..n /\ l = n + 1  BY <1>4, <1>5, <2>4
  <2> QED  BY <2>1, <2>2, <2>3, <2>4
<1>7. Enlarged(c, t) = [tracklets |-> r, rep |-> Mean(v)]  BY DEF Enlarged, r, v, parts
<1> QED  BY <1>2, <1>4, <1>6, <1>7 DEF CanonicalTracks

LEMMA MergeTrackletInv == TracksInv /\ MergeTracklet => TracksInv'
<1> SUFFICES ASSUME TracksInv, MergeTracklet PROVE TracksInv'  OBVIOUS
<1> DEFINE t == closed[next]  b == Best(t)  c == Enlarged(tracks[b], t)
<1>1. /\ phase = "merge" /\ next <= Len(closed) /\ next' = next + 1
      /\ UNCHANGED <<video, phase, frames, active, closed, crops, outcomes, gallery, overlay>>
  BY DEF MergeTracklet
<1>2. tracks' = IF Joinable(t) = {} THEN Append(tracks, NewTrack(t))
                ELSE [tracks EXCEPT ![b] = c]
  BY DEF MergeTracklet
<1>3. closed \in Seq(Tracklets) /\ next \in Nat \ {0} /\ tracks \in Seq(CanonicalTracks)
  BY DEF TracksInv, TrackingInv, MergeInv
<1>4. t \in Tracklets
  <2> HIDE DEF Tracklets
  <2> QED  BY <1>1, <1>3
<1> HIDE DEF t
<1>5. tracks' \in Seq(CanonicalTracks)
  <2>1. CASE Joinable(t) = {}
    <3>1. NewTrack(t) \in CanonicalTracks  BY <1>4, NewCanonical
    <3> HIDE DEF CanonicalTracks
    <3> QED  BY <1>2, <1>3, <2>1, <3>1
  <2>2. CASE Joinable(t) # {}
    <3>1. b \in Joinable(t)  BY <1>3, <1>4, <2>2, BestJoinable
    <3>2. b \in 1..Len(tracks) /\ ~Overlaps(tracks[b], t)  BY <3>1 DEF Joinable
    <3>3. tracks[b] \in CanonicalTracks
      <4> HIDE DEF CanonicalTracks, b
      <4> QED  BY <1>3, <3>2
    <3>4. c \in CanonicalTracks  BY <1>4, <3>2, <3>3, EnlargedCanonical
    <3> HIDE DEF CanonicalTracks, b, c
    <3> QED  BY <1>2, <1>3, <2>2, <3>2, <3>4
  <2> QED  BY <2>1, <2>2
<1>6. Len(tracks') >= Len(tracks)
  <2>1. Len(tracks) \in Nat
    <3> HIDE DEF CanonicalTracks
    <3> QED  BY <1>3
  <2> HIDE DEF CanonicalTracks, b, c
  <2>2. CASE Joinable(t) = {}
    <3>1. Len(Append(tracks, NewTrack(t))) = Len(tracks) + 1  BY <1>3
    <3> QED  BY <1>2, <2>1, <2>2, <3>1
  <2>3. CASE Joinable(t) # {}
    <3>1. DOMAIN tracks' = DOMAIN tracks  BY <1>2, <2>3
    <3>2. Len(tracks') = Len(tracks)  BY <1>3, <1>5, <3>1
    <3> QED  BY <2>1, <3>2
  <2> QED  BY <2>2, <2>3
<1>7. TrackingInv'  BY <1>1, <1>3 DEF TracksInv, TrackingInv
<1>8. MergeInv'  BY <1>1, <1>5 DEF MergeInv
<1>9. ResolveInv'
  <2>1. outcomes = <<>> /\ Len(<<>>) = 0  BY <1>1 DEF TracksInv, ResolveInv
  <2>2. Len(tracks') \in Nat
    <3> HIDE DEF CanonicalTracks
    <3> QED  BY <1>5
  <2> QED  BY <1>1, <2>1, <2>2 DEF TracksInv, ResolveInv
<1> QED  BY <1>7, <1>8, <1>9 DEF TracksInv

-----------------------------------------------------------------------------
(* Videos: identities.                                                     *)

\* A frame with a face of a track is in one of its intervals.
LEMMA FramesCovered ==
  ASSUME NEW c \in CanonicalTracks, NEW n \in FramesOf(c)
  PROVE  \E a \in ToSet(Intervals(c)) : a \in Spans /\ a.start <= n /\ n <= a.end /\ n \in Nat
<1> DEFINE parts == c.tracklets
           s == Intervals(c)
<1>1. parts \in Seq(Tracklets)  BY CanonicalFields
<1>2. PICK k \in 1..Len(parts) : \E d \in ToSet(parts[k]) : n = d.frame  BY DEF FramesOf
<1>3. parts[k] \in Tracklets /\ k \in DOMAIN parts
  <2> HIDE DEF parts, Tracklets
  <2> QED  BY <1>1, <1>2
<1>4. s \in Seq(Spans) /\ Covers(s, Interval(parts[k]))
  BY <1>1, <1>3, IntervalsCover
<1> DEFINE t == parts[k]
<1> HIDE DEF s, t
<1>5. t \in Tracklets /\ Covers(s, Interval(t)) /\ \E d \in ToSet(t) : n = d.frame
  BY <1>2, <1>3, <1>4 DEF t
<1>6. n \in Nat /\ First(t) <= n /\ n <= End(t) /\ First(t) \in Nat /\ End(t) \in Nat
  <2>1. PICK i \in DOMAIN t : n = t[i].frame  BY <1>5 DEF ToSet
  <2> QED  BY <1>5, <2>1, TrackletFields
<1>7. PICK j \in DOMAIN s : s[j].start <= First(t) /\ End(t) <= s[j].end
  BY <1>5, IntervalSpan DEF Covers
<1>8. s[j] \in Spans /\ s[j] \in ToSet(s)
  <2> HIDE DEF Spans
  <2> QED  BY <1>4, <1>7 DEF ToSet
<1>9. s[j].start \in Int /\ s[j].end \in Int  BY <1>8, SpanFields
<1> QED  BY <1>6, <1>7, <1>8, <1>9 DEF s

LEMMA MeetingFrames ==
  ASSUME NEW c \in CanonicalTracks, NEW d \in CanonicalTracks,
         ~\E a \in ToSet(Intervals(c)), b \in ToSet(Intervals(d)) : Meet(a, b)
  PROVE  FramesOf(c) \cap FramesOf(d) = {}
<1> SUFFICES ASSUME NEW n \in FramesOf(c), n \in FramesOf(d) PROVE FALSE  OBVIOUS
<1>1. PICK a \in ToSet(Intervals(c)) : a \in Spans /\ a.start <= n /\ n <= a.end /\ n \in Nat
  BY FramesCovered
<1>2. PICK b \in ToSet(Intervals(d)) : b \in Spans /\ b.start <= n /\ n <= b.end
  BY FramesCovered
<1>3. a.start \in Int /\ a.end \in Int /\ b.start \in Int /\ b.end \in Int
  BY <1>1, <1>2, SpanFields
<1>4. Meet(a, b)  BY <1>1, <1>2, <1>3 DEF Meet
<1> QED  BY <1>4

\* A list of outcomes one longer: the last one's face is given to no track
\* that is seen with the new one.
Elsewhere(os, ts, face, track) ==
  \A o \in 1..Len(os) : os[o].face = face => FramesOf(ts[o]) \cap FramesOf(track) = {}

OnePlace(os, ts) ==
  \A i, j \in 1..Len(os) :
    i # j /\ os[i].face = os[j].face => FramesOf(ts[i]) \cap FramesOf(ts[j]) = {}

LEMMA OnePlaceMore ==
  ASSUME NEW os \in Seq(Answers), NEW ts, OnePlace(os, ts),
         NEW e \in Answers, Elsewhere(os, ts, e.face, ts[Len(os) + 1])
  PROVE  OnePlace(Append(os, e), ts)
<1> DEFINE n == Len(os)  r == Append(os, e)
<1>1. /\ n \in Nat /\ Len(r) = n + 1 /\ r[n + 1] = e
      /\ \A o \in 1..n : r[o] = os[o]
  <2> HIDE DEF Answers
  <2> QED  OBVIOUS
<1>2. /\ \A i, j \in 1..n : i # j /\ os[i].face = os[j].face =>
           FramesOf(ts[i]) \cap FramesOf(ts[j]) = {}
      /\ \A i \in 1..n : os[i].face = e.face => FramesOf(ts[i]) \cap FramesOf(ts[n + 1]) = {}
  BY DEF OnePlace, Elsewhere
<1> HIDE DEF n, r
<1>3. \A i \in 1..(n + 1) : i \in 1..n \/ i = n + 1  BY <1>1
<1>4. ASSUME NEW i \in 1..(n + 1), NEW j \in 1..(n + 1), i # j, r[i].face = r[j].face
      PROVE  FramesOf(ts[i]) \cap FramesOf(ts[j]) = {}
  <2>1. CASE i \in 1..n /\ j \in 1..n
    <3>1. os[i].face = os[j].face  BY <1>1, <1>4, <2>1
    <3> QED  BY <1>2, <1>4, <2>1, <3>1
  <2>2. CASE i = n + 1 /\ j \in 1..n
    <3>1. os[j].face = e.face  BY <1>1, <1>4, <2>2
    <3>2. FramesOf(ts[j]) \cap FramesOf(ts[n + 1]) = {}  BY <1>2, <2>2, <3>1
    <3> QED  BY <2>2, <3>2
  <2>3. CASE i \in 1..n /\ j = n + 1
    <3>1. os[i].face = e.face  BY <1>1, <1>4, <2>3
    <3> QED  BY <1>2, <2>3, <3>1
  <2> QED  BY <1>3, <1>4, <2>1, <2>2, <2>3
<1>5. OnePlace(r, ts)  BY <1>1, <1>4 DEF OnePlace
<1> QED  BY <1>5 DEF r

LEMMA OnePlaceKept ==
  ASSUME OnePlaceAtOnce, outcomes' = outcomes, tracks' = tracks
  PROVE  OnePlaceAtOnce'
<1>1. OnePlace(outcomes, tracks)  BY DEF OnePlaceAtOnce, OnePlace
<1>2. OnePlace(outcomes', tracks')  BY <1>1
<1> QED  BY <1>2 DEF OnePlaceAtOnce, OnePlace

\* One answer more.
LEMMA AnsweredInv ==
  ASSUME TracksInv, OnePlaceAtOnce, NEW e \in Answers,
         phase = "resolve", next <= Len(tracks), next' = next + 1,
         outcomes' = Append(outcomes, e), e.face \in FacesUpto(Len(outcomes) + 1),
         IsFiniteSet(gallery'), \A p \in gallery' : p.face \in FacesUpto(Len(outcomes) + 1),
         UNCHANGED <<video, phase, frames, active, closed, tracks, crops, overlay>>,
         Elsewhere(outcomes, tracks, e.face, tracks[next])
  PROVE  TracksInv' /\ OnePlaceAtOnce'
<1> DEFINE n == Len(outcomes)
<1>1. /\ outcomes \in Seq(Answers) /\ next = n + 1 /\ n <= Len(tracks)
      /\ tracks \in Seq(CanonicalTracks)
      /\ \A o \in 1..n : outcomes[o].face \in FacesUpto(n)
      /\ TrackingInv /\ MergeInv /\ next \in Nat \ {0}
  BY DEF TracksInv, MergeInv, ResolveInv, TrackingInv
<1>2. /\ outcomes' \in Seq(Answers) /\ Len(outcomes') = n + 1 /\ n \in Nat
      /\ outcomes'[n + 1] = e /\ \A o \in 1..n : outcomes'[o] = outcomes[o]
  <2> HIDE DEF Answers
  <2> QED  BY <1>1
<1>3. TrackingInv' /\ MergeInv'  BY <1>1 DEF TrackingInv, MergeInv
<1>4. ResolveInv'
  <2>1. \A o \in 1..(n + 1) : outcomes'[o].face \in FacesUpto(n + 1)
    <3> SUFFICES ASSUME NEW o \in 1..(n + 1) PROVE outcomes'[o].face \in FacesUpto(n + 1)  OBVIOUS
    <3>1. CASE o = n + 1  BY <1>2, <3>1
    <3>2. CASE o \in 1..n
      <4>1. outcomes[o].face \in FacesUpto(n) /\ outcomes'[o] = outcomes[o]  BY <1>1, <1>2, <3>2
      <4>2. \A m \in FacesUpto(n) : m \in FacesUpto(n + 1)  BY <1>2 DEF FacesUpto
      <4> QED  BY <4>1, <4>2
    <3> QED  BY <1>2, <3>1, <3>2
  <2>2. next' = Len(outcomes') + 1 /\ Len(outcomes') <= Len(tracks')  BY <1>1, <1>2
  <2> HIDE DEF n
  <2>3. Len(outcomes') = n + 1 /\ \A p \in gallery' : p.face \in FacesUpto(n + 1)
    BY <1>2 DEF n
  <2> QED  BY <1>2, <2>1, <2>2, <2>3 DEF ResolveInv
<1>5. OnePlaceAtOnce'
  <2>1. OnePlace(outcomes, tracks)  BY DEF OnePlaceAtOnce, OnePlace
  <2>2. OnePlace(Append(outcomes, e), tracks)  BY <1>1, <2>1, OnePlaceMore
  <2>3. OnePlace(outcomes', tracks')  BY <2>2
  <2> QED  BY <2>3 DEF OnePlaceAtOnce, OnePlace
<1> QED  BY <1>3, <1>4, <1>5 DEF TracksInv

LEMMA ResolveTrackInv ==
  TracksInv /\ OnePlaceAtOnce /\ ResolveTrack => TracksInv' /\ OnePlaceAtOnce'
<1> SUFFICES ASSUME TracksInv, OnePlaceAtOnce, ResolveTrack
             PROVE  TracksInv' /\ OnePlaceAtOnce'
  OBVIOUS
<1> DEFINE track == tracks[next]
           samples == Samples(track)
           v == Weighted(samples)
           n == Len(outcomes)
           fresh == 100 + next
<1>1. /\ phase = "resolve" /\ next <= Len(tracks)
      /\ UNCHANGED <<video, frames, active, closed, tracks, crops, overlay>>
  BY DEF ResolveTrack
<1>2. /\ tracks \in Seq(CanonicalTracks) /\ outcomes \in Seq(Answers) /\ n \in Nat
      /\ next = n + 1 /\ n <= Len(tracks) /\ IsFiniteSet(gallery)
      /\ \A p \in gallery : p.face \in FacesUpto(n)
      /\ \A o \in 1..n : outcomes[o].face \in FacesUpto(n)
  BY <1>1 DEF TracksInv, MergeInv, ResolveInv
<1>3. TrackingInv /\ MergeInv  BY DEF TracksInv
<1>4. CASE samples = <<>>
  <2>1. phase' = "failed" /\ UNCHANGED <<next, outcomes, gallery>>
    BY <1>4 DEF ResolveTrack
  <2>2. TrackingInv' /\ MergeInv'  BY <1>1, <1>3, <2>1 DEF TrackingInv, MergeInv
  <2>3. ResolveInv'  BY <1>1, <2>1 DEF TracksInv, ResolveInv
  <2>4. OnePlaceAtOnce'  BY <1>1, <2>1, OnePlaceKept
  <2> QED  BY <2>2, <2>3, <2>4 DEF TracksInv
<1>5. CASE samples # <<>>
  <2>1. PICK cand \in Nearest(v), refused \in SUBSET {p.face : p \in gallery} :
          /\ LET offers == {i \in Offers(v, cand, track) : cand[i].face \notin refused}
                 first == CHOOSE i \in offers : \A k \in offers : i <= k
             IN  IF offers # {}
                 THEN /\ outcomes' = Append(outcomes, [face |-> cand[first].face, new |-> FALSE])
                      /\ UNCHANGED gallery
                 ELSE /\ outcomes' = Append(outcomes, [face |-> fresh, new |-> TRUE])
                      /\ gallery' = gallery \cup {[face |-> fresh, vec |-> v]}
          /\ next' = next + 1 /\ UNCHANGED phase
    BY <1>5 DEF ResolveTrack
  <2> DEFINE offers == {i \in Offers(v, cand, track) : cand[i].face \notin refused}
             first == CHOOSE i \in offers : \A k \in offers : i <= k
  <2>2. /\ IF offers # {}
           THEN /\ outcomes' = Append(outcomes, [face |-> cand[first].face, new |-> FALSE])
                /\ gallery' = gallery
           ELSE /\ outcomes' = Append(outcomes, [face |-> fresh, new |-> TRUE])
                /\ gallery' = gallery \cup {[face |-> fresh, vec |-> v]}
        /\ next' = next + 1 /\ phase' = phase
    BY <2>1
  <2>3. next \in 1..Len(tracks) /\ \A o \in 1..n : o \in 1..Len(tracks)
    <3>1. Len(tracks) \in Nat
      <4> HIDE DEF CanonicalTracks
      <4> QED  BY <1>2
    <3> HIDE DEF n
    <3> QED  BY <1>1, <1>2, <3>1
  <2>4. track \in CanonicalTracks /\ \A o \in 1..n : tracks[o] \in CanonicalTracks
    <3> HIDE DEF CanonicalTracks
    <3> QED  BY <1>2, <2>3
  <2>5. \A m \in FacesUpto(n) : m \in FacesUpto(n + 1) /\ m \in Nat /\ m # fresh
    BY <1>2 DEF FacesUpto
  <2>6. CASE offers # {}
    <3>1. first \in offers
      <4>1. offers \in SUBSET Nat
        <5> DEFINE k == IF Cardinality(gallery) < Limit THEN Cardinality(gallery) ELSE Limit
        <5>1. k \in Nat  BY <1>2, FS_CardinalityType, TracksAssumption
        <5> HIDE DEF k
        <5>2. cand \in [1..k -> gallery]  BY <2>1 DEF Nearest, k
        <5> QED  BY <5>1, <5>2 DEF Offers
      <4> HIDE DEF offers
      <4>2. \E i \in offers : \A k \in offers : i <= k  BY <2>6, <4>1, Least
      <4> QED  BY <4>2
    <3> HIDE DEF first
    <3> DEFINE face == cand[first].face
               e == [face |-> face, new |-> FALSE]
    <3>2. /\ first \in DOMAIN cand /\ ~Blocked(face, track)  BY <3>1 DEF Offers
    <3>3. cand[first] \in gallery  BY <2>1, <3>2 DEF Nearest
    <3>4. face \in FacesUpto(n)  BY <1>2, <3>3
    <3>5. Elsewhere(outcomes, tracks, face, track)
      <4> SUFFICES ASSUME NEW o \in 1..n, outcomes[o].face = face
                   PROVE  FramesOf(tracks[o]) \cap FramesOf(track) = {}
        BY DEF Elsewhere
      <4>1. ~\E a \in ToSet(Intervals(tracks[o])), b \in ToSet(Intervals(track)) : Meet(a, b)
        BY <3>2 DEF Blocked
      <4> HIDE DEF track
      <4> QED  BY <2>4, <4>1, MeetingFrames
    <3> HIDE DEF face
    <3>6. e \in Answers /\ e.face = face  BY <2>5, <3>4 DEF Answers
    <3>7. outcomes' = Append(outcomes, e) /\ gallery' = gallery  BY <2>2, <2>6 DEF face
    <3> HIDE DEF e
    <3>8. \A p \in gallery' : p.face \in FacesUpto(n + 1)  BY <1>2, <2>5, <3>7
    <3>9. e.face \in FacesUpto(n + 1) /\ Elsewhere(outcomes, tracks, e.face, track)
      BY <2>5, <3>4, <3>5, <3>6
    <3>10. UNCHANGED <<video, phase, frames, active, closed, tracks, crops, overlay>>
      BY <1>1, <2>2
    <3>11. IsFiniteSet(gallery')  BY <1>2, <3>7
    <3> QED  BY <1>1, <2>2, <3>6, <3>7, <3>8, <3>9, <3>10, <3>11, AnsweredInv
  <2>7. CASE offers = {}
    <3> DEFINE e == [face |-> fresh, new |-> TRUE]
               p == [face |-> fresh, vec |-> v]
    <3>1. outcomes' = Append(outcomes, e) /\ gallery' = gallery \cup {p}  BY <2>2, <2>7
    <3>2. fresh \in Nat /\ fresh \in FacesUpto(n + 1)  BY <1>2 DEF FacesUpto
    <3>3. e \in Answers /\ e.face = fresh /\ p.face = fresh  BY <3>2 DEF Answers
    <3> HIDE DEF e, p
    <3>4. Elsewhere(outcomes, tracks, e.face, track)
      <4>1. \A o \in 1..n : outcomes[o].face # fresh  BY <1>2, <2>5
      <4> QED  BY <3>3, <4>1 DEF Elsewhere
    <3>5. IsFiniteSet(gallery')  BY <1>2, <3>1, FS_AddElement
    <3>6. \A q \in gallery' : q.face \in FacesUpto(n + 1)  BY <1>2, <2>5, <3>1, <3>2, <3>3
    <3>7. UNCHANGED <<video, phase, frames, active, closed, tracks, crops, overlay>>
      BY <1>1, <2>2
    <3>8. e.face \in FacesUpto(n + 1)  BY <3>2, <3>3
    <3> QED  BY <1>1, <2>2, <3>1, <3>3, <3>4, <3>5, <3>6, <3>7, <3>8, AnsweredInv
  <2> QED  BY <2>6, <2>7
<1> QED  BY <1>4, <1>5

LEMMA TakeCropsInv == TracksInv /\ TakeCrops => TracksInv'
<1> SUFFICES ASSUME TracksInv, TakeCrops PROVE TracksInv'  OBVIOUS
<1>1. /\ phase = "merge" /\ phase' \in {"resolve", "failed"} /\ next' = 1
      /\ UNCHANGED <<video, frames, active, closed, tracks, outcomes, gallery, overlay>>
  BY DEF TakeCrops
<1>2. TrackingInv'  BY <1>1 DEF TracksInv, TrackingInv
<1>3. MergeInv'  BY <1>1 DEF TracksInv, MergeInv
<1>4. ResolveInv'
  <2>1. outcomes = <<>> /\ Len(<<>>) + 1 = 1  BY <1>1 DEF TracksInv, ResolveInv
  <2> QED  BY <1>1, <2>1 DEF TracksInv, ResolveInv
<1> QED  BY <1>2, <1>3, <1>4 DEF TracksInv

\* Whatever ends the attempt.
LEMMA EndedInv ==
  TracksInv /\ (ResolveFails \/ WriteOverlay \/ UNCHANGED tracksVars) => TracksInv'
<1> SUFFICES ASSUME TracksInv, ResolveFails \/ WriteOverlay \/ UNCHANGED tracksVars
             PROVE  TracksInv'
  OBVIOUS
<1>1. UNCHANGED <<video, frames, next, active, closed, tracks, outcomes, gallery>>
  BY DEF ResolveFails, WriteOverlay, tracksVars
<1>2. phase' = phase \/ (phase = "resolve" /\ phase' \in {"done", "failed"})
  BY DEF ResolveFails, WriteOverlay, tracksVars
<1>3. TrackingInv'  BY <1>1, <1>2 DEF TracksInv, TrackingInv
<1>4. MergeInv'  BY <1>1, <1>2 DEF TracksInv, MergeInv
<1>5. ResolveInv'  BY <1>1, <1>2 DEF TracksInv, ResolveInv
<1> QED  BY <1>3, <1>4, <1>5 DEF TracksInv

LEMMA TracksStep == TracksInv /\ OnePlaceAtOnce /\ [TracksNext]_tracksVars
                      => TracksInv' /\ OnePlaceAtOnce'
<1> SUFFICES ASSUME TracksInv, OnePlaceAtOnce, [TracksNext]_tracksVars
             PROVE  TracksInv' /\ OnePlaceAtOnce'
  OBVIOUS
<1>1. CASE ResolveTrack  BY <1>1, ResolveTrackInv
<1>2. CASE MergeTracklet \/ CloseTracklets \/ TrackFrame \/ SampleFrames
  <2>1. TracksInv'
    BY <1>2, MergeTrackletInv, CloseTrackletsInv, TrackFrameInv, SampleFramesInv
  <2>2. outcomes = <<>> /\ outcomes' = outcomes
    BY <1>2 DEF TracksInv, ResolveInv, MergeTracklet, CloseTracklets, TrackFrame, SampleFrames
  <2>3. OnePlaceAtOnce'
    <3>1. Len(<<>>) = 0  OBVIOUS
    <3>2. 1..Len(outcomes') = {}  BY <2>2, <3>1
    <3> QED  BY <3>2 DEF OnePlaceAtOnce
  <2> QED  BY <2>1, <2>3
<1>3. CASE TakeCrops
  <2>1. outcomes' = outcomes /\ tracks' = tracks  BY <1>3 DEF TakeCrops
  <2> QED  BY <1>3, <2>1, TakeCropsInv, OnePlaceKept
<1>4. CASE ResolveFails \/ WriteOverlay \/ UNCHANGED tracksVars
  <2>1. outcomes' = outcomes /\ tracks' = tracks
    BY <1>4 DEF ResolveFails, WriteOverlay, tracksVars
  <2> QED  BY <1>4, <2>1, EndedInv, OnePlaceKept
<1> QED  BY <1>1, <1>2, <1>3, <1>4 DEF TracksNext, Stop

-----------------------------------------------------------------------------
(* Videos: every face in one tracklet.                                     *)

\* The tracklets of a list that hold a face.
Holding(list, d) == {i \in 1..Len(list) : d \in ToSet(list[i])}
Nowhere(list, d) == Holding(list, d) = {}
OnceIn(list, d) == \E i : Holding(list, d) = {i}

\* Some elements of a list, once each: what was held once is, if its place is
\* one of those taken.
LEMMA ChosenOnce ==
  ASSUME NEW s \in Seq(Tracklets), NEW I \in SUBSET DOMAIN s, NEW r, NEW p, NEW d,
         Chooses(Tracklets, s, I, r, p),
         \A n, m \in 1..Cardinality(I) : n < m => p[n] # p[m]
  PROVE  /\ Nowhere(s, d) => Nowhere(r, d)
         /\ \A i : Holding(s, d) = {i} =>
              IF i \in I THEN OnceIn(r, d) ELSE Nowhere(r, d)
<1> DEFINE k == Cardinality(I)
<1>1. /\ Len(r) = k /\ k \in Nat /\ p \in [1..k -> I]
      /\ \A n \in 1..k : r[n] = s[p[n]]
      /\ \A i \in I : \E n \in 1..k : p[n] = i
  BY DEF Chooses
<1>2. \A i : i \in Holding(s, d) <=> i \in 1..Len(s) /\ d \in ToSet(s[i])  BY DEF Holding
<1>3. DOMAIN s = 1..Len(s)
  <2> HIDE DEF Tracklets
  <2> QED  OBVIOUS
<1> HIDE DEF k
<1>4. \A n : n \in Holding(r, d) <=> n \in 1..k /\ p[n] \in Holding(s, d)
  BY <1>1, <1>2, <1>3 DEF Holding
<1>5. \A n, m \in 1..k : p[n] = p[m] => n = m
  <2>1. \A n, m \in 1..k : n < m \/ m < n \/ n = m  BY <1>1
  <2> QED  BY <2>1 DEF k
<1>6. Nowhere(s, d) => Nowhere(r, d)  BY <1>4 DEF Nowhere
<1>7. ASSUME NEW i, Holding(s, d) = {i}
      PROVE  IF i \in I THEN OnceIn(r, d) ELSE Nowhere(r, d)
  <2>1. CASE i \in I
    <3>1. PICK n \in 1..k : p[n] = i  BY <1>1, <2>1
    <3>2. Holding(r, d) = {n}  BY <1>4, <1>5, <1>7, <3>1
    <3> QED  BY <2>1, <3>2 DEF OnceIn
  <2>2. CASE i \notin I
    <3>1. Holding(r, d) = {}  BY <1>1, <1>4, <1>7, <2>2
    <3> QED  BY <2>2, <3>1 DEF Nowhere
  <2> QED  BY <2>1, <2>2
<1> QED  BY <1>6, <1>7

\* One list after the other.
LEMMA JoinedOnce ==
  ASSUME NEW a \in Seq(Tracklets), NEW b \in Seq(Tracklets), NEW d
  PROVE  /\ Nowhere(a, d) /\ Nowhere(b, d) => Nowhere(a \o b, d)
         /\ OnceIn(a, d) /\ Nowhere(b, d) => OnceIn(a \o b, d)
         /\ Nowhere(a, d) /\ OnceIn(b, d) => OnceIn(a \o b, d)
<1> DEFINE r == a \o b  n == Len(a)  m == Len(b)
<1>1. Joins(a, b, r)  BY TwoLists
<1>2. n \in Nat /\ m \in Nat
  <2> HIDE DEF Tracklets
  <2> QED  OBVIOUS
<1> HIDE DEF r, n, m
<1>3. /\ Len(r) = n + m
      /\ \A i \in 1..n : r[i] = a[i]
      /\ \A i \in 1..m : r[n + i] = b[i]
  BY <1>1 DEF Joins, n, m
<1>4. \A i : i \in Holding(r, d) <=> i \in 1..(n + m) /\ d \in ToSet(r[i])
  BY <1>3 DEF Holding
<1>5. \A i : i \in Holding(a, d) <=> i \in 1..n /\ d \in ToSet(a[i])  BY DEF Holding, n
<1>6. \A i : i \in Holding(b, d) <=> i \in 1..m /\ d \in ToSet(b[i])  BY DEF Holding, m
<1>7. ASSUME NEW i \in Holding(r, d)
      PROVE  i \in Holding(a, d) \/ \E j \in Holding(b, d) : i = n + j
  <2>1. i \in 1..(n + m) /\ d \in ToSet(r[i])  BY <1>4
  <2>2. CASE i \in 1..n  BY <1>3, <1>5, <2>1, <2>2
  <2>3. CASE i \notin 1..n
    <3> DEFINE j == i - n
    <3>1. j \in 1..m /\ i = n + j  BY <1>2, <2>1, <2>3
    <3> HIDE DEF j
    <3>2. j \in Holding(b, d)  BY <1>3, <1>6, <2>1, <3>1
    <3> QED  BY <3>1, <3>2
  <2> QED  BY <2>2, <2>3
<1>8. ASSUME NEW i \in Holding(a, d) PROVE i \in Holding(r, d)
  <2>1. i \in 1..n /\ i \in 1..(n + m)  BY <1>2, <1>5
  <2> QED  BY <1>3, <1>4, <1>5, <2>1
<1>9. ASSUME NEW j \in Holding(b, d) PROVE n + j \in Holding(r, d)
  <2>1. j \in 1..m /\ n + j \in 1..(n + m)  BY <1>2, <1>6
  <2> QED  BY <1>3, <1>4, <1>6, <2>1
<1>10. ASSUME Nowhere(a, d), Nowhere(b, d) PROVE Nowhere(r, d)  BY <1>7, <1>10 DEF Nowhere
<1>11. ASSUME OnceIn(a, d), Nowhere(b, d) PROVE OnceIn(r, d)
  <2>1. PICK i : Holding(a, d) = {i}  BY <1>11 DEF OnceIn
  <2>2. Holding(r, d) = {i}  BY <1>7, <1>8, <1>11, <2>1 DEF Nowhere
  <2> QED  BY <2>2 DEF OnceIn
<1>12. ASSUME Nowhere(a, d), OnceIn(b, d) PROVE OnceIn(r, d)
  <2>1. PICK j : Holding(b, d) = {j}  BY <1>12 DEF OnceIn
  <2>2. Holding(r, d) = {n + j}  BY <1>7, <1>9, <1>12, <2>1 DEF Nowhere
  <2> QED  BY <2>2 DEF OnceIn
<1> QED  BY <1>10, <1>11, <1>12 DEF r

LEMMA AppendedSet ==
  ASSUME NEW t \in Tracklets, NEW e \in Sightings, NEW d
  PROVE  d \in ToSet(Append(t, e)) <=> d \in ToSet(t) \/ d = e
<1> DEFINE r == Append(t, e)  n == Len(t)
<1>1. t \in Seq(Sightings)  BY DEF Tracklets
<1>2. /\ r \in Seq(Sightings) /\ Len(r) = n + 1 /\ n \in Nat /\ r[n + 1] = e
      /\ \A i \in 1..n : r[i] = t[i]
  <2> HIDE DEF Sightings
  <2> QED  BY <1>1
<1>3. \A x : x \in ToSet(t) <=> \E i \in 1..n : x = t[i]  BY <1>1, ListSet
<1> HIDE DEF r, n
<1>4. \A x : x \in ToSet(r) <=> \E i \in 1..(n + 1) : x = r[i]
  <2> HIDE DEF Sightings
  <2> QED  BY <1>2, ListSet
<1>5. \A i \in 1..(n + 1) : i = n + 1 \/ i \in 1..n  BY <1>2
<1>6. n + 1 \in 1..(n + 1) /\ \A i \in 1..n : i \in 1..(n + 1)  BY <1>2
<1>7. d \in ToSet(r) <=> d \in ToSet(t) \/ d = e  BY <1>2, <1>3, <1>4, <1>5, <1>6
<1> QED  BY <1>7 DEF r

\* A face is in a tracklet after the frame if it was before, or is matched
\* with it.
LEMMA ContinuedHolds ==
  ASSUME NEW alive \in Seq(Tracklets), NEW dets \in Seq(Sightings),
         NEW i \in 1..Len(alive), NEW d
  PROVE  d \in ToSet(Continued(alive, dets, i)) <=>
           \/ d \in ToSet(alive[i])
           \/ \E e \in 1..Len(dets) : <<i, e>> \in Matching(alive, dets) /\ d = dets[e]
<1> DEFINE taken == Matching(alive, dets)
           j == CHOOSE e \in 1..Len(dets) : <<i, e>> \in taken
<1>1. CASE \E e \in 1..Len(dets) : <<i, e>> \in taken
  <2>1. j \in 1..Len(dets) /\ <<i, j>> \in taken  BY <1>1
  <2>2. Continued(alive, dets, i) = Append(alive[i], dets[j])  BY <1>1 DEF Continued
  <2> HIDE DEF j
  <2>3. \A e : <<i, e>> \in taken => e = j
    <3> SUFFICES ASSUME NEW e, <<i, e>> \in taken PROVE e = j  OBVIOUS
    <3> DEFINE p == <<i, e>>  q == <<i, j>>
    <3>1. p[1] = q[1]  OBVIOUS
    <3>2. p = q  BY <2>1, <3>1, MatchedOnce
    <3> QED  BY <3>2
  <2>4. alive[i] \in Tracklets
    <3> HIDE DEF Tracklets
    <3> QED  OBVIOUS
  <2>5. dets[j] \in Sightings
    <3> HIDE DEF Sightings
    <3> QED  BY <2>1
  <2>6. d \in ToSet(Append(alive[i], dets[j])) <=> d \in ToSet(alive[i]) \/ d = dets[j]
    BY <2>4, <2>5, AppendedSet
  <2> HIDE DEF taken
  <2> QED  BY <2>1, <2>2, <2>3, <2>6 DEF taken
<1>2. CASE ~\E e \in 1..Len(dets) : <<i, e>> \in taken
  <2>1. Continued(alive, dets, i) = alive[i]  BY <1>2 DEF Continued
  <2> QED  BY <1>2, <2>1
<1> QED  BY <1>1, <1>2

\* Which tracklets hold a face after a frame.
Carries(alive, dets, more, q, d) ==
  \A i : i \in Holding(more, d) <=>
          \/ i \in Holding(alive, d)
          \/ /\ i \in 1..Len(alive)
             /\ \E e \in 1..Len(dets) : <<i, e>> \in Matching(alive, dets) /\ d = dets[e]
          \/ \E n \in 1..Cardinality(Fresh(alive, dets)) : i = Len(alive) + n /\ d = dets[q[n]]

LEMMA ExtendedHolds ==
  ASSUME NEW alive \in Seq(Tracklets), NEW dets \in Seq(Sightings), NEW d
  PROVE  \E q : /\ Extends(alive, dets, Extended(alive, dets), q)
                /\ Carries(alive, dets, Extended(alive, dets), q, d)
<1> DEFINE more == Extended(alive, dets)
           len == Len(alive)
           k == Cardinality(Fresh(alive, dets))
           Matched(i) == \E e \in 1..Len(dets) :
                            <<i, e>> \in Matching(alive, dets) /\ d = dets[e]
<1>1. PICK q : Extends(alive, dets, more, q)  BY ExtendedParts
<1>2. len \in Nat
  <2> HIDE DEF Tracklets
  <2> QED  OBVIOUS
<1>3. \A i \in 1..len : d \in ToSet(Continued(alive, dets, i)) <=>
                         d \in ToSet(alive[i]) \/ Matched(i)
  BY ContinuedHolds
<1>4. \A i : i \in Holding(alive, d) <=> i \in 1..len /\ d \in ToSet(alive[i])  BY DEF Holding
<1> HIDE DEF Matched, len, k, more
<1>5. /\ k \in Nat /\ Len(more) = len + k
      /\ \A i \in 1..len : more[i] = Continued(alive, dets, i)
      /\ \A n \in 1..k : more[len + n] = <<dets[q[n]]>>
  BY <1>1 DEF Extends, k, len
<1>6. \A i : i \in Holding(more, d) <=> i \in 1..(len + k) /\ d \in ToSet(more[i])
  BY <1>5 DEF Holding
<1>7. \A n \in 1..k : d \in ToSet(more[len + n]) <=> d = dets[q[n]]
  <2>1. \A x : d \in ToSet(<<x>>) <=> d = x
    <3> SUFFICES ASSUME NEW x PROVE d \in ToSet(<<x>>) <=> d = x  OBVIOUS
    <3>1. <<x>> \in Seq({x}) /\ Len(<<x>>) = 1 /\ <<x>>[1] = x  OBVIOUS
    <3> DEFINE s == <<x>>
    <3> HIDE DEF s
    <3>2. s \in Seq({x}) /\ Len(s) = 1 /\ s[1] = x  BY <3>1 DEF s
    <3>3. d \in ToSet(s) <=> \E i \in 1..Len(s) : d = s[i]  BY <3>2, ListSet
    <3>4. d \in ToSet(s) <=> d = x  BY <3>2, <3>3
    <3> QED  BY <3>4 DEF s
  <2> QED  BY <1>5, <2>1
<1>8. \A i : i \in 1..(len + k) <=> i \in 1..len \/ \E n \in 1..k : i = len + n
  <2>1. ASSUME NEW i \in 1..(len + k), i \notin 1..len PROVE \E n \in 1..k : i = len + n
    <3>1. i - len \in 1..k /\ i = len + (i - len)  BY <1>2, <1>5, <2>1
    <3> QED  BY <3>1
  <2>2. \A i \in 1..len : i \in 1..(len + k)  BY <1>2, <1>5
  <2>3. \A n \in 1..k : len + n \in 1..(len + k)  BY <1>2, <1>5
  <2> QED  BY <2>1, <2>2, <2>3
<1>9. \A i : i \in Holding(more, d) <=>
               \/ i \in Holding(alive, d)
               \/ i \in 1..len /\ Matched(i)
               \/ \E n \in 1..k : i = len + n /\ d = dets[q[n]]
  <2> SUFFICES ASSUME NEW i
               PROVE  i \in Holding(more, d) <=>
                        \/ i \in Holding(alive, d)
                        \/ i \in 1..len /\ Matched(i)
                        \/ \E n \in 1..k : i = len + n /\ d = dets[q[n]]
    OBVIOUS
  <2>1. CASE i \in 1..len
    <3>1. ~\E n \in 1..k : i = len + n  BY <1>2, <1>5, <2>1
    <3> QED  BY <1>3, <1>4, <1>5, <1>6, <1>8, <2>1, <3>1
  <2>2. CASE i \notin 1..len  BY <1>4, <1>6, <1>7, <1>8, <2>2
  <2> QED  BY <2>1, <2>2
<1>10. Carries(alive, dets, more, q, d)  BY <1>9 DEF Carries, Matched, len, k
<1> QED  BY <1>1, <1>10 DEF more

\* A face of another frame stays where it is.
LEMMA ExtendedOthers ==
  ASSUME NEW alive \in Seq(Tracklets), NEW dets \in Seq(Sightings), NEW d, d \notin ToSet(dets)
  PROVE  Holding(Extended(alive, dets), d) = Holding(alive, d)
<1> DEFINE more == Extended(alive, dets)
<1>1. PICK q : Extends(alive, dets, more, q) /\ Carries(alive, dets, more, q, d)
  BY ExtendedHolds
<1> HIDE DEF more
<1>2. \A e \in 1..Len(dets) : d # dets[e]
  <2> HIDE DEF Sightings
  <2> QED  BY ListSet
<1>3. \A n \in 1..Cardinality(Fresh(alive, dets)) : q[n] \in 1..Len(dets)
  BY <1>1 DEF Extends, Fresh
<1>4. Holding(more, d) = Holding(alive, d)  BY <1>1, <1>2, <1>3 DEF Carries
<1> QED  BY <1>4 DEF more

\* A face of the frame is in one tracklet then.
LEMMA ExtendedOnce ==
  ASSUME NEW alive \in Seq(Tracklets), NEW dets \in Seq(Sightings), NEW e \in 1..Len(dets),
         Nowhere(alive, dets[e]), \A i \in 1..Len(dets) : dets[i] = dets[e] => i = e
  PROVE  OnceIn(Extended(alive, dets), dets[e])
<1> DEFINE more == Extended(alive, dets)
           len == Len(alive)
           k == Cardinality(Fresh(alive, dets))
           taken == Matching(alive, dets)
<1>1. PICK q : Extends(alive, dets, more, q) /\ Carries(alive, dets, more, q, dets[e])
  BY ExtendedHolds
<1> HIDE DEF more
<1>2. /\ k \in Nat /\ q \in [1..k -> Fresh(alive, dets)]
      /\ \A n, m \in 1..k : n < m => q[n] < q[m]
      /\ \A d \in Fresh(alive, dets) : \E n \in 1..k : q[n] = d
  BY <1>1 DEF Extends
<1>3. \A d : d \in Fresh(alive, dets) <=> d \in 1..Len(dets) /\ \A p \in taken : p[2] # d
  BY DEF Fresh
<1>4. \A p \in taken : p = <<p[1], p[2]>> /\ p[1] \in 1..len
  BY MatchingGreedy, PairFields
<1>5. \A p, r \in taken : p[2] = r[2] => p = r  BY MatchedOnce
<1> HIDE DEF len, k, taken
<1>6. \A i : i \in Holding(more, dets[e]) <=>
               \/ i \in 1..len /\ <<i, e>> \in taken
               \/ \E n \in 1..k : i = len + n /\ q[n] = e
  <2>1. \A n \in 1..k : q[n] \in 1..Len(dets)  BY <1>2, <1>3
  <2>2. Holding(alive, dets[e]) = {}  BY DEF Nowhere
  <2> QED  BY <1>1, <2>1, <2>2 DEF Carries, len, k, taken
<1>7. CASE e \in Fresh(alive, dets)
  <2>1. PICK n \in 1..k : q[n] = e  BY <1>2, <1>7
  <2>2. \A m \in 1..k : q[m] = e => m = n
    <3>1. \A m \in 1..k : m < n \/ n < m \/ m = n  BY <1>2
    <3>2. e \in Nat  OBVIOUS
    <3> QED  BY <1>2, <2>1, <3>1, <3>2
  <2>3. \A i : <<i, e>> \notin taken
    <3> SUFFICES ASSUME NEW i, <<i, e>> \in taken PROVE FALSE  OBVIOUS
    <3>1. <<i, e>>[2] = e  OBVIOUS
    <3> QED  BY <1>3, <1>7, <3>1
  <2>4. Holding(more, dets[e]) = {len + n}  BY <1>6, <2>1, <2>2, <2>3
  <2> QED  BY <2>4 DEF OnceIn, more
<1>8. CASE e \notin Fresh(alive, dets)
  <2>1. PICK p \in taken : p[2] = e  BY <1>3, <1>8
  <2> DEFINE i == p[1]
  <2>2. <<i, e>> \in taken /\ i \in 1..len  BY <1>4, <2>1
  <2> HIDE DEF i
  <2>3. \A j : <<j, e>> \in taken => j = i
    <3> SUFFICES ASSUME NEW j, <<j, e>> \in taken PROVE j = i  OBVIOUS
    <3>1. <<j, e>>[2] = e /\ <<i, e>>[2] = e  OBVIOUS
    <3>2. <<j, e>> = <<i, e>>  BY <1>5, <2>2, <3>1
    <3> QED  BY <3>2
  <2>4. \A n \in 1..k : q[n] # e  BY <1>2, <1>8
  <2>5. Holding(more, dets[e]) = {i}  BY <1>6, <2>2, <2>3, <2>4
  <2> QED  BY <2>5 DEF OnceIn, more
<1> QED  BY <1>7, <1>8

\* Every face tracked so far is in one tracklet, lost or looked for.
Tracked(d) == \/ OnceIn(closed, d) /\ Nowhere(active, d)
              \/ Nowhere(closed, d) /\ OnceIn(active, d)
FacesInv ==
  phase # "sample" =>
    \A n \in 1..Len(frames) : phase # "track" \/ n < next =>
      \A d \in ToSet(Detections(frames[n])) : Tracked(d)

\* Nobody who is behind a frame holds a face of it.
LEMMA BehindNowhere ==
  ASSUME NEW list \in Seq(Tracklets), NEW f \in Frames, f.faces # <<>>,
         \A t \in ToSet(list) : Behind(t, f), NEW d, d.frame = f.index
  PROVE  Nowhere(list, d)
<1> SUFFICES ASSUME NEW i \in 1..Len(list), d \in ToSet(list[i]) PROVE FALSE
  BY DEF Nowhere, Holding
<1> DEFINE t == list[i]
<1>1. t \in Tracklets /\ t \in ToSet(list)
  <2> HIDE DEF Tracklets
  <2>1. i \in DOMAIN list  OBVIOUS
  <2> QED  BY <2>1 DEF ToSet
<1>2. d \in ToSet(t)  OBVIOUS
<1> HIDE DEF t
<1>3. t \in Seq(Sightings) /\ \A k \in 1..Len(t) : t[k].frame \in Nat /\ t[k].frame <= End(t)
  BY <1>1, TrackletFields
<1>4. PICK k \in 1..Len(t) : d = t[k]
  <2> HIDE DEF Sightings
  <2> QED  BY <1>2, <1>3, ListSet
<1>5. End(t) \in Nat  BY <1>1, TrackletFields
<1>6. End(t) < f.index  BY <1>1 DEF Behind
<1>7. f.index \in Nat  BY FrameFields
<1> QED  BY <1>3, <1>4, <1>5, <1>6, <1>7

\* What is taken out of a list and what is left hold every face they held.
LEMMA SplitOnce ==
  ASSUME NEW s \in Seq(Tracklets), NEW I \in SUBSET (1..Len(s)), NEW d
  PROVE  LET J == (1..Len(s)) \ I
         IN  /\ Nowhere(s, d) => Nowhere(Picked(s, I), d) /\ Nowhere(Picked(s, J), d)
             /\ OnceIn(s, d) => \/ OnceIn(Picked(s, I), d) /\ Nowhere(Picked(s, J), d)
                                \/ Nowhere(Picked(s, I), d) /\ OnceIn(Picked(s, J), d)
<1> DEFINE J == (1..Len(s)) \ I
<1>1. DOMAIN s = 1..Len(s)
  <2> HIDE DEF Tracklets
  <2> QED  OBVIOUS
<1>2. ASSUME NEW K \in SUBSET DOMAIN s
      PROVE  /\ Nowhere(s, d) => Nowhere(Picked(s, K), d)
             /\ \A i : Holding(s, d) = {i} =>
                  IF i \in K THEN OnceIn(Picked(s, K), d) ELSE Nowhere(Picked(s, K), d)
  <2>1. PICK p : /\ Chooses(Tracklets, s, K, Picked(s, K), p)
                 /\ \A n, m \in 1..Cardinality(K) : n < m => p[n] < p[m]
    BY Picking
  <2>2. \A n, m \in 1..Cardinality(K) : n < m => p[n] # p[m]
    <3>1. \A n \in 1..Cardinality(K) : p[n] \in Nat  BY <1>1, <2>1 DEF Chooses
    <3> QED  BY <2>1, <3>1
  <2> DEFINE r == Picked(s, K)
  <2> HIDE DEF r
  <2>3. Chooses(Tracklets, s, K, r, p)  BY <2>1 DEF r
  <2>4. /\ Nowhere(s, d) => Nowhere(r, d)
        /\ \A i : Holding(s, d) = {i} => IF i \in K THEN OnceIn(r, d) ELSE Nowhere(r, d)
    BY <2>2, <2>3, ChosenOnce
  <2> QED  BY <2>4 DEF r
<1>3. I \in SUBSET DOMAIN s /\ J \in SUBSET DOMAIN s  BY <1>1
<1>4. ASSUME Nowhere(s, d) PROVE Nowhere(Picked(s, I), d) /\ Nowhere(Picked(s, J), d)
  BY <1>2, <1>3, <1>4
<1>5. ASSUME OnceIn(s, d)
      PROVE  \/ OnceIn(Picked(s, I), d) /\ Nowhere(Picked(s, J), d)
             \/ Nowhere(Picked(s, I), d) /\ OnceIn(Picked(s, J), d)
  <2>1. PICK i : Holding(s, d) = {i}  BY <1>5 DEF OnceIn
  <2>2. i \in 1..Len(s)  BY <2>1 DEF Holding
  <2>3. i \in J <=> i \notin I  BY <2>2
  <2> HIDE DEF J
  <2>4. IF i \in I THEN OnceIn(Picked(s, I), d) ELSE Nowhere(Picked(s, I), d)
    BY <1>2, <1>3, <2>1
  <2>5. IF i \in J THEN OnceIn(Picked(s, J), d) ELSE Nowhere(Picked(s, J), d)
    BY <1>2, <1>3, <2>1
  <2> QED  BY <2>3, <2>4, <2>5
<1> QED  BY <1>4, <1>5

LEMMA TrackFrameFaces == TracksInv /\ FacesInv /\ TrackFrame => FacesInv'
<1> SUFFICES ASSUME TracksInv, FacesInv, TrackFrame,
                    phase' # "sample", NEW n \in 1..Len(frames'), n < next',
                    NEW d \in ToSet(Detections(frames[n]))
             PROVE  Tracked(d)'
  BY DEF FacesInv, TrackFrame
<1> DEFINE f == frames[next]
           dets == Detections(f)
           alive == {i \in 1..Len(active) : Alive(active[i], f)}
           lost == (1..Len(active)) \ alive
           P == Picked(active, alive)
           Q == Picked(active, lost)
           more == Extended(P, dets)
<1>1. /\ phase = "track" /\ next <= Len(frames) /\ next' = next + 1
      /\ closed' = closed \o Q /\ active' = more /\ frames' = frames
  BY DEF TrackFrame
<1>2. /\ frames \in Seq(Frames) /\ Lined(frames) /\ next \in Nat \ {0}
      /\ active \in Seq(Tracklets) /\ closed \in Seq(Tracklets)
      /\ \A t \in ToSet(closed) \cup ToSet(active) : \A k \in next..Len(frames) : Behind(t, frames[k])
  BY <1>1 DEF TracksInv, TrackingInv
<1>3. /\ f \in Frames /\ next \in 1..Len(frames) /\ Len(frames) \in Nat
      /\ n \in 1..Len(frames) /\ frames[n] \in Frames
  <2>1. next \in 1..Len(frames) /\ Len(frames) \in Nat /\ n \in 1..Len(frames)  BY <1>1, <1>2
  <2> HIDE DEF Frames
  <2> QED  BY <1>2, <2>1
<1> HIDE DEF f
<1>4. /\ dets \in Seq(Sightings)
      /\ \A i \in 1..Len(dets) : dets[i].frame = f.index /\ dets[i].ordinal = i
      /\ f.faces = <<>> => dets = <<>>
  BY <1>3, FrameDetections
<1>5. alive \in SUBSET (1..Len(active)) /\ lost \in SUBSET (1..Len(active))  OBVIOUS
<1>6. /\ Nowhere(active, d) => Nowhere(P, d) /\ Nowhere(Q, d)
      /\ OnceIn(active, d) => \/ OnceIn(P, d) /\ Nowhere(Q, d)
                              \/ Nowhere(P, d) /\ OnceIn(Q, d)
  <2> HIDE DEF alive
  <2> QED  BY <1>2, <1>5, SplitOnce
<1>7. P \in Seq(Tracklets) /\ Q \in Seq(Tracklets)
  <2> HIDE DEF alive, lost
  <2> QED  BY <1>2, <1>5, PickedSet
<1> HIDE DEF alive, lost, P, Q, dets
<1>8. /\ Nowhere(closed, d) /\ Nowhere(Q, d) => Nowhere(closed \o Q, d)
      /\ OnceIn(closed, d) /\ Nowhere(Q, d) => OnceIn(closed \o Q, d)
      /\ Nowhere(closed, d) /\ OnceIn(Q, d) => OnceIn(closed \o Q, d)
  BY <1>2, <1>7, JoinedOnce
<1>9. SUFFICES \/ OnceIn(closed \o Q, d) /\ Nowhere(more, d)
               \/ Nowhere(closed \o Q, d) /\ OnceIn(more, d)
  BY <1>1 DEF Tracked, OnceIn, Nowhere, Holding
<1>10. CASE n < next
  <2>1. Tracked(d)  BY <1>1, <1>3, <1>10 DEF FacesInv
  <2>2. d \notin ToSet(dets)
    <3>1. SUFFICES ASSUME d \in ToSet(dets) PROVE FALSE  OBVIOUS
    <3>2. PICK i \in 1..Len(dets) : d = dets[i]
      <4> HIDE DEF Sightings
      <4> QED  BY <1>4, <3>1, ListSet
    <3>3. d.frame = f.index /\ f.faces # <<>>
      <4>1. Len(<<>>) = 0  OBVIOUS
      <4> QED  BY <1>4, <3>2, <4>1
    <3> DEFINE g == frames[n]  old == Detections(g)
    <3>4. /\ old \in Seq(Sightings)
          /\ \A e \in 1..Len(old) : old[e].frame = g.index
          /\ g.faces = <<>> => old = <<>>
      BY <1>3, FrameDetections
    <3>5. d \in ToSet(old)  OBVIOUS
    <3> HIDE DEF old
    <3>6. PICK k \in 1..Len(old) : d = old[k]
      <4> HIDE DEF Sightings
      <4> QED  BY <3>4, <3>5, ListSet
    <3>7. d.frame = g.index /\ g.faces # <<>>
      <4>1. Len(<<>>) = 0  OBVIOUS
      <4> QED  BY <3>4, <3>6, <4>1
    <3>8. g.index < f.index  BY <1>2, <1>3, <1>10, <3>3, <3>7 DEF Lined, f
    <3>9. g.index \in Nat /\ f.index \in Nat  BY <1>3, FrameFields
    <3> QED  BY <3>3, <3>7, <3>8, <3>9
  <2>3. Holding(more, d) = Holding(P, d)  BY <1>4, <1>7, <2>2, ExtendedOthers
  <2>4. (Nowhere(P, d) => Nowhere(more, d)) /\ (OnceIn(P, d) => OnceIn(more, d))
    BY <2>3 DEF Nowhere, OnceIn
  <2> QED  BY <1>6, <1>8, <2>1, <2>4 DEF Tracked
<1>11. CASE n = next
  <2>1. d \in ToSet(dets)  BY <1>11 DEF dets, f
  <2>2. PICK e \in 1..Len(dets) : d = dets[e]
    <3> HIDE DEF Sightings
    <3> QED  BY <1>4, <2>1, ListSet
  <2>3. d.frame = f.index /\ f.faces # <<>>
    <3>1. Len(<<>>) = 0  OBVIOUS
    <3> QED  BY <1>4, <2>2, <3>1
  <2>4. Nowhere(closed, d) /\ Nowhere(active, d)
    <3>1. next \in next..Len(frames)  BY <1>3
    <3>2. \A t \in ToSet(closed) \cup ToSet(active) : Behind(t, f)  BY <1>2, <3>1 DEF f
    <3> QED  BY <1>2, <1>3, <2>3, <3>2, BehindNowhere
  <2>5. \A i \in 1..Len(dets) : dets[i] = dets[e] => i = e  BY <1>4
  <2>6. Nowhere(P, d) /\ Nowhere(closed \o Q, d)  BY <1>6, <1>8, <2>4
  <2>7. OnceIn(more, d)  BY <1>4, <1>7, <2>2, <2>5, <2>6, ExtendedOnce
  <2> QED  BY <2>6, <2>7
<1> QED  BY <1>1, <1>2, <1>3, <1>10, <1>11

LEMMA CloseTrackletsFaces == TracksInv /\ FacesInv /\ CloseTracklets => FacesInv'
<1> SUFFICES ASSUME TracksInv, FacesInv, CloseTracklets, NEW n \in 1..Len(frames'),
                    NEW d \in ToSet(Detections(frames[n]))
             PROVE  Tracked(d)'
  BY DEF FacesInv, CloseTracklets
<1> DEFINE all == closed \o active
           r == Ordered(all)
<1>1. /\ phase = "track" /\ next > Len(frames) /\ frames' = frames
      /\ closed' = r /\ active' = <<>>
  BY DEF CloseTracklets
<1>2. /\ active \in Seq(Tracklets) /\ closed \in Seq(Tracklets) /\ next \in Nat
      /\ Len(frames) \in Nat
  <2>1. /\ active \in Seq(Tracklets) /\ closed \in Seq(Tracklets) /\ next \in Nat
        /\ frames \in Seq(Frames)
    BY DEF TracksInv, TrackingInv
  <2> HIDE DEF Frames
  <2> QED  BY <2>1
<1>3. Tracked(d)
  <2>1. n \in 1..Len(frames) /\ n < next  BY <1>1, <1>2
  <2> QED  BY <1>1, <2>1 DEF FacesInv
<1>4. all \in Seq(Tracklets)  BY <1>2, JoinedSet
<1>5. OnceIn(all, d)  BY <1>2, <1>3, JoinedOnce DEF Tracked
<1> HIDE DEF all
<1>6. PICK p : /\ Chooses(Tracklets, all, DOMAIN all, r, p)
               /\ Cardinality(DOMAIN all) = Len(all)
               /\ \A i, j \in 1..Len(all) : i < j => p[i] # p[j]
  BY <1>4, OrderedTracklets
<1> HIDE DEF r
<1>7. OnceIn(r, d)
  <2>1. PICK i : Holding(all, d) = {i}  BY <1>5 DEF OnceIn
  <2>2. i \in DOMAIN all
    <3>1. i \in 1..Len(all)  BY <2>1 DEF Holding
    <3> HIDE DEF Tracklets
    <3> QED  BY <1>4, <3>1
  <2>3. \A m, k \in 1..Cardinality(DOMAIN all) : m < k => p[m] # p[k]  BY <1>6
  <2> QED  BY <1>4, <1>6, <2>1, <2>2, <2>3, ChosenOnce
<1>8. Nowhere(<<>>, d)
  <2>1. Len(<<>>) = 0  OBVIOUS
  <2> QED  BY <2>1 DEF Nowhere, Holding
<1> QED  BY <1>1, <1>7, <1>8 DEF Tracked, OnceIn, Nowhere, Holding

\* A step that leaves frames and tracklets alone.
LEMMA FacesKept ==
  ASSUME FacesInv, UNCHANGED <<frames, active, closed>>,
         \/ phase \in {"merge", "resolve"}
         \/ phase' = phase /\ next' = next
  PROVE  FacesInv'
<1> SUFFICES ASSUME phase' # "sample", NEW n \in 1..Len(frames), phase' # "track" \/ n < next',
                    NEW d \in ToSet(Detections(frames[n]))
             PROVE  Tracked(d)'
  BY DEF FacesInv
<1>1. Tracked(d)  BY DEF FacesInv
<1> QED  BY <1>1 DEF Tracked, OnceIn, Nowhere, Holding

LEMMA FacesStep == TracksInv /\ FacesInv /\ [TracksNext]_tracksVars => FacesInv'
<1> SUFFICES ASSUME TracksInv, FacesInv, [TracksNext]_tracksVars PROVE FacesInv'  OBVIOUS
<1>1. CASE SampleFrames
  <2>1. phase' = "track" /\ next' = 1
    BY <1>1 DEF SampleFrames, TracksInv, TrackingInv
  <2>2. \A n \in 1..Len(frames') : ~(n < next')  BY <2>1
  <2> QED  BY <2>1, <2>2 DEF FacesInv
<1>2. CASE TrackFrame \/ CloseTracklets  BY <1>2, TrackFrameFaces, CloseTrackletsFaces
<1>3. CASE MergeTracklet \/ TakeCrops \/ ResolveTrack \/ ResolveFails \/ WriteOverlay
  <2>1. phase \in {"merge", "resolve"} /\ UNCHANGED <<frames, active, closed>>
    BY <1>3 DEF MergeTracklet, TakeCrops, ResolveTrack, ResolveFails, WriteOverlay
  <2> QED  BY <2>1, FacesKept
<1>4. CASE UNCHANGED tracksVars
  <2>1. UNCHANGED <<frames, active, closed, phase, next>>  BY <1>4 DEF tracksVars
  <2> QED  BY <2>1, FacesKept
<1> QED  BY <1>1, <1>2, <1>3, <1>4 DEF TracksNext, Stop

\* A canonical track has a face of a frame at most.
LEMMA OneFaceAFrame ==
  ASSUME NEW parts \in Seq(Tracklets), Parted(parts),
         NEW k \in 1..Len(parts), NEW l \in 1..Len(parts),
         NEW a \in 1..Len(parts[k]), NEW b \in 1..Len(parts[l]), <<k, a>> # <<l, b>>
  PROVE  parts[k][a].frame # parts[l][b].frame
<1> DEFINE t == parts[k]  u == parts[l]
<1>1. t \in Tracklets /\ u \in Tracklets /\ k \in DOMAIN parts /\ l \in DOMAIN parts
  <2> HIDE DEF Tracklets
  <2> QED  OBVIOUS
<1>2. k # l => Apart(t, u)  BY <1>1 DEF Parted
<1>3. a \in 1..Len(t) /\ b \in 1..Len(u)  OBVIOUS
<1>4. k = l => t = u /\ a # b  OBVIOUS
<1> HIDE DEF t, u
<1>5. /\ t[a].frame \in Nat /\ First(t) <= t[a].frame /\ t[a].frame <= End(t)
      /\ u[b].frame \in Nat /\ First(u) <= u[b].frame /\ u[b].frame <= End(u)
      /\ First(t) \in Nat /\ End(t) \in Nat /\ First(u) \in Nat /\ End(u) \in Nat
  BY <1>1, <1>3, TrackletFields
<1>6. CASE k # l
  <2>1. t[a].frame # u[b].frame  BY <1>2, <1>5, <1>6 DEF Apart
  <2> QED  BY <2>1 DEF t, u
<1>7. CASE k = l
  <2>1. Forward(t)  BY <1>1 DEF Tracklets
  <2>2. a < b \/ b < a  BY <1>3, <1>4, <1>7
  <2>3. t[a].frame # t[b].frame  BY <1>3, <1>4, <1>5, <1>7, <2>1, <2>2 DEF Forward
  <2>4. t[a].frame # u[b].frame  BY <1>4, <1>7, <2>3
  <2> QED  BY <2>4 DEF t, u
<1> QED  BY <1>6, <1>7

LEMMA TrackedOnce == TracksInv /\ FacesInv => FacesTrackedOnce
<1> SUFFICES ASSUME TracksInv, FacesInv PROVE FacesTrackedOnce  OBVIOUS
<1>1. /\ active \in Seq(Tracklets) /\ closed \in Seq(Tracklets)
      /\ tracks \in Seq(CanonicalTracks)
  BY DEF TracksInv, TrackingInv, MergeInv
<1>2. AllTracklets \in Seq(Tracklets)  BY <1>1, JoinedSet DEF AllTracklets
<1>3. \A i \in 1..Len(AllTracklets) : Rising(AllTracklets[i])
  <2> DEFINE s == AllTracklets
  <2> SUFFICES ASSUME NEW i \in 1..Len(s) PROVE Rising(s[i])  OBVIOUS
  <2> HIDE DEF s
  <2>1. s[i] \in Tracklets
    <3> HIDE DEF Tracklets
    <3> QED  BY <1>2 DEF s
  <2> QED  BY <2>1 DEF Tracklets
<1>4. ASSUME phase # "sample", NEW n \in 1..Len(frames),
             NEW d \in ToSet(Detections(frames[n])), phase # "track" \/ n < next
      PROVE  Cardinality({i \in 1..Len(AllTracklets) : d \in ToSet(AllTracklets[i])}) = 1
  <2>1. Tracked(d)  BY <1>4 DEF FacesInv
  <2>2. OnceIn(AllTracklets, d)  BY <1>1, <2>1, JoinedOnce DEF Tracked, AllTracklets
  <2>3. PICK i : Holding(AllTracklets, d) = {i}  BY <2>2 DEF OnceIn
  <2> QED  BY <2>3, FS_Singleton DEF Holding
<1>5. ASSUME NEW i \in 1..Len(tracks)
      PROVE  LET parts == tracks[i].tracklets
             IN  \A k, l \in 1..Len(parts) : \A a \in 1..Len(parts[k]), b \in 1..Len(parts[l]) :
                    <<k, a>> # <<l, b>> => parts[k][a].frame # parts[l][b].frame
  <2> DEFINE parts == tracks[i].tracklets
  <2>1. tracks[i] \in CanonicalTracks
    <3> HIDE DEF CanonicalTracks
    <3> QED  BY <1>1
  <2>2. parts \in Seq(Tracklets) /\ Parted(parts)  BY <2>1, CanonicalFields
  <2> HIDE DEF parts
  <2>3. \A k, l \in 1..Len(parts) : \A a \in 1..Len(parts[k]), b \in 1..Len(parts[l]) :
           <<k, a>> # <<l, b>> => parts[k][a].frame # parts[l][b].frame
    BY <2>2, OneFaceAFrame
  <2> QED  BY <2>3 DEF parts
<1> QED  BY <1>3, <1>4, <1>5 DEF FacesTrackedOnce

-----------------------------------------------------------------------------
(* Videos: the theorems.                                                   *)

\* The inductive invariant: a tracklet goes forward and is behind every frame
\* still to come, the tracklets of a track are apart, and no identity that is
\* given is one the resolution has yet to make.
THEOREM TracksInvariant == TracksSpec => [](TracksInv /\ FacesInv /\ OnePlaceAtOnce)
<1>1. TracksInit => FacesInv  BY DEF TracksInit, FacesInv
<1>2. TracksInit => OnePlaceAtOnce
  <2>1. Len(<<>>) = 0  OBVIOUS
  <2> QED  BY <2>1 DEF TracksInit, OnePlaceAtOnce
<1> QED  BY <1>1, <1>2, TracksInvInit, TracksStep, FacesStep, PTL DEF TracksSpec

\* Every face of a sampled frame that may be tracked is in one tracklet, once,
\* no tracklet or track has two faces of a frame, and no gap is above
\* max_gap_frames (build_raw_tracklets, reconcile_tracklets), for any video.
THEOREM FacesAreTrackedOnce == TracksSpec => []FacesTrackedOnce
<1> QED  BY TrackedOnce, TracksInvariant, PTL

\* Two tracks that get one identity are never seen in one frame (_blocked,
\* _try_accept_candidate), for any video, gallery and candidates the store may
\* answer with.
THEOREM NobodyIsInTwoPlaces == TracksSpec => []OnePlaceAtOnce
<1> QED  BY TracksInvariant, PTL
=============================================================================
