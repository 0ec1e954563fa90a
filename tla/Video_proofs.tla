----------------------------- MODULE Video_proofs -----------------------------
(***************************************************************************)
(* What is recorded of a video, and what every reader of a job's results   *)
(* is promised.                                                             *)
(*                                                                         *)
(* The first half is about the native worker, for any video, limit, batch  *)
(* size and interleaving of its threads.  Recordings follows from three     *)
(* things that hold all along: what waits at each station between the probe *)
(* and the tracker is made of frames of the video (TypeInv), it continues   *)
(* the observations in the order of the expected frames (OrderInv), and     *)
(* each accumulator tells what the records under its key tell               *)
(* (TemplatesInv).  ZeroMeansWhole needs three more: who has closed the     *)
(* queue (FlagsInv), how far the loop has got and that no known time stamp  *)
(* went back so far (TakenInv), and what each step of finalize has put down *)
(* (FilesInv).  TakenMeansWhole adds what the Python worker has read of it  *)
(* (BundleInv), whose readers leave the native worker's state alone.        *)
(*                                                                         *)
(* The second half is about the results API, for any cast, any number of   *)
(* attempts and any number of changes of the identities.  ReadsWhole says   *)
(* what an answer is worth after the statements that make it up have run    *)
(* one by one, each on what was committed at its time.  It follows from     *)
(* what the committed rows are at all times: nothing, or the whole of one   *)
(* attempt (RowsInv), later attempts' rows only ever replacing earlier      *)
(* ones' (WorkerInv), and nothing touched once the job is completed         *)
(* (JobInv).                                                                *)
(***************************************************************************)
EXTENDS VideoResults, VideoBundle, FiniteSetTheorems, WellFoundedInduction, TLAPS

-----------------------------------------------------------------------------
(* Lists.                                                                  *)

LEMMA UpTo == \A k \in Nat : IsFiniteSet(1..k) /\ Cardinality(1..k) = k
<1> SUFFICES ASSUME NEW k \in Nat PROVE IsFiniteSet(1..k) /\ Cardinality(1..k) = k  OBVIOUS
<1>1. 1 \in Int /\ k \in Int /\ (IF 1 > k THEN 0 ELSE k - 1 + 1) = k  OBVIOUS
<1>2. IsFiniteSet(1..k) /\ Cardinality(1..k) = IF 1 > k THEN 0 ELSE k - 1 + 1
  BY <1>1, FS_Interval
<1> QED  BY <1>1, <1>2

\* In a strict order of a finite set, each place is somebody's and everybody
\* has one.
LEMMA Places ==
  ASSUME NEW S, IsFiniteSet(S), NEW before \in [S -> SUBSET S],
         \A i \in S : i \notin before[i],
         \A i \in S : \A j \in before[i] : before[j] \subseteq before[i],
         \A i, j \in S : i # j => i \in before[j] \/ j \in before[i]
  PROVE  /\ Cardinality(S) \in Nat
         /\ \A n \in 1..Cardinality(S) : /\ AtPlace(before, n) \in S
                                        /\ Cardinality(before[AtPlace(before, n)]) = n - 1
         /\ \A i \in S : \E n \in 1..Cardinality(S) : AtPlace(before, n) = i
         /\ \A n, m \in 1..Cardinality(S) :
              n < m => AtPlace(before, n) \in before[AtPlace(before, m)]
<1> DEFINE k == Cardinality(S)
           rank == [i \in S |-> Cardinality(before[i]) + 1]
<1>1. k \in Nat  BY FS_CardinalityType
<1>2. \A i \in S : /\ IsFiniteSet(before[i]) /\ Cardinality(before[i]) \in Nat
                   /\ Cardinality(before[i]) < k
  <2> SUFFICES ASSUME NEW i \in S
               PROVE  /\ IsFiniteSet(before[i]) /\ Cardinality(before[i]) \in Nat
                      /\ Cardinality(before[i]) < k
    OBVIOUS
  <2>1. before[i] \in SUBSET S /\ before[i] # S  OBVIOUS
  <2>2. IsFiniteSet(before[i]) /\ Cardinality(before[i]) <= k
          /\ Cardinality(before[i]) # k  BY <2>1, FS_Subset
  <2>3. Cardinality(before[i]) \in Nat  BY <2>2, FS_CardinalityType
  <2> QED  BY <1>1, <2>2, <2>3
<1>3. ASSUME NEW i \in S, NEW j \in S, j \in before[i]
      PROVE  Cardinality(before[j]) < Cardinality(before[i])
  <2>1. before[j] \in SUBSET before[i] /\ before[j] # before[i]  BY <1>3
  <2>2. IsFiniteSet(before[i])  BY <1>2
  <2>3. Cardinality(before[j]) <= Cardinality(before[i])
          /\ Cardinality(before[j]) # Cardinality(before[i])  BY <2>1, <2>2, FS_Subset
  <2> QED  BY <2>3, <1>2
<1>4. rank \in Injection(S, 1..k)
  <2>1. rank \in [S -> 1..k]  BY <1>1, <1>2
  <2>2. \A i, j \in S : rank[i] = rank[j] => i = j
    <3> SUFFICES ASSUME NEW i \in S, NEW j \in S, rank[i] = rank[j], i # j PROVE FALSE
      OBVIOUS
    <3>1. Cardinality(before[i]) = Cardinality(before[j])  BY <1>2
    <3> QED  BY <3>1, <1>2, <1>3
  <2> HIDE DEF rank, k
  <2> QED  BY <2>1, <2>2 DEF Injection, IsInjective
<1>5. rank \in Surjection(S, 1..k)
  <2>1. IsFiniteSet(1..k) /\ Cardinality(1..k) = k  BY <1>1, UpTo
  <2> HIDE DEF rank
  <2> QED  BY <1>4, <2>1, FS_Injection
<1>6. \A n \in 1..k : /\ AtPlace(before, n) \in S
                      /\ Cardinality(before[AtPlace(before, n)]) = n - 1
  <2> SUFFICES ASSUME NEW n \in 1..k
               PROVE  /\ AtPlace(before, n) \in S
                      /\ Cardinality(before[AtPlace(before, n)]) = n - 1
    OBVIOUS
  <2>1. PICK i \in S : rank[i] = n
    <3> HIDE DEF rank, k
    <3> QED  BY <1>5 DEF Surjection
  <2>2. Cardinality(before[i]) = n - 1  BY <2>1, <1>2
  <2>3. DOMAIN before = S  OBVIOUS
  <2>4. \E j \in DOMAIN before : Cardinality(before[j]) = n - 1  BY <2>2, <2>3
  <2> QED  BY <2>3, <2>4 DEF AtPlace
<1>7. \A i \in S : \E n \in 1..k : AtPlace(before, n) = i
  <2> SUFFICES ASSUME NEW i \in S PROVE \E n \in 1..k : AtPlace(before, n) = i  OBVIOUS
  <2> DEFINE j == AtPlace(before, rank[i])
  <2>1. rank[i] \in 1..k  BY <1>1, <1>2
  <2>2. j \in S /\ Cardinality(before[j]) = rank[i] - 1  BY <1>6, <2>1
  <2>3. Cardinality(before[j]) = Cardinality(before[i])  BY <2>2, <1>2
  <2> HIDE DEF j
  <2>4. j = i  BY <2>2, <2>3, <1>2, <1>3
  <2> QED  BY <2>1, <2>4 DEF j
<1>8. \A n, m \in 1..k : n < m => AtPlace(before, n) \in before[AtPlace(before, m)]
  <2> SUFFICES ASSUME NEW n \in 1..k, NEW m \in 1..k, n < m
               PROVE  AtPlace(before, n) \in before[AtPlace(before, m)]
    OBVIOUS
  <2>1. /\ AtPlace(before, n) \in S /\ Cardinality(before[AtPlace(before, n)]) = n - 1
        /\ AtPlace(before, m) \in S /\ Cardinality(before[AtPlace(before, m)]) = m - 1
    BY <1>6
  <2>2. n - 1 < m - 1  OBVIOUS
  <2> HIDE DEF k
  <2>3. AtPlace(before, n) # AtPlace(before, m)  BY <2>1, <2>2
  <2>4. ~(AtPlace(before, m) \in before[AtPlace(before, n)])
    <3> SUFFICES ASSUME AtPlace(before, m) \in before[AtPlace(before, n)] PROVE FALSE  OBVIOUS
    <3>1. m - 1 < n - 1  BY <1>3, <2>1
    <3>2. n \in Nat /\ m \in Nat  BY DEF k
    <3> QED  BY <3>1, <3>2
  <2> QED  BY <2>1, <2>3, <2>4
<1> QED  BY <1>1, <1>6, <1>7, <1>8

\* A finite set of numbers has a greatest element: of the sets of what lies
\* above an element, a smallest one is empty.
LEMMA Greatest ==
  ASSUME NEW T \in SUBSET Nat, IsFiniteSet(T), T # {}
  PROVE  \E m \in T : \A n \in T : n <= m
<1> DEFINE Above(m) == {n \in T : m < n}
           Tails == {Above(m) : m \in T}
           R == StrictSubsetOrdering(T)
<1>1. IsWellFoundedOn(R, FiniteSubsetsOf(T))  BY FS_StrictSubsetOrderingWellFounded
<1>2. FiniteSubsetsOf(T) = SUBSET T  BY FS_FiniteSubsetsOfFinite
<1>3. Tails \subseteq SUBSET T /\ Tails # {}  OBVIOUS
<1> HIDE DEF R, Tails
<1>4. PICK U \in Tails : \A V \in Tails : ~(<<V, U>> \in R)
  <2>1. Tails \subseteq FiniteSubsetsOf(T)  BY <1>2, <1>3
  <2> QED  BY <1>1, <1>3, <2>1, WFMin
<1>5. PICK m \in T : U = Above(m)  BY <1>4 DEF Tails
<1>6. Above(m) = {}
  <2> SUFFICES ASSUME NEW n \in T, m < n PROVE FALSE  OBVIOUS
  <2>1. \A q \in T : n < q => m < q  OBVIOUS
  <2>2. Above(n) \subseteq Above(m)  BY <2>1
  <2>3. n \in Above(m) /\ n \notin Above(n)  OBVIOUS
  <2>4. Above(n) \in Tails  BY DEF Tails
  <2>5. <<Above(n), Above(m)>> \in R  BY <2>2, <2>3 DEF R, StrictSubsetOrdering
  <2> QED  BY <2>4, <2>5, <1>4, <1>5
<1> QED  BY <1>6

\* What holds at 0 and is passed on from each number to the next holds up to
\* the last one.
LEMMA Climb ==
  ASSUME NEW len \in Nat, NEW T \in SUBSET (0..len), 0 \in T,
         \A n \in T : n < len => n + 1 \in T
  PROVE  \A n \in 0..len : n \in T
<1> DEFINE Run(m) == \A n \in 0..m : n \in T
           R == {m \in 0..len : Run(m)}
<1>1. R \in SUBSET Nat /\ IsFiniteSet(R)
  <2>1. R \in SUBSET (0..len) /\ 0..len \subseteq Nat  OBVIOUS
  <2>2. IsFiniteSet(0..len)  BY FS_Interval
  <2> HIDE DEF R
  <2> QED  BY <2>1, <2>2, FS_Subset
<1>2. 0 \in R  OBVIOUS
<1>3. PICK m \in R : \A k \in R : k <= m
  <2> HIDE DEF R
  <2> QED  BY <1>1, <1>2, Greatest
<1>4. m \in 0..len /\ Run(m)  BY <1>3
<1>5. ASSUME m < len PROVE FALSE
  <2>1. m \in T /\ m + 1 \in T  BY <1>4, <1>5
  <2>2. Run(m + 1)  BY <1>4, <2>1
  <2>3. m + 1 \in R  BY <1>4, <1>5, <2>2
  <2> QED  BY <1>3, <1>4, <2>3
<1> QED  BY <1>4, <1>5

\* Whatever is computed step by step over the positions of a list exists.
Steps(A, init, len, step) == init \in A /\ len \in Nat /\ step \in [1..len -> [A -> A]]
Course(A, init, len, step, f) ==
  f \in [0..len -> A] /\ f[0] = init /\ \A n \in 1..len : f[n] = step[n][f[n - 1]]

LEMMA Recursion ==
  ASSUME NEW A, NEW init, NEW len, NEW step, Steps(A, init, len, step)
  PROVE  \E f : Course(A, init, len, step, f)
<1> USE DEF Steps
<1> DEFINE Upto(m, f) == f[0] = init /\ \A n \in 1..m : f[n] = step[n][f[n - 1]]
           T == {m \in 0..len : \E f \in [0..len -> A] : Upto(m, f)}
<1>1. 0 \in T
  <2>1. Upto(0, [n \in 0..len |-> init])  OBVIOUS
  <2>2. [n \in 0..len |-> init] \in [0..len -> A]  OBVIOUS
  <2> HIDE DEF Upto
  <2> QED  BY <2>1, <2>2
<1>2. ASSUME NEW m \in T, m < len PROVE m + 1 \in T
  <2>1. m \in 0..len /\ m + 1 \in 1..len /\ m + 1 \in 0..len  BY <1>2
  <2>2. PICK f \in [0..len -> A] : Upto(m, f)  BY <1>2
  <2> DEFINE g == [f EXCEPT ![m + 1] = step[m + 1][f[m]]]
  <2>3. f[m] \in A /\ step[m + 1][f[m]] \in A  BY <2>1
  <2>4. g \in [0..len -> A]  BY <2>3
  <2>5. \A n \in 0..m : g[n] = f[n]  BY <2>1
  <2>6. g[m + 1] = step[m + 1][f[m]]  BY <2>1
  <2> HIDE DEF g
  <2>7. ASSUME NEW n \in 1..(m + 1) PROVE g[n] = step[n][g[n - 1]]
    <3>1. CASE n = m + 1
      <4>1. n - 1 = m /\ m \in 0..m  BY <2>1, <3>1
      <4> QED  BY <3>1, <4>1, <2>5, <2>6
    <3>2. CASE n \in 1..m
      <4>1. n - 1 \in 0..m /\ n \in 0..m  BY <3>2
      <4> QED  BY <3>2, <4>1, <2>2, <2>5
    <3> QED  BY <2>1, <3>1, <3>2
  <2>8. g[0] = init  BY <2>1, <2>2, <2>5
  <2>9. Upto(m + 1, g)  BY <2>7, <2>8
  <2> QED  BY <2>1, <2>4, <2>9
<1>3. T \in SUBSET (0..len)  OBVIOUS
<1>4. len \in T
  <2> HIDE DEF T
  <2>1. \A n \in 0..len : n \in T  BY <1>1, <1>2, <1>3, Climb
  <2>2. len \in 0..len  OBVIOUS
  <2> QED  BY <2>1, <2>2
<1> QED  BY <1>4 DEF Course

\* A list whose n-th element is the p[n]-th of another one, of which all the
\* positions in I are taken, once each.
Chooses(A, s, I, r, p) ==
  /\ r \in Seq(A) /\ Len(r) = Cardinality(I) /\ Cardinality(I) \in Nat
  /\ p \in [1..Cardinality(I) -> I]
  /\ \A n \in 1..Cardinality(I) : r[n] = s[p[n]]
  /\ \A i \in I : \E n \in 1..Cardinality(I) : p[n] = i

\* Picked: the elements at these positions, in their order.
LEMMA Picking ==
  ASSUME NEW A, NEW s \in Seq(A), NEW I \in SUBSET DOMAIN s
  PROVE  \E p : /\ Chooses(A, s, I, Picked(s, I), p)
                /\ \A n, m \in 1..Cardinality(I) : n < m => p[n] < p[m]
<1> DEFINE before == [i \in I |-> {j \in I : j < i}]
           k == Cardinality(I)
           p == [n \in 1..k |-> AtPlace(before, n)]
           r == [n \in 1..k |-> s[AtPlace(before, n)]]
<1>1. DOMAIN s = 1..Len(s) /\ Len(s) \in Nat /\ \A i \in DOMAIN s : s[i] \in A  OBVIOUS
<1>2. I \in SUBSET Nat  BY <1>1
<1>3. IsFiniteSet(I)
  <2>1. IsFiniteSet(DOMAIN s)  BY <1>1, UpTo
  <2> QED  BY <2>1, FS_Subset
<1>4. before \in [I -> SUBSET I] /\ \A i, j \in I : j \in before[i] <=> j < i  OBVIOUS
<1>5. Picked(s, I) = r  BY DEF Picked
<1> HIDE DEF before, k
<1>6. /\ \A i \in I : i \notin before[i]
      /\ \A i, j \in I : i # j => i \in before[j] \/ j \in before[i]
  BY <1>2, <1>4
<1>7. \A i \in I : \A j \in before[i] : before[j] \subseteq before[i]
  <2> SUFFICES ASSUME NEW i \in I, NEW j \in before[i], NEW x \in before[j] PROVE x \in before[i]
    OBVIOUS
  <2>1. j \in I /\ x \in I  BY <1>4
  <2> QED  BY <2>1, <1>2, <1>4
<1>8. /\ k \in Nat
      /\ \A n \in 1..k : AtPlace(before, n) \in I
      /\ \A i \in I : \E n \in 1..k : AtPlace(before, n) = i
      /\ \A n, m \in 1..k : n < m => AtPlace(before, n) \in before[AtPlace(before, m)]
  BY <1>3, <1>4, <1>6, <1>7, Places DEF k
<1>9. p \in [1..k -> I] /\ \A n \in 1..k : r[n] = s[p[n]]  BY <1>8
<1>10. r \in Seq(A) /\ Len(r) = k  BY <1>1, <1>8
<1>11. \A n, m \in 1..k : n < m => p[n] < p[m]  BY <1>4, <1>8
<1>12. \A i \in I : \E n \in 1..k : p[n] = i  BY <1>8
<1> HIDE DEF p, r
<1>13. Chooses(A, s, I, r, p)  BY <1>8, <1>9, <1>10, <1>12 DEF Chooses, k
<1> QED  BY <1>5, <1>11, <1>13 DEF k

\* Who is smaller in both numbers, or not greater and listed before, is ahead;
\* that is transitive.
LEMMA Lexical ==
  ASSUME NEW a1 \in Int, NEW a2 \in Int, NEW b1 \in Int, NEW b2 \in Int, NEW c1 \in Int,
         NEW c2 \in Int, NEW i \in Int, NEW j \in Int, NEW x \in Int,
         b1 < a1 \/ (b1 = a1 /\ (b2 < a2 \/ (b2 = a2 /\ j < i))),
         c1 < b1 \/ (c1 = b1 /\ (c2 < b2 \/ (c2 = b2 /\ x < j)))
  PROVE  c1 < a1 \/ (c1 = a1 /\ (c2 < a2 \/ (c2 = a2 /\ x < i)))
  OBVIOUS

Pair(k) == k[1] \in Int /\ k[2] \in Int
Before(k, j, l, i) == Less(k, l) \/ (~Less(l, k) /\ j < i)

LEMMA BeforeTransitive ==
  ASSUME NEW a, NEW b, NEW c, Pair(a), Pair(b), Pair(c),
         NEW i \in Int, NEW j \in Int, NEW x \in Int,
         Before(b, j, a, i), Before(c, x, b, j)
  PROVE  Before(c, x, a, i)
<1>1. /\ a[1] \in Int /\ a[2] \in Int /\ b[1] \in Int /\ b[2] \in Int
      /\ c[1] \in Int /\ c[2] \in Int
  BY DEF Pair
<1>2. \A k, l, n, m : Pair(k) /\ Pair(l) /\ n \in Int /\ m \in Int =>
        (Before(k, n, l, m) <=>
           k[1] < l[1] \/ (k[1] = l[1] /\ (k[2] < l[2] \/ (k[2] = l[2] /\ n < m))))
  BY DEF Pair, Before, Less
<1>3. /\ b[1] < a[1] \/ (b[1] = a[1] /\ (b[2] < a[2] \/ (b[2] = a[2] /\ j < i)))
      /\ c[1] < b[1] \/ (c[1] = b[1] /\ (c[2] < b[2] \/ (c[2] = b[2] /\ x < j)))
  BY <1>2
<1>4. c[1] < a[1] \/ (c[1] = a[1] /\ (c[2] < a[2] \/ (c[2] = a[2] /\ x < i)))
  BY <1>1, <1>3, Lexical
<1> QED  BY <1>2, <1>4

\* SortedBy: a list of the same elements, by their keys.
LEMMA Sorting ==
  ASSUME NEW A, NEW s \in Seq(A), NEW keys,
         \A i \in DOMAIN s : keys[i][1] \in Int /\ keys[i][2] \in Int
  PROVE  \E p : /\ Chooses(A, s, DOMAIN s, SortedBy(s, keys), p)
                /\ Cardinality(DOMAIN s) = Len(s)
                /\ \A n, m \in 1..Len(s) : n < m => p[n] # p[m] /\ ~Less(keys[p[m]], keys[p[n]])
<1> DEFINE I == DOMAIN s
           Ahead(j, i) == Less(keys[j], keys[i]) \/ (~Less(keys[i], keys[j]) /\ j < i)
           before == [i \in I |-> {j \in I : Ahead(j, i)}]
           k == Len(s)
           p == [n \in 1..k |-> AtPlace(before, n)]
           r == [n \in 1..k |-> s[AtPlace(before, n)]]
<1>1. I = 1..k /\ k \in Nat /\ \A i \in I : s[i] \in A  OBVIOUS
<1>2. IsFiniteSet(I) /\ Cardinality(I) = k  BY <1>1, UpTo
<1>3. before \in [I -> SUBSET I] /\ \A i, j \in I : j \in before[i] <=> Ahead(j, i)  OBVIOUS
<1>4. SortedBy(s, keys) = r  BY <1>1 DEF SortedBy
<1>5. \A i \in I : ~Ahead(i, i)  BY <1>1 DEF Less
<1>6. \A i, j \in I : i # j => Ahead(i, j) \/ Ahead(j, i)  BY <1>1 DEF Less
<1>7. \A i, j, x \in I : Ahead(j, i) /\ Ahead(x, j) => Ahead(x, i)
  <2> SUFFICES ASSUME NEW i \in I, NEW j \in I, NEW x \in I, Ahead(j, i), Ahead(x, j)
               PROVE  Ahead(x, i)
    OBVIOUS
  <2>1. /\ Pair(keys[i]) /\ Pair(keys[j]) /\ Pair(keys[x])
        /\ i \in Int /\ j \in Int /\ x \in Int
    BY <1>1 DEF Pair
  <2>2. Before(keys[j], j, keys[i], i) /\ Before(keys[x], x, keys[j], j)  BY DEF Before
  <2>3. Before(keys[x], x, keys[i], i)  BY <2>1, <2>2, BeforeTransitive
  <2> QED  BY <2>3 DEF Before
<1>8. \A i, j \in I : Ahead(j, i) => ~Less(keys[i], keys[j])  BY DEF Less
<1> HIDE DEF before, k, I, Ahead
<1>9. \A i \in I : i \notin before[i]  BY <1>3, <1>5
<1>10. \A i, j \in I : i # j => i \in before[j] \/ j \in before[i]  BY <1>3, <1>6
<1>11. \A i \in I : \A j \in before[i] : before[j] \subseteq before[i]
  <2> SUFFICES ASSUME NEW i \in I, NEW j \in before[i], NEW x \in before[j] PROVE x \in before[i]
    OBVIOUS
  <2>1. j \in I /\ x \in I  BY <1>3
  <2> QED  BY <2>1, <1>3, <1>7
<1>12. /\ \A n \in 1..Cardinality(I) : AtPlace(before, n) \in I
       /\ \A i \in I : \E n \in 1..Cardinality(I) : AtPlace(before, n) = i
       /\ \A n, m \in 1..Cardinality(I) :
            n < m => AtPlace(before, n) \in before[AtPlace(before, m)]
  BY <1>2, <1>3, <1>9, <1>10, <1>11, Places
<1>13. p \in [1..k -> I] /\ \A n \in 1..k : r[n] = s[p[n]]  BY <1>2, <1>12
<1>14. r \in Seq(A) /\ Len(r) = k
  <2>1. \A n \in 1..k : s[AtPlace(before, n)] \in A  BY <1>1, <1>2, <1>12
  <2>2. r \in [1..k -> A] /\ k \in Nat  BY <1>1, <2>1
  <2> HIDE DEF r
  <2> QED  BY <2>2
<1>15. \A i \in I : \E n \in 1..k : p[n] = i  BY <1>2, <1>12
<1>16. ASSUME NEW n \in 1..k, NEW m \in 1..k, n < m
       PROVE  p[n] # p[m] /\ ~Less(keys[p[m]], keys[p[n]])
  <2>1. p[n] \in before[p[m]] /\ p[n] \in I /\ p[m] \in I  BY <1>2, <1>12, <1>13, <1>16
  <2> HIDE DEF p
  <2> QED  BY <2>1, <1>3, <1>8, <1>9
<1> HIDE DEF p, r
<1>17. Chooses(A, s, I, r, p)  BY <1>1, <1>2, <1>13, <1>14, <1>15 DEF Chooses
<1> QED  BY <1>2, <1>4, <1>16, <1>17 DEF I, k

LEMMA ListOf ==
  ASSUME NEW U, NEW n \in Nat, NEW a \in [1..n -> U]
  PROVE  a \in Seq(U) /\ Len(a) = n
  OBVIOUS

LEMMA Section ==
  ASSUME NEW U, NEW s \in Seq(U), NEW a \in Nat, NEW n \in Nat, a + n <= Len(s)
  PROVE  /\ SubSeq(s, a + 1, a + n) \in Seq(U) /\ Len(SubSeq(s, a + 1, a + n)) = n
         /\ \A j \in 1..n : SubSeq(s, a + 1, a + n)[j] = s[a + j]
<1> DEFINE t == SubSeq(s, a + 1, a + n)
<1>1. Len(s) \in Nat /\ \A i \in 1..Len(s) : s[i] \in U  OBVIOUS
<1>2. a + n - (a + 1) + 1 = n  OBVIOUS
<1>3. t = [j \in 1..n |-> s[a + 1 + j - 1]]  BY <1>2
<1>4. \A j \in 1..n : a + 1 + j - 1 = a + j /\ a + j \in 1..Len(s)  BY <1>1
<1> HIDE DEF t
<1>5. \A j \in 1..n : t[j] = s[a + j]  BY <1>3, <1>4
<1>6. t \in [1..n -> U]  BY <1>1, <1>3, <1>4, <1>5
<1>7. t \in Seq(U) /\ Len(t) = n  BY <1>6, ListOf
<1> QED  BY <1>5, <1>7 DEF t

LEMMA EmptyList ==
  ASSUME NEW U, NEW s \in Seq(U)
  PROVE  Len(s) = 0 <=> s = <<>>
  OBVIOUS

LEMMA Least ==
  ASSUME NEW T \in SUBSET Nat, T # {}
  PROVE  \E m \in T : \A n \in T : m <= n
<1>1. SUFFICES ASSUME ~\E m \in T : \A n \in T : m <= n PROVE FALSE  OBVIOUS
<1>2. PICK b \in T : TRUE  OBVIOUS
<1> DEFINE L == {n \in 0..b : \A k \in T : n <= k}
<1>3. 0 \in L  OBVIOUS
<1>4. ASSUME NEW n \in L, n < b PROVE n + 1 \in L
  <2>1. n \in Nat /\ n + 1 \in 0..b /\ \A k \in T : n <= k  BY <1>4
  <2>2. n \notin T  BY <1>1, <2>1
  <2>3. \A k \in T : n # k /\ k \in Nat  BY <2>2
  <2>4. \A k \in T : n + 1 <= k  BY <2>1, <2>3
  <2> QED  BY <2>1, <2>4
<1>5. \A n \in 0..b : n \in L
  <2>1. b \in Nat /\ L \in SUBSET (0..b)  OBVIOUS
  <2> HIDE DEF L
  <2> QED  BY <1>3, <1>4, <2>1, Climb
<1>6. b \in L  BY <1>5
<1> QED  BY <1>1, <1>2, <1>6

\* The lists of a list, one after the other, up to the n-th.
Flat(s, n) == FlattenSeq(SubSeq(s, 1, n))
Start(s, n) == Len(Flat(s, n))

Growing(A, s, f) ==
  /\ f \in [0..Len(s) -> Seq(A)] /\ f[0] = <<>>
  /\ \A n \in 1..Len(s) : f[n] = f[n - 1] \o s[n]

LEMMA FlattenedAll ==
  ASSUME NEW A, NEW s \in Seq(Seq(A)), NEW f, Growing(A, s, f)
  PROVE  FlattenSeq(s) = f[Len(s)]
<1> DEFINE len == Len(s)
           Flattens(g) == g = [i \in 1..len |-> IF i = 1 THEN s[i] ELSE g[i - 1] \o s[i]]
           g == CHOOSE g : Flattens(g)
<1>1. len \in Nat /\ \A n \in 1..len : s[n] \in Seq(A)  OBVIOUS
<1>2. CASE len = 0
  <2>1. s = <<>>  BY <1>2
  <2> QED  BY <1>2, <2>1 DEF FlattenSeq, Growing
<1>3. CASE len # 0
  <2>1. FlattenSeq(s) = g[len]  BY <1>3 DEF FlattenSeq
  <2> HIDE DEF len
  <2>2. /\ f \in [0..len -> Seq(A)] /\ f[0] = <<>>
        /\ \A n \in 1..len : f[n] = f[n - 1] \o s[n]
    BY DEF Growing, len
  <2>3. f[1] = s[1] /\ 1 \in 1..len
    <3>1. 1 \in 1..len /\ 1 - 1 = 0  BY <1>1, <1>3
    <3>2. f[1] = <<>> \o s[1] /\ s[1] \in Seq(A)  BY <1>1, <2>2, <3>1
    <3> QED  BY <3>1, <3>2
  <2>4. Flattens([i \in 1..len |-> f[i]])
    <3> DEFINE h == [i \in 1..len |-> f[i]]
    <3>1. \A i \in 1..len : i # 1 => i - 1 \in 1..len  BY <1>1
    <3>2. \A i \in 1..len : i # 1 => h[i - 1] = f[i - 1]  BY <3>1
    <3>3. \A i \in 1..len : f[i] = IF i = 1 THEN s[i] ELSE h[i - 1] \o s[i]
      BY <2>2, <2>3, <3>2
    <3> QED  BY <3>3
  <2>5. Flattens(g)  BY <2>4
  <2>6. \A i \in 1..len : g[i] = IF i = 1 THEN s[i] ELSE g[i - 1] \o s[i]
    <3> HIDE DEF g
    <3> QED  BY <2>5
  <2> HIDE DEF g
  <2> DEFINE T == {n \in 0..len : n = 0 \/ g[n] = f[n]}
  <2>7. 0 \in T  BY <1>1
  <2>8. ASSUME NEW n \in T, n < len PROVE n + 1 \in T
    <3>1. n \in 0..len /\ n + 1 \in 1..len /\ (n + 1) - 1 = n  BY <1>1, <2>8
    <3>2. CASE n = 0  BY <2>3, <2>6, <3>1, <3>2
    <3>3. CASE n # 0
      <4>1. g[n] = f[n] /\ n + 1 # 1  BY <3>1, <3>3
      <4>2. g[n + 1] = g[n] \o s[n + 1]  BY <2>6, <3>1, <4>1
      <4>3. f[n + 1] = f[n] \o s[n + 1]  BY <2>2, <3>1
      <4>4. g[n + 1] = f[n + 1]  BY <4>1, <4>2, <4>3
      <4> QED  BY <3>1, <4>4
    <3> QED  BY <3>2, <3>3
  <2>9. len \in T
    <3>1. T \in SUBSET (0..len)  OBVIOUS
    <3> HIDE DEF T
    <3>2. \A n \in 0..len : n \in T  BY <1>1, <2>7, <2>8, <3>1, Climb
    <3> QED  BY <1>1, <3>2
  <2> QED  BY <1>3, <2>1, <2>9 DEF len
<1> QED  BY <1>2, <1>3

LEMMA Flattened ==
  ASSUME NEW A, NEW s \in Seq(Seq(A))
  PROVE  /\ \A n \in 0..Len(s) : Flat(s, n) \in Seq(A)
         /\ Flat(s, 0) = <<>> /\ Flat(s, Len(s)) = FlattenSeq(s)
         /\ \A n \in 1..Len(s) : Flat(s, n) = Flat(s, n - 1) \o s[n]
<1> DEFINE len == Len(s)
           step == [n \in 1..len |-> [a \in Seq(A) |-> a \o s[n]]]
<1>1. len \in Nat /\ \A n \in 1..len : s[n] \in Seq(A)  OBVIOUS
<1>2. step \in [1..len -> [Seq(A) -> Seq(A)]]  BY <1>1
<1>3. \A a \in Seq(A), n \in 1..len : step[n][a] = a \o s[n]  OBVIOUS
<1> HIDE DEF step
<1>4. <<>> \in Seq(A)  OBVIOUS
<1>5. PICK f : Growing(A, s, f)
  <2>1. Steps(Seq(A), <<>>, len, step)  BY <1>1, <1>2, <1>4 DEF Steps
  <2>2. PICK f : Course(Seq(A), <<>>, len, step, f)  BY <2>1, Recursion
  <2>3. \A n \in 1..len : n - 1 \in 0..len  BY <1>1
  <2> QED  BY <1>3, <2>2, <2>3 DEF Course, Growing
<1>6. ASSUME NEW n \in 0..len PROVE Flat(s, n) = f[n]
  <2> DEFINE t == SubSeq(s, 1, n)   h == [i \in 0..n |-> f[i]]
  <2>1. t \in Seq(Seq(A)) /\ Len(t) = n /\ \A i \in 1..n : t[i] = s[i]  BY <1>1
  <2>2. Growing(A, t, h)
    <3>1. \A i \in 0..n : h[i] = f[i] /\ i \in 0..len  BY <1>1
    <3>2. \A i \in 1..n : i - 1 \in 0..n /\ i \in 0..n /\ i \in 1..len  BY <1>1
    <3>3. h \in [0..n -> Seq(A)]  BY <1>5, <3>1 DEF Growing
    <3> HIDE DEF t, h
    <3>4. f[0] = <<>> /\ \A i \in 1..len : f[i] = f[i - 1] \o s[i]  BY <1>5 DEF Growing
    <3>7. 0 \in 0..n  BY <1>1
    <3>5. h[0] = <<>>  BY <3>1, <3>4, <3>7
    <3>6. ASSUME NEW i \in 1..n PROVE h[i] = h[i - 1] \o t[i]
      <4>1. h[i] = f[i] /\ h[i - 1] = f[i - 1] /\ t[i] = s[i]  BY <2>1, <3>1, <3>2
      <4> QED  BY <3>2, <3>4, <4>1
    <3> QED  BY <2>1, <3>3, <3>5, <3>6 DEF Growing
  <2>3. h[n] = f[n]  OBVIOUS
  <2> HIDE DEF t, h
  <2>4. FlattenSeq(t) = h[Len(t)]  BY <2>1, <2>2, FlattenedAll
  <2> QED  BY <2>1, <2>3, <2>4 DEF Flat, t
<1>7. Flat(s, len) = FlattenSeq(s)
  <2>1. SubSeq(s, 1, len) = s  BY <1>1
  <2> QED  BY <2>1 DEF Flat
<1>8. \A n \in 1..len : n - 1 \in 0..len /\ n \in 0..len /\ 0 \in 0..len  BY <1>1
<1> QED
  <2>1. 0 \in 0..len  BY <1>1
  <2> HIDE DEF len
  <2> QED  BY <1>5, <1>6, <1>7, <1>8, <2>1 DEF Growing, len

\* Where the parts of a flattened list are.
Laid(s) ==
  /\ Start(s, 0) = 0 /\ Start(s, Len(s)) = Len(FlattenSeq(s))
  /\ \A n \in 0..Len(s) : Start(s, n) \in Nat
  /\ \A n \in 1..Len(s) : Start(s, n) = Start(s, n - 1) + Len(s[n])
  /\ \A n \in 0..Len(s), m \in 0..Len(s) : n <= m => Start(s, n) <= Start(s, m)
  /\ \A n \in 1..Len(s) : \A j \in 1..Len(s[n]) :
       /\ Start(s, n - 1) + j <= Len(FlattenSeq(s))
       /\ FlattenSeq(s)[Start(s, n - 1) + j] = s[n][j]

LEMMA Layout ==
  ASSUME NEW A, NEW s \in Seq(Seq(A))
  PROVE  FlattenSeq(s) \in Seq(A) /\ Laid(s)
<1> DEFINE len == Len(s)
           Placed(m) ==
             /\ \A n \in 0..m : Start(s, n) <= Start(s, m)
             /\ \A n \in 1..m : \A j \in 1..Len(s[n]) : Flat(s, m)[Start(s, n - 1) + j] = s[n][j]
           T == {m \in 0..len : Placed(m)}
<1>1. len \in Nat /\ \A n \in 1..len : s[n] \in Seq(A) /\ Len(s[n]) \in Nat  OBVIOUS
<1>2. /\ \A n \in 0..len : Flat(s, n) \in Seq(A)
      /\ Flat(s, 0) = <<>> /\ Flat(s, len) = FlattenSeq(s)
      /\ \A n \in 1..len : Flat(s, n) = Flat(s, n - 1) \o s[n]
  BY Flattened
<1>3. \A n \in 0..len : Start(s, n) \in Nat  BY <1>2 DEF Start
<1>4. Start(s, 0) = 0  BY <1>2 DEF Start
<1>5. ASSUME NEW n \in 1..len
      PROVE  /\ n - 1 \in 0..len /\ n \in 0..len
             /\ Start(s, n) = Start(s, n - 1) + Len(s[n])
             /\ \A i \in 1..Start(s, n - 1) : Flat(s, n)[i] = Flat(s, n - 1)[i]
             /\ \A j \in 1..Len(s[n]) : Flat(s, n)[Start(s, n - 1) + j] = s[n][j]
  <2>1. n - 1 \in 0..len /\ n \in 0..len  BY <1>1
  <2> DEFINE a == Flat(s, n - 1)   b == s[n]
  <2>2. a \in Seq(A) /\ b \in Seq(A) /\ Flat(s, n) = a \o b  BY <1>1, <1>2, <2>1
  <2>3. Start(s, n - 1) = Len(a) /\ Start(s, n) = Len(a \o b)  BY <2>2 DEF Start
  <2> HIDE DEF a, b
  <2>4. /\ Len(a \o b) = Len(a) + Len(b)
        /\ \A i \in 1..Len(a) : (a \o b)[i] = a[i]
        /\ \A j \in 1..Len(b) : (a \o b)[Len(a) + j] = b[j]
    BY <2>2
  <2> QED  BY <2>1, <2>2, <2>3, <2>4 DEF a, b
<1> HIDE DEF len
<1>6. 0 \in T  BY <1>1, <1>3, <1>4
<1>7. ASSUME NEW m \in T, m < len PROVE m + 1 \in T
  <2>1. m \in 0..len /\ Placed(m) /\ m + 1 \in 1..len /\ (m + 1) - 1 = m /\ m + 1 \in 0..len
    BY <1>1, <1>7
  <2>2. /\ Start(s, m + 1) = Start(s, m) + Len(s[m + 1])
        /\ \A i \in 1..Start(s, m) : Flat(s, m + 1)[i] = Flat(s, m)[i]
        /\ \A j \in 1..Len(s[m + 1]) : Flat(s, m + 1)[Start(s, m) + j] = s[m + 1][j]
    BY <1>5, <2>1
  <2>3. Start(s, m) \in Nat /\ Start(s, m + 1) \in Nat /\ Start(s, m) <= Start(s, m + 1)
    BY <1>1, <1>3, <2>1, <2>2
  <2>4. ASSUME NEW n \in 0..(m + 1) PROVE Start(s, n) <= Start(s, m + 1)
    <3>1. CASE n = m + 1  BY <2>3, <3>1
    <3>2. CASE n \in 0..m
      <4>1. n \in 0..len  BY <1>1, <2>1, <3>2
      <4>2. Start(s, n) <= Start(s, m) /\ Start(s, n) \in Nat  BY <1>3, <2>1, <3>2, <4>1
      <4> QED  BY <2>3, <4>2
    <3> QED  BY <2>1, <3>1, <3>2
  <2>5. ASSUME NEW n \in 1..(m + 1), NEW j \in 1..Len(s[n])
        PROVE  Flat(s, m + 1)[Start(s, n - 1) + j] = s[n][j]
    <3>1. CASE n = m + 1  BY <2>1, <2>2, <2>5, <3>1
    <3>2. CASE n \in 1..m
      <4>1. n \in 1..len /\ n \in 0..m /\ n - 1 \in 0..len  BY <1>1, <2>1, <3>2
      <4>2. Start(s, n) = Start(s, n - 1) + Len(s[n]) /\ Start(s, n) <= Start(s, m)
        BY <1>5, <2>1, <4>1
      <4>3. Start(s, n - 1) \in Nat /\ Len(s[n]) \in Nat  BY <1>1, <1>3, <4>1
      <4>4. Start(s, n - 1) + j \in 1..Start(s, m)
        <5> DEFINE a == Start(s, n - 1)   b == Start(s, n)   c == Start(s, m)   l == Len(s[n])
        <5>1. /\ b = a + l /\ b <= c /\ a \in Nat /\ l \in Nat /\ c \in Nat
              /\ j \in 1..l
          BY <2>3, <2>5, <4>2, <4>3
        <5> HIDE DEF a, b, c, l
        <5>2. a + j \in 1..c  BY <5>1
        <5> QED  BY <5>2 DEF a, c
      <4> QED  BY <2>1, <2>2, <2>5, <3>2, <4>4
    <3> QED  BY <2>1, <3>1, <3>2
  <2>6. Placed(m + 1)  BY <2>4, <2>5
  <2> QED  BY <2>1, <2>6
<1>8. \A m \in 0..len : Placed(m)
  <2>1. T \in SUBSET (0..len)  OBVIOUS
  <2>2. \A m \in T : Placed(m)  OBVIOUS
  <2> HIDE DEF T
  <2>3. \A n \in 0..len : n \in T  BY <1>1, <1>6, <1>7, <2>1, Climb
  <2> HIDE DEF Placed
  <2> QED  BY <2>2, <2>3
<1>9. ASSUME NEW n \in 1..len, NEW j \in 1..Len(s[n])
      PROVE  /\ Start(s, n - 1) + j <= Len(FlattenSeq(s))
             /\ FlattenSeq(s)[Start(s, n - 1) + j] = s[n][j]
  <2>1. len \in 0..len /\ n \in 0..len /\ n - 1 \in 0..len /\ n \in 1..len  BY <1>1
  <2>2. Placed(len)  BY <1>8, <2>1
  <2>3. Start(s, n) <= Start(s, len) /\ Flat(s, len)[Start(s, n - 1) + j] = s[n][j]
    BY <1>9, <2>1, <2>2
  <2>4. Start(s, n) = Start(s, n - 1) + Len(s[n]) /\ Start(s, len) = Len(FlattenSeq(s))
    BY <1>2, <1>5 DEF Start
  <2>5. Start(s, n) \in Nat /\ Start(s, n - 1) \in Nat /\ Start(s, len) \in Nat /\ Len(s[n]) \in Nat
    BY <1>1, <1>3, <2>1
  <2>6. Start(s, n - 1) + j <= Start(s, len)  BY <1>9, <2>3, <2>4, <2>5
  <2> QED  BY <1>2, <2>3, <2>4, <2>6
<1>10. Start(s, len) = Len(FlattenSeq(s)) /\ FlattenSeq(s) \in Seq(A)
  <2>1. len \in 0..len  BY <1>1
  <2> QED  BY <1>2, <2>1 DEF Start
<1>11. ASSUME NEW n \in 0..len, NEW m \in 0..len, n <= m PROVE Start(s, n) <= Start(s, m)
  <2>1. n \in 0..m /\ Placed(m)  BY <1>8, <1>11
  <2> QED  BY <2>1
<1>12. \A n \in 1..len : Start(s, n) = Start(s, n - 1) + Len(s[n])  BY <1>5
<1> HIDE DEF Placed
<1> QED  BY <1>3, <1>4, <1>9, <1>10, <1>11, <1>12 DEF Laid, len

-----------------------------------------------------------------------------
(* Frames: what the probe sends on, and what the pipeline makes of it.     *)

\* A frame the probe sends on has the number and the faces of one of the video.
Envelopes == [index : Nat, pts : Int, num : Int, fmt : {"nv12", "rgba", "other"},
              usable : BOOLEAN, faces : Seq(Sightings)]
FromVideo(e) == \E b \in 1..Len(video) : \E j \in 1..Len(video[b]) :
                   video[b][j].num = e.num /\ video[b][j].faces = e.faces
Sent == {e \in Envelopes : FromVideo(e)}

\* A frame that is recognised has vectors of its own faces.
FoundFaces == [x : Int, score : Int, eligible : BOOLEAN, emb : Int]
FoundFrames == [index : Nat, pts : Int, num : Int, faces : Seq(FoundFaces)]
OwnVector(num, face) ==
  \E b \in 1..Len(video) : \E j \in 1..Len(video[b]) :
     /\ video[b][j].num = num
     /\ \E n \in 1..Len(video[b][j].faces) :
           video[b][j].faces[n].x = face.x /\ video[b][j].faces[n].vec = face.emb
OwnVectors(f) == \A o \in 1..Len(f.faces) :
                    f.faces[o].eligible => OwnVector(f.num, f.faces[o])
Embedded == {f \in FoundFrames : OwnVectors(f)}

\* What of a frame the order is about.
Strip(e) == [index |-> e.index, pts |-> e.pts, num |-> e.num]
Plain == [index : Nat, pts : Int, num : Int]

LEMMA EnvelopeFields ==
  ASSUME NEW e \in Envelopes
  PROVE  /\ e.index \in Nat /\ e.pts \in Int /\ e.num \in Int /\ e.usable \in BOOLEAN
         /\ e.fmt \in {"nv12", "rgba", "other"} /\ e.faces \in Seq(Sightings)
  BY DEF Envelopes

\* A list in presentation order is the same list, permuted.
LEMMA Presents ==
  ASSUME NEW A, NEW frames \in Seq(A),
         \A i \in 1..Len(frames) : frames[i].pts \in Int /\ frames[i].num \in Int
  PROVE  /\ Presentation(frames) \in Seq(A) /\ Len(Presentation(frames)) = Len(frames)
         /\ \A i \in 1..Len(frames) : \E n \in 1..Len(frames) : Presentation(frames)[i] = frames[n]
<1> DEFINE keys == [i \in DOMAIN frames |-> <<frames[i].pts, frames[i].num>>]
<1>1. DOMAIN frames = 1..Len(frames) /\ Len(frames) \in Nat  OBVIOUS
<1>2. \A i \in DOMAIN frames : keys[i][1] \in Int /\ keys[i][2] \in Int  BY <1>1
<1>3. Presentation(frames) = SortedBy(frames, keys)  BY DEF Presentation
<1> HIDE DEF keys
<1>4. PICK p : /\ Chooses(A, frames, DOMAIN frames, SortedBy(frames, keys), p)
               /\ Cardinality(DOMAIN frames) = Len(frames)
  BY <1>2, Sorting
<1> QED  BY <1>1, <1>3, <1>4 DEF Chooses

\* What is sorted is only looked at by its order.
LEMMA StrippedOrder ==
  ASSUME NEW A, NEW frames \in Seq(A), NEW plain \in Seq(Plain), Len(plain) = Len(frames),
         \A i \in 1..Len(frames) : frames[i].pts \in Int /\ frames[i].num \in Int,
         \A i \in 1..Len(frames) : plain[i] = Strip(frames[i])
  PROVE  /\ Len(Presentation(plain)) = Len(Presentation(frames))
         /\ \A n \in 1..Len(frames) : Presentation(plain)[n] = Strip(Presentation(frames)[n])
<1> DEFINE S == 1..Len(frames)
           keys == [i \in S |-> <<frames[i].pts, frames[i].num>>]
           Ahead(j, i) == Less(keys[j], keys[i]) \/ (~Less(keys[i], keys[j]) /\ j < i)
           before == [i \in S |-> {j \in S : Ahead(j, i)}]
<1>1. DOMAIN frames = S /\ DOMAIN plain = S /\ Len(frames) \in Nat  OBVIOUS
<1>2. [i \in DOMAIN frames |-> <<frames[i].pts, frames[i].num>>] = keys  BY <1>1
<1>3. [i \in DOMAIN plain |-> <<plain[i].pts, plain[i].num>>] = keys
  <2>1. ASSUME NEW i \in S PROVE plain[i].pts = frames[i].pts /\ plain[i].num = frames[i].num
    <3>1. plain[i] = [index |-> frames[i].index, pts |-> frames[i].pts, num |-> frames[i].num]
      BY DEF Strip
    <3> QED  BY <3>1
  <2> QED  BY <1>1, <2>1
<1>4. Presentation(frames) = [n \in S |-> frames[AtPlace(before, n)]]
  BY <1>1, <1>2 DEF Presentation, SortedBy
<1>5. Presentation(plain) = [n \in S |-> plain[AtPlace(before, n)]]
  BY <1>1, <1>3 DEF Presentation, SortedBy
<1>6. \A i \in S : keys[i][1] \in Int /\ keys[i][2] \in Int  OBVIOUS
<1>7. before \in [S -> SUBSET S] /\ \A i, j \in S : j \in before[i] <=> Ahead(j, i)  OBVIOUS
<1>8. \A i \in S : ~Ahead(i, i)  BY <1>6 DEF Less
<1>9. \A i, j \in S : i # j => Ahead(i, j) \/ Ahead(j, i)  BY <1>6 DEF Less
<1>10. \A i, j, x \in S : Ahead(j, i) /\ Ahead(x, j) => Ahead(x, i)
  <2> SUFFICES ASSUME NEW i \in S, NEW j \in S, NEW x \in S, Ahead(j, i), Ahead(x, j)
               PROVE  Ahead(x, i)
    OBVIOUS
  <2>1. /\ Pair(keys[i]) /\ Pair(keys[j]) /\ Pair(keys[x])
        /\ i \in Int /\ j \in Int /\ x \in Int
    BY <1>6 DEF Pair
  <2>2. Before(keys[j], j, keys[i], i) /\ Before(keys[x], x, keys[j], j)  BY DEF Before
  <2> HIDE DEF keys
  <2>3. Before(keys[x], x, keys[i], i)  BY <2>1, <2>2, BeforeTransitive
  <2> QED  BY <2>3 DEF Before
<1>11. IsFiniteSet(S) /\ Cardinality(S) = Len(frames)
  <2> HIDE DEF keys, before, Ahead
  <2> QED  BY <1>1, UpTo
<1> HIDE DEF before, Ahead
<1>12. \A i \in S : i \notin before[i]  BY <1>7, <1>8
<1>13. \A i, j \in S : i # j => i \in before[j] \/ j \in before[i]  BY <1>7, <1>9
<1>14. \A i \in S : \A j \in before[i] : before[j] \subseteq before[i]
  <2> SUFFICES ASSUME NEW i \in S, NEW j \in before[i], NEW x \in before[j] PROVE x \in before[i]
    OBVIOUS
  <2>1. j \in S /\ x \in S  BY <1>7
  <2> QED  BY <2>1, <1>7, <1>10
<1>15. \A n \in S : AtPlace(before, n) \in S
  <2> HIDE DEF S
  <2>1. \A n \in 1..Cardinality(S) : AtPlace(before, n) \in S
    BY <1>7, <1>11, <1>12, <1>13, <1>14, Places
  <2> QED  BY <2>1, <1>11 DEF S
<1> HIDE DEF keys
<1>16. Len(Presentation(plain)) = Len(frames) /\ Len(Presentation(frames)) = Len(frames)
  BY <1>1, <1>4, <1>5
<1> QED  BY <1>4, <1>5, <1>15, <1>16

\* The faces of a frame are faces of its surface.
LEMMA DetectedFaces ==
  ASSUME NEW faces \in Seq(Sightings)
  PROVE  /\ LeftToRight(Finite(faces)) \in Seq(Sightings)
         /\ \A o \in 1..Len(LeftToRight(Finite(faces))) :
              \E n \in 1..Len(faces) : LeftToRight(Finite(faces))[o] = faces[n]
<1> DEFINE I == {n \in DOMAIN faces : faces[n].finite}
           fin == Finite(faces)
           keys == [n \in DOMAIN fin |-> <<fin[n].x, -fin[n].score>>]
<1>1. fin = Picked(faces, I) /\ I \in SUBSET DOMAIN faces  BY DEF Finite
<1>2. PICK p : Chooses(Sightings, faces, I, Picked(faces, I), p)
  <2> HIDE DEF I
  <2> QED  BY <1>1, Picking
<1> HIDE DEF I, fin
<1>3. /\ fin \in Seq(Sightings)
      /\ \A o \in 1..Len(fin) : \E n \in 1..Len(faces) : fin[o] = faces[n]
  BY <1>1, <1>2 DEF Chooses
<1>4. \A n \in DOMAIN fin : keys[n][1] \in Int /\ keys[n][2] \in Int
  <2>1. \A n \in DOMAIN fin : fin[n] \in Sightings  BY <1>3
  <2>2. \A n \in DOMAIN fin : fin[n].x \in Int /\ fin[n].score \in Int  BY <2>1 DEF Sightings
  <2> QED  BY <2>2
<1>5. LeftToRight(fin) = SortedBy(fin, keys)  BY DEF LeftToRight
<1> HIDE DEF keys
<1>6. PICK q : /\ Chooses(Sightings, fin, DOMAIN fin, SortedBy(fin, keys), q)
               /\ Cardinality(DOMAIN fin) = Len(fin)
  BY <1>3, <1>4, Sorting
<1>7. /\ LeftToRight(fin) \in Seq(Sightings) /\ Len(LeftToRight(fin)) = Len(fin)
      /\ \A o \in 1..Len(fin) : \E n \in 1..Len(fin) : LeftToRight(fin)[o] = fin[n]
  <2> DEFINE r == SortedBy(fin, keys)   k == Len(fin)
  <2>1. DOMAIN fin = 1..k  BY <1>3
  <2>2. /\ r \in Seq(Sightings) /\ Len(r) = k /\ q \in [1..k -> DOMAIN fin]
        /\ \A n \in 1..k : r[n] = fin[q[n]]
    BY <1>6 DEF Chooses
  <2> HIDE DEF r, k
  <2>3. \A o \in 1..k : q[o] \in 1..k /\ r[o] = fin[q[o]]  BY <2>1, <2>2
  <2> QED  BY <1>5, <2>2, <2>3 DEF r, k
<1> QED  BY <1>3, <1>7 DEF fin

\* The row of an item in the chunks' outputs is its own.
LEMMA RowOfItem ==
  ASSUME NEW items, NEW k \in Nat \ {0}
  PROVE  Row(items, k) = items[k].vec
<1>1. RecBatch \in Nat \ {0}  BY WorkerAssumption
<1>2. k - 1 = ((k - 1) \div RecBatch) * RecBatch + ((k - 1) % RecBatch)  BY <1>1
<1>3. (k - 1) \div RecBatch \in Int /\ (k - 1) % RecBatch \in Int  BY <1>1
<1> DEFINE first == ((k - 1) \div RecBatch) * RecBatch   m == (k - 1) % RecBatch
<1>4. first \in Int  BY <1>1, <1>3
<1>5. k - 1 = first + m  BY <1>2
<1>6. Row(items, k) = items[first + 1 + m].vec  BY DEF Row
<1>7. m \in Int  BY <1>3
<1> HIDE DEF first, m
<1>8. first + 1 + m = k  BY <1>4, <1>5, <1>7
<1> QED  BY <1>6, <1>8

\* The frames of a batch come back in their places, each with the vectors of
\* its own faces.
LEMMA RecognisedFrames ==
  ASSUME NEW batch \in Seq(Sent)
  PROVE  /\ Recognised(batch) \in Seq(Embedded) /\ Len(Recognised(batch)) = Len(batch)
         /\ \A i \in 1..Len(batch) : Strip(Recognised(batch)[i]) = Strip(batch[i])
<1> DEFINE len == Len(batch)
           parts == [i \in 1..len |-> IF batch[i].usable THEN Detected(batch[i]) ELSE <<>>]
           items == Items(batch)
           Skipped(i) == Len(Items(SubSeq(batch, 1, i - 1)))
           Found(i) == Recognised(batch)[i]
<1>1. len \in Nat /\ \A i \in 1..len : batch[i] \in Sent  OBVIOUS
<1>2. ASSUME NEW i \in 1..len
      PROVE  /\ batch[i].index \in Nat /\ batch[i].pts \in Int /\ batch[i].num \in Int
             /\ batch[i].usable \in BOOLEAN /\ batch[i].faces \in Seq(Sightings)
             /\ FromVideo(batch[i])
  <2>1. batch[i] \in Envelopes /\ FromVideo(batch[i])  BY <1>1 DEF Sent
  <2> QED  BY <2>1, EnvelopeFields
<1>3. ASSUME NEW i \in 1..len
      PROVE  /\ Detected(batch[i]) \in Seq(Sightings)
             /\ \A o \in 1..Len(Detected(batch[i])) :
                  \E n \in 1..Len(batch[i].faces) : Detected(batch[i])[o] = batch[i].faces[n]
  BY <1>2, DetectedFaces DEF Detected
<1>4. parts \in Seq(Seq(Sightings)) /\ Len(parts) = len
  <2>1. <<>> \in Seq(Sightings)  OBVIOUS
  <2>2. parts \in [1..len -> Seq(Sightings)]  BY <1>3, <2>1
  <2> HIDE DEF parts
  <2> QED  BY <1>1, <2>2, ListOf
<1>5. items = FlattenSeq(parts)  BY DEF Items
<1>6. ASSUME NEW i \in 1..len PROVE Skipped(i) = Start(parts, i - 1)
  <2> DEFINE sub == SubSeq(batch, 1, i - 1)
             ofSub == [k \in 1..Len(sub) |-> IF sub[k].usable THEN Detected(sub[k]) ELSE <<>>]
  <2>1. i - 1 \in 0..len  BY <1>1
  <2>2. Len(sub) = i - 1 /\ \A k \in 1..(i - 1) : sub[k] = batch[k]  BY <1>1, <2>1
  <2>3. /\ Len(SubSeq(parts, 1, i - 1)) = i - 1
        /\ \A k \in 1..(i - 1) : SubSeq(parts, 1, i - 1)[k] = parts[k]
        /\ SubSeq(parts, 1, i - 1) \in Seq(Seq(Sightings))
    <3> HIDE DEF parts
    <3> QED  BY <1>4, <2>1
  <2>4. Items(sub) = FlattenSeq(ofSub)  BY DEF Items
  <2>5. \A k \in 1..(i - 1) : ofSub[k] = parts[k]  BY <2>1, <2>2
  <2>6. ofSub = [k \in 1..(i - 1) |-> ofSub[k]]  BY <2>2
  <2>7. SubSeq(parts, 1, i - 1) = [k \in 1..(i - 1) |-> SubSeq(parts, 1, i - 1)[k]]
    <3> HIDE DEF parts
    <3> QED  BY <2>1, <2>3
  <2> HIDE DEF ofSub, parts
  <2>8. ofSub = SubSeq(parts, 1, i - 1)  BY <2>3, <2>5, <2>6, <2>7
  <2> QED  BY <2>4, <2>8 DEF Start, Flat
<1> HIDE DEF parts
<1>7. Laid(parts)  BY <1>4, Layout
<1> DEFINE FaceOf(i, o) == [x |-> Detected(batch[i])[o].x,
                            score |-> Detected(batch[i])[o].score,
                            eligible |-> batch[i].usable,
                            emb |-> IF batch[i].usable THEN Row(items, Skipped(i) + o) ELSE -1]
           FacesOf(i) == [o \in 1..Len(Detected(batch[i])) |-> FaceOf(i, o)]
<1>8. ASSUME NEW i \in 1..len
      PROVE  Found(i) = [index |-> batch[i].index, pts |-> batch[i].pts, num |-> batch[i].num,
                         faces |-> FacesOf(i)]
  BY DEF Recognised
<1>9. ASSUME NEW i \in 1..len, NEW o \in 1..Len(Detected(batch[i])), batch[i].usable
      PROVE  Row(items, Skipped(i) + o) = Detected(batch[i])[o].vec
  <2>1. parts[i] = Detected(batch[i])  BY <1>9 DEF parts
  <2>2. i \in 1..Len(parts) /\ i - 1 \in 0..Len(parts)  BY <1>1, <1>4
  <2>3. FlattenSeq(parts)[Start(parts, i - 1) + o] = parts[i][o] /\ Start(parts, i - 1) \in Nat
    BY <1>7, <1>9, <2>1, <2>2 DEF Laid
  <2>4. Skipped(i) + o \in Nat \ {0}
    <3>1. o \in Nat \ {0}  BY <1>3, <1>9
    <3> QED  BY <1>6, <2>3, <3>1
  <2>5. Row(items, Skipped(i) + o) = items[Skipped(i) + o].vec  BY <2>4, RowOfItem
  <2> QED  BY <1>5, <1>6, <2>1, <2>3, <2>5
<1> HIDE DEF items, Skipped
<1>10. ASSUME NEW i \in 1..len, NEW o \in 1..Len(Detected(batch[i]))
       PROVE  /\ FaceOf(i, o) \in FoundFaces
              /\ batch[i].usable => OwnVector(batch[i].num, FaceOf(i, o))
  <2>1. PICK n \in 1..Len(batch[i].faces) : Detected(batch[i])[o] = batch[i].faces[n]
    BY <1>3
  <2>2. batch[i].faces[n] \in Sightings  BY <1>2, <2>1
  <2>3. /\ batch[i].faces[n].x \in Int /\ batch[i].faces[n].score \in Int
        /\ batch[i].faces[n].vec \in Int
    BY <2>2 DEF Sightings
  <2>4. batch[i].usable => Row(items, Skipped(i) + o) = batch[i].faces[n].vec
    BY <1>9, <2>1
  <2>5. FaceOf(i, o) \in FoundFaces
    BY <1>2, <2>1, <2>3, <2>4 DEF FoundFaces
  <2>6. ASSUME batch[i].usable PROVE OwnVector(batch[i].num, FaceOf(i, o))
    <3>1. PICK b \in 1..Len(video) : \E j \in 1..Len(video[b]) :
            video[b][j].num = batch[i].num /\ video[b][j].faces = batch[i].faces
      BY <1>2 DEF FromVideo
    <3>2. PICK j \in 1..Len(video[b]) :
            video[b][j].num = batch[i].num /\ video[b][j].faces = batch[i].faces
      BY <3>1
    <3>3. FaceOf(i, o).x = batch[i].faces[n].x /\ FaceOf(i, o).emb = batch[i].faces[n].vec
      BY <2>1, <2>4, <2>6
    <3> HIDE DEF FaceOf
    <3> QED  BY <2>1, <3>2, <3>3 DEF OwnVector
  <2> QED  BY <2>5, <2>6
<1>11. ASSUME NEW i \in 1..len PROVE Found(i) \in Embedded /\ Strip(Found(i)) = Strip(batch[i])
  <2>1. Len(Detected(batch[i])) \in Nat  BY <1>3
  <2>2. FacesOf(i) \in Seq(FoundFaces) /\ Len(FacesOf(i)) = Len(Detected(batch[i]))
    <3>1. FacesOf(i) \in [1..Len(Detected(batch[i])) -> FoundFaces]
      <4> HIDE DEF FaceOf
      <4> QED  BY <1>10
    <3> HIDE DEF FacesOf
    <3> QED  BY <2>1, <3>1, ListOf
  <2>3. /\ Found(i).num = batch[i].num /\ Found(i).faces = FacesOf(i)
        /\ Found(i).index = batch[i].index /\ Found(i).pts = batch[i].pts
    <3>1. Found(i) = [index |-> batch[i].index, pts |-> batch[i].pts, num |-> batch[i].num,
                      faces |-> FacesOf(i)]
      BY <1>8
    <3> HIDE DEF FacesOf, Found
    <3> QED  BY <3>1
  <2>4. Found(i) \in FoundFrames
    <3>1. Found(i) = [index |-> batch[i].index, pts |-> batch[i].pts, num |-> batch[i].num,
                      faces |-> FacesOf(i)]
      BY <1>8
    <3> HIDE DEF FacesOf, Found
    <3> QED  BY <1>2, <3>1, <2>2 DEF FoundFrames
  <2>5. ASSUME NEW o \in 1..Len(FacesOf(i)), FacesOf(i)[o].eligible
        PROVE  OwnVector(batch[i].num, FacesOf(i)[o])
    <3>1. o \in 1..Len(Detected(batch[i]))  BY <2>2, <2>5
    <3>2. FacesOf(i)[o] = FaceOf(i, o)  BY <3>1
    <3>3. batch[i].usable  BY <2>5, <3>2
    <3> HIDE DEF FacesOf, FaceOf
    <3> QED  BY <1>10, <3>1, <3>2, <3>3
  <2>6. OwnVectors(Found(i))
    <3> HIDE DEF FacesOf
    <3> QED  BY <2>3, <2>5 DEF OwnVectors
  <2> QED  BY <2>3, <2>4, <2>6 DEF Embedded, Strip
<1>12. Recognised(batch) \in Seq(Embedded) /\ Len(Recognised(batch)) = len
  <2>1. Recognised(batch) = [i \in 1..len |-> Found(i)]  BY DEF Recognised
  <2> HIDE DEF Found
  <2>2. Recognised(batch) \in [1..len -> Embedded]  BY <1>11, <2>1
  <2> QED  BY <1>1, <2>2, ListOf
<1> QED  BY <1>11, <1>12

-----------------------------------------------------------------------------
(* The tracker.                                                            *)

Tracklets == [x : Int, misses : Nat, state : {"tentative", "confirmed", "lost"}]
Reach(faces, o, t) == Distance(tracks[t].x, faces[o].x)

\* There is a nearest candidate, and an oldest of the nearest.
LEMMA Nearest ==
  ASSUME tracks \in Seq(Tracklets), NEW faces \in Seq(FoundFaces), NEW o \in 1..Len(faces),
         NEW C \in SUBSET (1..Len(tracks)), C # {}
  PROVE  \E t \in C : \A u \in C : \/ Reach(faces, o, t) < Reach(faces, o, u)
                                   \/ Reach(faces, o, t) = Reach(faces, o, u) /\ t <= u
<1>1. \A t \in C : Reach(faces, o, t) \in Nat
  <2> SUFFICES ASSUME NEW t \in C PROVE Reach(faces, o, t) \in Nat  OBVIOUS
  <2>1. tracks[t] \in Tracklets /\ faces[o] \in FoundFaces  OBVIOUS
  <2>2. tracks[t].x \in Int /\ faces[o].x \in Int  BY <2>1 DEF Tracklets, FoundFaces
  <2> QED  BY <2>2 DEF Reach, Distance
<1> DEFINE D == {Reach(faces, o, t) : t \in C}
<1>2. PICK d \in D : \A e \in D : d <= e
  <2>1. D \in SUBSET Nat /\ D # {}  BY <1>1
  <2> HIDE DEF D
  <2> QED  BY <2>1, Least
<1> DEFINE N == {t \in C : Reach(faces, o, t) = d}
<1>3. PICK t \in N : \A u \in N : t <= u
  <2>1. N \in SUBSET Nat /\ N # {}  BY <1>2
  <2> HIDE DEF N
  <2> QED  BY <2>1, Least
<1>4. t \in C /\ Reach(faces, o, t) = d /\ d \in Nat  BY <1>1, <1>3
<1>5. ASSUME NEW u \in C
      PROVE  \/ Reach(faces, o, t) < Reach(faces, o, u)
             \/ Reach(faces, o, t) = Reach(faces, o, u) /\ t <= u
  <2>1. d <= Reach(faces, o, u) /\ Reach(faces, o, u) \in Nat  BY <1>1, <1>2
  <2>2. Reach(faces, o, u) = d => t <= u  BY <1>3
  <2>3. d < Reach(faces, o, u) \/ d = Reach(faces, o, u)  BY <1>4, <2>1
  <2> QED  BY <1>4, <2>2, <2>3
<1> QED  BY <1>4, <1>5

\* The greedy assignment is there: it is made face after face.
LEMMA LinksGreedy ==
  ASSUME tracks \in Seq(Tracklets), NEW faces \in Seq(FoundFaces)
  PROVE  /\ Links(faces) \in [1..Len(faces) -> 0..Len(tracks)]
         /\ \A o \in 1..Len(faces) : Greedy(Links(faces), faces, o)
<1> DEFINE n == Len(faces)
           L == [1..n -> 0..Len(tracks)]
           Done(links, m) == \A o \in 1..m : Greedy(links, faces, o)
           T == {m \in 0..n : \E links \in L : Done(links, m)}
<1>1. n \in Nat /\ Len(tracks) \in Nat  OBVIOUS
<1>2. 0 \in T
  <2>1. [o \in 1..n |-> 0] \in L  BY <1>1
  <2>2. Done([o \in 1..n |-> 0], 0)  OBVIOUS
  <2> HIDE DEF Done, L
  <2> QED  BY <1>1, <2>1, <2>2
<1>3. ASSUME NEW m \in T, m < n PROVE m + 1 \in T
  <2>1. m \in 0..n /\ m + 1 \in 1..n /\ m + 1 \in 0..n  BY <1>1, <1>3
  <2>2. PICK links \in L : Done(links, m)  BY <1>3
  <2> DEFINE o == m + 1
             C == Candidates(links, faces, o)
             t == CHOOSE t \in C : \A u \in C :
                    \/ Reach(faces, o, t) < Reach(faces, o, u)
                    \/ Reach(faces, o, t) = Reach(faces, o, u) /\ t <= u
             v == IF C = {} THEN 0 ELSE t
             new == [links EXCEPT ![o] = v]
  <2>3. C \in SUBSET (1..Len(tracks))  BY DEF Candidates
  <2>4. C # {} => /\ t \in C
                  /\ \A u \in C : \/ Reach(faces, o, t) < Reach(faces, o, u)
                                  \/ Reach(faces, o, t) = Reach(faces, o, u) /\ t <= u
    <3> HIDE DEF C
    <3> QED  BY <2>1, <2>3, Nearest
  <2> HIDE DEF t
  <2>5. v \in 0..Len(tracks)
    <3> HIDE DEF C
    <3>1. 0 \in 0..Len(tracks)  BY <1>1
    <3>2. C # {} => t \in 1..Len(tracks)  BY <2>3, <2>4
    <3>3. \A u \in 1..Len(tracks) : u \in 0..Len(tracks)  BY <1>1
    <3> QED  BY <3>1, <3>2, <3>3
  <2>6. new \in L /\ new[o] = v /\ \A p \in 1..m : new[p] = links[p]
    <3> HIDE DEF v
    <3> QED  BY <2>1, <2>5
  <2> HIDE DEF new, v
  <2>7. ASSUME NEW p \in 1..(m + 1) PROVE Candidates(new, faces, p) = Candidates(links, faces, p)
    <3>1. \A q \in 1..(p - 1) : new[q] = links[q]  BY <2>1, <2>6
    <3> QED  BY <3>1 DEF Candidates
  <2>8. ASSUME NEW p \in 1..m PROVE Greedy(new, faces, p)
    <3>1. Greedy(links, faces, p) /\ new[p] = links[p]  BY <2>2, <2>6
    <3>2. Candidates(new, faces, p) = Candidates(links, faces, p)  BY <2>1, <2>7
    <3> QED  BY <3>1, <3>2 DEF Greedy
  <2>9. Greedy(new, faces, o)
    <3>1. Candidates(new, faces, o) = C /\ new[o] = v  BY <2>1, <2>6, <2>7
    <3> HIDE DEF C, o
    <3>2. CASE C = {}
      <4>1. v = 0  BY <3>2 DEF v
      <4> QED  BY <3>1, <3>2, <4>1 DEF Greedy
    <3>3. CASE C # {}
      <4>1. v = t  BY <3>3 DEF v
      <4> QED  BY <2>4, <3>1, <3>3, <4>1 DEF Greedy, Reach
    <3> QED  BY <3>2, <3>3
  <2>10. Done(new, m + 1)
    <3>1. \A p \in 1..(m + 1) : p \in 1..m \/ p = m + 1  BY <2>1
    <3> QED  BY <2>8, <2>9, <3>1
  <2> HIDE DEF Done, L
  <2> QED  BY <2>1, <2>6, <2>10
<1>4. n \in T
  <2>1. T \in SUBSET (0..n)  OBVIOUS
  <2> HIDE DEF T
  <2>2. \A m \in 0..n : m \in T  BY <1>1, <1>2, <1>3, <2>1, Climb
  <2> QED  BY <1>1, <2>2
<1>5. PICK links \in L : \A o \in 1..n : Greedy(links, faces, o)  BY <1>4
<1> QED  BY <1>5 DEF Links

\* The keys of the faces of a frame: one track each, known ones first, and the
\* new ones in one piece behind them.
Numbering(keys, n, new) ==
  /\ keys \in Seq(Nat \ {0}) /\ Len(keys) = n /\ new \in Nat
  /\ \A o, p \in 1..n : keys[o] = keys[p] => o = p
  /\ \A o \in 1..n : keys[o] <= Len(tracks) + new
  /\ \A t \in (Len(tracks) + 1)..(Len(tracks) + new) : \E o \in 1..n : keys[o] = t
  /\ Cardinality({o \in DOMAIN keys : keys[o] > Len(tracks)}) = new

LEMMA KeysNumber ==
  ASSUME tracks \in Seq(Tracklets), NEW faces \in Seq(FoundFaces)
  PROVE  \E new : Numbering(Keys(Links(faces)), Len(faces), new)
<1> DEFINE n == Len(faces)
           links == Links(faces)
           keys == Keys(links)
           fresh == {o \in 1..n : links[o] = 0}
           before == [o \in fresh |-> {p \in fresh : p < o}]
           new == Cardinality(fresh)
           len == Len(tracks)
<1>1. n \in Nat /\ len \in Nat  OBVIOUS
<1>2. links \in [1..n -> 0..len] /\ \A o \in 1..n : Greedy(links, faces, o)
  BY LinksGreedy
<1> HIDE DEF links
<1>3. IsFiniteSet(1..n)  BY <1>1, UpTo
<1>4. IsFiniteSet(fresh) /\ new \in Nat
  <2>1. fresh \in SUBSET (1..n)  OBVIOUS
  <2> HIDE DEF fresh
  <2>2. IsFiniteSet(fresh)  BY <1>3, <2>1, FS_Subset
  <2> QED  BY <2>2, FS_CardinalityType
<1>5. /\ \A i \in 1..new : AtPlace(before, i) \in fresh /\ Cardinality(before[AtPlace(before, i)]) = i - 1
      /\ \A o \in fresh : \E i \in 1..new : AtPlace(before, i) = o
      /\ \A i, j \in 1..new : i < j => AtPlace(before, i) \in before[AtPlace(before, j)]
  <2>1. before \in [fresh -> SUBSET fresh] /\ \A i, j \in fresh : j \in before[i] <=> j < i
    OBVIOUS
  <2>2. fresh \in SUBSET Nat  OBVIOUS
  <2> HIDE DEF fresh, before
  <2>3. \A i \in fresh : i \notin before[i]  BY <2>1, <2>2
  <2>4. \A i, j \in fresh : i # j => i \in before[j] \/ j \in before[i]  BY <2>1, <2>2
  <2>5. \A i \in fresh : \A j \in before[i] : before[j] \subseteq before[i]
    <3> SUFFICES ASSUME NEW i \in fresh, NEW j \in before[i], NEW x \in before[j]
                 PROVE  x \in before[i]
      OBVIOUS
    <3>1. j \in fresh /\ x \in fresh  BY <2>1
    <3> QED  BY <3>1, <2>1, <2>2
  <2> QED  BY <1>4, <2>1, <2>3, <2>4, <2>5, Places
<1>6. ASSUME NEW o \in fresh
      PROVE  /\ IsFiniteSet(before[o]) /\ o \in 1..n /\ links[o] = 0
             /\ keys[o] = len + (Cardinality(before[o]) + 1)
             /\ \E i \in 1..new : o = AtPlace(before, i) /\ Cardinality(before[o]) = i - 1
  <2>1. o \in 1..n /\ links[o] = 0  OBVIOUS
  <2>2. before[o] \in SUBSET fresh  OBVIOUS
  <2>3. IsFiniteSet(before[o])
    <3> HIDE DEF fresh, before
    <3> QED  BY <1>4, <2>2, FS_Subset
  <2>4. {p \in 1..o : links[p] = 0} = before[o] \cup {o}
    <3>1. \A p \in 1..o : p \in 1..n /\ (p < o \/ p = o)  BY <1>1, <2>1
    <3>2. \A p \in before[o] : p \in 1..o /\ links[p] = 0  BY <2>1
    <3>3. \A p \in 1..o : links[p] = 0 => p \in before[o] \cup {o}  BY <3>1
    <3>4. o \in 1..o  BY <1>1, <2>1
    <3> HIDE DEF before
    <3> QED  BY <2>1, <3>2, <3>3, <3>4
  <2>5. o \notin before[o]  BY <2>1
  <2>6. Cardinality(before[o] \cup {o}) = Cardinality(before[o]) + 1
    <3> HIDE DEF before, fresh
    <3> QED  BY <2>3, <2>5, FS_AddElement
  <2>7. keys[o] = len + Cardinality({p \in 1..o : links[p] = 0})
    BY <1>2, <2>1 DEF Keys
  <2>8. PICK i \in 1..new : AtPlace(before, i) = o  BY <1>5
  <2>9. Cardinality(before[o]) = i - 1  BY <1>5, <2>8
  <2> QED  BY <2>1, <2>3, <2>4, <2>6, <2>7, <2>8, <2>9
<1>7. ASSUME NEW o \in 1..n, o \notin fresh PROVE keys[o] = links[o] /\ links[o] \in 1..len
  <2>1. links[o] # 0 /\ links[o] \in 0..len  BY <1>2, <1>7
  <2> QED  BY <1>2, <2>1 DEF Keys
<1>8. DOMAIN keys = 1..n  BY <1>2 DEF Keys
<1>9. ASSUME NEW o \in fresh PROVE keys[o] \in (len + 1)..(len + new)
  <2>1. PICK i \in 1..new : Cardinality(before[o]) = i - 1  BY <1>6
  <2>2. i \in Nat /\ 1 <= i /\ i <= new  BY <1>4
  <2>4. keys[o] = len + ((i - 1) + 1)  BY <1>6, <2>1
  <2>5. (i - 1) + 1 = i  BY <2>2
  <2>3. keys[o] = len + i  BY <2>4, <2>5
  <2> QED  BY <1>1, <1>4, <2>2, <2>3
<1>10. ASSUME NEW t \in (len + 1)..(len + new) PROVE \E o \in 1..n : keys[o] = t
  <2> DEFINE i == t - len
  <2>1. i \in 1..new /\ len + i = t  BY <1>1, <1>4
  <2>2. AtPlace(before, i) \in fresh /\ Cardinality(before[AtPlace(before, i)]) = i - 1
    BY <1>5, <2>1
  <2>3. keys[AtPlace(before, i)] = len + ((i - 1) + 1) /\ AtPlace(before, i) \in 1..n
    BY <1>6, <2>2
  <2> QED  BY <1>1, <2>1, <2>3
<1>11. ASSUME NEW o \in 1..n, NEW p \in 1..n, keys[o] = keys[p] PROVE o = p
  <2>1. CASE o \in fresh /\ p \in fresh
    <3>1. PICK i \in 1..new : o = AtPlace(before, i) /\ Cardinality(before[o]) = i - 1
      BY <1>6, <2>1
    <3>2. PICK j \in 1..new : p = AtPlace(before, j) /\ Cardinality(before[p]) = j - 1
      BY <1>6, <2>1
    <3>3. keys[o] = len + ((i - 1) + 1) /\ keys[p] = len + ((j - 1) + 1)
      BY <1>6, <2>1, <3>1, <3>2
    <3>5. \A a \in 1..new : a \in Nat  BY <1>4
    <3>6. i \in Nat /\ j \in Nat  BY <3>5
    <3>7. len + ((i - 1) + 1) = len + ((j - 1) + 1)  BY <1>11, <3>3
    <3>4. i = j  BY <1>1, <3>6, <3>7
    <3> QED  BY <3>1, <3>2, <3>4
  <2>2. CASE ~(o \in fresh <=> p \in fresh)
    <3>1. CASE o \in fresh /\ p \notin fresh
      <4>1. keys[o] > len /\ keys[p] <= len  BY <1>1, <1>4, <1>7, <1>9, <3>1
      <4>2. keys[o] \in Int /\ keys[p] \in Int  BY <1>1, <1>4, <1>7, <1>9, <3>1
      <4> QED  BY <1>1, <1>11, <4>1, <4>2
    <3>2. CASE o \notin fresh /\ p \in fresh
      <4>1. keys[p] > len /\ keys[o] <= len  BY <1>1, <1>4, <1>7, <1>9, <3>2
      <4>2. keys[o] \in Int /\ keys[p] \in Int  BY <1>1, <1>4, <1>7, <1>9, <3>2
      <4> QED  BY <1>1, <1>11, <4>1, <4>2
    <3> QED  BY <2>2, <3>1, <3>2
  <2>3. CASE o \notin fresh /\ p \notin fresh
    <3>1. links[o] = links[p] /\ links[o] # 0 /\ links[p] # 0  BY <1>7, <1>11, <2>3
    <3>2. ASSUME NEW a \in 1..n, NEW b \in 1..n, a < b, links[a] = links[b], links[b] # 0
          PROVE  FALSE
      <4>1. Greedy(links, faces, b)  BY <1>2
      <4>2. links[b] \in Candidates(links, faces, b)  BY <3>2, <4>1 DEF Greedy
      <4>3. a \in 1..(b - 1)  BY <3>2
      <4> QED  BY <3>2, <4>2, <4>3 DEF Candidates
    <3>3. o < p \/ p < o \/ o = p  OBVIOUS
    <3> QED  BY <3>1, <3>2, <3>3
  <2> QED  BY <2>1, <2>2, <2>3
<1>12. keys \in Seq(Nat \ {0}) /\ Len(keys) = n
  <2>1. \A o \in 1..n : keys[o] \in Nat \ {0}
    <3>1. \A o \in fresh : keys[o] \in Nat \ {0}  BY <1>1, <1>4, <1>9
    <3>2. \A o \in 1..n : o \notin fresh => keys[o] \in Nat \ {0}  BY <1>1, <1>7
    <3> QED  BY <3>1, <3>2
  <2>2. keys = [o \in 1..n |-> keys[o]]  BY <1>2 DEF Keys
  <2> HIDE DEF keys
  <2>3. keys \in [1..n -> Nat \ {0}]  BY <2>1, <2>2
  <2> QED  BY <1>1, <2>3, ListOf
<1>13. \A o \in 1..n : keys[o] <= len + new
  <2>1. \A o \in fresh : keys[o] <= len + new  BY <1>1, <1>4, <1>9
  <2>2. \A o \in 1..n : o \notin fresh => keys[o] <= len + new  BY <1>1, <1>4, <1>7
  <2> QED  BY <2>1, <2>2
<1>14. {o \in DOMAIN keys : keys[o] > len} = fresh
  <2>1. \A o \in fresh : o \in 1..n /\ keys[o] > len  BY <1>1, <1>4, <1>6, <1>9
  <2>2. \A o \in 1..n : o \notin fresh => ~(keys[o] > len)  BY <1>1, <1>7
  <2> HIDE DEF keys, fresh
  <2> QED  BY <1>8, <2>1, <2>2
<1> HIDE DEF keys, fresh
<1>15. Numbering(keys, n, new)  BY <1>4, <1>10, <1>11, <1>12, <1>13, <1>14 DEF Numbering
<1> QED  BY <1>15 DEF keys, links

LEMMA TrackedType ==
  ASSUME tracks \in Seq(Tracklets), NEW faces \in Seq(FoundFaces), NEW keys, NEW new,
         Numbering(keys, Len(faces), new)
  PROVE  Tracked(faces, keys) \in Seq(Tracklets) /\ Len(Tracked(faces, keys)) = Len(tracks) + new
<1> DEFINE len == Len(tracks)
           Moved(t) == IF \E o \in DOMAIN keys : keys[o] = t
                      THEN LET o == CHOOSE o \in DOMAIN keys : keys[o] = t
                           IN  IF t > len THEN NewTrack(faces[o]) ELSE Matched(tracks[t], faces[o])
                      ELSE Missed(tracks[t])
<1>1. /\ len \in Nat /\ new \in Nat /\ DOMAIN keys = 1..Len(faces)
      /\ \A t \in (len + 1)..(len + new) : \E o \in 1..Len(faces) : keys[o] = t
      /\ Cardinality({o \in DOMAIN keys : keys[o] > len}) = new
  BY DEF Numbering
<1>2. Tracked(faces, keys) = [t \in 1..(len + new) |-> Moved(t)]  BY <1>1 DEF Tracked
<1>3. ASSUME NEW t \in 1..(len + new) PROVE Moved(t) \in Tracklets
  <2>1. \A o \in 1..Len(faces) : faces[o].x \in Int
    <3>1. \A o \in 1..Len(faces) : faces[o] \in FoundFaces  OBVIOUS
    <3> QED  BY <3>1 DEF FoundFaces
  <2>2. t \in 1..len => /\ tracks[t] \in Tracklets
                        /\ tracks[t].x \in Int /\ tracks[t].misses \in Nat
                        /\ tracks[t].state \in {"tentative", "confirmed", "lost"}
    <3>1. t \in 1..len => tracks[t] \in Tracklets  OBVIOUS
    <3> QED  BY <3>1 DEF Tracklets
  <2>3. CASE \E o \in DOMAIN keys : keys[o] = t
    <3> DEFINE o == CHOOSE o \in DOMAIN keys : keys[o] = t
    <3>1. o \in 1..Len(faces)  BY <1>1, <2>3
    <3>2. Moved(t) = IF t > len THEN NewTrack(faces[o]) ELSE Matched(tracks[t], faces[o])
      BY <2>3
    <3> HIDE DEF o, Moved
    <3>3. CASE t > len  BY <2>1, <3>1, <3>2, <3>3 DEF NewTrack, Tracklets
    <3>4. CASE ~(t > len)
      <4>1. t \in 1..len  BY <1>1, <3>4
      <4> QED  BY <2>1, <2>2, <3>1, <3>2, <3>4, <4>1 DEF Matched, Tracklets
    <3> QED  BY <3>3, <3>4
  <2>4. CASE ~\E o \in DOMAIN keys : keys[o] = t
    <3>1. t \notin (len + 1)..(len + new)  BY <1>1, <2>4
    <3>2. t \in 1..len  BY <1>1, <3>1
    <3>3. Moved(t) = Missed(tracks[t])  BY <2>4
    <3>4. tracks[t] = [x |-> tracks[t].x, misses |-> tracks[t].misses, state |-> tracks[t].state]
      BY <2>2, <3>2 DEF Tracklets
    <3> HIDE DEF Moved
    <3>5. Missed(tracks[t]) \in Tracklets
      <4>1. tracks[t].misses + 1 \in Nat  BY <2>2, <3>2
      <4> QED  BY <2>2, <3>2, <3>4, <4>1 DEF Missed, Tracklets
    <3> QED  BY <3>3, <3>5
  <2> QED  BY <2>3, <2>4
<1> HIDE DEF Moved, len
<1>4. Tracked(faces, keys) \in [1..(len + new) -> Tracklets]  BY <1>2, <1>3
<1>5. len + new \in Nat  BY <1>1
<1> QED  BY <1>4, <1>5, ListOf DEF len

-----------------------------------------------------------------------------
(* Types: what waits where.                                                *)

\* A frame of the observations: its faces and the tracks they belong to.
Records == {r \in [index : Nat, pts : Int, num : Int, faces : Seq(FoundFaces),
                   keys : Seq(Nat \ {0})] :
              /\ OwnVectors(r) /\ Len(r.keys) = Len(r.faces)
              /\ \A o, p \in 1..Len(r.keys) : r.keys[o] = r.keys[p] => o = p}

VideoInv ==
  /\ video \in Seq(Seq(MuxFrames)) /\ limit \in Nat
  /\ feed \in Seq(Seq(MuxFrames)) /\ Len(feed) <= Len(video)
  /\ \A i \in 1..Len(feed) : feed[i] = video[Len(video) - Len(feed) + i]

ProbeInv ==
  /\ held \in Seq(Seq(Sent)) /\ Len(held) <= 1
  /\ accepted \in Nat /\ counter \in Nat /\ stop \in BOOLEAN
  /\ limit > 0 => accepted <= limit
  /\ queue \in Seq(Seq(Sent))

ProcInv ==
  /\ proc \in {"pop", "infer", "flush", "ended"}
  /\ todo \in Seq(Seq(Sent)) /\ found \in Seq(Embedded) /\ pending \in Seq(Sent)
  /\ tracks \in Seq(Tracklets) /\ recorded \in Seq(Records)
  /\ Len(pending) < BatchSize
  /\ \A b \in 1..Len(todo) : Len(todo[b]) \in 1..BatchSize
  /\ proc = "pop" => todo = <<>> /\ found = <<>>
  /\ proc = "infer" => \A b \in 1..Len(todo) : Len(todo[b]) = BatchSize
  /\ proc = "flush" => Len(todo) <= 1 /\ pending = <<>>
  /\ proc \in {"infer", "flush"} => todo # <<>> \/ found # <<>>
  /\ found # <<>> => proc \in {"infer", "flush"}

Unpublished == {"start", "relock", "linking", "listen", "join", "templates", "footer",
                "crops", "pack", "manifest", "swap"}
OutInv ==
  /\ main \in Unpublished \cup {"rename", "verdict", "gone"}
  /\ exit \in {"none", "0", "1", "abort"}
  /\ torn \subseteq {"templates", "observations", "crops", "manifest"}
  /\ bundle \in {Empty, Absent, work}
  /\ main \in Unpublished => bundle = Empty

TypeInv == VideoInv /\ ProbeInv /\ ProcInv /\ OutInv

\* What is left of a list of frames when whole batches are taken.
Batches(x, batches, rest) ==
  /\ batches \in Seq(Seq(Sent)) /\ rest \in Seq(Sent)
  /\ Len(batches) * BatchSize + Len(rest) = Len(x) /\ Len(rest) < BatchSize
  /\ \A b \in 1..Len(batches) :
       /\ Len(batches[b]) = BatchSize
       /\ \A j \in 1..BatchSize : /\ (b - 1) * BatchSize + j \in 1..Len(x)
                                  /\ batches[b][j] = x[(b - 1) * BatchSize + j]
  /\ \A j \in 1..Len(rest) : /\ Len(batches) * BatchSize + j \in 1..Len(x)
                             /\ rest[j] = x[Len(batches) * BatchSize + j]

LEMMA Splitting ==
  ASSUME NEW x \in Seq(Sent)
  PROVE  Batches(x, Complete(x), Remainder(x))
<1> DEFINE n == Len(x) \div BatchSize
           Block(b) == SubSeq(x, (b - 1) * BatchSize + 1, b * BatchSize)
<1>1. BatchSize \in Nat \ {0} /\ Len(x) \in Nat  BY WorkerAssumption
<1>2. n \in Nat /\ Len(x) = n * BatchSize + (Len(x) % BatchSize)
        /\ Len(x) % BatchSize \in 0..(BatchSize - 1)
  BY <1>1
<1>3. Complete(x) = [b \in 1..n |-> Block(b)]  BY DEF Complete
<1>4. Remainder(x) = SubSeq(x, n * BatchSize + 1, Len(x))  BY DEF Remainder
<1>5. n * BatchSize \in Nat /\ n * BatchSize <= Len(x)
  <2> HIDE DEF n
  <2>1. n * BatchSize \in Nat  BY <1>1, <1>2
  <2> QED  BY <1>1, <1>2, <2>1
<1> HIDE DEF n
<1>6. ASSUME NEW b \in 1..n
      PROVE  /\ (b - 1) * BatchSize \in Nat /\ b * BatchSize = (b - 1) * BatchSize + BatchSize
             /\ b * BatchSize <= n * BatchSize
  <2>1. b \in Nat /\ b - 1 \in Nat /\ n - b \in Nat  BY <1>2
  <2>2. (b - 1) * BatchSize \in Nat  BY <1>1, <2>1
  <2>3. (n - b) * BatchSize \in Nat  BY <1>1, <2>1
  <2>4. n * BatchSize = b * BatchSize + (n - b) * BatchSize  BY <1>1, <1>2, <2>1
  <2>5. b * BatchSize = (b - 1) * BatchSize + BatchSize  BY <1>1, <2>1
  <2>6. b * BatchSize \in Nat  BY <1>1, <2>1
  <2> QED  BY <2>2, <2>3, <2>4, <2>5, <2>6
<1>7. ASSUME NEW b \in 1..n
      PROVE  /\ Block(b) \in Seq(Sent) /\ Len(Block(b)) = BatchSize
             /\ \A j \in 1..BatchSize : /\ (b - 1) * BatchSize + j \in 1..Len(x)
                                        /\ Block(b)[j] = x[(b - 1) * BatchSize + j]
  <2> DEFINE a == (b - 1) * BatchSize   e == b * BatchSize
  <2>1. a \in Nat /\ e = a + BatchSize /\ e <= Len(x)
    <3>1. a \in Nat /\ e = a + BatchSize /\ e <= n * BatchSize  BY <1>6
    <3> HIDE DEF a, e
    <3> QED  BY <1>1, <1>5, <3>1
  <2>2. Block(b) = SubSeq(x, a + 1, e)  OBVIOUS
  <2> HIDE DEF a, e, Block
  <2>3. \A j \in 1..BatchSize : a + j \in 1..Len(x)  BY <1>1, <2>1
  <2>4. BatchSize \in Nat /\ a + BatchSize <= Len(x)  BY <1>1, <2>1
  <2>5. Block(b) = SubSeq(x, a + 1, a + BatchSize)  BY <2>1, <2>2
  <2>6. /\ Block(b) \in Seq(Sent) /\ Len(Block(b)) = BatchSize
        /\ \A j \in 1..BatchSize : Block(b)[j] = x[a + j]
    <3>1. /\ SubSeq(x, a + 1, a + BatchSize) \in Seq(Sent)
          /\ Len(SubSeq(x, a + 1, a + BatchSize)) = BatchSize
          /\ \A j \in 1..BatchSize : SubSeq(x, a + 1, a + BatchSize)[j] = x[a + j]
      BY <2>1, <2>4, Section
    <3> QED  BY <3>1, <2>5
  <2> QED  BY <2>3, <2>6 DEF a
<1>8. Complete(x) \in Seq(Seq(Sent)) /\ Len(Complete(x)) = n
  <2> HIDE DEF Block
  <2>1. Complete(x) \in [1..n -> Seq(Sent)]  BY <1>3, <1>7
  <2> QED  BY <1>2, <2>1, ListOf
<1>9. /\ Remainder(x) \in Seq(Sent) /\ Len(Remainder(x)) = Len(x) - n * BatchSize
      /\ \A j \in 1..Len(Remainder(x)) : /\ n * BatchSize + j \in 1..Len(x)
                                         /\ Remainder(x)[j] = x[n * BatchSize + j]
  <2> DEFINE a == n * BatchSize
  <2>1. a \in Nat /\ a <= Len(x) /\ Remainder(x) = SubSeq(x, a + 1, Len(x))  BY <1>4, <1>5
  <2> HIDE DEF a
  <2>2. Len(x) - (a + 1) + 1 = Len(x) - a /\ Len(x) - a \in Nat  BY <1>1, <2>1
  <2>3. \A j \in 1..(Len(x) - a) : (a + 1) + j - 1 = a + j /\ a + j \in 1..Len(x)
    BY <1>1, <2>1
  <2>4. Remainder(x) = [j \in 1..(Len(x) - a) |-> x[(a + 1) + j - 1]]  BY <2>1, <2>2
  <2>5. Remainder(x) = [j \in 1..(Len(x) - a) |-> x[a + j]]  BY <2>3, <2>4
  <2>6. Remainder(x) \in [1..(Len(x) - a) -> Sent]  BY <2>3, <2>5
  <2>7. Remainder(x) \in Seq(Sent) /\ Len(Remainder(x)) = Len(x) - a
    BY <2>2, <2>6, ListOf
  <2> QED  BY <2>3, <2>5, <2>7 DEF a
<1>10. Len(Remainder(x)) < BatchSize /\ n * BatchSize + Len(Remainder(x)) = Len(x)
  <2> DEFINE a == n * BatchSize   m == Len(x) % BatchSize
  <2>1. a \in Nat /\ Len(x) = a + m /\ m \in 0..(BatchSize - 1) /\ Len(Remainder(x)) = Len(x) - a
    BY <1>2, <1>5, <1>9
  <2> HIDE DEF a, m
  <2>2. Len(Remainder(x)) < BatchSize /\ a + Len(Remainder(x)) = Len(x)  BY <1>1, <2>1
  <2> QED  BY <2>2 DEF a
<1>11. \A b \in 1..n : Complete(x)[b] = Block(b)  BY <1>3
<1> HIDE DEF Block
<1>12. \A b \in 1..n :
         /\ Len(Complete(x)[b]) = BatchSize
         /\ \A j \in 1..BatchSize : /\ (b - 1) * BatchSize + j \in 1..Len(x)
                                    /\ Complete(x)[b][j] = x[(b - 1) * BatchSize + j]
  BY <1>7, <1>11
<1> QED  BY <1>8, <1>9, <1>10, <1>12 DEF Batches

-----------------------------------------------------------------------------
(* The types are kept.                                                     *)

LEMMA SameVideo ==
  ASSUME video' = video
  PROVE  Sent' = Sent /\ Embedded' = Embedded /\ Records' = Records
<1>1. \A num, face : OwnVector(num, face)' = OwnVector(num, face)  BY DEF OwnVector
<1>2. \A f : OwnVectors(f)' = OwnVectors(f)  BY DEF OwnVectors, OwnVector
<1>3. \A e : FromVideo(e)' = FromVideo(e)  BY DEF FromVideo
<1> QED  BY <1>2, <1>3 DEF Sent, Embedded, Records

LEMMA Kept ==
  ASSUME TypeInv, video' = video, limit' = limit
  PROVE  /\ feed' = feed => VideoInv'
         /\ UNCHANGED <<held, accepted, counter, stop, queue>> => ProbeInv'
         /\ UNCHANGED procVars => ProcInv'
         /\ UNCHANGED <<main, exit, outVars>> => OutInv'
<1>1. Sent' = Sent /\ Embedded' = Embedded /\ Records' = Records  BY SameVideo
<1>2. feed' = feed => VideoInv'  BY DEF TypeInv, VideoInv
<1>3. UNCHANGED <<held, accepted, counter, stop, queue>> => ProbeInv'
  BY <1>1 DEF TypeInv, ProbeInv
<1>4. UNCHANGED procVars => ProcInv'  BY <1>1 DEF TypeInv, ProcInv, procVars
<1>5. UNCHANGED <<main, exit, outVars>> => OutInv'
  BY DEF TypeInv, OutInv, Unpublished, outVars, Empty, Absent
<1> QED  BY <1>2, <1>3, <1>4, <1>5

LEMMA FeedTail ==
  ASSUME VideoInv, feed # <<>>, feed' = Tail(feed), video' = video, limit' = limit
  PROVE  VideoInv' /\ Len(feed') = Len(feed) - 1
<1>1. /\ video \in Seq(Seq(MuxFrames)) /\ feed \in Seq(Seq(MuxFrames)) /\ limit \in Nat
      /\ Len(feed) \in Nat /\ Len(feed) <= Len(video) /\ Len(video) \in Nat
      /\ \A i \in 1..Len(feed) : feed[i] = video[Len(video) - Len(feed) + i]
  BY DEF VideoInv
<1>2. /\ Tail(feed) \in Seq(Seq(MuxFrames)) /\ Len(Tail(feed)) = Len(feed) - 1
      /\ \A i \in 1..(Len(feed) - 1) : Tail(feed)[i] = feed[i + 1]
  BY <1>1
<1>3. \A i \in 1..(Len(feed) - 1) : /\ i + 1 \in 1..Len(feed)
                                    /\ Len(video) - (Len(feed) - 1) + i
                                         = Len(video) - Len(feed) + (i + 1)
  BY <1>1
<1>4. \A i \in 1..(Len(feed) - 1) : Tail(feed)[i] = video[Len(video) - (Len(feed) - 1) + i]
  BY <1>1, <1>2, <1>3
<1>5. Len(feed) - 1 <= Len(video)  BY <1>1
<1> QED  BY <1>1, <1>2, <1>4, <1>5 DEF VideoInv

\* The frames of the next buffer, as the probe numbers and cuts them.
LEMMA NextBuffer ==
  ASSUME VideoInv, ProbeInv, feed # <<>>
  PROVE  /\ Len(feed[1]) \in Nat /\ Room \in 0..Len(feed[1])
         /\ Numbered \in Seq(Sent) /\ Len(Numbered) = Len(feed[1])
         /\ SubSeq(Numbered, 1, Room) \in Seq(Sent) /\ Len(SubSeq(Numbered, 1, Room)) = Room
         /\ \A i \in 1..Room : SubSeq(Numbered, 1, Room)[i] = Numbered[i]
         /\ Len(video) - Len(feed) + 1 \in 1..Len(video)
         /\ feed[1] = video[Len(video) - Len(feed) + 1]
<1> DEFINE b == Len(video) - Len(feed) + 1
<1>1. /\ video \in Seq(Seq(MuxFrames)) /\ feed \in Seq(Seq(MuxFrames)) /\ limit \in Nat
      /\ Len(feed) <= Len(video)
      /\ \A i \in 1..Len(feed) : feed[i] = video[Len(video) - Len(feed) + i]
      /\ accepted \in Nat /\ counter \in Nat /\ (limit > 0 => accepted <= limit)
  BY DEF VideoInv, ProbeInv
<1>2. Len(feed) \in Nat /\ Len(feed) >= 1 /\ Len(video) \in Nat  BY <1>1
<1>3. 1 \in 1..Len(feed) /\ b \in 1..Len(video)  BY <1>1, <1>2
<1>4. feed[1] = video[b] /\ feed[1] \in Seq(MuxFrames)  BY <1>1, <1>3
<1>5. Len(feed[1]) \in Nat  BY <1>4
<1> HIDE DEF b
<1>6. ASSUME NEW i \in 1..Len(feed[1]) PROVE Numbered[i] \in Sent
  <2>1. feed[1][i] \in MuxFrames  BY <1>4
  <2>2. /\ feed[1][i].num \in Int /\ feed[1][i].pts \in Int /\ feed[1][i].usable \in BOOLEAN
        /\ feed[1][i].fmt \in {"nv12", "rgba", "other"} /\ feed[1][i].faces \in Seq(Sightings)
    BY <2>1 DEF MuxFrames
  <2>3. counter + i - 1 \in Nat  BY <1>1, <1>5
  <2>4. Numbered[i] = [index |-> counter + i - 1, pts |-> feed[1][i].pts,
                       num |-> feed[1][i].num, fmt |-> feed[1][i].fmt,
                       usable |-> feed[1][i].usable, faces |-> feed[1][i].faces]
    BY DEF Numbered
  <2>5. Numbered[i] \in Envelopes  BY <2>2, <2>3, <2>4 DEF Envelopes
  <2>6. Numbered[i].num = video[b][i].num /\ Numbered[i].faces = video[b][i].faces
          /\ i \in 1..Len(video[b])
    BY <1>4, <2>4
  <2>7. FromVideo(Numbered[i])  BY <1>3, <2>6 DEF FromVideo
  <2> QED  BY <2>5, <2>7 DEF Sent
<1>7. Numbered \in Seq(Sent) /\ Len(Numbered) = Len(feed[1])
  <2>1. Numbered \in [1..Len(feed[1]) -> Sent]  BY <1>6 DEF Numbered
  <2> QED  BY <1>5, <2>1, ListOf
<1>8. Room \in 0..Len(feed[1])  BY <1>1, <1>5 DEF Room
<1>9. /\ SubSeq(Numbered, 1, Room) \in Seq(Sent) /\ Len(SubSeq(Numbered, 1, Room)) = Room
      /\ \A i \in 1..Room : SubSeq(Numbered, 1, Room)[i] = Numbered[i]
  BY <1>5, <1>7, <1>8
<1> QED  BY <1>3, <1>4, <1>5, <1>7, <1>8, <1>9 DEF b

LEMMA TypeInit == WorkerInit => TypeInv
<1> SUFFICES ASSUME WorkerInit PROVE TypeInv  OBVIOUS
<1>1. video \in Seq(Seq(MuxFrames)) /\ limit \in Nat  BY WorkerAssumption DEF WorkerInit
<1>2. VideoInv
  <2>1. feed = video /\ Len(video) \in Nat  BY <1>1 DEF WorkerInit
  <2>2. \A i \in 1..Len(video) : Len(video) - Len(video) + i = i  BY <2>1
  <2> QED  BY <1>1, <2>1, <2>2 DEF VideoInv
<1>3. ProbeInv
  <2>1. <<>> \in Seq(Seq(Sent)) /\ Len(<<>>) = 0  OBVIOUS
  <2>2. /\ held = <<>> /\ queue = <<>> /\ accepted = 0 /\ counter = 0 /\ stop = FALSE
    BY DEF WorkerInit, Nothing
  <2>3. /\ stop \in BOOLEAN /\ accepted \in Nat /\ counter \in Nat
        /\ limit > 0 => accepted <= limit
    <3>1. stop \in BOOLEAN  BY <2>2
    <3>2. accepted \in Nat /\ counter \in Nat  BY <2>2
    <3>3. limit > 0 => accepted <= limit  BY <1>1, <2>2
    <3> QED  BY <3>1, <3>2, <3>3
  <2>4. held \in Seq(Seq(Sent)) /\ Len(held) <= 1 /\ queue \in Seq(Seq(Sent))
    BY <2>1, <2>2
  <2> QED  BY <2>3, <2>4 DEF ProbeInv
<1>4. ProcInv
  <2>1. /\ <<>> \in Seq(Seq(Sent)) /\ Len(<<>>) = 0 /\ <<>> \in Seq(Embedded)
        /\ <<>> \in Seq(Sent) /\ <<>> \in Seq(Tracklets) /\ <<>> \in Seq(Records)
    OBVIOUS
  <2>2. 0 < BatchSize  BY WorkerAssumption
  <2> QED  BY <2>1, <2>2 DEF WorkerInit, ProcInv
<1>5. OutInv  BY DEF WorkerInit, OutInv, Unpublished
<1> QED  BY <1>2, <1>3, <1>4, <1>5 DEF TypeInv

LEMMA AcceptType == TypeInv /\ Accept => TypeInv'
<1> SUFFICES ASSUME TypeInv, Accept PROVE TypeInv'  OBVIOUS
<1>1. video' = video /\ limit' = limit /\ queue' = queue /\ feed' = Tail(feed) /\ feed # <<>>
  BY DEF Accept
<1>2. VideoInv /\ ProbeInv  BY DEF TypeInv
<1>3. VideoInv'  BY <1>1, <1>2, FeedTail
<1>4. ProcInv' /\ OutInv'  BY <1>1, Kept DEF Accept, procVars, outVars
<1>5. Sent' = Sent  BY <1>1, SameVideo
<1>6. ProbeInv'
  <2>1. CASE stop  BY <1>1, <1>2, <1>5, <2>1 DEF Accept, ProbeInv
  <2>2. CASE ~stop
    <3> DEFINE new == SubSeq(Numbered, 1, Room)
    <3>1. /\ Len(feed[1]) \in Nat /\ Room \in 0..Len(feed[1]) /\ new \in Seq(Sent)
      BY <1>1, <1>2, NextBuffer
    <3>2. /\ held' = <<new>> /\ counter' = counter + Len(feed[1])
          /\ accepted' = accepted + Room
          /\ stop' = (limit > 0 /\ accepted + Room >= limit)
      BY <2>2 DEF Accept
    <3> HIDE DEF new
    <3>3. held' \in Seq(Seq(Sent)) /\ Len(held') <= 1  BY <3>1, <3>2
    <3>4. accepted \in Nat /\ counter \in Nat /\ limit \in Nat /\ (limit > 0 => accepted <= limit)
      BY <1>2 DEF ProbeInv, VideoInv
    <3>5. accepted' \in Nat /\ counter' \in Nat  BY <3>1, <3>2, <3>4
    <3>6. limit > 0 => accepted' <= limit  BY <3>1, <3>2, <3>4 DEF Room
    <3>7. queue \in Seq(Seq(Sent))  BY <1>2 DEF ProbeInv
    <3> QED  BY <1>1, <1>5, <3>2, <3>3, <3>5, <3>6, <3>7 DEF ProbeInv
  <2> QED  BY <2>1, <2>2
<1> QED  BY <1>3, <1>4, <1>6 DEF TypeInv

LEMMA ProbeType ==
  TypeInv /\ (Link \/ Unmappable \/ Push \/ EndOfStream \/ ElementFails) => TypeInv'
<1> SUFFICES ASSUME TypeInv, Link \/ Unmappable \/ Push \/ EndOfStream \/ ElementFails
             PROVE  TypeInv'
  OBVIOUS
<1>1. CASE Link \/ EndOfStream \/ ElementFails
  BY <1>1, Kept DEF Link, EndOfStream, ElementFails, probeVars, TypeInv
<1>2. CASE Unmappable
  <2>1. VideoInv'  BY <1>2, FeedTail DEF Unmappable, TypeInv
  <2> QED  BY <1>2, <2>1, Kept DEF Unmappable, TypeInv
<1>3. CASE Push
  <2>1. VideoInv' /\ ProcInv' /\ OutInv'  BY <1>3, Kept DEF Push
  <2>2. Sent' = Sent  BY <1>3, SameVideo DEF Push
  <2>3. queue' \in Seq(Seq(Sent)) /\ held' \in Seq(Seq(Sent)) /\ Len(held') <= 1
    <3>1. queue \in Seq(Seq(Sent)) /\ held \in Seq(Seq(Sent))  BY DEF TypeInv, ProbeInv
    <3>2. <<>> \in Seq(Seq(Sent)) /\ Len(<<>>) <= 1  OBVIOUS
    <3> QED  BY <1>3, <3>1, <3>2 DEF Push, Nothing
  <2>4. ProbeInv'  BY <1>3, <2>2, <2>3 DEF Push, TypeInv, ProbeInv
  <2> QED  BY <2>1, <2>4 DEF TypeInv
<1> QED  BY <1>1, <1>2, <1>3

LEMMA PopType == TypeInv /\ (Pop \/ PopOutOfOrder) => TypeInv'
<1> SUFFICES ASSUME TypeInv, Pop \/ PopOutOfOrder PROVE TypeInv'  OBVIOUS
<1>1. VideoInv' /\ OutInv'  BY Kept DEF Pop, PopOutOfOrder, probeVars
<1>2. Sent' = Sent /\ Embedded' = Embedded /\ Records' = Records
  BY SameVideo DEF Pop, PopOutOfOrder
<1>3. queue \in Seq(Seq(Sent)) /\ queue # <<>>  BY DEF Pop, PopOutOfOrder, TypeInv, ProbeInv
<1>4. queue[1] \in Seq(Sent) /\ Tail(queue) \in Seq(Seq(Sent))  BY <1>3
<1>5. ProbeInv'
  <2>1. queue' = Tail(queue) /\ UNCHANGED <<held, accepted, counter, stop, limit>>
    BY DEF Pop, PopOutOfOrder, probeVars
  <2> QED  BY <1>2, <1>4, <2>1 DEF TypeInv, ProbeInv
<1>6. CASE PopOutOfOrder
  <2>1. ProcInv'  BY <1>2, <1>6 DEF PopOutOfOrder, TypeInv, ProcInv
  <2> QED  BY <1>1, <1>5, <2>1 DEF TypeInv
<1>7. CASE Pop
  <2> DEFINE frames == Presentation(queue[1])   x == pending \o frames
  <2>1. frames \in Seq(Sent)
    <3>1. \A i \in 1..Len(queue[1]) : queue[1][i] \in Envelopes  BY <1>4 DEF Sent
    <3>2. \A i \in 1..Len(queue[1]) : queue[1][i].pts \in Int /\ queue[1][i].num \in Int
      BY <3>1, EnvelopeFields
    <3> QED  BY <1>4, <3>2, Presents
  <2>2. /\ todo' = Complete(x) /\ pending' = Remainder(x)
        /\ proc' = IF todo' = <<>> THEN "pop" ELSE "infer"
        /\ UNCHANGED <<found, tracks, recorded>> /\ proc = "pop"
    BY <1>7 DEF Pop
  <2> HIDE DEF frames
  <2>3. pending \in Seq(Sent) /\ found = <<>>  BY <2>2 DEF TypeInv, ProcInv
  <2>4. x \in Seq(Sent)  BY <2>1, <2>3
  <2> HIDE DEF x
  <2>5. Batches(x, todo', pending')  BY <2>2, <2>4, Splitting
  <2>6. /\ todo' \in Seq(Seq(Sent)) /\ pending' \in Seq(Sent) /\ Len(pending') < BatchSize
        /\ \A b \in 1..Len(todo') : Len(todo'[b]) = BatchSize
    BY <2>5 DEF Batches
  <2>7. BatchSize \in 1..BatchSize  BY WorkerAssumption
  <2>8. tracks' \in Seq(Tracklets) /\ recorded' \in Seq(Records) /\ found' = <<>>
          /\ found' \in Seq(Embedded)
    BY <2>2, <2>3 DEF TypeInv, ProcInv
  <2>9. proc' \in {"pop", "infer"} /\ (proc' = "pop" => todo' = <<>>) /\ (proc' = "infer" => todo' # <<>>)
    BY <2>2
  <2>10. ProcInv'  BY <1>2, <2>6, <2>7, <2>8, <2>9 DEF ProcInv
  <2> QED  BY <1>1, <1>5, <2>10 DEF TypeInv
<1> QED  BY <1>6, <1>7

LEMMA InferType == TypeInv /\ (Infer \/ InferFails \/ Flush) => TypeInv'
<1> SUFFICES ASSUME TypeInv, Infer \/ InferFails \/ Flush PROVE TypeInv'  OBVIOUS
<1>1. VideoInv' /\ ProbeInv' /\ OutInv'  BY Kept DEF Infer, InferFails, Flush, probeVars
<1>2. Sent' = Sent /\ Embedded' = Embedded /\ Records' = Records
  BY SameVideo DEF Infer, InferFails, Flush
<1>3. CASE InferFails
  <2>1. ProcInv'  BY <1>2, <1>3 DEF InferFails, TypeInv, ProcInv
  <2> QED  BY <1>1, <2>1 DEF TypeInv
<1>4. CASE Flush
  <2>1. pending \in Seq(Sent) /\ Len(pending) < BatchSize /\ found = <<>> /\ proc = "pop"
    BY <1>4 DEF Flush, TypeInv, ProcInv
  <2>2. BatchSize \in Nat  BY WorkerAssumption
  <2>3. CASE pending = <<>>
    <3>1. todo' = <<>> /\ pending' = <<>> /\ proc' = "ended"  BY <1>4, <2>3 DEF Flush
    <3>2. <<>> \in Seq(Seq(Sent)) /\ Len(<<>>) = 0  OBVIOUS
    <3>3. ProcInv'  BY <1>2, <1>4, <2>1, <2>3, <3>1, <3>2 DEF Flush, TypeInv, ProcInv
    <3> QED  BY <1>1, <3>3 DEF TypeInv
  <2>4. CASE pending # <<>>
    <3>1. todo' = <<pending>> /\ pending' = <<>> /\ proc' = "flush"  BY <1>4, <2>4 DEF Flush
    <3>2. <<pending>> \in Seq(Seq(Sent)) /\ Len(<<pending>>) = 1 /\ <<pending>>[1] = pending
      BY <2>1
    <3>3. Len(pending) \in 1..BatchSize  BY <2>1, <2>2, <2>4
    <3>4. <<>> \in Seq(Sent) /\ Len(<<>>) = 0  OBVIOUS
    <3>5. \A b \in 1..1 : b = 1  OBVIOUS
    <3>6. \A b \in 1..Len(todo') : Len(todo'[b]) \in 1..BatchSize
      BY <3>1, <3>2, <3>3, <3>5
    <3>7. Len(pending') < BatchSize  BY <3>1, <3>4, WorkerAssumption
    <3>8. /\ todo' \in Seq(Seq(Sent)) /\ Len(todo') <= 1 /\ todo' # <<>>
          /\ pending' \in Seq(Sent) /\ pending' = <<>> /\ proc' = "flush"
      BY <3>1, <3>2, <3>4
    <3>9. UNCHANGED <<found, tracks, recorded>>  BY <1>4 DEF Flush
    <3>10. ProcInv'  BY <1>2, <2>1, <3>6, <3>7, <3>8, <3>9 DEF TypeInv, ProcInv
    <3> QED  BY <1>1, <3>10 DEF TypeInv
  <2> QED  BY <2>3, <2>4
<1>5. CASE Infer
  <2>1. /\ found' = Recognised(todo[1]) /\ todo' = Tail(todo) /\ found = <<>>
        /\ UNCHANGED <<proc, pending, tracks, recorded>> /\ proc \in {"infer", "flush"}
    BY <1>5 DEF Infer
  <2>2. /\ todo \in Seq(Seq(Sent)) /\ todo # <<>> /\ Len(pending) < BatchSize
        /\ \A b \in 1..Len(todo) : Len(todo[b]) \in 1..BatchSize
        /\ proc = "infer" => \A b \in 1..Len(todo) : Len(todo[b]) = BatchSize
        /\ proc = "flush" => Len(todo) <= 1 /\ pending = <<>>
    BY <2>1 DEF TypeInv, ProcInv
  <2>3. todo[1] \in Seq(Sent) /\ 1 \in 1..Len(todo) /\ Len(todo) \in Nat  BY <2>2
  <2>4. found' \in Seq(Embedded) /\ Len(found') = Len(todo[1])  BY <2>1, <2>3, RecognisedFrames
  <2>5. Len(todo[1]) \in 1..BatchSize  BY <2>2, <2>3
  <2>6. found' # <<>>
    <3>1. Len(<<>>) = 0  OBVIOUS
    <3> QED  BY <2>4, <2>5, <3>1, WorkerAssumption
  <2>7. /\ todo' \in Seq(Seq(Sent)) /\ Len(todo') = Len(todo) - 1
        /\ \A b \in 1..Len(todo') : b + 1 \in 1..Len(todo) /\ todo'[b] = todo[b + 1]
    BY <2>1, <2>2
  <2>8. /\ \A b \in 1..Len(todo') : Len(todo'[b]) \in 1..BatchSize
        /\ proc' = "infer" => \A b \in 1..Len(todo') : Len(todo'[b]) = BatchSize
    BY <2>1, <2>2, <2>7
  <2>9. proc' = "flush" => Len(todo') <= 1 /\ pending' = <<>>  BY <2>1, <2>2, <2>3, <2>7
  <2>10. tracks' \in Seq(Tracklets) /\ recorded' \in Seq(Records) /\ pending' \in Seq(Sent)
           /\ Len(pending') < BatchSize
    BY <2>1, <2>2 DEF TypeInv, ProcInv
  <2>11. ProcInv'  BY <1>2, <2>1, <2>4, <2>6, <2>7, <2>8, <2>9, <2>10 DEF ProcInv
  <2> QED  BY <1>1, <2>11 DEF TypeInv
<1> QED  BY <1>3, <1>4, <1>5

\* What is recorded of a frame.
LEMMA RecordedFrame ==
  ASSUME NEW f \in Embedded, NEW keys, NEW new, Numbering(keys, Len(f.faces), new)
  PROVE  Observation(f, keys) \in Records
<1>1. f \in FoundFrames /\ OwnVectors(f)  BY DEF Embedded
<1>2. f.index \in Nat /\ f.pts \in Int /\ f.num \in Int /\ f.faces \in Seq(FoundFaces)
  BY <1>1 DEF FoundFrames
<1> DEFINE r == Observation(f, keys)
<1>3. r = [index |-> f.index, pts |-> f.pts, num |-> f.num, faces |-> f.faces, keys |-> keys]
  BY DEF Observation
<1>4. r.index = f.index /\ r.pts = f.pts /\ r.num = f.num /\ r.faces = f.faces /\ r.keys = keys
  BY <1>3
<1>5. keys \in Seq(Nat \ {0}) /\ Len(keys) = Len(f.faces)
        /\ \A o, p \in 1..Len(f.faces) : keys[o] = keys[p] => o = p
  BY DEF Numbering
<1>6. r \in [index : Nat, pts : Int, num : Int, faces : Seq(FoundFaces), keys : Seq(Nat \ {0})]
  BY <1>2, <1>3, <1>5
<1> HIDE DEF r
<1>7. OwnVectors(r)  BY <1>1, <1>4 DEF OwnVectors
<1> QED  BY <1>4, <1>5, <1>6, <1>7 DEF Records, r

\* The frame in hand, as TrackFrame tracks it.
LEMMA InHand ==
  ASSUME TypeInv, TrackFrame
  PROVE  \E keys, new :
           /\ Numbering(keys, Len(found[1].faces), new)
           /\ found[1] \in Embedded /\ found[1].faces \in Seq(FoundFaces)
           /\ tracks' = Tracked(found[1].faces, keys)
           /\ recorded' = Append(recorded, Observation(found[1], keys))
           /\ sums' = Updated(found[1], keys)
<1> DEFINE keys == Keys(Links(found[1].faces))
<1>1. found \in Seq(Embedded) /\ found # <<>> /\ tracks \in Seq(Tracklets)
  BY DEF TypeInv, ProcInv, TrackFrame
<1>2. found[1] \in Embedded  BY <1>1
<1>3. found[1].faces \in Seq(FoundFaces)  BY <1>2 DEF Embedded, FoundFrames
<1>4. PICK new : Numbering(keys, Len(found[1].faces), new)  BY <1>1, <1>3, KeysNumber
<1>5. /\ tracks' = Tracked(found[1].faces, keys)
      /\ recorded' = Append(recorded, Observation(found[1], keys))
      /\ sums' = Updated(found[1], keys)
  BY DEF TrackFrame
<1> QED  BY <1>2, <1>3, <1>4, <1>5

LEMMA TrackType == TypeInv /\ TrackFrame => TypeInv'
<1> SUFFICES ASSUME TypeInv, TrackFrame PROVE TypeInv'  OBVIOUS
<1>1. VideoInv' /\ ProbeInv' /\ OutInv'  BY Kept DEF TrackFrame, probeVars
<1>2. Sent' = Sent /\ Embedded' = Embedded /\ Records' = Records  BY SameVideo DEF TrackFrame
<1>3. PICK keys, new :
        /\ Numbering(keys, Len(found[1].faces), new)
        /\ found[1] \in Embedded /\ found[1].faces \in Seq(FoundFaces)
        /\ tracks' = Tracked(found[1].faces, keys)
        /\ recorded' = Append(recorded, Observation(found[1], keys))
  BY InHand
<1>4. tracks \in Seq(Tracklets) /\ recorded \in Seq(Records)
        /\ found \in Seq(Embedded) /\ found # <<>>
  BY DEF TypeInv, ProcInv, TrackFrame
<1>5. tracks' \in Seq(Tracklets)  BY <1>3, <1>4, TrackedType
<1>6. recorded' \in Seq(Records)
  <2>1. Observation(found[1], keys) \in Records  BY <1>3, RecordedFrame
  <2> QED  BY <1>3, <1>4, <2>1
<1>7. found' = Tail(found) /\ UNCHANGED <<todo, pending>>  BY DEF TrackFrame
<1>8. found' \in Seq(Embedded) /\ Len(found') = Len(found) - 1 /\ Len(found) \in Nat \ {0}
  BY <1>4, <1>7
<1>9. found' # <<>> <=> Len(found) > 1
  <2>1. Len(<<>>) = 0 /\ (Len(found') = 0 => found' = <<>>)  BY <1>8, EmptyList
  <2> QED  BY <1>8, <2>1
<1>10. proc' = IF Len(found) > 1 \/ todo # <<>> THEN proc
               ELSE IF proc = "flush" THEN "ended" ELSE "pop"
  BY DEF TrackFrame
<1>11. /\ proc \in {"infer", "flush"}
       /\ todo \in Seq(Seq(Sent)) /\ pending \in Seq(Sent) /\ Len(pending) < BatchSize
       /\ \A b \in 1..Len(todo) : Len(todo[b]) \in 1..BatchSize
       /\ proc = "infer" => \A b \in 1..Len(todo) : Len(todo[b]) = BatchSize
       /\ proc = "flush" => Len(todo) <= 1 /\ pending = <<>>
  BY <1>4 DEF TypeInv, ProcInv
<1>12. ProcInv'
  BY <1>2, <1>5, <1>6, <1>7, <1>8, <1>9, <1>10, <1>11 DEF ProcInv
<1> QED  BY <1>1, <1>12 DEF TypeInv

LEMMA MainType == TypeInv /\ Main => TypeInv'
<1> SUFFICES ASSUME TypeInv, Main PROVE TypeInv'  OBVIOUS
<1>1. UNCHANGED <<video, limit, probeVars, queue, procVars>>
  BY DEF Main, StartPipeline, StartFails, NoVideoPad, Listen, CloseQueue, EndPipeline,
         WriteTemplates, WriteFooter, WriteCrops, Compress, WriteManifest, Finalize,
         FinalizeFails, RemoveOutput, Publish, Return
<1>2. VideoInv' /\ ProbeInv' /\ ProcInv'  BY <1>1, Kept DEF probeVars
<1>3. OutInv  BY DEF TypeInv
<1> DEFINE Early == StartPipeline \/ StartFails \/ NoVideoPad \/ Listen \/ CloseQueue
                    \/ EndPipeline
           Writes == WriteTemplates \/ WriteFooter \/ WriteCrops \/ Compress \/ WriteManifest
           Late == FinalizeFails \/ RemoveOutput \/ Publish \/ Return
<1>4. ASSUME Early PROVE OutInv'
  <2>1. /\ main \in Unpublished /\ main' \in Unpublished \cup {"gone"}
        /\ exit' \in {"none", "0", "1", "abort"} /\ UNCHANGED <<torn, bundle, work>>
    BY <1>3, <1>4 DEF StartPipeline, StartFails, NoVideoPad, Listen, CloseQueue, EndPipeline,
                      OutInv, Unpublished, outVars
  <2>2. bundle = Empty /\ torn \subseteq {"templates", "observations", "crops", "manifest"}
    BY <1>3, <2>1 DEF OutInv
  <2>3. bundle' = Empty  BY <2>1, <2>2 DEF Empty
  <2> HIDE DEF Early
  <2> QED  BY <2>1, <2>2, <2>3 DEF OutInv, Unpublished, Empty, Absent
<1>5. ASSUME Writes PROVE OutInv'
  <2>1. main \in Unpublished /\ main' \in Unpublished /\ bundle' = bundle /\ exit' = exit
    BY <1>5 DEF WriteTemplates, WriteFooter, WriteCrops, Compress, WriteManifest, Finalize,
                Unpublished
  <2>2. torn' \subseteq {"templates", "observations", "crops", "manifest"}
    BY <1>3, <1>5 DEF WriteTemplates, WriteFooter, WriteCrops, Compress, WriteManifest,
                      Finalize, OutInv
  <2>3. bundle' = Empty /\ exit' \in {"none", "0", "1", "abort"}
    BY <1>3, <2>1 DEF OutInv, Empty
  <2> HIDE DEF Writes
  <2> QED  BY <2>1, <2>2, <2>3 DEF OutInv, Unpublished, Empty, Absent
<1>6. ASSUME Late PROVE OutInv'
  <2>1. torn' = torn /\ work' = work
    BY <1>6 DEF FinalizeFails, RemoveOutput, Publish, Return, outVars
  <2>2. /\ main' \in {"rename", "verdict", "gone"} /\ bundle' \in {bundle, Absent, work}
        /\ exit' \in {"none", "0", "1", "abort"}
    BY <1>3, <1>6 DEF FinalizeFails, RemoveOutput, Publish, Return, outVars, OutInv
  <2>3. /\ torn' \subseteq {"templates", "observations", "crops", "manifest"}
        /\ bundle' \in {Empty, Absent, work'}
    BY <1>3, <2>1, <2>2 DEF OutInv
  <2> HIDE DEF Late
  <2> QED  BY <2>2, <2>3 DEF OutInv, Unpublished, Empty, Absent
<1>7. Early \/ Writes \/ Late  BY DEF Main
<1> HIDE DEF Early, Writes, Late
<1>8. OutInv'  BY <1>4, <1>5, <1>6, <1>7
<1> QED  BY <1>2, <1>8 DEF TypeInv

LEMMA TypeKept == TypeInv /\ [WorkerNext]_workerVars => TypeInv'
<1> SUFFICES ASSUME TypeInv, [WorkerNext]_workerVars PROVE TypeInv'  OBVIOUS
<1>1. CASE UNCHANGED workerVars
  BY <1>1, Kept DEF workerVars, probeVars, TypeInv
<1>2. CASE Probe  BY <1>2, AcceptType, ProbeType DEF Probe
<1>3. CASE Process  BY <1>3, PopType, InferType, TrackType DEF Process
<1>4. CASE Main  BY <1>4, MainType
<1> QED  BY <1>1, <1>2, <1>3, <1>4 DEF WorkerNext

-----------------------------------------------------------------------------
(* Order: every frame knows its place among the expected ones.              *)

\* What the probe keeps of each buffer, and the buffers in presentation order.
Cut(b) == IF limit = 0 \/ limit >= Start(video, b - 1) + Len(video[b])
          THEN Len(video[b])
          ELSE IF limit > Start(video, b - 1) THEN limit - Start(video, b - 1) ELSE 0
Lists == [b \in 1..Len(video) |->
            [i \in 1..Cut(b) |-> [index |-> Start(video, b - 1) + i - 1,
                                  pts |-> video[b][i].pts, num |-> video[b][i].num]]]
Buffers == [b \in 1..Len(video) |-> Presentation(Lists[b])]
Emitted == Len(video) - Len(feed)

\* A frame is the i-th of the expected ones; the frames of a list are those
\* behind the k-th.
At(expected, e, i) == i \in 1..Len(expected) /\ Strip(e) = expected[i]
Behind(expected, k, list) == \A i \in 1..Len(list) : At(expected, list[i], k + i)

\* These frames are the ones listed.
Ready(list, x) == Len(x) = Len(list) /\ \A i \in 1..Len(x) : Strip(x[i]) = list[i]

\* Until the limit is reached the probe has cut nothing; then it cuts everything.
CounterInv ==
  IF stop THEN limit > 0 /\ limit <= Start(video, Emitted)
  ELSE /\ counter = Start(video, Emitted) /\ accepted = counter
       /\ limit > 0 => accepted < limit

\* What waits for the tracker continues the observations.
LineInv ==
  LET after == Len(recorded) + Len(found)
  IN  /\ Behind(Expected, 0, recorded)
      /\ Behind(Expected, Len(recorded), found)
      /\ \A b \in 1..Len(todo) : Behind(Expected, after + (b - 1) * BatchSize, todo[b])
      /\ Behind(Expected, after + Len(todo) * BatchSize, pending)

\* While the processing thread pops, what it has popped are whole buffers, and
\* the queue holds the next ones; while the queue takes what the probe accepts,
\* and when the stream has ended, they reach up to the last one.
Popped == Len(recorded) + Len(found) + Len(todo) * BatchSize + Len(pending)
Waiting(q) ==
  /\ Popped = Start(Buffers, q)
  /\ q + Len(queue) <= Emitted
  /\ \A i \in 1..Len(queue) : Ready(Lists[q + i], queue[i])
  /\ held # Nothing /\ ~closed => q + Len(queue) + 1 = Emitted /\ Ready(Lists[Emitted], held[1])
  /\ held = Nothing /\ ~stop /\ (closed => bus = "eos") => q + Len(queue) = Emitted
QueueInv == proc \in {"pop", "infer"} => \E q \in 0..Emitted : Waiting(q)

OrderInv == ~fault => CounterInv /\ LineInv /\ QueueInv

LEMMA SameOrder ==
  ASSUME video' = video, limit' = limit
  PROVE  Expected' = Expected /\ Lists' = Lists /\ Buffers' = Buffers
<1>1. Expected' = Expected  BY DEF Expected
<1>2. \A b : Cut(b)' = Cut(b)  BY DEF Cut
<1>3. Lists' = Lists  BY <1>2 DEF Lists
<1> QED  BY <1>1, <1>3 DEF Buffers

\* How the expected frames are laid out.
Plan ==
  /\ Laid(video) /\ Laid(Buffers) /\ Expected = FlattenSeq(Buffers)
  /\ Len(Buffers) = Len(video) /\ Len(video) \in Nat /\ Expected \in Seq(Plain)
  /\ \A b \in 1..Len(video) :
       /\ Len(video[b]) \in Nat /\ Cut(b) \in 0..Len(video[b])
       /\ Lists[b] \in Seq(Plain) /\ Len(Lists[b]) = Cut(b)
       /\ \A i \in 1..Cut(b) : Lists[b][i] = [index |-> Start(video, b - 1) + i - 1,
                                    pts |-> video[b][i].pts, num |-> video[b][i].num]
       /\ Buffers[b] = Presentation(Lists[b]) /\ Len(Buffers[b]) = Cut(b)

LEMMA Planned == VideoInv => Plan
<1> SUFFICES ASSUME VideoInv PROVE Plan  OBVIOUS
<1>1. video \in Seq(Seq(MuxFrames)) /\ limit \in Nat /\ Len(video) \in Nat  BY DEF VideoInv
<1>2. Laid(video)  BY <1>1, Layout
<1>3. ASSUME NEW b \in 1..Len(video)
      PROVE  /\ Len(video[b]) \in Nat /\ Cut(b) \in 0..Len(video[b])
             /\ Lists[b] \in Seq(Plain) /\ Len(Lists[b]) = Cut(b)
             /\ \A i \in 1..Cut(b) : Lists[b][i] = [index |-> Start(video, b - 1) + i - 1,
                                          pts |-> video[b][i].pts, num |-> video[b][i].num]
             /\ Buffers[b] = Presentation(Lists[b]) /\ Len(Buffers[b]) = Cut(b)
             /\ Buffers[b] \in Seq(Plain)
  <2> DEFINE a == Start(video, b - 1)
             Plainly(i) == [index |-> a + i - 1, pts |-> video[b][i].pts,
                            num |-> video[b][i].num]
  <2>1. video[b] \in Seq(MuxFrames) /\ Len(video[b]) \in Nat  BY <1>1
  <2>2. b - 1 \in 0..Len(video)  BY <1>1
  <2>3. a \in Nat  BY <1>2, <2>2 DEF Laid
  <2>4. Cut(b) = IF limit = 0 \/ limit >= a + Len(video[b]) THEN Len(video[b])
                 ELSE IF limit > a THEN limit - a ELSE 0
    BY DEF Cut
  <2>5. Lists[b] = [i \in 1..Cut(b) |-> Plainly(i)]  BY DEF Lists
  <2> HIDE DEF a
  <2>6. Cut(b) \in 0..Len(video[b]) /\ Cut(b) \in Nat  BY <1>1, <2>1, <2>3, <2>4
  <2>7. ASSUME NEW i \in 1..Cut(b) PROVE Plainly(i) \in Plain /\ Lists[b][i] = Plainly(i)
    <3>1. i \in 1..Len(video[b]) /\ a + i - 1 \in Nat  BY <2>1, <2>3, <2>6
    <3>2. video[b][i] \in MuxFrames  BY <2>1, <3>1
    <3>3. video[b][i].pts \in Int /\ video[b][i].num \in Int  BY <3>2 DEF MuxFrames
    <3>4. Plainly(i) \in Plain  BY <3>1, <3>3 DEF Plain
    <3> QED  BY <2>5, <3>4
  <2>8. Lists[b] \in Seq(Plain) /\ Len(Lists[b]) = Cut(b)
    <3> HIDE DEF Plainly
    <3>1. Lists[b] \in [1..Cut(b) -> Plain]  BY <2>5, <2>7
    <3> QED  BY <2>6, <3>1, ListOf
  <2>9. Buffers[b] = Presentation(Lists[b])  BY DEF Buffers
  <2>10. \A i \in 1..Len(Lists[b]) : Lists[b][i].pts \in Int /\ Lists[b][i].num \in Int
    <3>1. \A i \in 1..Len(Lists[b]) : Lists[b][i] \in Plain  BY <2>8
    <3> QED  BY <3>1 DEF Plain
  <2>11. Presentation(Lists[b]) \in Seq(Plain) /\ Len(Presentation(Lists[b])) = Len(Lists[b])
    BY <2>8, <2>10, Presents
  <2> QED  BY <2>1, <2>6, <2>7, <2>8, <2>9, <2>11 DEF a
<1>4. Buffers \in Seq(Seq(Plain)) /\ Len(Buffers) = Len(video)
  <2>1. Buffers \in [1..Len(video) -> Seq(Plain)]
    <3>1. \A b \in 1..Len(video) : Buffers[b] = Presentation(Lists[b])  BY DEF Buffers
    <3>2. \A b \in 1..Len(video) : Presentation(Lists[b]) \in Seq(Plain)  BY <1>3, <3>1
    <3> QED  BY <3>2 DEF Buffers
  <2> QED  BY <1>1, <2>1, ListOf
<1>5. Laid(Buffers) /\ FlattenSeq(Buffers) \in Seq(Plain)  BY <1>4, Layout
<1>6. Expected = FlattenSeq(Buffers)
  <2> DEFINE before(b) == Len(FlattenSeq(SubSeq(video, 1, b - 1)))
             room(b) == IF limit = 0 \/ limit >= before(b) + Len(video[b])
                        THEN Len(video[b])
                        ELSE IF limit > before(b) THEN limit - before(b) ELSE 0
             Buffer(b) == Presentation([i \in 1..room(b) |->
                            [index |-> before(b) + i - 1, pts |-> video[b][i].pts,
                             num |-> video[b][i].num]])
  <2>1. \A b : before(b) = Start(video, b - 1)  BY DEF Start, Flat
  <2>2. Expected = FlattenSeq([b \in 1..Len(video) |-> Buffer(b)])  BY DEF Expected
  <2> HIDE DEF before
  <2>3. \A b : room(b) = Cut(b)  BY <2>1 DEF Cut
  <2> HIDE DEF room
  <2>4. \A b \in 1..Len(video) : Buffer(b) = Presentation(Lists[b])
    <3> SUFFICES ASSUME NEW b \in 1..Len(video) PROVE Buffer(b) = Presentation(Lists[b])
      OBVIOUS
    <3>1. Lists[b] = [i \in 1..room(b) |->
                            [index |-> before(b) + i - 1, pts |-> video[b][i].pts,
                             num |-> video[b][i].num]]
      BY <2>1, <2>3 DEF Lists
    <3> QED  BY <3>1
  <2> HIDE DEF Buffer
  <2>5. [b \in 1..Len(video) |-> Buffer(b)] = Buffers  BY <2>4 DEF Buffers
  <2> QED  BY <2>2, <2>5
<1> QED  BY <1>1, <1>2, <1>3, <1>4, <1>5, <1>6 DEF Plan

\* The stream ends after its last buffer; the queue is closed by main, which has
\* seen the stop flag or a message, or by a thread that breaks off.
FlagsInv ==
  /\ bus \in {"none", "eos", "error"}
  /\ bus = "eos" => feed = <<>> /\ held = Nothing
  /\ broken => proc = "ended"
  /\ closed => broken \/ stop \/ bus # "none"
  /\ proc \in {"flush", "ended"} => closed
  /\ proc = "ended" /\ ~broken => todo = <<>>

LEMMA FlagsInit == WorkerInit => FlagsInv
BY DEF WorkerInit, FlagsInv, Nothing

LEMMA FlagsStep == TypeInv /\ FlagsInv /\ [WorkerNext]_workerVars => FlagsInv'
<1> SUFFICES ASSUME TypeInv, FlagsInv, [WorkerNext]_workerVars PROVE FlagsInv'  OBVIOUS
<1>0. found # <<>> => proc \in {"infer", "flush"}  BY DEF TypeInv, ProcInv
<1>1. CASE UNCHANGED workerVars
  BY <1>1 DEF FlagsInv, workerVars, probeVars, procVars, Nothing
<1>2. CASE Probe
  <2>1. UNCHANGED <<closed, broken, procVars>>
    BY <1>2 DEF Probe, Link, Accept, Unmappable, Push, EndOfStream, ElementFails
  <2>2. /\ bus' \in {"none", "eos", "error"} /\ (bus # "none" => bus' # "none")
        /\ bus' = "eos" => feed' = <<>> /\ held' = Nothing
        /\ stop => stop'
    BY <1>2 DEF Probe, Link, Accept, Unmappable, Push, EndOfStream, ElementFails, FlagsInv,
                probeVars, Nothing
  <2> QED  BY <2>1, <2>2 DEF FlagsInv, procVars
<1>3. CASE Process
  <2>1. UNCHANGED <<bus, feed, held, stop>>
    BY <1>3 DEF Process, Pop, PopOutOfOrder, Infer, TrackFrame, InferFails, Flush, probeVars
  <2>2. CASE Pop
    <3>1. proc = "pop" /\ proc' \in {"pop", "infer"} /\ UNCHANGED <<broken, closed>>
      BY <2>2 DEF Pop
    <3> QED  BY <2>1, <3>1 DEF FlagsInv, Nothing
  <2>3. CASE PopOutOfOrder \/ InferFails
    <3>1. broken' = TRUE /\ closed' = TRUE /\ proc' = "ended"
      BY <2>3 DEF PopOutOfOrder, InferFails
    <3> QED  BY <2>1, <3>1 DEF FlagsInv, Nothing
  <2>4. CASE Infer
    <3>1. proc \in {"infer", "flush"} /\ UNCHANGED <<proc, broken, closed>>
      BY <2>4 DEF Infer
    <3> QED  BY <2>1, <3>1 DEF FlagsInv, Nothing
  <2>5. CASE TrackFrame
    <3>1. /\ proc \in {"infer", "flush"} /\ UNCHANGED <<todo, broken, closed>>
          /\ proc' = IF Len(found) > 1 \/ todo # <<>> THEN proc
                     ELSE IF proc = "flush" THEN "ended" ELSE "pop"
      BY <1>0, <2>5 DEF TrackFrame
    <3> QED  BY <2>1, <3>1 DEF FlagsInv, Nothing
  <2>6. CASE Flush
    <3>1. /\ proc = "pop" /\ closed /\ UNCHANGED <<broken, closed>>
          /\ proc' \in {"ended", "flush"} /\ (proc' = "ended" => todo' = <<>>)
      BY <2>6 DEF Flush
    <3> QED  BY <2>1, <3>1 DEF FlagsInv, Nothing
  <2> QED  BY <1>3, <2>2, <2>3, <2>4, <2>5, <2>6 DEF Process
<1>4. CASE Main
  <2>1. UNCHANGED <<bus, probeVars, broken, procVars>>
    BY <1>4 DEF Main, StartPipeline, StartFails, NoVideoPad, Listen, CloseQueue, EndPipeline,
         WriteTemplates, WriteFooter, WriteCrops, Compress, WriteManifest, Finalize,
         FinalizeFails, RemoveOutput, Publish, Return
  <2>2. CASE CloseQueue
    <3>1. closed' = TRUE /\ (bus # "none" \/ stop)  BY <2>2 DEF CloseQueue
    <3> QED  BY <2>1, <3>1 DEF FlagsInv, probeVars, procVars, Nothing
  <2>3. CASE ~CloseQueue
    <3>1. closed' = closed
      BY <1>4, <2>3 DEF Main, StartPipeline, StartFails, NoVideoPad, Listen, EndPipeline,
         WriteTemplates, WriteFooter, WriteCrops, Compress, WriteManifest, Finalize,
         FinalizeFails, RemoveOutput, Publish, Return
    <3> QED  BY <2>1, <3>1 DEF FlagsInv, probeVars, procVars, Nothing
  <2> QED  BY <2>2, <2>3
<1> QED  BY <1>1, <1>2, <1>3, <1>4 DEF WorkerNext

\* A list behind the k-th frame, when it loses its first or gains a last one,
\* is continued, or comes back recognised.
LEMMA BehindLists ==
  ASSUME NEW U, NEW exp, NEW s \in Seq(U), NEW k \in Nat, Behind(exp, k, s)
  PROVE  /\ s # <<>> => At(exp, s[1], k + 1) /\ Behind(exp, k + 1, Tail(s))
         /\ \A e : At(exp, e, k + Len(s) + 1) => Behind(exp, k, Append(s, e))
         /\ \A t \in Seq(U) : Behind(exp, k + Len(s), t) => Behind(exp, k, s \o t)
         /\ \A t : Len(t) = Len(s) /\ (\A i \in 1..Len(s) : Strip(t[i]) = Strip(s[i]))
                     => Behind(exp, k, t)
<1>1. Len(s) \in Nat /\ \A i \in 1..Len(s) : At(exp, s[i], k + i)  BY DEF Behind
<1>2. s # <<>> => At(exp, s[1], k + 1) /\ Behind(exp, k + 1, Tail(s))
  <2> SUFFICES ASSUME s # <<>> PROVE At(exp, s[1], k + 1) /\ Behind(exp, k + 1, Tail(s))
    OBVIOUS
  <2>1. 1 \in 1..Len(s)  BY <1>1
  <2>2. Len(Tail(s)) = Len(s) - 1 /\ \A i \in 1..(Len(s) - 1) : Tail(s)[i] = s[i + 1]  OBVIOUS
  <2>3. \A i \in 1..(Len(s) - 1) : i + 1 \in 1..Len(s) /\ k + (i + 1) = (k + 1) + i  BY <1>1
  <2>4. \A i \in 1..(Len(s) - 1) : At(exp, Tail(s)[i], (k + 1) + i)  BY <1>1, <2>2, <2>3
  <2> QED  BY <1>1, <2>1, <2>2, <2>4 DEF Behind
<1>3. ASSUME NEW e, At(exp, e, k + Len(s) + 1) PROVE Behind(exp, k, Append(s, e))
  <2> DEFINE r == Append(s, e)
  <2>1. Len(r) = Len(s) + 1 /\ r[Len(s) + 1] = e /\ \A i \in 1..Len(s) : r[i] = s[i]  OBVIOUS
  <2> HIDE DEF r
  <2>2. \A i \in 1..(Len(s) + 1) : i \in 1..Len(s) \/ i = Len(s) + 1  BY <1>1
  <2>3. k + (Len(s) + 1) = k + Len(s) + 1  BY <1>1
  <2>4. \A i \in 1..Len(s) : At(exp, r[i], k + i)  BY <1>1, <2>1
  <2>5. At(exp, r[Len(s) + 1], k + (Len(s) + 1))  BY <1>3, <2>1, <2>3
  <2>6. \A i \in 1..(Len(s) + 1) : At(exp, r[i], k + i)  BY <2>2, <2>4, <2>5
  <2> QED  BY <2>1, <2>6 DEF Behind, r
<1>4. ASSUME NEW t \in Seq(U), Behind(exp, k + Len(s), t) PROVE Behind(exp, k, s \o t)
  <2> DEFINE r == s \o t
  <2>1. /\ Len(r) = Len(s) + Len(t) /\ Len(t) \in Nat
        /\ \A i \in 1..Len(s) : r[i] = s[i]
        /\ \A i \in 1..Len(t) : r[Len(s) + i] = t[i]
    OBVIOUS
  <2> HIDE DEF r
  <2>2. ASSUME NEW i \in 1..Len(r) PROVE At(exp, r[i], k + i)
    <3>1. CASE i \in 1..Len(s)  BY <1>1, <2>1, <3>1
    <3>2. CASE i \notin 1..Len(s)
      <4>1. i - Len(s) \in 1..Len(t) /\ Len(s) + (i - Len(s)) = i
              /\ k + Len(s) + (i - Len(s)) = k + i
        BY <1>1, <2>1, <3>2
      <4>2. At(exp, t[i - Len(s)], k + Len(s) + (i - Len(s)))  BY <1>4, <4>1 DEF Behind
      <4>3. r[i] = t[i - Len(s)]  BY <2>1, <4>1
      <4> QED  BY <4>1, <4>2, <4>3
    <3> QED  BY <3>1, <3>2
  <2> QED  BY <2>2 DEF Behind, r
<1>5. ASSUME NEW t, Len(t) = Len(s), \A i \in 1..Len(s) : Strip(t[i]) = Strip(s[i])
      PROVE  Behind(exp, k, t)
  <2>1. \A i \in 1..Len(s) : At(exp, t[i], k + i)  BY <1>1, <1>5 DEF At
  <2> QED  BY <1>5, <2>1 DEF Behind
<1> QED  BY <1>2, <1>3, <1>4, <1>5

\* Cut into batches, a list keeps the places of its frames.
LEMMA BehindBatches ==
  ASSUME NEW exp, NEW x \in Seq(Sent), NEW k \in Nat, Behind(exp, k, x),
         NEW bs, NEW rest, Batches(x, bs, rest)
  PROVE  /\ \A b \in 1..Len(bs) : Behind(exp, k + (b - 1) * BatchSize, bs[b])
         /\ Behind(exp, k + Len(bs) * BatchSize, rest)
<1>1. BatchSize \in Nat \ {0}  BY WorkerAssumption
<1>2. /\ \A b \in 1..Len(bs) : /\ Len(bs[b]) = BatchSize
                               /\ \A j \in 1..BatchSize :
                                    /\ (b - 1) * BatchSize + j \in 1..Len(x)
                                    /\ bs[b][j] = x[(b - 1) * BatchSize + j]
      /\ \A j \in 1..Len(rest) : /\ Len(bs) * BatchSize + j \in 1..Len(x)
                                 /\ rest[j] = x[Len(bs) * BatchSize + j]
      /\ Len(bs) \in Nat
  BY DEF Batches
<1>3. \A i \in 1..Len(x) : At(exp, x[i], k + i)  BY DEF Behind
<1>4. ASSUME NEW b \in 1..Len(bs) PROVE Behind(exp, k + (b - 1) * BatchSize, bs[b])
  <2> DEFINE a == (b - 1) * BatchSize
  <2>1. b - 1 \in Nat  BY <1>2
  <2>2. a \in Nat  BY <1>1, <2>1
  <2>3. /\ Len(bs[b]) = BatchSize
        /\ \A j \in 1..BatchSize : a + j \in 1..Len(x) /\ bs[b][j] = x[a + j]
    BY <1>2
  <2> HIDE DEF a
  <2>4. \A j \in 1..BatchSize : k + (a + j) = k + a + j  BY <1>1, <2>2
  <2>5. \A j \in 1..BatchSize : At(exp, bs[b][j], k + a + j)  BY <1>3, <2>3, <2>4
  <2> QED  BY <2>3, <2>5 DEF Behind, a
<1>5. Behind(exp, k + Len(bs) * BatchSize, rest)
  <2> DEFINE a == Len(bs) * BatchSize
  <2>1. a \in Nat  BY <1>1, <1>2
  <2>2. \A j \in 1..Len(rest) : a + j \in 1..Len(x) /\ rest[j] = x[a + j]  BY <1>2
  <2>3. rest \in Seq(Sent)  BY DEF Batches
  <2> HIDE DEF a
  <2>4. \A j \in 1..Len(rest) : k + (a + j) = k + a + j  BY <2>1, <2>3
  <2>5. \A j \in 1..Len(rest) : At(exp, rest[j], k + a + j)  BY <1>3, <2>2, <2>4
  <2> QED  BY <2>5 DEF Behind, a
<1> QED  BY <1>4, <1>5

\* Frames as they are listed come out of the assembler as their buffer.
LEMMA ReadyPresented ==
  ASSUME VideoInv, NEW b \in 1..Len(video), NEW x \in Seq(Sent), Ready(Lists[b], x)
  PROVE  /\ Presentation(x) \in Seq(Sent) /\ Len(Presentation(x)) = Len(Buffers[b])
         /\ Behind(Expected, Start(Buffers, b - 1), Presentation(x))
         /\ Start(Buffers, b) = Start(Buffers, b - 1) + Len(Presentation(x))
<1>1. Plan  BY Planned
<1>2. /\ Lists[b] \in Seq(Plain) /\ Len(x) = Len(Lists[b])
      /\ \A i \in 1..Len(x) : Lists[b][i] = Strip(x[i])
      /\ Buffers[b] = Presentation(Lists[b])
  BY <1>1 DEF Ready, Plan
<1>3. \A i \in 1..Len(x) : x[i].pts \in Int /\ x[i].num \in Int
  <2>1. \A i \in 1..Len(x) : x[i] \in Envelopes  BY DEF Sent
  <2> QED  BY <2>1, EnvelopeFields
<1> DEFINE y == Presentation(x)
<1>4. y \in Seq(Sent) /\ Len(y) = Len(x)  BY <1>3, Presents
<1>5. /\ Len(Buffers[b]) = Len(y)
      /\ \A n \in 1..Len(x) : Buffers[b][n] = Strip(y[n])
  BY <1>2, <1>3, StrippedOrder
<1> HIDE DEF y
<1>6. b \in 1..Len(Buffers) /\ b - 1 \in 0..Len(Buffers)  BY <1>1 DEF Plan
<1>7. /\ Start(Buffers, b) = Start(Buffers, b - 1) + Len(Buffers[b])
      /\ Start(Buffers, b - 1) \in Nat
      /\ \A j \in 1..Len(Buffers[b]) :
           /\ Start(Buffers, b - 1) + j <= Len(Expected)
           /\ Expected[Start(Buffers, b - 1) + j] = Buffers[b][j]
  BY <1>1, <1>6 DEF Plan, Laid
<1>8. Len(Expected) \in Nat  BY <1>1 DEF Plan
<1>9. \A j \in 1..Len(y) : Start(Buffers, b - 1) + j \in 1..Len(Expected)
  BY <1>4, <1>5, <1>7, <1>8
<1>10. \A j \in 1..Len(y) : At(Expected, y[j], Start(Buffers, b - 1) + j)
  BY <1>4, <1>5, <1>7, <1>9 DEF At
<1> QED  BY <1>4, <1>5, <1>7, <1>10 DEF Behind, y

\* The limit cuts the next buffer where the probe does.
LEMMA Cutting ==
  ASSUME VideoInv, ProbeInv, CounterInv, feed # <<>>, ~stop
  PROVE  /\ Emitted + 1 \in 1..Len(video)
         /\ Start(video, Emitted + 1) = counter + Len(feed[1])
         /\ Ready(Lists[Emitted + 1], SubSeq(Numbered, 1, Room))
<1> DEFINE b == Emitted + 1
           x == SubSeq(Numbered, 1, Room)
<1>1. Plan  BY Planned
<1>2. /\ Len(feed[1]) \in Nat /\ Room \in 0..Len(feed[1]) /\ Len(x) = Room
      /\ \A i \in 1..Room : x[i] = Numbered[i]
      /\ b \in 1..Len(video) /\ feed[1] = video[b]
  BY NextBuffer DEF Emitted
<1>3. /\ feed \in Seq(Seq(MuxFrames)) /\ Len(feed) \in Nat /\ Len(feed) <= Len(video)
      /\ Len(video) \in Nat /\ limit \in Nat
  BY <1>1 DEF VideoInv, Plan
<1>4. b - 1 = Emitted /\ b \in Nat  BY <1>3 DEF Emitted
<1>5. /\ counter = Start(video, Emitted) /\ accepted = counter /\ counter \in Nat
      /\ limit > 0 => accepted < limit
  BY DEF CounterInv, ProbeInv
<1> HIDE DEF b, x
<1>6. Start(video, b) = Start(video, b - 1) + Len(video[b])
  BY <1>1, <1>2 DEF Plan, Laid
<1>7. Cut(b) = IF limit = 0 \/ limit >= counter + Len(feed[1]) THEN Len(feed[1])
               ELSE IF limit > counter THEN limit - counter ELSE 0
  BY <1>2, <1>4, <1>5 DEF Cut
<1>8. Room = Cut(b)  BY <1>2, <1>3, <1>5, <1>7 DEF Room
<1>9. ASSUME NEW i \in 1..Room PROVE Strip(x[i]) = Lists[b][i]
  <2>1. Lists[b][i] = [index |-> Start(video, b - 1) + i - 1,
                       pts |-> video[b][i].pts, num |-> video[b][i].num]
    BY <1>1, <1>2, <1>8 DEF Plan
  <2>2. i \in 1..Len(feed[1])  BY <1>2
  <2>3. Numbered[i] = [index |-> counter + i - 1, pts |-> feed[1][i].pts,
                       num |-> feed[1][i].num, fmt |-> feed[1][i].fmt,
                       usable |-> feed[1][i].usable, faces |-> feed[1][i].faces]
    BY <2>2 DEF Numbered
  <2>4. x[i] = Numbered[i]  BY <1>2
  <2> QED  BY <1>2, <1>4, <1>5, <2>1, <2>3, <2>4 DEF Strip
<1>10. Len(Lists[b]) = Cut(b)  BY <1>1, <1>2 DEF Plan
<1>11. Ready(Lists[b], x)  BY <1>2, <1>8, <1>9, <1>10 DEF Ready
<1>12. Start(video, b) = counter + Len(feed[1])  BY <1>2, <1>4, <1>5, <1>6
<1> QED  BY <1>2, <1>11, <1>12 DEF b, x

\* The queue is not opened again, and once it is closed no end of the stream is
\* news to a thread that still pops.
Onward ==
  /\ closed => closed'
  /\ closed /\ ~stop /\ bus' = "eos" /\ proc \in {"pop", "infer"} => bus = "eos"

\* What a step leaves alone keeps its part of the order.
LEMMA OrderKept ==
  ASSUME OrderInv, video' = video, limit' = limit, ~fault
  PROVE  /\ UNCHANGED <<feed, accepted, counter, stop>> => CounterInv'
         /\ UNCHANGED <<todo, found, pending, recorded>> => LineInv'
         /\ UNCHANGED <<feed, held, stop, queue, procVars>> /\ Onward => QueueInv'
<1>1. CounterInv /\ LineInv /\ QueueInv  BY DEF OrderInv
<1>2. Expected' = Expected /\ Lists' = Lists /\ Buffers' = Buffers  BY SameOrder
<1>3. UNCHANGED <<feed, accepted, counter, stop>> => CounterInv'
  BY <1>1 DEF CounterInv, Emitted
<1>4. UNCHANGED <<todo, found, pending, recorded>> => LineInv'  BY <1>1, <1>2 DEF LineInv
<1>5. ASSUME UNCHANGED <<feed, held, stop, queue, procVars>>, Onward PROVE QueueInv'
  <2>1. Emitted' = Emitted  BY <1>5 DEF Emitted
  <2>2. Popped' = Popped  BY <1>5 DEF Popped, procVars
  <2>3. proc \in {"pop", "infer"} => \A q : Waiting(q) => Waiting(q)'
    <3> SUFFICES ASSUME proc \in {"pop", "infer"}, NEW q, Waiting(q) PROVE Waiting(q)'  OBVIOUS
    <3>1. /\ held' = Nothing /\ ~stop' /\ (closed' => bus' = "eos") =>
              held = Nothing /\ ~stop /\ (closed => bus = "eos")
          /\ held' # Nothing /\ ~closed' => held # Nothing /\ ~closed
      BY <1>5 DEF Onward, Nothing
    <3> QED  BY <1>2, <1>5, <2>1, <2>2, <3>1 DEF Waiting, Nothing
  <2>4. proc' = proc  BY <1>5 DEF procVars
  <2> QED  BY <1>1, <2>1, <2>3, <2>4 DEF QueueInv
<1> QED  BY <1>3, <1>4, <1>5

LEMMA AcceptOrder == TypeInv /\ OrderInv /\ Accept => OrderInv'
<1> SUFFICES ASSUME TypeInv, OrderInv, Accept, ~fault PROVE OrderInv'
  BY DEF Accept, OrderInv
<1>1. /\ video' = video /\ limit' = limit /\ feed # <<>> /\ feed' = Tail(feed)
      /\ fault' = fault /\ queue' = queue /\ closed' = closed /\ bus' = bus /\ held = Nothing
      /\ UNCHANGED procVars
  BY DEF Accept
<1>2. VideoInv /\ ProbeInv /\ CounterInv /\ LineInv /\ QueueInv  BY DEF TypeInv, OrderInv
<1>3. Expected' = Expected /\ Lists' = Lists /\ Buffers' = Buffers  BY <1>1, SameOrder
<1>4. /\ Emitted' = Emitted + 1 /\ Emitted \in Nat /\ Emitted + 1 \in 1..Len(video)
      /\ Plan
  <2>1. Len(feed') = Len(feed) - 1  BY <1>1, <1>2, FeedTail
  <2>2. Len(video) \in Nat /\ Len(feed) \in Nat /\ Len(feed) <= Len(video) /\ Len(feed) >= 1
    BY <1>1, <1>2 DEF VideoInv
  <2>3. Plan  BY <1>2, Planned
  <2> QED  BY <1>1, <2>1, <2>2, <2>3 DEF Emitted
<1>5. LineInv'  BY <1>1, OrderKept DEF procVars
<1>6. Popped' = Popped /\ proc' = proc  BY <1>1 DEF Popped, procVars
<1>7. CASE stop
  <2>1. UNCHANGED <<held, accepted, counter, stop>>  BY <1>7 DEF Accept
  <2>2. CounterInv'
    <3>1. limit > 0 /\ limit <= Start(video, Emitted)  BY <1>2, <1>7 DEF CounterInv
    <3>2. Emitted \in 0..Len(video) /\ Emitted + 1 \in 0..Len(video) /\ Emitted <= Emitted + 1
      BY <1>4 DEF Plan
    <3>3. /\ Start(video, Emitted) <= Start(video, Emitted + 1)
          /\ Start(video, Emitted) \in Nat /\ Start(video, Emitted + 1) \in Nat
      BY <1>4, <3>2 DEF Plan, Laid
    <3>4. limit \in Nat  BY <1>2 DEF VideoInv
    <3>5. limit <= Start(video, Emitted + 1)  BY <3>1, <3>3, <3>4
    <3> QED  BY <1>1, <1>4, <1>7, <2>1, <3>1, <3>5 DEF CounterInv
  <2>3. QueueInv'
    <3> SUFFICES ASSUME proc \in {"pop", "infer"} PROVE \E q \in 0..Emitted' : Waiting(q)'
      BY <1>6 DEF QueueInv
    <3>1. PICK q \in 0..Emitted : Waiting(q)  BY <1>2 DEF QueueInv
    <3>2. q \in 0..Emitted'  BY <1>4, <3>1
    <3>3. Len(queue) \in Nat  BY <1>2 DEF ProbeInv
    <3>4. q + Len(queue) <= Emitted'  BY <1>4, <3>1, <3>3 DEF Waiting
    <3>5. Waiting(q)'
      BY <1>1, <1>3, <1>6, <1>7, <2>1, <3>1, <3>4 DEF Waiting, Nothing
    <3> QED  BY <3>2, <3>5
  <2> QED  BY <1>5, <2>2, <2>3 DEF OrderInv
<1>8. CASE ~stop
  <2> DEFINE x == SubSeq(Numbered, 1, Room)
  <2>1. /\ held' = <<x>> /\ counter' = counter + Len(feed[1])
        /\ accepted' = accepted + Room
        /\ stop' = (limit > 0 /\ accepted + Room >= limit)
    BY <1>8 DEF Accept
  <2>2. /\ Start(video, Emitted + 1) = counter + Len(feed[1])
        /\ Ready(Lists[Emitted + 1], x)
    BY <1>1, <1>2, <1>8, Cutting
  <2>3. Len(feed[1]) \in Nat /\ Room \in 0..Len(feed[1])  BY <1>1, <1>2, NextBuffer
  <2> HIDE DEF x
  <2>4. counter \in Nat /\ accepted = counter /\ (limit > 0 => accepted < limit) /\ limit \in Nat
    BY <1>2, <1>8 DEF CounterInv, ProbeInv, VideoInv
  <2>5. CounterInv'
    <3>1. CASE limit > 0 /\ accepted + Room >= limit
      <4>1. stop' = TRUE  BY <2>1, <3>1
      <4>2. limit <= counter + Len(feed[1])  BY <2>3, <2>4, <3>1
      <4> QED  BY <1>1, <1>4, <2>2, <3>1, <4>1, <4>2 DEF CounterInv
    <3>2. CASE ~(limit > 0 /\ accepted + Room >= limit)
      <4>1. stop' = FALSE  BY <2>1, <3>2
      <4>2. Room = Len(feed[1])  BY <2>3, <2>4, <3>2 DEF Room
      <4>3. limit > 0 => accepted' < limit  BY <2>1, <2>3, <2>4, <3>2
      <4>4. accepted' = counter'  BY <2>1, <2>4, <4>2
      <4>5. counter' = Start(video', Emitted')  BY <1>1, <1>4, <2>1, <2>2
      <4> QED  BY <1>1, <4>1, <4>3, <4>4, <4>5 DEF CounterInv
    <3> QED  BY <3>1, <3>2
  <2>6. QueueInv'
    <3> SUFFICES ASSUME proc \in {"pop", "infer"} PROVE \E q \in 0..Emitted' : Waiting(q)'
      BY <1>6 DEF QueueInv
    <3>1. PICK q \in 0..Emitted : Waiting(q)  BY <1>2 DEF QueueInv
    <3>2. q \in 0..Emitted'  BY <1>4, <3>1
    <3>3. Len(queue) \in Nat  BY <1>2 DEF ProbeInv
    <3>4. q + Len(queue) <= Emitted'  BY <1>4, <3>1, <3>3 DEF Waiting
    <3>5. held' # Nothing /\ held'[1] = x  BY <2>1 DEF Nothing
    <3>6. ~closed' => q + Len(queue) + 1 = Emitted'
      BY <1>1, <1>4, <1>8, <3>1, <3>3 DEF Waiting
    <3>7. Ready(Lists[Emitted'], held'[1])  BY <1>4, <2>2, <3>5
    <3>8. Waiting(q)'
      BY <1>1, <1>3, <1>6, <3>1, <3>4, <3>5, <3>6, <3>7 DEF Waiting, Nothing
    <3> QED  BY <3>2, <3>8
  <2> QED  BY <1>5, <2>5, <2>6 DEF OrderInv
<1> QED  BY <1>7, <1>8

LEMMA Joined ==
  ASSUME NEW U, NEW s \in Seq(U), NEW t \in Seq(U)
  PROVE  /\ Len(s \o t) = Len(s) + Len(t) /\ Len(s) \in Nat /\ Len(t) \in Nat
         /\ \A i \in 1..Len(s) : (s \o t)[i] = s[i]
         /\ \A i \in 1..Len(t) : (s \o t)[Len(s) + i] = t[i]
  OBVIOUS

LEMMA PushOrder == TypeInv /\ FlagsInv /\ OrderInv /\ Push => OrderInv'
<1> SUFFICES ASSUME TypeInv, FlagsInv, OrderInv, Push, ~fault PROVE OrderInv'  BY DEF Push, OrderInv
<1>1. /\ UNCHANGED <<video, limit, bus, feed, accepted, counter, stop, closed, fault,
                     procVars>>
      /\ queue' = IF closed THEN queue ELSE queue \o held
      /\ held # Nothing /\ held' = Nothing
  BY DEF Push
<1>2. Expected' = Expected /\ Lists' = Lists /\ Buffers' = Buffers  BY <1>1, SameOrder
<1>3. CounterInv' /\ LineInv'  BY <1>1, OrderKept DEF procVars
<1>4. Emitted' = Emitted /\ Popped' = Popped /\ proc' = proc
  BY <1>1 DEF Emitted, Popped, procVars
<1>5. QueueInv'
  <2> SUFFICES ASSUME proc \in {"pop", "infer"} PROVE \E q \in 0..Emitted' : Waiting(q)'
    BY <1>4 DEF QueueInv
  <2>1. PICK q \in 0..Emitted : Waiting(q)  BY DEF OrderInv, QueueInv
  <2>2. CASE closed
    <3>1. bus # "eos"  BY <1>1 DEF FlagsInv
    <3>2. Waiting(q)'  BY <1>1, <1>2, <1>4, <2>1, <2>2, <3>1 DEF Waiting, Nothing
    <3> QED  BY <1>4, <2>1, <3>2
  <2>3. CASE ~closed
    <3>1. queue \in Seq(Seq(Sent)) /\ held \in Seq(Seq(Sent)) /\ Len(held) = 1
      <4>1. queue \in Seq(Seq(Sent)) /\ held \in Seq(Seq(Sent)) /\ Len(held) <= 1
        BY DEF TypeInv, ProbeInv
      <4>2. held # <<>>  BY <1>1 DEF Nothing
      <4>3. Len(held) \in Nat /\ Len(held) # 0  BY <4>1, <4>2
      <4>5. Len(held) <= 1  BY <4>1
      <4>4. Len(held) = 1  BY <4>3, <4>5
      <4> QED  BY <4>1, <4>4
    <3>2. queue' = queue \o held  BY <1>1, <2>3
    <3>3. /\ Len(queue') = Len(queue) + 1 /\ Len(queue) \in Nat
          /\ \A i \in 1..Len(queue) : queue'[i] = queue[i]
          /\ queue'[Len(queue) + 1] = held[1]
      <4> DEFINE r == queue \o held
      <4> DEFINE S == Seq(Sent)
      <4>0. queue \in Seq(S) /\ held \in Seq(S)  BY <3>1
      <4> HIDE DEF S
      <4>1. /\ Len(r) = Len(queue) + Len(held) /\ Len(queue) \in Nat
            /\ \A i \in 1..Len(queue) : r[i] = queue[i]
            /\ \A i \in 1..Len(held) : r[Len(queue) + i] = held[i]
        BY <4>0, Joined
      <4>2. 1 \in 1..Len(held)  BY <3>1
      <4>3. queue' = r  BY <3>2
      <4> HIDE DEF r
      <4> QED  BY <3>1, <4>1, <4>2, <4>3
    <3>4. /\ q + Len(queue) + 1 = Emitted /\ Ready(Lists[Emitted], held[1])
          /\ \A i \in 1..Len(queue) : Ready(Lists[q + i], queue[i])
      BY <1>1, <2>1, <2>3 DEF Waiting
    <3>5. q + Len(queue') = Emitted /\ Emitted <= Emitted
      BY <2>1, <3>3, <3>4
    <3>6. q + Len(queue') <= Emitted
      <4>1. q \in Nat  BY <2>1
      <4> QED  BY <3>3, <3>5, <4>1
    <3>7. ASSUME NEW i \in 1..Len(queue') PROVE Ready(Lists[q + i], queue'[i])
      <4>1. CASE i \in 1..Len(queue)  BY <3>3, <3>4, <4>1
      <4>2. CASE i = Len(queue) + 1
        <5>1. q + i = Emitted  BY <2>1, <3>3, <3>4, <4>2
        <5> QED  BY <3>3, <3>4, <4>2, <5>1
      <4> QED  BY <3>3, <4>1, <4>2
    <3>8. Waiting(q)'
      BY <1>1, <1>2, <1>4, <2>1, <3>5, <3>6, <3>7 DEF Waiting, Nothing
    <3> QED  BY <1>4, <2>1, <3>8
  <2> QED  BY <2>2, <2>3
<1> QED  BY <1>3, <1>5 DEF OrderInv

LEMMA QuietOrder ==
  ASSUME TypeInv, OrderInv, UNCHANGED <<video, limit, probeVars, queue, procVars>>,
         fault' = fault, Onward
  PROVE  OrderInv'
<1> SUFFICES ASSUME ~fault PROVE OrderInv'  BY DEF OrderInv
<1>1. CounterInv' /\ LineInv' /\ QueueInv'  BY OrderKept DEF probeVars, procVars
<1> QED  BY <1>1 DEF OrderInv

\* What is popped are the next of the expected frames.
Advance(y) ==
  /\ y \in Seq(Sent) /\ Popped \in Nat /\ Popped' = Popped + Len(y)
  /\ Behind(Expected, Popped, y)

LEMMA PopsNext ==
  ASSUME TypeInv, OrderInv, Pop, ~fault
  PROVE  OrderInv' /\ Advance(Presentation(queue[1]))
<1> DEFINE y == Presentation(queue[1])   x == pending \o y
<1>1. /\ UNCHANGED <<video, limit, bus, feed, held, accepted, counter, stop, fault, closed, found,
                     recorded>>
      /\ todo' = Complete(x) /\ pending' = Remainder(x) /\ proc = "pop"
      /\ queue # <<>> /\ queue' = Tail(queue)
  BY DEF Pop, probeVars
<1>2. /\ queue \in Seq(Seq(Sent)) /\ pending \in Seq(Sent) /\ todo = <<>> /\ found = <<>>
      /\ recorded \in Seq(Records) /\ VideoInv
  BY <1>1 DEF TypeInv, ProbeInv, ProcInv
<1>3. /\ queue[1] \in Seq(Sent) /\ Len(queue) \in Nat \ {0}
      /\ Len(Tail(queue)) = Len(queue) - 1
      /\ \A i \in 1..(Len(queue) - 1) : Tail(queue)[i] = queue[i + 1]
  BY <1>1, <1>2
<1>4. BatchSize \in Nat \ {0} /\ Len(recorded) \in Nat /\ Len(pending) \in Nat
        /\ Len(todo) = 0 /\ Len(found) = 0
  BY <1>2, WorkerAssumption
<1>5. PICK q \in 0..Emitted : Waiting(q)  BY <1>1 DEF OrderInv, QueueInv
<1>6. /\ Emitted \in 0..Len(video) /\ Len(video) \in Nat
      /\ Emitted' = Emitted
  BY <1>1, <1>2 DEF VideoInv, Emitted
<1>7. q + 1 \in 1..Len(video) /\ q + 1 \in 0..Emitted /\ (q + 1) - 1 = q /\ q \in Nat
  BY <1>3, <1>5, <1>6 DEF Waiting
<1>8. Ready(Lists[q + 1], queue[1])
  <2>1. 1 \in 1..Len(queue)  BY <1>3
  <2> QED  BY <1>5, <2>1 DEF Waiting
<1>9. /\ y \in Seq(Sent) /\ Len(y) \in Nat
      /\ Behind(Expected, Start(Buffers, q), y)
      /\ Start(Buffers, q + 1) = Start(Buffers, q) + Len(y)
  <2>1. /\ y \in Seq(Sent) /\ Behind(Expected, Start(Buffers, (q + 1) - 1), y)
        /\ Start(Buffers, q + 1) = Start(Buffers, (q + 1) - 1) + Len(y)
    BY <1>2, <1>3, <1>7, <1>8, ReadyPresented
  <2> HIDE DEF y
  <2> QED  BY <1>7, <2>1
<1> HIDE DEF y
<1>10. Start(Buffers, q) = Len(recorded) + Len(pending)
  <2>1. Popped = Start(Buffers, q)  BY <1>5 DEF Waiting
  <2>2. 0 * BatchSize = 0  BY <1>4
  <2> QED  BY <1>4, <2>1, <2>2 DEF Popped
<1>11. Behind(Expected, 0, recorded) /\ Behind(Expected, Len(recorded), pending)
  <2>1. Behind(Expected, Len(recorded) + Len(found) + Len(todo) * BatchSize, pending)
          /\ Behind(Expected, 0, recorded)
    BY DEF OrderInv, LineInv
  <2>2. Len(recorded) + Len(found) + Len(todo) * BatchSize = Len(recorded)
    <3>1. 0 * BatchSize = 0  BY <1>4
    <3> QED  BY <1>4, <3>1
  <2> QED  BY <2>1, <2>2
<1>12. x \in Seq(Sent) /\ Behind(Expected, Len(recorded), x) /\ Len(x) = Len(pending) + Len(y)
  <2>1. Behind(Expected, Len(recorded) + Len(pending), y)  BY <1>9, <1>10
  <2>2. \A t \in Seq(Sent) : Behind(Expected, Len(recorded) + Len(pending), t)
                              => Behind(Expected, Len(recorded), pending \o t)
    BY <1>2, <1>4, <1>11, BehindLists
  <2>3. x \in Seq(Sent) /\ Len(x) = Len(pending) + Len(y)  BY <1>2, <1>9
  <2> QED  BY <1>9, <2>1, <2>2, <2>3
<1> HIDE DEF x
<1>13. Batches(x, todo', pending')  BY <1>1, <1>12, Splitting
<1>14. /\ \A b \in 1..Len(todo') : Behind(Expected, Len(recorded) + (b - 1) * BatchSize, todo'[b])
       /\ Behind(Expected, Len(recorded) + Len(todo') * BatchSize, pending')
  BY <1>4, <1>12, <1>13, BehindBatches
<1>15. /\ Len(todo') * BatchSize + Len(pending') = Len(x)
       /\ Len(todo') \in Nat /\ Len(pending') \in Nat
  BY <1>13 DEF Batches
<1>16. Expected' = Expected /\ Lists' = Lists /\ Buffers' = Buffers  BY <1>1, SameOrder
<1>17. recorded' = recorded /\ found' = <<>> /\ Len(found') = 0
         /\ Len(recorded') + Len(found') = Len(recorded)
  BY <1>1, <1>2, <1>4
<1>18. LineInv'
  <2>1. Behind(Expected, Len(recorded), found')
    <3>1. \A i \in 1..0 : FALSE  OBVIOUS
    <3> QED  BY <1>17, <3>1 DEF Behind
  <2> QED  BY <1>11, <1>14, <1>16, <1>17, <2>1 DEF LineInv
<1>19. CounterInv'  BY <1>1, OrderKept
<1>20. Popped' = Start(Buffers, q + 1)
  <2> DEFINE m == Len(todo') * BatchSize
  <2>1. m \in Nat  BY <1>4, <1>15
  <2>2. Popped' = Len(recorded) + m + Len(pending')
    BY <1>17 DEF Popped
  <2>3. m + Len(pending') = Len(x)  BY <1>15
  <2> DEFINE r == Len(recorded)   p == Len(pending)   z == Len(pending')
             s == Start(Buffers, q)
  <2>4. /\ Popped' = r + m + z /\ m + z = p + Len(y) /\ s = r + p
        /\ Start(Buffers, q + 1) = s + Len(y)
        /\ m \in Nat /\ z \in Nat /\ r \in Nat /\ p \in Nat /\ Len(y) \in Nat
    BY <1>4, <1>9, <1>10, <1>12, <1>15, <2>1, <2>2, <2>3
  <2> HIDE DEF m, r, p, z, s
  <2> QED  BY <2>4
<1>21. Len(queue') = Len(queue) - 1 /\ q + 1 + Len(queue') = q + Len(queue)
  BY <1>1, <1>3, <1>7
<1>22. ASSUME NEW i \in 1..Len(queue') PROVE Ready(Lists[q + 1 + i], queue'[i])
  <2>1. i + 1 \in 1..Len(queue) /\ q + (i + 1) = q + 1 + i /\ i \in 1..(Len(queue) - 1)
    BY <1>3, <1>7, <1>21
  <2>2. Ready(Lists[q + (i + 1)], queue[i + 1])  BY <1>5, <2>1 DEF Waiting
  <2>3. queue'[i] = queue[i + 1]  BY <1>1, <1>3, <2>1
  <2> QED  BY <2>1, <2>2, <2>3
<1>23. Waiting(q + 1)'
  BY <1>1, <1>5, <1>6, <1>16, <1>20, <1>21, <1>22 DEF Waiting, Nothing
<1>24. QueueInv'  BY <1>6, <1>7, <1>23 DEF QueueInv
<1>25. Advance(y)
  <2>1. Popped = Start(Buffers, q)  BY <1>5 DEF Waiting
  <2>2. Popped \in Nat  BY <1>4, <1>10, <2>1
  <2> QED  BY <1>9, <1>20, <2>1, <2>2 DEF Advance
<1> QED  BY <1>18, <1>19, <1>24, <1>25 DEF OrderInv, y

LEMMA PopOrder == TypeInv /\ OrderInv /\ Pop => OrderInv'
BY PopsNext DEF Pop, OrderInv

\* What is recognised is the batch in hand, the last one after the loop has ended.
LEMMA InfersNext ==
  ASSUME TypeInv, OrderInv, Infer, ~fault
  PROVE  /\ OrderInv' /\ (proc = "infer" => Popped' = Popped)
         /\ todo # <<>> /\ Len(found') = Len(todo[1]) /\ (proc = "flush" => todo' = <<>>)
<1>1. /\ UNCHANGED <<video, limit, bus, probeVars, fault, queue, closed, proc, pending,
                     recorded>>
      /\ found = <<>> /\ found' = Recognised(todo[1]) /\ todo' = Tail(todo)
      /\ proc \in {"infer", "flush"}
  BY DEF Infer
<1>2. /\ todo \in Seq(Seq(Sent)) /\ todo # <<>> /\ recorded \in Seq(Records)
      /\ pending \in Seq(Sent)
      /\ proc = "infer" => \A b \in 1..Len(todo) : Len(todo[b]) = BatchSize
      /\ proc = "flush" => Len(todo) <= 1 /\ pending = <<>>
  BY <1>1 DEF TypeInv, ProcInv
<1>3. /\ todo[1] \in Seq(Sent) /\ 1 \in 1..Len(todo) /\ Len(todo) \in Nat
      /\ Len(todo') = Len(todo) - 1
      /\ \A b \in 1..(Len(todo) - 1) : b + 1 \in 1..Len(todo) /\ todo'[b] = todo[b + 1]
      /\ Len(recorded) \in Nat /\ Len(pending) \in Nat /\ Len(todo[1]) \in Nat
  <2>1. Len(todo) \in Nat /\ Len(todo) # 0  BY <1>2
  <2>2. 1 \in 1..Len(todo)  BY <2>1
  <2>3. todo[1] \in Seq(Sent)  BY <1>2, <2>2
  <2> QED  BY <1>1, <1>2, <2>1, <2>2, <2>3
<1>4. BatchSize \in Nat \ {0}  BY WorkerAssumption
<1>5. Len(found') = Len(todo[1]) /\ \A i \in 1..Len(todo[1]) : Strip(found'[i]) = Strip(todo[1][i])
  BY <1>1, <1>3, RecognisedFrames
<1>6. /\ Behind(Expected, 0, recorded)
      /\ \A b \in 1..Len(todo) : Behind(Expected, Len(recorded) + (b - 1) * BatchSize, todo[b])
      /\ Behind(Expected, Len(recorded) + Len(todo) * BatchSize, pending)
  <2>1. Len(found) = 0 /\ Len(recorded) + Len(found) = Len(recorded)  BY <1>1, <1>3
  <2> QED  BY <2>1 DEF OrderInv, LineInv
<1>7. Behind(Expected, Len(recorded), found')
  <2>1. (1 - 1) * BatchSize = 0  BY <1>4
  <2>2. Behind(Expected, Len(recorded), todo[1])  BY <1>3, <1>6, <2>1
  <2> QED  BY <1>3, <1>5, <2>2, BehindLists
<1>8. Expected' = Expected /\ Lists' = Lists /\ Buffers' = Buffers  BY <1>1, SameOrder
<1> DEFINE after == Len(recorded) + Len(found')
<1>9. after \in Nat  BY <1>3, <1>5
<1>10. proc = "infer" => after = Len(recorded) + BatchSize  BY <1>2, <1>3, <1>5
<1>11. ASSUME NEW b \in 1..Len(todo') PROVE Behind(Expected, after + (b - 1) * BatchSize, todo'[b])
  <2>1. b \in 1..(Len(todo) - 1) /\ b + 1 \in 1..Len(todo) /\ (b + 1) - 1 = b /\ b \in Nat
    BY <1>3
  <2>2. proc = "infer"  BY <1>1, <1>2, <1>3, <2>1
  <2>3. b * BatchSize = BatchSize + (b - 1) * BatchSize
    BY <1>4, <2>1
  <2>4. (b - 1) * BatchSize \in Nat
    <3>1. b - 1 \in Nat  BY <2>1
    <3> QED  BY <1>4, <3>1
  <2>5. after + (b - 1) * BatchSize = Len(recorded) + b * BatchSize
    <3> DEFINE m == (b - 1) * BatchSize   n == b * BatchSize
    <3>1. n = BatchSize + m /\ m \in Nat /\ after = Len(recorded) + BatchSize
      BY <1>10, <2>2, <2>3, <2>4
    <3> HIDE DEF m, n, after
    <3> QED  BY <1>3, <1>4, <3>1 DEF m, n
  <2>6. Behind(Expected, Len(recorded) + ((b + 1) - 1) * BatchSize, todo[b + 1])
    BY <1>6, <2>1
  <2> QED  BY <1>3, <2>1, <2>5, <2>6
<1>12. proc = "infer" => /\ after + Len(todo') * BatchSize = Len(recorded) + Len(todo) * BatchSize
                         /\ Popped' = Popped
  <2> SUFFICES ASSUME proc = "infer"
               PROVE  /\ after + Len(todo') * BatchSize = Len(recorded) + Len(todo) * BatchSize
                      /\ Popped' = Popped
    OBVIOUS
  <2>1. Len(todo) - 1 \in Nat  BY <1>3
  <2>2. Len(todo) * BatchSize = BatchSize + (Len(todo) - 1) * BatchSize  BY <1>3, <1>4
  <2> DEFINE m == (Len(todo) - 1) * BatchSize   n == Len(todo) * BatchSize
  <2>3. m \in Nat /\ n = BatchSize + m /\ Len(todo') * BatchSize = m
    <3>1. m \in Nat  BY <1>4, <2>1
    <3>2. n = BatchSize + m  BY <2>2
    <3>3. Len(todo') * BatchSize = m  BY <1>3
    <3> QED  BY <3>1, <3>2, <3>3
  <2>4. Popped' = after + m + Len(pending) /\ Popped = Len(recorded) + 0 + n + Len(pending)
    <3>1. Len(found) = 0 /\ recorded' = recorded /\ pending' = pending  BY <1>1
    <3> QED  BY <2>3, <3>1 DEF Popped
  <2> HIDE DEF m, n, after
  <2>5. after + m = Len(recorded) + n  BY <1>3, <1>4, <1>10, <2>3
  <2>6. after + m + Len(pending) = Len(recorded) + 0 + n + Len(pending)
    BY <1>3, <1>4, <1>9, <1>10, <2>3, <2>5
  <2> QED  BY <2>3, <2>4, <2>5, <2>6 DEF n
<1>13. Behind(Expected, after + Len(todo') * BatchSize, pending)
  <2>1. CASE proc = "infer"  BY <1>6, <1>12, <2>1
  <2>2. CASE proc = "flush"
    <3>1. Len(pending) = 0 /\ \A i \in 1..0 : FALSE  BY <1>2, <2>2
    <3> QED  BY <3>1 DEF Behind
  <2> QED  BY <1>1, <2>1, <2>2
<1>14. LineInv'
  <2>1. recorded' = recorded /\ pending' = pending  BY <1>1
  <2> QED  BY <1>6, <1>7, <1>8, <1>11, <1>13, <2>1 DEF LineInv
<1>15. CounterInv'  BY <1>1, OrderKept DEF probeVars
<1>16. QueueInv'
  <2> SUFFICES ASSUME proc = "infer" PROVE \E q \in 0..Emitted' : Waiting(q)'
    BY <1>1 DEF QueueInv
  <2>1. PICK q \in 0..Emitted : Waiting(q)  BY DEF OrderInv, QueueInv
  <2>2. Emitted' = Emitted /\ Popped' = Popped  BY <1>1, <1>12 DEF Emitted, probeVars
  <2>3. UNCHANGED <<held, stop, bus, queue, closed>>  BY <1>1 DEF probeVars
  <2>4. Waiting(q)'  BY <1>8, <2>1, <2>2, <2>3 DEF Waiting, Nothing
  <2> QED  BY <2>1, <2>2, <2>4
<1>17. proc = "flush" => todo' = <<>>
  <2>1. proc = "flush" => Len(todo') = 0  BY <1>2, <1>3
  <2>2. todo' \in Seq(Seq(Sent))
    <3> DEFINE S == Seq(Sent)
    <3>1. todo \in Seq(S) /\ todo # <<>> /\ todo' = Tail(todo)  BY <1>1, <1>2
    <3> HIDE DEF S
    <3>2. todo' \in Seq(S)  BY <3>1
    <3> QED  BY <3>2 DEF S
  <2> QED  BY <2>1, <2>2, EmptyList
<1> QED  BY <1>2, <1>5, <1>12, <1>14, <1>15, <1>16, <1>17 DEF OrderInv

LEMMA InferOrder == TypeInv /\ OrderInv /\ Infer => OrderInv'
BY InfersNext DEF Infer, OrderInv

LEMMA TrackOrder == TypeInv /\ OrderInv /\ TrackFrame => OrderInv'
<1> SUFFICES ASSUME TypeInv, OrderInv, TrackFrame, ~fault PROVE OrderInv'
  BY DEF TrackFrame, OrderInv
<1>1. /\ UNCHANGED <<video, limit, bus, probeVars, fault, queue, closed, todo, pending>>
      /\ found # <<>> /\ found' = Tail(found)
      /\ proc' = IF Len(found) > 1 \/ todo # <<>> THEN proc
                 ELSE IF proc = "flush" THEN "ended" ELSE "pop"
  BY DEF TrackFrame
<1>2. /\ found \in Seq(Embedded) /\ recorded \in Seq(Records) /\ pending \in Seq(Sent)
      /\ todo \in Seq(Seq(Sent)) /\ proc \in {"infer", "flush"}
  BY <1>1 DEF TypeInv, ProcInv
<1>3. PICK keys, new :
        /\ Numbering(keys, Len(found[1].faces), new) /\ found[1] \in Embedded
        /\ recorded' = Append(recorded, Observation(found[1], keys))
  BY InHand
<1>4. /\ Observation(found[1], keys) \in Records
      /\ Strip(Observation(found[1], keys)) = Strip(found[1])
  <2>1. Observation(found[1], keys) \in Records  BY <1>3, RecordedFrame
  <2> QED  BY <2>1 DEF Observation, Strip
<1>5. /\ Len(recorded') = Len(recorded) + 1 /\ Len(found') = Len(found) - 1
      /\ Len(recorded) \in Nat /\ Len(found) \in Nat /\ Len(found) >= 1
  <2>1. Len(recorded') = Len(recorded) + 1 /\ Len(recorded) \in Nat  BY <1>2, <1>3, <1>4
  <2>2. Len(found) \in Nat /\ Len(found) # 0 /\ Len(found') = Len(found) - 1  BY <1>1, <1>2
  <2> QED  BY <2>1, <2>2
<1>6. Len(recorded') + Len(found') = Len(recorded) + Len(found)  BY <1>5
<1>7. /\ Behind(Expected, 0, recorded) /\ Behind(Expected, Len(recorded), found)
      /\ \A b \in 1..Len(todo) :
           Behind(Expected, Len(recorded) + Len(found) + (b - 1) * BatchSize, todo[b])
      /\ Behind(Expected, Len(recorded) + Len(found) + Len(todo) * BatchSize, pending)
  BY DEF OrderInv, LineInv
<1>8. At(Expected, found[1], Len(recorded) + 1) /\ Behind(Expected, Len(recorded) + 1, found')
  BY <1>1, <1>2, <1>5, <1>7, BehindLists
<1>9. Behind(Expected, 0, recorded')
  <2>1. At(Expected, Observation(found[1], keys), Len(recorded) + 1)  BY <1>4, <1>8 DEF At
  <2>2. 0 + Len(recorded) + 1 = Len(recorded) + 1 /\ 0 \in Nat  BY <1>5
  <2>3. \A e : At(Expected, e, 0 + Len(recorded) + 1) => Behind(Expected, 0, Append(recorded, e))
    BY <1>2, <1>7, <2>2, BehindLists
  <2> QED  BY <1>3, <2>1, <2>2, <2>3
<1>10. Expected' = Expected /\ Lists' = Lists /\ Buffers' = Buffers  BY <1>1, SameOrder
<1>11. LineInv'  BY <1>1, <1>5, <1>6, <1>7, <1>8, <1>9, <1>10 DEF LineInv
<1>12. CounterInv'  BY <1>1, OrderKept DEF probeVars
<1>13. QueueInv'
  <2> SUFFICES ASSUME proc' \in {"pop", "infer"} PROVE \E q \in 0..Emitted' : Waiting(q)'
    BY DEF QueueInv
  <2>1. proc = "infer"  BY <1>1, <1>2
  <2>2. PICK q \in 0..Emitted : Waiting(q)  BY <2>1 DEF OrderInv, QueueInv
  <2>3. Emitted' = Emitted /\ Popped' = Popped
    BY <1>1, <1>6 DEF Emitted, Popped, probeVars
  <2>4. UNCHANGED <<held, stop, bus, queue, closed>>  BY <1>1 DEF probeVars
  <2>5. Waiting(q)'  BY <1>10, <2>2, <2>3, <2>4 DEF Waiting, Nothing
  <2> QED  BY <2>2, <2>3, <2>5
<1> QED  BY <1>11, <1>12, <1>13 DEF OrderInv

LEMMA FlushOrder == TypeInv /\ OrderInv /\ (Flush \/ PopOutOfOrder \/ InferFails) => OrderInv'
<1> SUFFICES ASSUME TypeInv, OrderInv, Flush \/ PopOutOfOrder \/ InferFails
             PROVE  OrderInv'
  OBVIOUS
<1>0. fault' = fault  BY DEF Flush, PopOutOfOrder, InferFails
<1> SUFFICES ASSUME ~fault PROVE OrderInv'  BY <1>0 DEF OrderInv
<1>1. UNCHANGED <<video, limit, probeVars, fault, found, recorded>>
        /\ proc' \in {"ended", "flush"}
  BY DEF Flush, PopOutOfOrder, InferFails
<1>2. QueueInv' /\ CounterInv'  BY <1>1, OrderKept DEF QueueInv, probeVars
<1>3. CASE PopOutOfOrder \/ InferFails
  <2>1. LineInv'  BY <1>1, <1>3, OrderKept DEF PopOutOfOrder, InferFails
  <2> QED  BY <1>2, <2>1 DEF OrderInv
<1>4. CASE Flush
  <2>1. /\ proc = "pop" /\ pending' = <<>>
        /\ todo' = IF pending = <<>> THEN <<>> ELSE <<pending>>
    BY <1>4 DEF Flush
  <2>2. todo = <<>> /\ found = <<>> /\ recorded \in Seq(Records) /\ pending \in Seq(Sent)
    BY <2>1 DEF TypeInv, ProcInv
  <2>3. Expected' = Expected  BY <1>1, SameOrder
  <2>4. BatchSize \in Nat /\ Len(recorded) \in Nat /\ Len(todo) = 0 /\ Len(found) = 0
          /\ 0 * BatchSize = 0
    BY <2>2, WorkerAssumption
  <2>5. /\ Behind(Expected, 0, recorded) /\ Behind(Expected, Len(recorded), found)
        /\ Behind(Expected, Len(recorded) + Len(found) + Len(todo) * BatchSize, pending)
    BY DEF OrderInv, LineInv
  <2>6. Len(recorded) + Len(found) + Len(todo) * BatchSize = Len(recorded)  BY <2>4
  <2>7. Behind(Expected, Len(recorded), pending)  BY <2>5, <2>6
  <2>8. \A b \in 1..Len(todo') :
          Behind(Expected, Len(recorded) + Len(found) + (b - 1) * BatchSize, todo'[b])
    <3> SUFFICES ASSUME NEW b \in 1..Len(todo')
                 PROVE  Behind(Expected, Len(recorded) + Len(found) + (b - 1) * BatchSize, todo'[b])
      OBVIOUS
    <3>1. todo' = <<pending>> /\ Len(todo') = 1
      <4>1. Len(<<>>) = 0 /\ \A i \in 1..0 : FALSE  OBVIOUS
      <4>2. pending # <<>>  BY <2>1, <4>1
      <4> QED  BY <2>1, <4>2
    <3>2. b = 1 /\ todo'[1] = pending  BY <3>1
    <3>3. Len(recorded) + Len(found) + (b - 1) * BatchSize = Len(recorded)
      BY <2>4, <3>2
    <3> QED  BY <2>7, <3>2, <3>3
  <2>9. \A k : Behind(Expected, k, <<>>)
    <3>1. Len(<<>>) = 0 /\ \A i \in 1..0 : FALSE  OBVIOUS
    <3> QED  BY <3>1 DEF Behind
  <2>10. LineInv'  BY <1>1, <2>1, <2>3, <2>5, <2>8, <2>9 DEF LineInv
  <2> QED  BY <1>2, <2>10 DEF OrderInv
<1> QED  BY <1>3, <1>4

LEMMA OrderInit == WorkerInit => OrderInv
<1> SUFFICES ASSUME WorkerInit PROVE OrderInv  OBVIOUS
<1>1. TypeInv  BY TypeInit
<1>2. Plan /\ limit \in Nat  BY <1>1, Planned DEF TypeInv, VideoInv
<1>3. Emitted = 0 /\ Start(video, 0) = 0 /\ Start(Buffers, 0) = 0
  BY <1>2 DEF WorkerInit, Emitted, Plan, Laid
<1>4. /\ held = <<>> /\ queue = <<>> /\ todo = <<>> /\ found = <<>> /\ pending = <<>>
      /\ recorded = <<>> /\ accepted = 0 /\ counter = 0 /\ stop = FALSE
  BY DEF WorkerInit, Nothing
<1>5. CounterInv
  <2>1. limit > 0 => 0 < limit  BY <1>2
  <2> QED  BY <1>3, <1>4, <2>1 DEF CounterInv
<1>6. Len(<<>>) = 0 /\ (\A i \in 1..0 : FALSE) /\ 0 * BatchSize = 0
  BY WorkerAssumption
<1>7. LineInv
  <2>1. \A k : Behind(Expected, k, <<>>)  BY <1>6 DEF Behind
  <2> QED  BY <1>4, <1>6, <2>1 DEF LineInv
<1>8. Popped = 0  BY <1>4, <1>6 DEF Popped
<1>9. Waiting(0)
  BY <1>3, <1>4, <1>6, <1>8 DEF Waiting, Nothing
<1>10. QueueInv  BY <1>3, <1>9 DEF QueueInv
<1> QED  BY <1>5, <1>7, <1>10 DEF OrderInv

LEMMA OrderStep == TypeInv /\ FlagsInv /\ OrderInv /\ [WorkerNext]_workerVars => OrderInv'
<1> SUFFICES ASSUME TypeInv, FlagsInv, OrderInv, [WorkerNext]_workerVars PROVE OrderInv'
  OBVIOUS
<1>1. CASE Unmappable  BY <1>1 DEF Unmappable, OrderInv
<1>2. CASE Link \/ EndOfStream \/ ElementFails
  <2>1. Onward
    BY <1>2 DEF Link, EndOfStream, ElementFails, FlagsInv, Onward
  <2> QED  BY <1>2, <2>1, QuietOrder DEF Link, EndOfStream, ElementFails
<1>3. CASE Main
  <2>1. UNCHANGED <<video, limit, bus, probeVars, fault, queue, procVars>>
          /\ (closed => closed')
    BY <1>3 DEF Main, StartPipeline, StartFails, NoVideoPad, Listen, CloseQueue, EndPipeline,
         WriteTemplates, WriteFooter, WriteCrops, Compress, WriteManifest, Finalize,
         FinalizeFails, RemoveOutput, Publish, Return
  <2>2. Onward  BY <2>1 DEF Onward
  <2> QED  BY <2>1, <2>2, QuietOrder
<1>4. CASE UNCHANGED workerVars
  <2>1. Onward  BY <1>4 DEF Onward, workerVars
  <2> QED  BY <1>4, <2>1, QuietOrder DEF workerVars
<1>5. CASE Accept  BY <1>5, AcceptOrder
<1>6. CASE Push  BY <1>6, PushOrder
<1>7. CASE Process
  BY <1>7, PopOrder, InferOrder, TrackOrder, FlushOrder DEF Process
<1> QED  BY <1>1, <1>2, <1>3, <1>4, <1>5, <1>6, <1>7 DEF WorkerNext, Probe

LEMMA TypeTold == TypeInv => WorkerTypeOK /\ VectorIsOwn
<1> SUFFICES ASSUME TypeInv PROVE WorkerTypeOK /\ VectorIsOwn  OBVIOUS
<1>1. WorkerTypeOK
  <2>1. OutInv /\ ProbeInv /\ ProcInv  BY DEF TypeInv
  <2>2. /\ exit \in {"none", "0", "1", "abort"} /\ bundle \in {Empty, Absent, work}
        /\ torn \subseteq {"templates", "observations", "crops", "manifest"}
    BY <2>1 DEF OutInv
  <2>3. accepted \in Nat /\ (limit > 0 => accepted <= limit)  BY <2>1 DEF ProbeInv
  <2>4. /\ Len(pending) < BatchSize
        /\ \A b \in 1..Len(todo) : Len(todo[b]) \in 1..BatchSize
        /\ proc \in {"infer", "flush"} => todo # <<>> \/ found # <<>>
    BY <2>1 DEF ProcInv
  <2> QED  BY <2>2, <2>3, <2>4 DEF WorkerTypeOK
<1>2. VectorIsOwn
  <2>1. \A i \in 1..Len(recorded) : recorded[i] \in Records  BY DEF TypeInv, ProcInv
  <2>2. \A i \in 1..Len(recorded) : OwnVectors(recorded[i])  BY <2>1 DEF Records
  <2> QED  BY <2>2 DEF OwnVectors, OwnVector, VectorIsOwn
<1> QED  BY <1>1, <1>2

LEMMA OrderTold == TypeInv /\ OrderInv => RecordedInOrder
<1> SUFFICES ASSUME TypeInv, OrderInv, ~fault PROVE IsPrefix(Written, Expected)
  BY DEF RecordedInOrder
<1> DEFINE r == Len(recorded)
<1>1. recorded \in Seq(Records) /\ r \in Nat  BY DEF TypeInv, ProcInv
<1>2. Plan  BY Planned DEF TypeInv
<1>3. \A i \in 1..r : i \in 1..Len(Expected) /\ Strip(recorded[i]) = Expected[i]
  <2>1. Behind(Expected, 0, recorded)  BY DEF OrderInv, LineInv
  <2>2. \A i \in 1..r : 0 + i = i  BY <1>1
  <2>3. \A i \in 1..r : At(Expected, recorded[i], i)  BY <2>1, <2>2 DEF Behind
  <2> QED  BY <2>3 DEF At
<1>4. Expected \in Seq(Plain) /\ Len(Expected) \in Nat  BY <1>2 DEF Plan
<1>5. Written = [i \in 1..r |-> Strip(recorded[i])]  BY DEF Written, Strip
<1> HIDE DEF r
<1>6. Written = [i \in 1..r |-> Expected[i]] /\ Len(Written) = r
  BY <1>1, <1>3, <1>5
<1>7. r <= Len(Expected)
  <2>1. r # 0 => r \in 1..r  BY <1>1
  <2> QED  BY <1>1, <1>3, <1>4, <2>1
<1>8. SubSeq(Expected, 1, r) = [i \in 1..r |-> Expected[i]]  BY <1>1, <1>4, <1>7
<1>9. SubSeq(Written, 1, r) = Written
  <2>1. \A i \in 1..r : Expected[i] \in Plain  BY <1>3, <1>4
  <2>2. Written \in [1..r -> Plain]  BY <1>6, <2>1
  <2>3. Written \in Seq(Plain)  BY <1>1, <2>2, ListOf
  <2> QED  BY <1>1, <1>6, <2>3
<1> QED  BY <1>6, <1>7, <1>8, <1>9 DEF IsPrefix

-----------------------------------------------------------------------------
(* Templates: what is kept of a track, and what the observations say of it. *)

\* Where the faces of a track are in a list of records, and what they show.
Sees(R, k) == UNION {{<<i, o>> : o \in {o \in DOMAIN R[i].keys : R[i].keys[o] = k}} :
                       i \in DOMAIN R}
Look(R, p) == R[p[1]].faces[p[2]]
When(R, p) == R[p[1]].pts
Shot(R, p) == [score |-> Look(R, p).score, pts |-> When(R, p), ordinal |-> p[2]]
Good(R, S) == {p \in S : Look(R, p).eligible}
Located(R, S) == \A p \in S : /\ p[1] \in 1..Len(R) /\ p[2] \in 1..Len(R[p[1]].faces)
                              /\ p[2] \in Nat \ {0}

Counts(R, acc, S) ==
  /\ acc.count = Cardinality(S) /\ acc.count = Cardinality({p[1] : p \in S})
  /\ acc.eligible = Cardinality(Good(R, S))
Times(R, acc, S) ==
  (\A p \in S : When(R, p) >= 0) =>
     /\ \A p \in S : When(R, p) \in acc.first..acc.last
     /\ {acc.first, acc.last} \subseteq {When(R, p) : p \in S}
Shows(R, acc, S) ==
  /\ Good(R, S) = {} <=> acc.picture = NoPicture
  /\ Good(R, S) # {} =>
        /\ acc.picture \in {Shot(R, p) : p \in Good(R, S)}
        /\ \A p \in Good(R, S) : ~Better(Shot(R, p), acc.picture)
Tells(R, acc, S) == Counts(R, acc, S) /\ Times(R, acc, S) /\ Shows(R, acc, S)

\* Better is a strict order of the pictures, and every picture beats none.
Shots == [score : Int, pts : Int, ordinal : Nat \ {0}]
LEMMA BetterOrder ==
  /\ NoPicture \notin Shots
  /\ \A a \in Shots : ~Better(a, a)
  /\ \A a, b, c \in Shots : Better(a, b) /\ Better(b, c) => Better(a, c)
<1>1. NoPicture \notin Shots
  <2>1. \A a \in Shots : a.ordinal \in Nat  BY DEF Shots
  <2>2. NoPicture.ordinal = -1 /\ -1 \notin Nat  BY DEF NoPicture
  <2> QED  BY <2>1, <2>2
<1>2. \A a \in Shots : a.score \in Int /\ a.pts \in Int /\ a.ordinal \in Int  BY DEF Shots
<1>3. \A a \in Shots : a # NoPicture  BY <1>1
<1>4. ASSUME NEW a \in Shots PROVE ~Better(a, a)  BY <1>2, <1>3 DEF Better
<1>5. ASSUME NEW a \in Shots, NEW b \in Shots, NEW c \in Shots, Better(a, b), Better(b, c)
      PROVE  Better(a, c)
  <2>1. /\ a.score \in Int /\ a.pts \in Int /\ a.ordinal \in Int
        /\ b.score \in Int /\ b.pts \in Int /\ b.ordinal \in Int
        /\ c.score \in Int /\ c.pts \in Int /\ c.ordinal \in Int
    BY <1>2
  <2>2. b # NoPicture /\ c # NoPicture  BY <1>3
  <2>3. \/ a.score > b.score
        \/ a.score = b.score /\ a.pts < b.pts
        \/ a.score = b.score /\ a.pts = b.pts /\ a.ordinal < b.ordinal
    BY <1>5, <2>2 DEF Better
  <2>4. \/ b.score > c.score
        \/ b.score = c.score /\ b.pts < c.pts
        \/ b.score = c.score /\ b.pts = c.pts /\ b.ordinal < c.ordinal
    BY <1>5, <2>2 DEF Better
  <2>5. \/ a.score > c.score
        \/ a.score = c.score /\ a.pts < c.pts
        \/ a.score = c.score /\ a.pts = c.pts /\ a.ordinal < c.ordinal
    BY <2>1, <2>3, <2>4
  <2> QED  BY <2>5 DEF Better
<1> QED  BY <1>1, <1>4, <1>5

\* One more record changes nothing of the ones before.
LEMMA OneMore ==
  ASSUME NEW R \in Seq(Records), NEW r \in Records, NEW S, Located(R, S)
  PROVE  /\ \A p \in S : /\ Look(Append(R, r), p) = Look(R, p)
                         /\ When(Append(R, r), p) = When(R, p)
                         /\ Shot(Append(R, r), p) = Shot(R, p)
         /\ Good(Append(R, r), S) = Good(R, S)
         /\ Located(Append(R, r), S)
         /\ \A acc : Tells(R, acc, S) => Tells(Append(R, r), acc, S)
<1> DEFINE Q == Append(R, r)
<1>1. Len(R) \in Nat /\ Len(Q) = Len(R) + 1 /\ \A i \in 1..Len(R) : Q[i] = R[i]  OBVIOUS
<1> HIDE DEF Q
<1>2. \A p \in S : Q[p[1]] = R[p[1]] /\ p[1] \in 1..Len(Q)  BY <1>1 DEF Located
<1>3. \A p \in S : /\ Look(Q, p) = Look(R, p) /\ When(Q, p) = When(R, p)
                   /\ Shot(Q, p) = Shot(R, p)
  BY <1>2 DEF Look, When, Shot
<1>4. Good(Q, S) = Good(R, S)  BY <1>3 DEF Good
<1>5. Located(Q, S)  BY <1>2 DEF Located
<1>6. ASSUME NEW acc, Tells(R, acc, S) PROVE Tells(Q, acc, S)
  <2>1. Counts(Q, acc, S)  BY <1>4, <1>6 DEF Tells, Counts
  <2>2. {When(Q, p) : p \in S} = {When(R, p) : p \in S}  BY <1>3
  <2>3. Times(Q, acc, S)  BY <1>3, <1>6, <2>2 DEF Tells, Times
  <2>4. Good(R, S) \subseteq S  BY DEF Good
  <2>5. {Shot(Q, p) : p \in Good(R, S)} = {Shot(R, p) : p \in Good(R, S)}  BY <1>3, <2>4
  <2>6. Shows(Q, acc, S)
    <3> HIDE DEF Better
    <3>1. \A p \in Good(R, S) : Shot(Q, p) = Shot(R, p)  BY <1>3, <2>4
    <3> QED  BY <1>4, <1>6, <2>5, <3>1 DEF Tells, Shows
  <2> QED  BY <2>1, <2>3, <2>6 DEF Tells
<1> QED  BY <1>3, <1>4, <1>5, <1>6 DEF Q

\* The next face of a track: its template takes it in.
Known(R, acc, S) ==
  /\ IsFiniteSet(S) /\ Located(R, S)
  /\ IF S = {} THEN acc = Fresh ELSE Tells(R, acc, S)

LEMMA FaceCounted ==
  ASSUME NEW R \in Seq(Records), NEW r \in Records, NEW acc, NEW S, Known(R, acc, S),
         NEW f, f.pts = r.pts, NEW o \in 1..Len(r.faces)
  PROVE  /\ IsFiniteSet(S \cup {<<Len(R) + 1, o>>})
         /\ Located(Append(R, r), S \cup {<<Len(R) + 1, o>>})
         /\ Tells(Append(R, r), UpdateTrack(acc, f, r.faces[o], o), S \cup {<<Len(R) + 1, o>>})
<1> DEFINE Q == Append(R, r)
           q == <<Len(R) + 1, o>>
           T == S \cup {q}
           face == r.faces[o]
           new == [score |-> face.score, pts |-> f.pts, ordinal |-> o]
           now == UpdateTrack(acc, f, face, o)
<1>1. Len(R) \in Nat /\ Len(Q) = Len(R) + 1 /\ Q[Len(R) + 1] = r /\ Q \in Seq(Records)
  OBVIOUS
<1>2. r.pts \in Int /\ r.faces \in Seq(FoundFaces)  BY DEF Records
<1>3. o \in Nat \ {0} /\ face \in FoundFaces  BY <1>2
<1>4. face.score \in Int /\ face.eligible \in BOOLEAN  BY <1>3 DEF FoundFaces
<1>5. new \in Shots  BY <1>2, <1>3, <1>4 DEF Shots
<1>6. IsFiniteSet(S) /\ Located(R, S)  BY DEF Known
<1> HIDE DEF Q
<1>7. q[1] = Len(R) + 1 /\ q[2] = o  OBVIOUS
<1>8. Look(Q, q) = face /\ When(Q, q) = f.pts /\ Shot(Q, q) = new
  BY <1>1, <1>7 DEF Look, When, Shot
<1>9. /\ \A p \in S : /\ Look(Q, p) = Look(R, p) /\ When(Q, p) = When(R, p)
                      /\ Shot(Q, p) = Shot(R, p)
      /\ Good(Q, S) = Good(R, S) /\ Located(Q, S)
  BY <1>6, OneMore DEF Q
<1>10. \A p \in S : p[1] # q[1] /\ p # q
  <2>1. \A p \in S : p[1] \in 1..Len(R)  BY <1>6 DEF Located
  <2> QED  BY <1>1, <1>7, <2>1
<1>11. IsFiniteSet(T) /\ Cardinality(T) = Cardinality(S) + 1 /\ Cardinality(S) \in Nat
  <2>1. q \notin S  BY <1>10
  <2> HIDE DEF q
  <2> QED  BY <1>6, <2>1, FS_AddElement, FS_CardinalityType
<1>12. Located(Q, T)
  <2>1. q[1] \in 1..Len(Q) /\ q[2] \in 1..Len(Q[q[1]].faces) /\ q[2] \in Nat \ {0}
    BY <1>1, <1>3, <1>7
  <2> HIDE DEF q
  <2> QED  BY <1>9, <2>1 DEF Located
<1>13. /\ now.first = IF acc.first < 0 \/ f.pts < acc.first THEN f.pts ELSE acc.first
       /\ now.last = IF f.pts > acc.last THEN f.pts ELSE acc.last
       /\ now.count = acc.count + 1
       /\ now.eligible = IF face.eligible THEN acc.eligible + 1 ELSE acc.eligible
       /\ now.picture = IF face.eligible /\ Better(new, acc.picture) THEN new ELSE acc.picture
  BY DEF UpdateTrack
<1>14. S = {} => /\ acc = Fresh /\ acc.first = -1 /\ acc.last = -1 /\ acc.count = 0
                 /\ acc.eligible = 0 /\ acc.picture = NoPicture
  BY DEF Known, Fresh
<1>15. S # {} => Tells(R, acc, S)  BY DEF Known
<1>16. Good(Q, T) = IF face.eligible THEN Good(R, S) \cup {q} ELSE Good(R, S)
  <2> HIDE DEF q, face
  <2> QED  BY <1>8, <1>9 DEF Good
<1>17. Good(R, S) \subseteq S /\ (S = {} => Good(R, S) = {})  BY DEF Good
<1> HIDE DEF q, face, new, now, T
<1>18. Counts(Q, now, T)
  <2>1. acc.count = Cardinality(S) /\ acc.count = Cardinality({p[1] : p \in S})
          /\ acc.eligible = Cardinality(Good(R, S))
    <3>1. CASE S = {}
      <4>1. {p[1] : p \in S} = {} /\ Good(R, S) = {}  BY <1>17, <3>1
      <4> QED  BY <1>14, <3>1, <4>1, FS_EmptySet
    <3>2. CASE S # {}  BY <1>15, <3>2 DEF Tells, Counts
    <3> QED  BY <3>1, <3>2
  <2>2. now.count = Cardinality(T)  BY <1>11, <1>13, <2>1
  <2>3. Cardinality({p[1] : p \in T}) = Cardinality({p[1] : p \in S}) + 1
    <3> DEFINE F == {p[1] : p \in S}
    <3>1. {p[1] : p \in T} = F \cup {q[1]}  BY DEF T
    <3>2. q[1] \notin F  BY <1>10
    <3>3. IsFiniteSet(F)
      <4> DEFINE g == [p \in S |-> p[1]]
      <4>1. g \in Surjection(S, F)
        <5>1. g \in [S -> F] /\ \A y \in F : \E p \in S : g[p] = y  OBVIOUS
        <5> HIDE DEF g, F
        <5> QED  BY <5>1 DEF Surjection
      <4> HIDE DEF g, F
      <4> QED  BY <1>6, <4>1, FS_Surjection
    <3> HIDE DEF F
    <3> QED  BY <3>1, <3>2, <3>3, FS_AddElement DEF F
  <2>4. now.count = Cardinality({p[1] : p \in T})  BY <1>13, <2>1, <2>3
  <2>5. now.eligible = Cardinality(Good(Q, T))
    <3>1. CASE face.eligible
      <4>1. IsFiniteSet(Good(R, S)) /\ q \notin Good(R, S)
        BY <1>6, <1>10, <1>17, FS_Subset
      <4>2. Cardinality(Good(R, S) \cup {q}) = Cardinality(Good(R, S)) + 1
        BY <4>1, FS_AddElement
      <4> QED  BY <1>13, <1>16, <2>1, <3>1, <4>2
    <3>2. CASE ~face.eligible  BY <1>13, <1>16, <2>1, <3>2
    <3> QED  BY <3>1, <3>2
  <2> QED  BY <2>2, <2>4, <2>5 DEF Counts
<1>19. Times(Q, now, T)
  <2> SUFFICES ASSUME \A p \in T : When(Q, p) >= 0
               PROVE  /\ \A p \in T : When(Q, p) \in now.first..now.last
                      /\ {now.first, now.last} \subseteq {When(Q, p) : p \in T}
    BY DEF Times
  <2>1. q \in T /\ S \subseteq T  BY DEF T
  <2>2. f.pts \in Int /\ f.pts >= 0  BY <1>2, <1>8, <2>1
  <2>3. \A p \in S : When(R, p) >= 0  BY <1>9, <2>1
  <2>4. CASE S = {}
    <3>1. now.first = f.pts /\ now.last = f.pts  BY <1>13, <1>14, <2>2, <2>4
    <3>2. T = {q}  BY <2>4 DEF T
    <3> QED  BY <1>8, <2>2, <3>1, <3>2
  <2>5. CASE S # {}
    <3>1. /\ \A p \in S : When(R, p) \in acc.first..acc.last
          /\ acc.first \in {When(R, p) : p \in S} /\ acc.last \in {When(R, p) : p \in S}
      BY <1>15, <2>3, <2>5 DEF Tells, Times
    <3>2. PICK a \in S, b \in S : acc.first = When(R, a) /\ acc.last = When(R, b)  BY <3>1
    <3>3. \A p \in S : When(R, p) \in Int
      <4>1. \A p \in S : R[p[1]] \in Records  BY <1>6 DEF Located
      <4> QED  BY <4>1 DEF When, Records
    <3>4. acc.first \in Int /\ acc.last \in Int /\ acc.first >= 0
      BY <2>3, <3>2, <3>3
    <3>5. /\ now.first \in Int /\ now.last \in Int /\ now.first <= acc.first
          /\ now.first <= f.pts /\ now.last >= acc.last /\ now.last >= f.pts
      BY <1>13, <2>2, <3>4
    <3>6. \A p \in S : When(Q, p) \in now.first..now.last
      <4>1. \A p \in S : When(Q, p) \in acc.first..acc.last /\ When(Q, p) \in Int
        BY <1>9, <3>1, <3>3
      <4> QED  BY <3>4, <3>5, <4>1
    <3>7. When(Q, q) \in now.first..now.last  BY <1>8, <2>2, <3>5
    <3>8. now.first \in {f.pts, acc.first} /\ now.last \in {f.pts, acc.last}  BY <1>13
    <3>9. {f.pts, acc.first, acc.last} \subseteq {When(Q, p) : p \in T}
      BY <1>8, <1>9, <2>1, <3>2
    <3> QED  BY <3>6, <3>7, <3>8, <3>9 DEF T
  <2> QED  BY <2>4, <2>5
<1>20. Shows(Q, now, T)
  <2> HIDE DEF Better
  <2>1. \A p \in Good(R, S) : Shot(Q, p) = Shot(R, p) /\ Shot(R, p) \in Shots
    <3> SUFFICES ASSUME NEW p \in Good(R, S) PROVE Shot(Q, p) = Shot(R, p) /\ Shot(R, p) \in Shots
      OBVIOUS
    <3>1. p \in S  BY <1>17
    <3>2. R[p[1]] \in Records /\ p[2] \in 1..Len(R[p[1]].faces) /\ p[2] \in Nat \ {0}
      BY <1>6, <3>1 DEF Located
    <3>3. R[p[1]].pts \in Int /\ R[p[1]].faces \in Seq(FoundFaces)  BY <3>2 DEF Records
    <3>4. R[p[1]].faces[p[2]] \in FoundFaces  BY <3>2, <3>3
    <3>5. Shot(R, p) \in Shots  BY <3>2, <3>3, <3>4 DEF Shot, Look, When, Shots, FoundFaces
    <3> QED  BY <1>9, <3>1, <3>5
  <2>2. /\ Good(R, S) = {} <=> acc.picture = NoPicture
        /\ Good(R, S) # {} =>
              /\ acc.picture \in {Shot(R, p) : p \in Good(R, S)}
              /\ \A p \in Good(R, S) : ~Better(Shot(R, p), acc.picture)
    <3>1. CASE S = {}  BY <1>14, <1>17, <3>1
    <3>2. CASE S # {}  BY <1>15, <3>2 DEF Tells, Shows
    <3> QED  BY <3>1, <3>2
  <2>3. Good(R, S) # {} => acc.picture \in Shots  BY <2>1, <2>2
  <2>4. new # NoPicture  BY <1>5, BetterOrder
  <2>5. CASE ~face.eligible
    <3>1. now.picture = acc.picture /\ Good(Q, T) = Good(R, S)  BY <1>13, <1>16, <2>5
    <3>2. {Shot(Q, p) : p \in Good(R, S)} = {Shot(R, p) : p \in Good(R, S)}  BY <2>1
    <3> QED  BY <2>1, <2>2, <3>1, <3>2 DEF Shows
  <2>6. CASE face.eligible
    <3>1. Good(Q, T) = Good(R, S) \cup {q} /\ q \in Good(Q, T)  BY <1>16, <2>6
    <3>2. \A p \in Good(R, S) : Shot(R, p) \in {Shot(Q, u) : u \in Good(Q, T)}
      BY <2>1, <3>1
    <3>3. new \in {Shot(Q, u) : u \in Good(Q, T)}  BY <1>8, <3>1
    <3>4. CASE Better(new, acc.picture)
      <4>1. now.picture = new  BY <1>13, <2>6, <3>4
      <4>2. ASSUME NEW p \in Good(R, S) PROVE ~Better(Shot(Q, p), new)
        <5>1. Shot(Q, p) = Shot(R, p) /\ Shot(R, p) \in Shots /\ acc.picture \in Shots
                /\ ~Better(Shot(R, p), acc.picture)
          BY <2>1, <2>2, <2>3
        <5> QED  BY <1>5, <3>4, <5>1, BetterOrder
      <4>3. ~Better(new, new)  BY <1>5, BetterOrder
      <4>4. \A p \in Good(Q, T) : ~Better(Shot(Q, p), new)  BY <1>8, <3>1, <4>2, <4>3
      <4> QED  BY <2>4, <3>1, <3>3, <4>1, <4>4 DEF Shows
    <3>5. CASE ~Better(new, acc.picture)
      <4>1. now.picture = acc.picture  BY <1>13, <2>6, <3>5
      <4>2. acc.picture # NoPicture /\ Good(R, S) # {}
        <5>1. acc.picture # NoPicture  BY <3>5 DEF Better
        <5> QED  BY <2>2, <5>1
      <4>3. acc.picture \in {Shot(Q, u) : u \in Good(Q, T)}  BY <2>2, <3>2, <4>2
      <4>4. \A p \in Good(Q, T) : ~Better(Shot(Q, p), acc.picture)
        BY <1>8, <2>1, <2>2, <3>1, <3>5, <4>2
      <4> QED  BY <3>1, <4>1, <4>2, <4>3, <4>4 DEF Shows
    <3> QED  BY <3>4, <3>5
  <2> QED  BY <1>4, <2>5, <2>6
<1>21. Tells(Q, now, T)  BY <1>18, <1>19, <1>20 DEF Tells
<1> QED  BY <1>11, <1>12, <1>21 DEF T, Q, q, now, face

LEMMA UnionMore ==
  ASSUME NEW B, NEW C
  PROVE  UNION (B \cup {C}) = (UNION B) \cup C
<1>1. ASSUME NEW x \in UNION (B \cup {C}) PROVE x \in (UNION B) \cup C
  <2>1. PICK D \in B \cup {C} : x \in D  OBVIOUS
  <2> QED  BY <2>1
<1>2. ASSUME NEW x \in (UNION B) \cup C PROVE x \in UNION (B \cup {C})
  <2>1. CASE x \in C  BY <2>1
  <2>2. CASE x \in UNION B
    <3>1. PICK D \in B : x \in D  BY <2>2
    <3> QED  BY <3>1
  <2> QED  BY <1>2, <2>1, <2>2
<1> QED  BY <1>1, <1>2

LEMMA SeesMore ==
  ASSUME NEW R \in Seq(Records), NEW r \in Records, NEW k
  PROVE  /\ (\A i \in 1..Len(R) : k \notin ToSet(R[i].keys)) => Sees(R, k) = {}
         /\ k \notin ToSet(r.keys) => Sees(Append(R, r), k) = Sees(R, k)
         /\ \A o \in DOMAIN r.keys : r.keys[o] = k =>
              Sees(Append(R, r), k) = Sees(R, k) \cup {<<Len(R) + 1, o>>}
<1> DEFINE Q == Append(R, r)   n == Len(R)
           Of(s, i) == {<<i, o>> : o \in {o \in DOMAIN s.keys : s.keys[o] = k}}
<1>1. /\ n \in Nat /\ Len(Q) = n + 1 /\ Q[n + 1] = r /\ \A i \in 1..n : Q[i] = R[i]
      /\ DOMAIN R = 1..n /\ DOMAIN Q = 1..(n + 1)
  OBVIOUS
<1>2. Sees(R, k) = UNION {Of(R[i], i) : i \in 1..n}
  BY <1>1 DEF Sees
<1> HIDE DEF Q
<1>3. Sees(Q, k) = UNION {Of(Q[i], i) : i \in 1..(n + 1)}
  BY <1>1 DEF Sees
<1>4. 1..(n + 1) = 1..n \cup {n + 1}  BY <1>1
<1>5. \A s, i : k \notin ToSet(s.keys) => Of(s, i) = {}  BY DEF ToSet
<1>6. \A s, i : \A o \in DOMAIN s.keys :
        s.keys[o] = k /\ (\A p \in DOMAIN s.keys : s.keys[p] = s.keys[o] => p = o)
          => Of(s, i) = {<<i, o>>}
  <2> SUFFICES ASSUME NEW s, NEW i, NEW o \in DOMAIN s.keys, s.keys[o] = k,
                      \A p \in DOMAIN s.keys : s.keys[p] = s.keys[o] => p = o
               PROVE  Of(s, i) = {<<i, o>>}
    OBVIOUS
  <2>1. {p \in DOMAIN s.keys : s.keys[p] = k} = {o}  OBVIOUS
  <2> QED  BY <2>1
<1> HIDE DEF Of
<1>7. Sees(Q, k) = Sees(R, k) \cup Of(r, n + 1)
  <2>1. \A i \in 1..n : Of(Q[i], i) = Of(R[i], i)  BY <1>1
  <2> HIDE DEF n
  <2>2. UNION {Of(Q[i], i) : i \in 1..(n + 1)}
          = (UNION {Of(Q[i], i) : i \in 1..n}) \cup Of(Q[n + 1], n + 1)
    <3> DEFINE A == {Of(Q[i], i) : i \in 1..(n + 1)}   B == {Of(Q[i], i) : i \in 1..n}
    <3>1. A = B \cup {Of(Q[n + 1], n + 1)}  BY <1>4
    <3> HIDE DEF A, B
    <3>2. UNION A = (UNION B) \cup Of(Q[n + 1], n + 1)  BY <3>1, UnionMore
    <3> QED  BY <3>2 DEF A, B
  <2>3. {Of(Q[i], i) : i \in 1..n} = {Of(R[i], i) : i \in 1..n}  BY <2>1
  <2> QED  BY <1>1, <1>2, <1>3, <2>2, <2>3
<1>8. ASSUME \A i \in 1..Len(R) : k \notin ToSet(R[i].keys) PROVE Sees(R, k) = {}
  <2>1. \A i \in 1..n : Of(R[i], i) = {}  BY <1>5, <1>8
  <2> QED  BY <1>2, <2>1
<1>9. ASSUME k \notin ToSet(r.keys) PROVE Sees(Q, k) = Sees(R, k)
  BY <1>5, <1>7, <1>9
<1>10. ASSUME NEW o \in DOMAIN r.keys, r.keys[o] = k
       PROVE  Sees(Q, k) = Sees(R, k) \cup {<<n + 1, o>>}
  <2>1. \A p \in DOMAIN r.keys : r.keys[p] = r.keys[o] => p = o
    <3>1. /\ r.keys \in Seq(Nat \ {0})
          /\ \A p, u \in 1..Len(r.keys) : r.keys[p] = r.keys[u] => p = u
      BY DEF Records
    <3>2. DOMAIN r.keys = 1..Len(r.keys)  BY <3>1
    <3> QED  BY <3>1, <3>2
  <2>2. Of(r, n + 1) = {<<n + 1, o>>}  BY <1>6, <1>10, <2>1
  <2> QED  BY <1>7, <2>2
<1> QED  BY <1>8, <1>9, <1>10 DEF Q, n

\* The templates say of each track what the records under its key say.
TemplatesInv ==
  /\ DOMAIN sums = UNION {ToSet(recorded[i].keys) : i \in 1..Len(recorded)}
  /\ \A k \in DOMAIN sums : /\ Sees(recorded, k) # {}
                            /\ Known(recorded, sums[k], Sees(recorded, k))

LEMMA TemplatesTold == TemplatesInv => TracksAgree
<1> SUFFICES ASSUME TemplatesInv PROVE TracksAgree  OBVIOUS
<1>1. ASSUME NEW k \in DOMAIN sums
      PROVE  LET seen == Seen(k)
                 embedded == {p \in seen : Face(p).eligible}
             IN  /\ sums[k].count = Cardinality(seen)
                 /\ sums[k].count = Cardinality({p[1] : p \in seen})
                 /\ sums[k].eligible = Cardinality(embedded)
                 /\ (\A p \in seen : Time(p) >= 0) =>
                       /\ \A p \in seen : Time(p) \in sums[k].first..sums[k].last
                       /\ {sums[k].first, sums[k].last} \subseteq {Time(p) : p \in seen}
                 /\ embedded = {} <=> sums[k].picture = NoPicture
                 /\ embedded # {} =>
                       /\ sums[k].picture \in {Picture(p) : p \in embedded}
                       /\ \A p \in embedded : ~Better(Picture(p), sums[k].picture)
  <2> DEFINE S == Seen(k)   E == {p \in S : Face(p).eligible}
  <2>1. Sees(recorded, k) = S  BY DEF Sees, Seen
  <2>2. Tells(recorded, sums[k], S)  BY <2>1 DEF TemplatesInv, Known
  <2>3. /\ \A p : Look(recorded, p) = Face(p) /\ When(recorded, p) = Time(p)
        /\ \A p : Shot(recorded, p) = Picture(p)
    BY DEF Look, When, Shot, Face, Time, Picture
  <2> HIDE DEF S
  <2>4. Good(recorded, S) = E  BY <2>3 DEF Good
  <2> HIDE DEF E
  <2>5. /\ sums[k].count = Cardinality(S) /\ sums[k].count = Cardinality({p[1] : p \in S})
        /\ sums[k].eligible = Cardinality(E)
    BY <2>2, <2>4 DEF Tells, Counts
  <2>6. (\A p \in S : Time(p) >= 0) =>
           /\ \A p \in S : Time(p) \in sums[k].first..sums[k].last
           /\ {sums[k].first, sums[k].last} \subseteq {Time(p) : p \in S}
    BY <2>2, <2>3 DEF Tells, Times
  <2>7. /\ E = {} <=> sums[k].picture = NoPicture
        /\ E # {} => /\ sums[k].picture \in {Picture(p) : p \in E}
                     /\ \A p \in E : ~Better(Picture(p), sums[k].picture)
    <3> HIDE DEF Better
    <3> QED  BY <2>2, <2>3, <2>4 DEF Tells, Shows
  <2> QED  BY <2>5, <2>6, <2>7 DEF S, E
<1> QED  BY <1>1 DEF TracksAgree, TemplatesInv

LEMMA TemplatesStep ==
  TypeInv /\ TemplatesInv /\ [WorkerNext]_workerVars => TemplatesInv'
<1> SUFFICES ASSUME TypeInv, TemplatesInv, [WorkerNext]_workerVars PROVE TemplatesInv'  OBVIOUS
<1>1. CASE UNCHANGED <<recorded, sums>>  BY <1>1 DEF TemplatesInv
<1>2. CASE TrackFrame
  <2>1. PICK keys, new :
          /\ Numbering(keys, Len(found[1].faces), new) /\ found[1] \in Embedded
          /\ found[1].faces \in Seq(FoundFaces)
          /\ recorded' = Append(recorded, Observation(found[1], keys))
          /\ sums' = Updated(found[1], keys)
    BY <1>2, InHand
  <2> DEFINE f == found[1]   r == Observation(f, keys)   n == Len(recorded)
  <2>2. recorded \in Seq(Records) /\ r \in Records  BY <2>1, RecordedFrame DEF TypeInv, ProcInv
  <2>3. r.keys = keys /\ r.faces = f.faces /\ r.pts = f.pts  BY DEF Observation
  <2> HIDE DEF f, r
  <2>4. keys \in Seq(Nat \ {0}) /\ Len(keys) = Len(f.faces)  BY <2>1 DEF Numbering, f
  <2>5. recorded' = Append(recorded, r) /\ sums' = Updated(f, keys)  BY <2>1 DEF r, f
  <2>6. /\ n \in Nat /\ Len(recorded') = n + 1 /\ recorded'[n + 1] = r
        /\ \A i \in 1..n : recorded'[i] = recorded[i]
    BY <2>2, <2>5
  <2>7. DOMAIN sums' = DOMAIN sums \cup ToSet(keys)  BY <2>5 DEF Updated
  <2>8. DOMAIN sums' = UNION {ToSet(recorded'[i].keys) : i \in 1..Len(recorded')}
    <3>1. DOMAIN sums = UNION {ToSet(recorded[i].keys) : i \in 1..n}  BY DEF TemplatesInv
    <3>2. 1..(n + 1) = 1..n \cup {n + 1}  BY <2>6
    <3> HIDE DEF n
    <3>3. UNION {ToSet(recorded'[i].keys) : i \in 1..(n + 1)}
            = (UNION {ToSet(recorded'[i].keys) : i \in 1..n}) \cup ToSet(recorded'[n + 1].keys)
      <4> DEFINE A == {ToSet(recorded'[i].keys) : i \in 1..(n + 1)}
                 B == {ToSet(recorded'[i].keys) : i \in 1..n}
      <4>1. A = B \cup {ToSet(recorded'[n + 1].keys)}  BY <3>2
      <4> HIDE DEF A, B
      <4>2. UNION A = (UNION B) \cup ToSet(recorded'[n + 1].keys)  BY <4>1, UnionMore
      <4> QED  BY <4>2 DEF A, B
    <3>4. {ToSet(recorded'[i].keys) : i \in 1..n} = {ToSet(recorded[i].keys) : i \in 1..n}
      BY <2>6
    <3> QED  BY <2>3, <2>6, <2>7, <3>1, <3>3, <3>4
  <2>9. ASSUME NEW k \in DOMAIN sums'
        PROVE  /\ Sees(recorded', k) # {}
               /\ Known(recorded', sums'[k], Sees(recorded', k))
    <3>1. CASE k \notin ToSet(keys)
      <4>1. k \in DOMAIN sums /\ sums'[k] = sums[k]  BY <2>5, <2>7, <3>1 DEF Updated
      <4>2. Sees(recorded', k) = Sees(recorded, k)  BY <2>2, <2>3, <2>5, <3>1, SeesMore
      <4>3. /\ Sees(recorded, k) # {} /\ IsFiniteSet(Sees(recorded, k))
            /\ Located(recorded, Sees(recorded, k))
            /\ Tells(recorded, sums[k], Sees(recorded, k))
        BY <4>1 DEF TemplatesInv, Known
      <4>4. /\ Located(Append(recorded, r), Sees(recorded, k))
            /\ Tells(Append(recorded, r), sums[k], Sees(recorded, k))
        BY <2>2, <4>3, OneMore
      <4> QED  BY <2>5, <4>1, <4>2, <4>3, <4>4 DEF Known
    <3>2. CASE k \in ToSet(keys)
      <4> DEFINE o == CHOOSE o \in DOMAIN keys : keys[o] = k
                 acc == IF k \in DOMAIN sums THEN sums[k] ELSE Fresh
                 S == Sees(recorded, k)
      <4>1. o \in DOMAIN keys /\ keys[o] = k
        <5>1. \E p \in DOMAIN keys : keys[p] = k  BY <3>2 DEF ToSet
        <5> QED  BY <5>1
      <4>2. sums'[k] = UpdateTrack(acc, f, f.faces[o], o)
        BY <2>5, <2>7, <3>2 DEF Updated
      <4> HIDE DEF o, acc, S
      <4>3. o \in 1..Len(r.faces)  BY <2>3, <2>4, <4>1
      <4>4. Sees(recorded', k) = S \cup {<<n + 1, o>>}
        BY <2>2, <2>3, <2>5, <4>1, SeesMore DEF S
      <4>5. Known(recorded, acc, S)
        <5>1. CASE k \in DOMAIN sums  BY <5>1 DEF TemplatesInv, acc, S
        <5>2. CASE k \notin DOMAIN sums
          <6>1. \A i \in 1..Len(recorded) : k \notin ToSet(recorded[i].keys)
            BY <5>2 DEF TemplatesInv
          <6>2. S = {}  BY <2>2, <6>1, SeesMore DEF S
          <6>3. IsFiniteSet(S) /\ Located(recorded, S)  BY <6>2, FS_EmptySet DEF Located
          <6> QED  BY <5>2, <6>2, <6>3 DEF Known, acc
        <5> QED  BY <5>1, <5>2
      <4>6. /\ IsFiniteSet(S \cup {<<n + 1, o>>})
            /\ Located(recorded', S \cup {<<n + 1, o>>})
            /\ Tells(recorded', sums'[k], S \cup {<<n + 1, o>>})
        <5>1. /\ IsFiniteSet(S \cup {<<Len(recorded) + 1, o>>})
              /\ Located(Append(recorded, r), S \cup {<<Len(recorded) + 1, o>>})
              /\ Tells(Append(recorded, r), UpdateTrack(acc, f, r.faces[o], o),
                       S \cup {<<Len(recorded) + 1, o>>})
          <6>1. f.pts = r.pts  BY <2>3
          <6> HIDE DEF n
          <6> QED  BY <2>2, <4>3, <4>5, <6>1, FaceCounted
        <5> QED  BY <2>3, <2>5, <4>2, <5>1
      <4> QED  BY <4>4, <4>6 DEF Known
    <3> QED  BY <3>1, <3>2
  <2> QED  BY <2>8, <2>9 DEF TemplatesInv
<1>3. [WorkerNext]_workerVars => TrackFrame \/ UNCHANGED <<recorded, sums>>
  <2>1. UNCHANGED workerVars => UNCHANGED <<recorded, sums>>  BY DEF workerVars, procVars
  <2>2. Probe => UNCHANGED <<recorded, sums>>
    BY DEF Probe, Link, Accept, Unmappable, Push, EndOfStream, ElementFails, procVars
  <2>3. Process => TrackFrame \/ UNCHANGED <<recorded, sums>>
    BY DEF Process, Pop, PopOutOfOrder, Infer, InferFails, Flush
  <2>4. Main => UNCHANGED <<recorded, sums>>
    BY DEF Main, StartPipeline, StartFails, NoVideoPad, Listen, CloseQueue, EndPipeline,
         WriteTemplates, WriteFooter, WriteCrops, Compress, WriteManifest, Finalize,
         FinalizeFails, RemoveOutput, Publish, Return, procVars
  <2> QED  BY <2>1, <2>2, <2>3, <2>4 DEF WorkerNext
<1> QED  BY <1>1, <1>2, <1>3

LEMMA TemplatesInit == WorkerInit => TemplatesInv
<1> SUFFICES ASSUME WorkerInit PROVE TemplatesInv  OBVIOUS
<1>1. recorded = <<>> /\ sums = <<>>  BY DEF WorkerInit
<1>2. Len(<<>>) = 0 /\ 1..0 = {} /\ DOMAIN <<>> = {}  OBVIOUS
<1>3. UNION {ToSet(recorded[i].keys) : i \in 1..Len(recorded)} = {}  BY <1>1, <1>2
<1> QED  BY <1>1, <1>2, <1>3 DEF TemplatesInv

\* What the three threads of the native worker hand to each other is at all
\* times made of frames of the video: a batch is never larger than the engines
\* take, less than a batch is pending, and the output directory holds nothing or
\* what finalize has made.
THEOREM RecordingTypeCorrect == WorkerSpec => []WorkerTypeOK
<1>1. WorkerInit => TypeInv  BY TypeInit
<1>2. TypeInv => WorkerTypeOK  BY TypeTold
<1> QED  BY <1>1, <1>2, TypeKept, PTL DEF WorkerSpec

\* The observations are the accepted frames in their order, each once; the
\* templates say of every track what the observations under its key say; and a
\* vector is the one of the face it is stored with, however the probe, the
\* queue, the batches and main interleave and whatever fails on the way.
THEOREM RecordingsAreTrue == WorkerSpec => []Recordings
<1> DEFINE Inv == TypeInv /\ FlagsInv /\ OrderInv /\ TemplatesInv
<1>1. WorkerInit => Inv  BY TypeInit, FlagsInit, OrderInit, TemplatesInit
<1>2. Inv /\ [WorkerNext]_workerVars => Inv'  BY TypeKept, FlagsStep, OrderStep, TemplatesStep
<1>3. Inv => Recordings  BY TypeTold, OrderTold, TemplatesTold DEF Recordings
<1> QED  BY <1>1, <1>2, <1>3, PTL DEF WorkerSpec

-----------------------------------------------------------------------------
(* The end: what an exit code of 0 says of the recording and of the bundle. *)

\* Frames the processing thread has taken out of the queue and not lost.
Taken == IF proc \in {"pop", "infer"} THEN Popped
         ELSE Len(recorded) + Len(found) + (IF todo = <<>> THEN 0 ELSE Len(todo[1]))

\* Known time stamps of the expected frames do not go back up to the k-th.
Smooth(expected, k) == \A i \in 2..k : ~Regresses(expected[i - 1].pts, expected[i])

\* The assembler remembers the last time stamp it has seen.  Once the loop has
\* left its queue, without a limit and an element that failed, it has seen all.
TakenInv ==
  ~fault /\ ~broken =>
    /\ Taken \in 0..Len(Expected) /\ Smooth(Expected, Taken)
    /\ proc \in {"pop", "infer"} /\ Taken > 0 => previous = Expected[Taken].pts
    /\ proc \in {"flush", "ended"} /\ limit = 0 /\ bus # "error" => Taken = Len(Expected)


LEMMA Together ==
  ASSUME TypeInv
  PROVE  /\ Len(recorded) \in Nat /\ Len(found) \in Nat /\ Len(todo) \in Nat
         /\ Len(pending) \in Nat /\ BatchSize \in Nat /\ Len(todo) * BatchSize \in Nat
         /\ Plan /\ Len(Expected) \in Nat /\ Len(video) \in Nat
<1>1. /\ recorded \in Seq(Records) /\ found \in Seq(Embedded) /\ pending \in Seq(Sent)
      /\ todo \in Seq(Seq(Sent)) /\ VideoInv
  BY DEF TypeInv, ProcInv
<1>2. Len(recorded) \in Nat /\ Len(found) \in Nat /\ Len(pending) \in Nat  BY <1>1
<1>3. Len(todo) \in Nat
  <2> DEFINE S == Seq(Sent)
  <2>1. todo \in Seq(S)  BY <1>1
  <2> HIDE DEF S
  <2> QED  BY <2>1
<1>4. BatchSize \in Nat  BY WorkerAssumption
<1>5. Len(todo) * BatchSize \in Nat
  <2> DEFINE n == Len(todo)
  <2>1. n \in Nat  BY <1>3
  <2> HIDE DEF n
  <2>2. n * BatchSize \in Nat  BY <1>4, <2>1
  <2> QED  BY <2>2 DEF n
<1>6. Plan  BY <1>1, Planned
<1>7. Len(Expected) \in Nat /\ Len(video) \in Nat  BY <1>6 DEF Plan
<1> QED  BY <1>2, <1>3, <1>4, <1>5, <1>6, <1>7

\* A push that does not throw takes the frames on from the last time stamp.
LEMMA SmoothPop ==
  ASSUME TypeInv, OrderInv, TakenInv, Pop, ~fault, ~broken
  PROVE  /\ Popped' \in 0..Len(Expected) /\ Smooth(Expected, Popped')
         /\ Popped' > 0 => previous' = Expected[Popped'].pts
<1> DEFINE y == Presentation(queue[1])   k == Popped   n == Len(y)
<1>1. Advance(y) /\ proc = "pop"  BY PopsNext DEF Pop
<1>2. /\ y \in Seq(Sent) /\ k \in Nat /\ n \in Nat /\ Popped' = k + n
      /\ Behind(Expected, k, y)
  BY <1>1 DEF Advance
<1>3. ~OutOfOrder(previous, y) /\ previous' = IF y = <<>> THEN previous ELSE Last(y).pts
  BY DEF Pop
<1>4. /\ k \in 0..Len(Expected) /\ Smooth(Expected, k)
      /\ k > 0 => previous = Expected[k].pts
  BY <1>1 DEF TakenInv, Taken
<1>5. Len(Expected) \in Nat  BY Together
<1> HIDE DEF y, k, n
<1>6. \A j \in 1..n : k + j \in 1..Len(Expected) /\ y[j].pts = Expected[k + j].pts
  <2> SUFFICES ASSUME NEW j \in 1..n
               PROVE  k + j \in 1..Len(Expected) /\ y[j].pts = Expected[k + j].pts
    OBVIOUS
  <2>1. At(Expected, y[j], k + j)  BY <1>2 DEF Behind, n
  <2> QED  BY <2>1 DEF At, Strip
<1>7. k + n \in 0..Len(Expected)
  <2>1. CASE n = 0  BY <1>2, <1>4, <2>1
  <2>2. CASE n # 0
    <3>1. n \in 1..n  BY <1>2, <2>2
    <3>2. k + n \in 1..Len(Expected)  BY <1>6, <3>1
    <3> QED  BY <1>5, <3>2
  <2> QED  BY <2>1, <2>2
<1>8. \A j \in 1..n : ~Regresses(IF j = 1 THEN previous ELSE y[j - 1].pts, y[j])
  BY <1>3 DEF OutOfOrder, n
<1>9. ASSUME NEW i \in 2..(k + n) PROVE ~Regresses(Expected[i - 1].pts, Expected[i])
  <2>1. CASE i <= k
    <3>1. i \in 2..k  BY <1>2, <2>1
    <3> QED  BY <1>4, <3>1 DEF Smooth
  <2>2. CASE i > k
    <3> DEFINE j == i - k
    <3>1. j \in 1..n /\ k + j = i /\ i \in Nat /\ i >= 2  BY <1>2, <1>9, <2>2
    <3> HIDE DEF j
    <3>2. y[j].pts = Expected[i].pts  BY <1>6, <3>1
    <3>3. ~Regresses(IF j = 1 THEN previous ELSE y[j - 1].pts, y[j])  BY <1>8, <3>1
    <3>4. (IF j = 1 THEN previous ELSE y[j - 1].pts) = Expected[i - 1].pts
      <4>1. CASE j = 1
        <5>1. i - 1 = k /\ k > 0  BY <1>2, <3>1, <4>1
        <5> QED  BY <1>4, <4>1, <5>1
      <4>2. CASE j # 1
        <5>1. j - 1 \in 1..n /\ k + (j - 1) = i - 1  BY <1>2, <3>1, <4>2
        <5>2. y[j - 1].pts = Expected[i - 1].pts  BY <1>6, <5>1
        <5> QED  BY <4>2, <5>2
      <4> QED  BY <4>1, <4>2
    <3> QED  BY <3>2, <3>3, <3>4 DEF Regresses
  <2> QED  BY <1>2, <1>9, <2>1, <2>2
<1>10. k + n > 0 => previous' = Expected[k + n].pts
  <2>1. CASE n = 0
    <3>1. y = <<>>  BY <1>2, <2>1, EmptyList DEF n
    <3> QED  BY <1>2, <1>3, <1>4, <2>1, <3>1
  <2>2. CASE n # 0
    <3>1. y # <<>> /\ Last(y) = y[n]
      <4>1. y # <<>>  BY <1>2, <2>2, EmptyList DEF n
      <4> QED  BY <4>1 DEF Last, n
    <3>2. n \in 1..n  BY <1>2, <2>2
    <3> QED  BY <1>3, <1>6, <3>1, <3>2
  <2> QED  BY <2>1, <2>2
<1> QED  BY <1>2, <1>7, <1>9, <1>10 DEF Smooth, k

\* Once the stream has ended, an empty queue is the end of the video.
LEMMA AllPopped ==
  ASSUME TypeInv, FlagsInv, OrderInv, Flush, ~fault, ~broken, limit = 0, bus # "error"
  PROVE  Popped = Len(Expected)
<1>1. proc = "pop" /\ queue = <<>> /\ closed  BY DEF Flush
<1>2. CounterInv /\ QueueInv  BY DEF OrderInv
<1>3. ~stop
  <2>1. ~(limit > 0)  OBVIOUS
  <2>2. stop \in BOOLEAN  BY DEF TypeInv, ProbeInv
  <2> QED  BY <1>2, <2>1, <2>2 DEF CounterInv
<1>4. bus = "eos" /\ feed = <<>> /\ held = Nothing  BY <1>1, <1>3 DEF FlagsInv
<1>5. PICK q \in 0..Emitted : Waiting(q)  BY <1>1, <1>2 DEF QueueInv
<1>6. Popped = Start(Buffers, q) /\ q + Len(queue) = Emitted
  BY <1>3, <1>4, <1>5 DEF Waiting
<1>7. Len(queue) = 0 /\ Emitted = Len(video) /\ Len(video) \in Nat
  <2>1. Len(<<>>) = 0 /\ Len(video) \in Nat  BY Together
  <2> QED  BY <1>1, <1>4, <2>1 DEF Emitted
<1>8. q = Len(video)
  <2>1. q \in Int  BY <1>5
  <2> QED  BY <1>6, <1>7, <2>1
<1>9. Start(Buffers, Len(Buffers)) = Len(Expected) /\ Len(Buffers) = Len(video)
  BY Together DEF Plan, Laid
<1> QED  BY <1>6, <1>8, <1>9

LEMMA TakenInit == WorkerInit => TakenInv
<1> SUFFICES ASSUME WorkerInit PROVE TakenInv  OBVIOUS
<1>1. TypeInv  BY TypeInit
<1>2. /\ todo = <<>> /\ found = <<>> /\ pending = <<>> /\ recorded = <<>> /\ proc = "pop"
  BY DEF WorkerInit
<1>3. Len(<<>>) = 0 /\ 0 * BatchSize = 0  BY WorkerAssumption
<1>4. Taken = 0  BY <1>2, <1>3 DEF Taken, Popped
<1>5. Len(Expected) \in Nat /\ 2..0 = {}  BY <1>1, Together
<1> QED  BY <1>2, <1>4, <1>5 DEF TakenInv, Smooth

\* A step that takes no frame.
LEMMA TakenSame ==
  ASSUME TypeInv, TakenInv, video' = video, limit' = limit, fault => fault', broken => broken',
         Taken' = Taken, previous' = previous, bus' # "error" => bus # "error",
         proc' \in {"pop", "infer"} => proc \in {"pop", "infer"},
         proc' \in {"flush", "ended"} => proc \in {"flush", "ended"}
  PROVE  TakenInv'
<1>1. Expected' = Expected  BY SameOrder
<1> QED  BY <1>1 DEF TakenInv, Smooth

LEMMA TakenStep ==
  TypeInv /\ FlagsInv /\ OrderInv /\ TakenInv /\ [WorkerNext]_workerVars => TakenInv'
<1> SUFFICES ASSUME TypeInv, FlagsInv, OrderInv, TakenInv, [WorkerNext]_workerVars
             PROVE  TakenInv'
  OBVIOUS
<1>1. /\ Len(recorded) \in Nat /\ Len(found) \in Nat /\ Len(todo) \in Nat
      /\ Len(pending) \in Nat /\ BatchSize \in Nat /\ Len(todo) * BatchSize \in Nat
      /\ Len(Expected) \in Nat
  BY Together
<1>2. CASE UNCHANGED <<video, limit, broken, procVars>> /\ (fault => fault')
             /\ (bus' # "error" => bus # "error")
  <2>1. Taken' = Taken  BY <1>2 DEF Taken, Popped, procVars
  <2> QED  BY <1>2, <2>1, TakenSame DEF procVars
<1>3. CASE PopOutOfOrder \/ InferFails
  BY <1>3 DEF PopOutOfOrder, InferFails, TakenInv
<1>4. CASE Pop
  <2> SUFFICES ASSUME ~fault, ~broken PROVE TakenInv'
    <3>1. fault' = fault /\ broken' = broken  BY <1>4 DEF Pop
    <3> QED  BY <3>1 DEF TakenInv
  <2>1. /\ Popped' \in 0..Len(Expected) /\ Smooth(Expected, Popped')
        /\ Popped' > 0 => previous' = Expected[Popped'].pts
    BY <1>4, SmoothPop
  <2>2. proc' \in {"pop", "infer"} /\ video' = video /\ limit' = limit  BY <1>4 DEF Pop
  <2>3. Expected' = Expected /\ Taken' = Popped'  BY <2>2, SameOrder DEF Taken
  <2> QED  BY <2>1, <2>2, <2>3 DEF TakenInv, Smooth
<1>5. CASE Infer
  <2>1. /\ UNCHANGED <<video, limit, bus, fault, broken, proc, previous, recorded, pending>>
        /\ proc \in {"infer", "flush"} /\ found = <<>>
    BY <1>5 DEF Infer
  <2> SUFFICES ASSUME ~fault PROVE TakenInv'  BY <2>1 DEF TakenInv
  <2>2. /\ proc = "infer" => Popped' = Popped
        /\ todo # <<>> /\ Len(found') = Len(todo[1]) /\ (proc = "flush" => todo' = <<>>)
    BY <1>5, InfersNext
  <2>3. Taken' = Taken
    <3>1. CASE proc = "infer"  BY <2>1, <2>2, <3>1 DEF Taken
    <3>2. CASE proc = "flush"
      <4>1. Taken = Len(recorded) + Len(found) + Len(todo[1])  BY <2>2, <3>2 DEF Taken
      <4>2. Taken' = Len(recorded') + Len(found') + 0  BY <2>1, <2>2, <3>2 DEF Taken
      <4>3. Len(found) = 0 /\ Len(found') \in Nat
        <5>1. TypeInv'  BY <1>5, InferType
        <5>2. Len(found') \in Nat  BY <5>1 DEF TypeInv, ProcInv
        <5> QED  BY <2>1, <5>2
      <4> QED  BY <1>1, <2>1, <2>2, <4>1, <4>2, <4>3
    <3> QED  BY <2>1, <3>1, <3>2
  <2> QED  BY <2>1, <2>3, TakenSame
<1>6. CASE TrackFrame
  <2>1. /\ UNCHANGED <<video, limit, bus, fault, broken, todo, pending, previous>>
        /\ found # <<>> /\ found' = Tail(found) /\ proc \in {"infer", "flush"}
        /\ proc' = IF Len(found) > 1 \/ todo # <<>> THEN proc
                   ELSE IF proc = "flush" THEN "ended" ELSE "pop"
    BY <1>6 DEF TrackFrame, TypeInv, ProcInv
  <2>2. Len(recorded') + Len(found') = Len(recorded) + Len(found)
    <3>1. PICK keys, new :
            /\ Numbering(keys, Len(found[1].faces), new) /\ found[1] \in Embedded
            /\ recorded' = Append(recorded, Observation(found[1], keys))
      BY <1>6, InHand
    <3>2. recorded \in Seq(Records) /\ Observation(found[1], keys) \in Records
      BY <3>1, RecordedFrame DEF TypeInv, ProcInv
    <3>3. Len(recorded') = Len(recorded) + 1  BY <3>1, <3>2
    <3>4. found \in Seq(Embedded)  BY DEF TypeInv, ProcInv
    <3>5. Len(found') = Len(found) - 1  BY <2>1, <3>4
    <3> QED  BY <1>1, <3>3, <3>5
  <2>3. Taken' = Taken
    <3>1. proc' \in {"pop", "infer"} <=> proc \in {"pop", "infer"}  BY <2>1
    <3>2. Popped' = Popped  BY <2>1, <2>2 DEF Popped
    <3> QED  BY <2>1, <2>2, <3>1, <3>2 DEF Taken
  <2> QED  BY <2>1, <2>3, TakenSame
<1>7. CASE Flush
  <2>1. /\ UNCHANGED <<video, limit, bus, fault, broken, found, recorded, previous>>
        /\ proc = "pop" /\ proc' \in {"ended", "flush"}
        /\ todo' = IF pending = <<>> THEN <<>> ELSE <<pending>>
    BY <1>7 DEF Flush, probeVars
  <2>2. todo = <<>> /\ found = <<>> /\ pending \in Seq(Sent)
    BY <2>1 DEF TypeInv, ProcInv
  <2>3. Taken = Len(recorded) + Len(pending) /\ Taken = Popped
    <3>1. Len(<<>>) = 0 /\ 0 * BatchSize = 0  BY <1>1
    <3> QED  BY <1>1, <2>1, <2>2, <3>1 DEF Taken, Popped
  <2>4. Taken' = Len(recorded) + Len(pending)
    <3>1. Len(<<>>) = 0 /\ Len(found') = 0 /\ recorded' = recorded  BY <2>1, <2>2
    <3>2. Taken' = Len(recorded') + Len(found') + (IF todo' = <<>> THEN 0 ELSE Len(todo'[1]))
      BY <2>1 DEF Taken
    <3>3. CASE pending = <<>>
      <4>1. todo' = <<>> /\ Len(pending) = 0  BY <2>1, <3>1, <3>3
      <4> QED  BY <1>1, <3>1, <3>2, <4>1
    <3>4. CASE pending # <<>>
      <4>1. todo' = <<pending>>  BY <2>1, <3>4
      <4>2. todo' # <<>> /\ todo'[1] = pending  BY <4>1
      <4> QED  BY <1>1, <3>1, <3>2, <4>2
    <3> QED  BY <3>3, <3>4
  <2> SUFFICES ASSUME ~fault, ~broken PROVE TakenInv'  BY <2>1 DEF TakenInv
  <2>5. Expected' = Expected  BY <2>1, SameOrder
  <2>6. Taken \in 0..Len(Expected) /\ Smooth(Expected, Taken)  BY DEF TakenInv
  <2>7. limit = 0 /\ bus # "error" => Taken = Len(Expected)
    BY <1>7, <2>3, AllPopped
  <2> QED  BY <2>1, <2>3, <2>4, <2>5, <2>6, <2>7 DEF TakenInv, Smooth
<1>8. CASE Probe \/ UNCHANGED workerVars
  <2>1. /\ UNCHANGED <<video, limit, broken, procVars>> /\ (fault => fault')
        /\ (bus' # "error" => bus # "error")
    BY <1>8 DEF Probe, Link, Accept, Unmappable, Push, EndOfStream, ElementFails, workerVars
  <2> QED  BY <1>2, <2>1
<1>9. CASE Main
  <2>1. UNCHANGED <<video, limit, broken, procVars, fault, bus>>
    BY <1>9 DEF Main, StartPipeline, StartFails, NoVideoPad, Listen, CloseQueue, EndPipeline,
         WriteTemplates, WriteFooter, WriteCrops, Compress, WriteManifest, Finalize,
         FinalizeFails, RemoveOutput, Publish, Return
  <2> QED  BY <1>2, <2>1
<1> QED  BY <1>3, <1>4, <1>5, <1>6, <1>7, <1>8, <1>9 DEF WorkerNext, Process

\* main is past these steps, in one of those named or at its end.
Past(steps) == main \in steps \/ exit \in {"0", "1"}

Both == {"observations", "templates"}
Counted == [frames |-> Len(recorded), templates |-> Cardinality(DOMAIN sums),
            crops |-> Cardinality(Pictured), listed |-> work.crops]
Files(t, f, c, p, m) ==
  [templates |-> t, frames |-> f, crops |-> c, packed |-> p, manifest |-> m]

\* The bundle, file by file as finalize puts it down; nothing is recorded any more.
FilesInv ==
  /\ IsFiniteSet(DOMAIN sums)
  /\ \E t, f, c, p, m : work = Files(t, f, c, p, m)
  /\ Past({"templates", "footer", "crops", "pack", "manifest", "swap", "rename", "verdict"}) =>
       proc = "ended"
  /\ Past({"footer", "crops", "pack", "manifest", "swap", "rename", "verdict"}) =>
       work.templates = [k \in DOMAIN sums |-> Template(sums[k])]
  /\ Past({"crops", "pack", "manifest", "swap", "rename", "verdict"}) =>
       work.frames = Len(recorded)
  /\ Past({"pack", "manifest", "swap", "rename", "verdict"}) =>
       ("crops" \notin torn => work.crops = Pictured)
  /\ Past({"manifest", "swap", "rename", "verdict"}) => work.packed = Both
  /\ Past({"swap", "rename", "verdict"}) => work.manifest = Counted
  /\ Past({"verdict"}) => bundle = work
  /\ exit = "0" => Passes

LEMMA FilesInit == WorkerInit => FilesInv
<1> SUFFICES ASSUME WorkerInit PROVE FilesInv  OBVIOUS
<1>1. sums = <<>> /\ main = "start" /\ exit = "none" /\ work = NotYet  BY DEF WorkerInit
<1>2. DOMAIN <<>> = {} /\ IsFiniteSet({})  BY FS_EmptySet
<1>3. work = Files(<<>>, -1, {}, {}, <<>>)  BY <1>1 DEF NotYet, Files
<1>4. \A steps : "start" \notin steps => ~Past(steps)  BY <1>1 DEF Past
<1> QED  BY <1>1, <1>2, <1>3, <1>4 DEF FilesInv

\* While the processing thread runs, the bundle is as it was opened.
LEMMA FilesProcess == TypeInv /\ FilesInv /\ Process => FilesInv'
<1> SUFFICES ASSUME TypeInv, FilesInv, Process PROVE FilesInv'  OBVIOUS
<1>1. UNCHANGED <<main, exit, work>> /\ exit = "none" /\ proc # "ended"
  <2>1. found # <<>> => proc \in {"infer", "flush"}  BY DEF TypeInv, ProcInv
  <2> QED
    BY <2>1 DEF Process, Pop, PopOutOfOrder, Infer, TrackFrame, InferFails, Flush, Running,
                outVars
<1>2. main \notin {"templates", "footer", "crops", "pack", "manifest", "swap", "rename", "verdict"}
  BY <1>1 DEF FilesInv, Past
<1>3. \E t, f, c, p, m : work' = Files(t, f, c, p, m)
  <2>1. \E t, f, c, p, m : work = Files(t, f, c, p, m)  BY DEF FilesInv
  <2> QED  BY <1>1, <2>1
<1>4. IsFiniteSet(DOMAIN sums')
  <2>1. CASE sums' = sums  BY <2>1 DEF FilesInv
  <2>2. CASE TrackFrame
    <3>1. PICK keys, new :
            Numbering(keys, Len(found[1].faces), new) /\ sums' = Updated(found[1], keys)
      BY <2>2, InHand
    <3>2. DOMAIN sums' = DOMAIN sums \cup ToSet(keys)  BY <3>1 DEF Updated
    <3>3. IsFiniteSet(ToSet(keys))
      <4> DEFINE n == Len(tracks) + new   k == Len(found[1].faces)
      <4>1. /\ keys \in Seq(Nat \ {0}) /\ Len(keys) = k /\ new \in Nat
            /\ \A o \in 1..k : keys[o] <= n
        BY <3>1 DEF Numbering
      <4>2. n \in Nat
        <5>1. tracks \in Seq(Tracklets)  BY DEF TypeInv, ProcInv
        <5>2. Len(tracks) \in Nat  BY <5>1
        <5> QED  BY <4>1, <5>2
      <4> HIDE DEF n, k
      <4>3. ToSet(keys) \subseteq 1..n  BY <4>1, <4>2 DEF ToSet
      <4>4. IsFiniteSet(1..n)  BY <4>2, UpTo
      <4> QED  BY <4>3, <4>4, FS_Subset
    <3>4. IsFiniteSet(DOMAIN sums)  BY DEF FilesInv
    <3> QED  BY <3>2, <3>3, <3>4, FS_Union
  <2>3. TrackFrame \/ sums' = sums
    BY DEF Process, Pop, PopOutOfOrder, Infer, InferFails, Flush
  <2> QED  BY <2>1, <2>2, <2>3
<1>5. ~Past({"templates", "footer", "crops", "pack", "manifest", "swap", "rename", "verdict"})'
  BY <1>1, <1>2 DEF Past
<1>6. /\ ~Past({"footer", "crops", "pack", "manifest", "swap", "rename", "verdict"})'
      /\ ~Past({"crops", "pack", "manifest", "swap", "rename", "verdict"})'
      /\ ~Past({"pack", "manifest", "swap", "rename", "verdict"})'
      /\ ~Past({"manifest", "swap", "rename", "verdict"})'
      /\ ~Past({"swap", "rename", "verdict"})' /\ ~Past({"verdict"})' /\ exit' # "0"
  BY <1>1, <1>2 DEF Past
<1> QED  BY <1>3, <1>4, <1>5, <1>6 DEF FilesInv

\* The other steps of a run put down one part of the bundle each.
LEMMA FilesMain == TypeInv /\ FilesInv /\ Main => FilesInv'
<1> SUFFICES ASSUME TypeInv, FilesInv, Main PROVE FilesInv'  OBVIOUS
<1>1. UNCHANGED <<video, limit, feed, fault, broken, procVars>> /\ exit = "none"
  BY DEF Main, StartPipeline, StartFails, NoVideoPad, Listen, CloseQueue, EndPipeline,
         WriteTemplates, WriteFooter, WriteCrops, Compress, WriteManifest, Finalize,
         FinalizeFails, RemoveOutput, Publish, Return, Running, probeVars
<1>2. /\ UNCHANGED <<recorded, sums, tracks, proc>> /\ Pictured' = Pictured
      /\ Passes' = Passes /\ (work'.crops = work.crops => Counted' = Counted)
  <2>1. UNCHANGED <<recorded, sums, tracks, proc>>  BY <1>1 DEF procVars
  <2>2. Pictured' = Pictured  BY <2>1 DEF Pictured
  <2>3. Detections' = Detections  BY <2>1 DEF Detections
  <2>4. Embeddings' = Embeddings  BY <2>1, <2>3 DEF Embeddings
  <2>5. Statistics' = Statistics  BY <1>1, <2>1, <2>3, <2>4 DEF Statistics
  <2>6. Passes' = Passes  BY <1>1, <2>5 DEF Passes
  <2> QED  BY <2>1, <2>2, <2>6 DEF Counted
<1>3. PICK t, f, c, p, m : work = Files(t, f, c, p, m)  BY DEF FilesInv
<1>4. IsFiniteSet(DOMAIN sums')  BY <1>2 DEF FilesInv
<1>5. \A a, b, d, e, g : /\ Files(a, b, d, e, g).templates = a /\ Files(a, b, d, e, g).frames = b
                         /\ Files(a, b, d, e, g).crops = d /\ Files(a, b, d, e, g).packed = e
                         /\ Files(a, b, d, e, g).manifest = g
  BY DEF Files
<1> DEFINE Early == StartPipeline \/ StartFails \/ NoVideoPad \/ Listen \/ CloseQueue
           Late == FinalizeFails \/ RemoveOutput \/ Publish
           Templates == [k \in DOMAIN sums |-> Template(sums[k])]
<1>6. CASE Early
  <2>1. main' \in {"relock", "linking", "gone", "listen", "join"} /\ exit' \in {"none", "abort"}
        /\ work' = work
    BY <1>1, <1>6 DEF StartPipeline, StartFails, NoVideoPad, Listen, CloseQueue, outVars
  <2> HIDE DEF Early
  <2>2. \A steps : steps \cap {"relock", "linking", "gone", "listen", "join"} = {} => ~Past(steps)'
    BY <2>1 DEF Past
  <2> QED  BY <1>3, <1>4, <2>1, <2>2 DEF FilesInv
<1>7. CASE EndPipeline
  <2>1. main' = "templates" /\ exit' = "none" /\ work' = work /\ proc' = "ended"
    BY <1>1, <1>2, <1>7 DEF EndPipeline, outVars
  <2>2. \A steps : "templates" \notin steps => ~Past(steps)'  BY <2>1 DEF Past
  <2> QED  BY <1>3, <1>4, <2>1, <2>2 DEF FilesInv
<1>8. CASE WriteTemplates
  <2>1. /\ main = "templates" /\ main' = "footer" /\ exit' = "none" /\ torn \subseteq torn'
        /\ work' = [work EXCEPT !.templates = Templates]
    BY <1>1, <1>8 DEF WriteTemplates, Finalize
  <2> HIDE DEF Templates
  <2>2. work' = Files(Templates, f, c, p, m)  BY <1>3, <2>1 DEF Files
  <2>3. \A steps : "footer" \notin steps => ~Past(steps)'  BY <2>1 DEF Past
  <2>4. proc = "ended"  BY <2>1 DEF FilesInv, Past
  <2>5. work'.templates = [k \in DOMAIN sums' |-> Template(sums'[k])]
    BY <1>2, <1>5, <2>2 DEF Templates, Template
  <2>6. exit' # "0" /\ proc' = "ended"  BY <1>2, <2>1, <2>4
  <2> QED  BY <1>4, <2>2, <2>3, <2>5, <2>6 DEF FilesInv
<1>9. CASE WriteFooter
  <2>1. /\ main = "footer" /\ main' = "crops" /\ exit' = "none"
        /\ work' = [work EXCEPT !.frames = Len(recorded)]
    BY <1>1, <1>9 DEF WriteFooter, Finalize
  <2>2. work' = Files(t, Len(recorded), c, p, m)  BY <1>3, <2>1 DEF Files
  <2>3. \A steps : "crops" \notin steps => ~Past(steps)'  BY <2>1 DEF Past
  <2>4. proc = "ended" /\ work.templates = [k \in DOMAIN sums |-> Template(sums[k])]
    BY <2>1 DEF FilesInv, Past
  <2>5. work'.templates = [k \in DOMAIN sums' |-> Template(sums'[k])]
    BY <1>2, <1>3, <1>5, <2>2, <2>4 DEF Template
  <2>6. exit' # "0" /\ proc' = "ended" /\ work'.frames = Len(recorded')
    BY <1>2, <1>5, <2>1, <2>2, <2>4
  <2> QED  BY <1>4, <2>2, <2>3, <2>5, <2>6 DEF FilesInv
<1>10. CASE WriteCrops
  <2>1. /\ main = "crops" /\ main' = "pack" /\ exit' = "none"
        /\ \E left : /\ left # {} => "crops" \in torn'
                     /\ work' = [work EXCEPT !.crops = Pictured \ left]
    BY <1>1, <1>10 DEF WriteCrops, Finalize
  <2>2. PICK left : /\ left # {} => "crops" \in torn'
                    /\ work' = Files(t, f, Pictured \ left, p, m)
    BY <1>3, <2>1 DEF Files
  <2>3. \A steps : "pack" \notin steps => ~Past(steps)'  BY <2>1 DEF Past
  <2>4. /\ proc = "ended" /\ work.templates = [k \in DOMAIN sums |-> Template(sums[k])]
        /\ work.frames = Len(recorded)
    BY <2>1 DEF FilesInv, Past
  <2>5. work'.templates = [k \in DOMAIN sums' |-> Template(sums'[k])]
    BY <1>2, <1>3, <1>5, <2>2, <2>4 DEF Template
  <2>6. /\ exit' # "0" /\ proc' = "ended" /\ work'.frames = Len(recorded')
        /\ "crops" \notin torn' => work'.crops = Pictured'
    BY <1>2, <1>3, <1>5, <2>1, <2>2, <2>4
  <2> QED  BY <1>4, <2>2, <2>3, <2>5, <2>6 DEF FilesInv
<1>11. CASE Compress
  <2>1. /\ main = "pack" /\ main' = "manifest" /\ exit' = "none" /\ torn' = torn
        /\ work' = [work EXCEPT !.packed = Both]
    BY <1>1, <1>11 DEF Compress, Finalize, Both
  <2>2. work' = Files(t, f, c, Both, m)  BY <1>3, <2>1 DEF Files
  <2>3. \A steps : "manifest" \notin steps => ~Past(steps)'  BY <2>1 DEF Past
  <2>4. /\ proc = "ended" /\ work.templates = [k \in DOMAIN sums |-> Template(sums[k])]
        /\ work.frames = Len(recorded) /\ ("crops" \notin torn => work.crops = Pictured)
    BY <2>1 DEF FilesInv, Past
  <2>5. work'.templates = [k \in DOMAIN sums' |-> Template(sums'[k])]
    BY <1>2, <1>3, <1>5, <2>2, <2>4 DEF Template
  <2>6. /\ exit' # "0" /\ proc' = "ended" /\ work'.frames = Len(recorded')
        /\ "crops" \notin torn' => work'.crops = Pictured'
        /\ work'.packed = Both
    BY <1>2, <1>3, <1>5, <2>1, <2>2, <2>4
  <2> QED  BY <1>4, <2>2, <2>3, <2>5, <2>6 DEF FilesInv, Both
<1>12. CASE WriteManifest
  <2>1. /\ main = "manifest" /\ main' = "swap" /\ exit' = "none" /\ torn \subseteq torn'
        /\ work' = [work EXCEPT !.manifest = Counted]
    BY <1>1, <1>12 DEF WriteManifest, Finalize, Counted
  <2>2. work' = Files(t, f, c, p, Counted)  BY <1>3, <1>5, <2>1 DEF Files
  <2>3. \A steps : "swap" \notin steps => ~Past(steps)'  BY <2>1 DEF Past
  <2>4. /\ proc = "ended" /\ work.templates = [k \in DOMAIN sums |-> Template(sums[k])]
        /\ work.frames = Len(recorded) /\ ("crops" \notin torn => work.crops = Pictured)
        /\ work.packed = Both
    BY <2>1 DEF FilesInv, Past
  <2>5. work'.templates = [k \in DOMAIN sums' |-> Template(sums'[k])]
    BY <1>2, <1>3, <1>5, <2>2, <2>4 DEF Template
  <2>6. /\ exit' # "0" /\ proc' = "ended" /\ work'.frames = Len(recorded')
        /\ "crops" \notin torn' => work'.crops = Pictured'
        /\ work'.packed = Both
    BY <1>2, <1>3, <1>5, <2>1, <2>2, <2>4
  <2>7. work'.manifest = Counted'
    <3>1. work'.crops = work.crops  BY <1>3, <1>5, <2>2
    <3> QED  BY <1>2, <1>5, <2>2, <3>1
  <2> QED  BY <1>4, <2>2, <2>3, <2>5, <2>6, <2>7 DEF FilesInv, Both
<1>13. CASE Late
  <2>1. CASE FinalizeFails
    <3>1. main' = "gone" /\ exit' = "abort" /\ work' = work  BY <2>1 DEF FinalizeFails, outVars
    <3>2. \A steps : "gone" \notin steps => ~Past(steps)'  BY <3>1 DEF Past
    <3> QED  BY <1>3, <1>4, <3>1, <3>2 DEF FilesInv
  <2>2. CASE RemoveOutput
    <3>1. main = "swap" /\ main' = "rename" /\ exit' = "none" /\ work' = work /\ torn' = torn
      BY <1>1, <2>2 DEF RemoveOutput
    <3>2. \A steps : "rename" \notin steps => ~Past(steps)'  BY <3>1 DEF Past
    <3>3. /\ proc = "ended" /\ work.templates = [k \in DOMAIN sums |-> Template(sums[k])]
          /\ work.frames = Len(recorded) /\ ("crops" \notin torn => work.crops = Pictured)
          /\ work.packed = Both /\ work.manifest = Counted
      BY <3>1 DEF FilesInv, Past
    <3>4. /\ exit' # "0" /\ proc' = "ended" /\ work'.frames = Len(recorded')
          /\ "crops" \notin torn' => work'.crops = Pictured'
          /\ work'.packed = Both /\ work'.manifest = Counted'
          /\ work'.templates = [k \in DOMAIN sums' |-> Template(sums'[k])]
      BY <1>2, <3>1, <3>3 DEF Template
    <3> QED  BY <1>3, <1>4, <3>1, <3>2, <3>4 DEF FilesInv, Both
  <2>3. CASE Publish
    <3>1. /\ main = "rename" /\ main' = "verdict" /\ exit' = "none" /\ work' = work
          /\ torn' = torn /\ bundle' = work'
      BY <1>1, <2>3 DEF Publish
    <3>3. /\ proc = "ended" /\ work.templates = [k \in DOMAIN sums |-> Template(sums[k])]
          /\ work.frames = Len(recorded) /\ ("crops" \notin torn => work.crops = Pictured)
          /\ work.packed = Both /\ work.manifest = Counted
      BY <3>1 DEF FilesInv, Past
    <3>4. /\ exit' # "0" /\ proc' = "ended" /\ work'.frames = Len(recorded')
          /\ "crops" \notin torn' => work'.crops = Pictured'
          /\ work'.packed = Both /\ work'.manifest = Counted'
          /\ work'.templates = [k \in DOMAIN sums' |-> Template(sums'[k])]
      BY <1>2, <3>1, <3>3 DEF Template
    <3> QED  BY <1>3, <1>4, <3>1, <3>4 DEF FilesInv, Both
  <2> QED  BY <1>13, <2>1, <2>2, <2>3
<1>14. CASE Return
  <2>1. /\ main = "verdict" /\ exit' \in {"0", "1"} /\ work' = work /\ torn' = torn
        /\ bundle' = bundle /\ (exit' = "0" => Passes')
    BY <1>2, <1>14 DEF Return, outVars
  <2>2. /\ proc = "ended" /\ work.templates = [k \in DOMAIN sums |-> Template(sums[k])]
        /\ work.frames = Len(recorded) /\ ("crops" \notin torn => work.crops = Pictured)
        /\ work.packed = Both /\ work.manifest = Counted /\ bundle = work
    BY <2>1 DEF FilesInv, Past
  <2>3. /\ proc' = "ended" /\ work'.frames = Len(recorded')
        /\ "crops" \notin torn' => work'.crops = Pictured'
        /\ work'.packed = Both /\ work'.manifest = Counted'
        /\ work'.templates = [k \in DOMAIN sums' |-> Template(sums'[k])]
        /\ bundle' = work'
    BY <1>2, <2>1, <2>2 DEF Template
  <2> QED  BY <1>3, <1>4, <2>1, <2>3 DEF FilesInv, Both
<1>15. Early \/ EndPipeline \/ WriteTemplates \/ WriteFooter \/ WriteCrops \/ Compress
       \/ WriteManifest \/ Late \/ Return
  BY DEF Main
<1> HIDE DEF Early, Late
<1> QED
  BY <1>6, <1>7, <1>8, <1>9, <1>10, <1>11, <1>12, <1>13, <1>14, <1>15

LEMMA FilesStep == TypeInv /\ FilesInv /\ [WorkerNext]_workerVars => FilesInv'
<1> SUFFICES ASSUME TypeInv, FilesInv, [WorkerNext]_workerVars PROVE FilesInv'  OBVIOUS
<1>1. CASE UNCHANGED workerVars
  <2>1. UNCHANGED <<fault, broken, video, feed, limit, recorded, sums, tracks, proc, main, exit,
                    work, torn, bundle>>
    BY <1>1 DEF workerVars, probeVars, procVars, outVars
  <2>2. Pictured' = Pictured  BY <2>1 DEF Pictured
  <2>3. Detections' = Detections  BY <2>1 DEF Detections
  <2>4. Embeddings' = Embeddings  BY <2>1, <2>3 DEF Embeddings
  <2>5. Statistics' = Statistics  BY <2>1, <2>3, <2>4 DEF Statistics
  <2>6. Passes' = Passes  BY <2>1, <2>5 DEF Passes
  <2> QED  BY <2>1, <2>2, <2>6 DEF FilesInv, Past, Both, Counted, Template
<1>2. CASE Probe
  <2>1. UNCHANGED <<recorded, sums, proc, main, exit, work, torn, bundle>> /\ exit = "none"
    BY <1>2 DEF Probe, Link, Accept, Unmappable, Push, EndOfStream, ElementFails, Running,
                Playing, procVars, outVars
  <2>2. Pictured' = Pictured  BY <2>1 DEF Pictured
  <2>3. exit' # "0"  BY <2>1
  <2> QED  BY <2>1, <2>2, <2>3 DEF FilesInv, Past, Both, Counted, Template
<1>3. CASE Process  BY <1>3, FilesProcess
<1>4. CASE Main  BY <1>4, FilesMain
<1> QED  BY <1>1, <1>2, <1>3, <1>4 DEF WorkerNext

\* No more frames are expected than the limit lets through.
LEMMA Limited ==
  ASSUME TypeInv, limit > 0
  PROVE  Len(Expected) <= limit
<1> DEFINE len == Len(video)
           T == {b \in 0..len : Start(Buffers, b) <= limit /\ Start(Buffers, b) <= Start(video, b)}
<1>1. Plan /\ len \in Nat /\ limit \in Nat  BY Together DEF TypeInv, VideoInv
<1>2. /\ Len(Buffers) = len /\ Start(Buffers, 0) = 0 /\ Start(video, 0) = 0
      /\ Start(Buffers, len) = Len(Expected)
      /\ \A b \in 0..len : Start(Buffers, b) \in Nat /\ Start(video, b) \in Nat
  BY <1>1 DEF Plan, Laid
<1>3. ASSUME NEW b \in 1..len
      PROVE  /\ Start(Buffers, b) = Start(Buffers, b - 1) + Cut(b)
             /\ Start(video, b) = Start(video, b - 1) + Len(video[b])
             /\ Len(video[b]) \in Nat /\ Cut(b) \in 0..Len(video[b])
  BY <1>1, <1>2 DEF Plan, Laid
<1>4. 0 \in T  BY <1>1, <1>2
<1>5. ASSUME NEW n \in T, n < len PROVE n + 1 \in T
  <2> DEFINE b == n + 1
  <2>1. b \in 1..len /\ n \in 0..len /\ n = b - 1 /\ b \in 0..len  BY <1>1, <1>5
  <2>2. Start(Buffers, n) <= limit /\ Start(Buffers, n) <= Start(video, n)  OBVIOUS
  <2>3. /\ Start(Buffers, b) = Start(Buffers, n) + Cut(b)
        /\ Start(video, b) = Start(video, n) + Len(video[b])
        /\ Len(video[b]) \in Nat /\ Cut(b) \in 0..Len(video[b])
    BY <1>3, <2>1
  <2>4. Start(Buffers, n) \in Nat /\ Start(video, n) \in Nat  BY <1>2, <2>1
  <2>5. Cut(b) = IF limit = 0 \/ limit >= Start(video, n) + Len(video[b])
                 THEN Len(video[b])
                 ELSE IF limit > Start(video, n) THEN limit - Start(video, n) ELSE 0
    BY <2>1 DEF Cut
  <2> HIDE DEF b
  <2>6. Start(Buffers, b) <= Start(video, b)  BY <2>2, <2>3, <2>4
  <2> DEFINE out == Start(Buffers, n)   in == Start(video, n)   size == Len(video[b])
  <2>7. /\ out \in Nat /\ in \in Nat /\ size \in Nat /\ limit \in Nat
        /\ out <= limit /\ out <= in /\ Start(Buffers, b) = out + Cut(b)
        /\ Cut(b) = IF limit = 0 \/ limit >= in + size THEN size
                    ELSE IF limit > in THEN limit - in ELSE 0
    BY <1>1, <2>2, <2>3, <2>4, <2>5
  <2> HIDE DEF out, in, size
  <2>8. Start(Buffers, b) <= limit
    <3>1. CASE limit >= in + size
      <4>1. Cut(b) = size  BY <2>7, <3>1
      <4> QED  BY <2>7, <3>1, <4>1
    <3>2. CASE limit > in /\ ~(limit >= in + size)
      <4>1. Cut(b) = limit - in  BY <2>7, <3>2
      <4> QED  BY <2>7, <3>2, <4>1
    <3>3. CASE ~(limit > in) /\ ~(limit >= in + size)
      <4>1. Cut(b) = 0  BY <2>7, <3>3
      <4> QED  BY <2>7, <4>1
    <3> QED  BY <3>1, <3>2, <3>3
  <2> QED  BY <2>1, <2>6, <2>8 DEF b
<1>6. T \in SUBSET (0..len)  OBVIOUS
<1>7. len \in T
  <2> HIDE DEF T
  <2>1. \A n \in 0..len : n \in T  BY <1>1, <1>4, <1>5, <1>6, Climb
  <2>2. len \in 0..len  BY <1>1
  <2> QED  BY <2>1, <2>2
<1> QED  BY <1>2, <1>7

\* A template has a picture just when a face under its key was embedded.
LEMMA PicturesTold ==
  ASSUME TypeInv, TemplatesInv
  PROVE  Pictured = UNION {{recorded[i].keys[o] :
                                o \in {o \in DOMAIN recorded[i].faces :
                                         recorded[i].faces[o].eligible}} :
                               i \in 1..Len(recorded)}
<1> DEFINE R == recorded
           Here(i) == {R[i].keys[o] : o \in {o \in DOMAIN R[i].faces : R[i].faces[o].eligible}}
<1>1. R \in Seq(Records) /\ DOMAIN R = 1..Len(R)  BY DEF TypeInv, ProcInv
<1>2. ASSUME NEW i \in 1..Len(R) PROVE DOMAIN R[i].keys = DOMAIN R[i].faces
  <2>1. R[i] \in Records  BY <1>1
  <2>2. /\ R[i].keys \in Seq(Nat \ {0}) /\ R[i].faces \in Seq(FoundFaces)
        /\ Len(R[i].keys) = Len(R[i].faces)
    BY <2>1 DEF Records
  <2>3. DOMAIN R[i].keys = 1..Len(R[i].keys) /\ DOMAIN R[i].faces = 1..Len(R[i].faces)
    BY <2>2
  <2> QED  BY <2>2, <2>3
<1>3. ASSUME NEW k \in DOMAIN sums
      PROVE  Good(R, Sees(R, k)) = {} <=> sums[k].picture = NoPicture
  <2>1. Shows(R, sums[k], Sees(R, k))  BY DEF TemplatesInv, Known, Tells
  <2> QED  BY <2>1 DEF Shows
<1>4. ASSUME NEW k \in Pictured PROVE \E i \in 1..Len(R) : k \in Here(i)
  <2>1. k \in DOMAIN sums /\ sums[k].picture # NoPicture  BY DEF Pictured
  <2>2. PICK p \in Sees(R, k) : Look(R, p).eligible  BY <1>3, <2>1 DEF Good
  <2>3. PICK i \in 1..Len(R) : p \in {<<i, o>> : o \in {o \in DOMAIN R[i].keys : R[i].keys[o] = k}}
    BY <1>1 DEF Sees
  <2>4. PICK o \in DOMAIN R[i].keys : R[i].keys[o] = k /\ p = <<i, o>>  BY <2>3
  <2>5. R[i].faces[o].eligible  BY <2>2, <2>4 DEF Look
  <2> QED  BY <1>2, <2>4, <2>5
<1>5. ASSUME NEW i \in 1..Len(R), NEW k \in Here(i) PROVE k \in Pictured
  <2>1. PICK o \in DOMAIN R[i].faces : R[i].faces[o].eligible /\ k = R[i].keys[o]  OBVIOUS
  <2>2. o \in DOMAIN R[i].keys  BY <1>2, <2>1
  <2>3. k \in ToSet(R[i].keys)  BY <2>1, <2>2 DEF ToSet
  <2>4. k \in DOMAIN sums  BY <2>3 DEF TemplatesInv
  <2>5. <<i, o>> \in Sees(R, k)
    <3>1. <<i, o>> \in {<<i, x>> : x \in {x \in DOMAIN R[i].keys : R[i].keys[x] = k}}
      BY <2>1, <2>2
    <3> QED  BY <1>1, <3>1 DEF Sees
  <2>6. Look(R, <<i, o>>).eligible  BY <2>1 DEF Look
  <2>7. <<i, o>> \in Good(R, Sees(R, k))  BY <2>5, <2>6 DEF Good
  <2>8. sums[k].picture # NoPicture  BY <1>3, <2>4, <2>7
  <2> QED  BY <2>4, <2>8 DEF Pictured
<1>6. UNION {Here(i) : i \in 1..Len(R)} \subseteq Pictured  BY <1>5
<1>7. Pictured \subseteq UNION {Here(i) : i \in 1..Len(R)}  BY <1>4
<1> QED  BY <1>6, <1>7

\* What a run that ends with 0 has seen.
LEMMA Passed ==
  ASSUME TypeInv, FlagsInv, FilesInv, exit = "0"
  PROVE  /\ ~fault /\ ~broken /\ (limit > 0 => Len(recorded) = limit)
         /\ Embeddings # {} /\ Detections # {}
         /\ proc = "ended" /\ todo = <<>> /\ found = <<>>
<1>1. Passes /\ Past({"verdict"})  BY DEF FilesInv, Past
<1>2. /\ ~fault /\ ~broken /\ (limit > 0 => Len(recorded) = limit)
      /\ Cardinality(Embeddings) > 0 /\ Cardinality(Detections) > 0
  BY <1>1 DEF Passes, Statistics
<1>3. Embeddings # {} /\ Detections # {}
  <2>1. Cardinality({}) = 0  BY FS_EmptySet
  <2>2. Cardinality(Embeddings) # 0 /\ Cardinality(Detections) # 0  BY <1>2
  <2> QED  BY <2>1, <2>2
<1>4. proc = "ended"
  <2>1. Past({"templates", "footer", "crops", "pack", "manifest", "swap", "rename", "verdict"})
    BY DEF Past
  <2> QED  BY <2>1 DEF FilesInv
<1>5. todo = <<>>  BY <1>2, <1>4 DEF FlagsInv
<1>6. found = <<>>  BY <1>4 DEF TypeInv, ProcInv
<1> QED  BY <1>2, <1>3, <1>4, <1>5, <1>6

\* The bundle such a run leaves, file by file.
LEMMA Delivered ==
  ASSUME FilesInv, exit = "0"
  PROVE  /\ bundle.templates = [k \in DOMAIN sums |-> Template(sums[k])]
         /\ DOMAIN bundle.templates = DOMAIN sums
         /\ bundle.frames = Len(recorded) /\ bundle.packed = Both
         /\ "crops" \notin torn => bundle.crops = Pictured
         /\ bundle.manifest.frames = Len(recorded)
         /\ bundle.manifest.templates = Cardinality(DOMAIN sums)
         /\ bundle.manifest.crops = Cardinality(Pictured)
         /\ bundle.manifest.listed = bundle.crops
         /\ bundle = work /\ bundle \notin {Empty, Absent}
<1>1. \A steps : Past(steps)  BY DEF Past
<1>2. /\ bundle = work /\ work.templates = [k \in DOMAIN sums |-> Template(sums[k])]
      /\ work.frames = Len(recorded) /\ ("crops" \notin torn => work.crops = Pictured)
      /\ work.packed = Both /\ work.manifest = Counted
  BY <1>1 DEF FilesInv
<1>3. /\ work.manifest.frames = Len(recorded)
      /\ work.manifest.templates = Cardinality(DOMAIN sums)
      /\ work.manifest.crops = Cardinality(Pictured)
      /\ work.manifest.listed = work.crops
  BY <1>2 DEF Counted
<1>4. work \notin {Empty, Absent}
  <2>1. PICK t, f, c, p, m : work = Files(t, f, c, p, m)  BY DEF FilesInv
  <2>2. "frames" \in DOMAIN work /\ "packed" \in DOMAIN work  BY <2>1 DEF Files
  <2>3. DOMAIN <<"empty">> = 1..1 /\ DOMAIN <<>> = {}  OBVIOUS
  <2>4. ~("frames" \in 1..1 /\ "packed" \in 1..1)
    <3>1. "frames" # "packed" /\ \A x \in 1..1 : x = 1  OBVIOUS
    <3> QED  BY <3>1
  <2> QED  BY <2>2, <2>3, <2>4 DEF Empty, Absent
<1>5. DOMAIN work.templates = DOMAIN sums  BY <1>2
<1> QED  BY <1>2, <1>3, <1>4, <1>5

LEMMA WholeTold ==
  ASSUME TypeInv, TemplatesInv, FilesInv, exit = "0", torn = {}
  PROVE  BundleIsWhole
<1>1. DOMAIN sums = UNION {ToSet(recorded[i].keys) : i \in 1..Len(recorded)}
  BY DEF TemplatesInv
<1>2. "crops" \notin torn  OBVIOUS
<1>3. /\ DOMAIN bundle.templates = DOMAIN sums
      /\ bundle.frames = Len(recorded) /\ bundle.packed = {"observations", "templates"}
      /\ bundle.crops = Pictured
      /\ bundle.manifest.frames = Len(recorded)
      /\ bundle.manifest.templates = Cardinality(DOMAIN sums)
      /\ bundle.manifest.crops = Cardinality(bundle.crops)
      /\ bundle.manifest.listed = bundle.crops
      /\ bundle \notin {Empty, Absent}
  BY <1>2, Delivered DEF Both
<1>4. Pictured = UNION {{recorded[i].keys[o] :
                                o \in {o \in DOMAIN recorded[i].faces :
                                         recorded[i].faces[o].eligible}} :
                               i \in 1..Len(recorded)}
  BY PicturesTold
<1> QED  BY <1>1, <1>3, <1>4 DEF BundleIsWhole

\* Every expected frame is recorded.
LEMMA AllRecorded ==
  ASSUME TypeInv, FlagsInv, OrderInv, TakenInv, FilesInv, exit = "0", bus # "error"
  PROVE  /\ Written = Expected /\ Len(Expected) = Len(recorded)
         /\ Smooth(Expected, Len(recorded))
<1> DEFINE r == Len(recorded)
<1>1. /\ ~fault /\ ~broken /\ (limit > 0 => r = limit)
      /\ proc = "ended" /\ todo = <<>> /\ found = <<>>
  BY Passed
<1>2. /\ recorded \in Seq(Records) /\ r \in Nat /\ limit \in Nat
      /\ Expected \in Seq(Plain) /\ Len(Expected) \in Nat
  BY Together DEF TypeInv, ProcInv, VideoInv, Plan
<1>3. Taken = r
  <2>1. Taken = r + Len(found) + 0  BY <1>1 DEF Taken
  <2>2. Len(found) = 0  BY <1>1
  <2> QED  BY <1>2, <2>1, <2>2
<1>4. \A i \in 1..r : i \in 1..Len(Expected) /\ Strip(recorded[i]) = Expected[i]
  <2>1. Behind(Expected, 0, recorded)  BY <1>1 DEF OrderInv, LineInv
  <2>2. \A i \in 1..r : 0 + i = i  BY <1>2
  <2>3. \A i \in 1..r : At(Expected, recorded[i], i)  BY <2>1, <2>2 DEF Behind
  <2> QED  BY <2>3 DEF At
<1> HIDE DEF r
<1>5. Len(Expected) = r
  <2>1. CASE limit = 0  BY <1>1, <1>3, <2>1 DEF TakenInv
  <2>2. CASE limit > 0
    <3>1. Len(Expected) <= r  BY <1>1, <2>2, Limited
    <3>2. r # 0 => r \in 1..r  BY <1>2
    <3>3. r <= Len(Expected)  BY <1>2, <1>4, <3>2
    <3> QED  BY <1>2, <3>1, <3>3
  <2> QED  BY <1>2, <2>1, <2>2
<1>6. Written = [i \in 1..r |-> Strip(recorded[i])]  BY DEF Written, Strip, r
<1>7. Expected = [i \in 1..r |-> Expected[i]]  BY <1>2, <1>5
<1>8. Written = Expected  BY <1>4, <1>6, <1>7
<1>9. Smooth(Expected, r)  BY <1>1, <1>3 DEF TakenInv
<1> QED  BY <1>5, <1>8, <1>9 DEF r

LEMMA ZeroTold ==
  TypeInv /\ FlagsInv /\ OrderInv /\ TakenInv /\ TemplatesInv /\ FilesInv => ZeroMeansWhole
<1> SUFFICES ASSUME TypeInv, FlagsInv, OrderInv, TakenInv, TemplatesInv, FilesInv,
                    exit = "0", bus # "error"
             PROVE  /\ Written = Expected
                    /\ \A i \in 2..Len(recorded) : ~Regresses(recorded[i - 1].pts, recorded[i])
                    /\ torn = {} => BundleIsWhole
  BY DEF ZeroMeansWhole
<1> DEFINE r == Len(recorded)
<1>1. Written = Expected /\ Len(Expected) = r /\ Smooth(Expected, r) /\ r \in Nat
  BY AllRecorded, Together
<1>2. \A i \in 1..r : Expected[i].pts = recorded[i].pts
  <2>1. Written = [i \in 1..r |-> Strip(recorded[i])]  BY DEF Written, Strip
  <2>2. ASSUME NEW i \in 1..r PROVE Expected[i].pts = recorded[i].pts
    <3>1. Expected[i] = Strip(recorded[i])  BY <1>1, <2>1
    <3> QED  BY <3>1 DEF Strip
  <2> QED  BY <2>2
<1>3. ASSUME NEW i \in 2..r PROVE ~Regresses(recorded[i - 1].pts, recorded[i])
  <2>1. i \in 1..r /\ i - 1 \in 1..r  BY <1>1
  <2>2. ~Regresses(Expected[i - 1].pts, Expected[i])  BY <1>1 DEF Smooth
  <2> QED  BY <1>2, <2>1, <2>2 DEF Regresses
<1>4. torn = {} => BundleIsWhole  BY WholeTold
<1> QED  BY <1>1, <1>3, <1>4

\* The inductive invariant of the native worker.
NativeInv == /\ TypeInv /\ FlagsInv /\ OrderInv /\ TakenInv /\ TemplatesInv /\ FilesInv

LEMMA NativeInvInit == WorkerInit => NativeInv
BY TypeInit, FlagsInit, OrderInit, TakenInit, TemplatesInit, FilesInit DEF NativeInv

LEMMA NativeInvStep == NativeInv /\ [WorkerNext]_workerVars => NativeInv'
BY TypeKept, FlagsStep, OrderStep, TakenStep, TemplatesStep, FilesStep DEF NativeInv

\* A run whose exit code is 0 on a stream that ended has recorded every frame of
\* the video, or --max-frames of them, in presentation order, and unless a full
\* disk cut a file short its bundle says the same in footer, templates, pictures
\* and manifest, whatever the interleaving of the threads and whatever failed.
THEOREM ZeroIsWhole == WorkerSpec => []ZeroMeansWhole
<1>1. NativeInv => ZeroMeansWhole  BY ZeroTold DEF NativeInv
<1> QED  BY <1>1, NativeInvInit, NativeInvStep, PTL DEF WorkerSpec

-----------------------------------------------------------------------------
(* The Python worker: what it takes from a bundle.                         *)

\* What it has opened and read so far.
BundleInv ==
  /\ stage \in {"open", "read", "repack", "reopen", "taken"} => exit = "0"
  /\ stage \in {"read", "repack", "reopen", "taken"} => known = DOMAIN sums
  /\ stage \in {"repack", "reopen", "taken"} => read \in FramesRead

\* The frames read are the first of the recorded ones, all of them and the
\* footer when the file is whole.
LEMMA ReadTold ==
  ASSUME recorded \in Seq(Records), read \in FramesRead
  PROVE  /\ Len(read) \in Nat
         /\ "observations" \in torn => Len(read) <= Len(recorded)
         /\ "observations" \notin torn =>
              Len(read) = Len(recorded) + 1 /\ Last(read) = FooterFrame
         /\ \A i \in 1..Len(read) : \/ i \in 1..Len(recorded) /\ read[i] = Message(i)
                                    \/ i = Len(recorded) + 1 /\ read[i] = FooterFrame
<1> DEFINE r == Len(recorded)   U == {Message(i) : i \in 1..r} \cup {FooterFrame}
<1>1. r \in Nat  OBVIOUS
<1>2. Messages \in Seq(U) /\ Len(Messages) = r
  <2>1. Messages = [i \in 1..r |-> Message(i)]  BY DEF Messages
  <2>2. Messages \in [1..r -> U]  BY <2>1
  <2> HIDE DEF U, r
  <2> QED  BY <1>1, <2>2, ListOf
<1>3. \A i \in 1..r : Messages[i] = Message(i)  BY DEF Messages
<1>4. FooterFrame \in U  OBVIOUS
<1> HIDE DEF r, U
<1>5. CASE "observations" \notin torn
  <2>1. read = Append(Messages, FooterFrame)  BY <1>5 DEF FramesRead
  <2>2. /\ Len(read) = r + 1 /\ read[r + 1] = FooterFrame
        /\ \A i \in 1..r : read[i] = Messages[i]
    BY <1>1, <1>2, <1>4, <2>1
  <2>3. Last(read) = FooterFrame  BY <2>2 DEF Last
  <2>4. \A i \in 1..(r + 1) : i \in 1..r \/ i = r + 1  BY <1>1
  <2> QED  BY <1>1, <1>3, <1>5, <2>2, <2>3, <2>4 DEF r
<1>6. CASE "observations" \in torn
  <2>1. PICK n \in 0..r : read = SubSeq(Messages, 1, n)  BY <1>2, <1>6 DEF FramesRead
  <2>2. Len(read) = n /\ \A i \in 1..n : read[i] = Messages[i]  BY <1>1, <1>2, <2>1
  <2>3. n \in Nat /\ n <= r /\ \A i \in 1..n : i \in 1..r  BY <1>1
  <2> QED  BY <1>3, <1>6, <2>2, <2>3 DEF r
<1> QED  BY <1>5, <1>6

\* A bundle that is opened has templates: with none of them its manifest would
\* count no picture, and a run that ends with 0 has embedded a face.
LEMMA OpenedAll ==
  ASSUME NativeInv, exit = "0", NEW keys \in TemplatesRead, keys # Unreadable, CountsValid(keys)
  PROVE  keys = DOMAIN sums
<1>1. TypeInv /\ FlagsInv /\ TemplatesInv /\ FilesInv  BY DEF NativeInv
<1>2. CASE "templates" \notin torn
  <2>1. keys = DOMAIN bundle.templates  BY <1>2 DEF TemplatesRead
  <2> QED  BY <1>1, <2>1, Delivered
<1>3. CASE "templates" \in torn
  <2>1. keys = {}  BY <1>3 DEF TemplatesRead
  <2>2. {k \in keys : bundle.templates[k].picture # NoPicture} = {}  BY <2>1
  <2>3. bundle.manifest.crops = 0
    <3>1. Cardinality({}) = 0  BY FS_EmptySet
    <3> QED  BY <2>2, <3>1 DEF CountsValid
  <2>4. Cardinality(Pictured) = 0  BY <1>1, <2>3, Delivered
  <2>5. IsFiniteSet(Pictured)
    <3>1. Pictured \subseteq DOMAIN sums /\ IsFiniteSet(DOMAIN sums)
      BY <1>1 DEF Pictured, FilesInv
    <3> QED  BY <3>1, FS_Subset
  <2>6. Pictured = {}  BY <2>4, <2>5, FS_EmptySet
  <2>7. PICK i \in Detections : \E o \in 1..Len(recorded[i].faces) : recorded[i].faces[o].eligible
    BY <1>1, Passed DEF Embeddings
  <2>8. PICK o \in 1..Len(recorded[i].faces) : recorded[i].faces[o].eligible  BY <2>7
  <2>9. i \in 1..Len(recorded) /\ o \in DOMAIN recorded[i].faces
    <3>1. i \in 1..Len(recorded) /\ recorded \in Seq(Records)
      BY <1>1 DEF Detections, TypeInv, ProcInv
    <3>2. recorded[i] \in Records  BY <3>1
    <3>3. recorded[i].faces \in Seq(FoundFaces)  BY <3>2 DEF Records
    <3> QED  BY <3>1, <3>3
  <2>10. recorded[i].keys[o] \in Pictured
    <3>1. Pictured = UNION {{recorded[n].keys[x] :
                                x \in {x \in DOMAIN recorded[n].faces :
                                         recorded[n].faces[x].eligible}} :
                               n \in 1..Len(recorded)}
      BY <1>1, PicturesTold
    <3> QED  BY <2>8, <2>9, <3>1
  <2> QED  BY <2>6, <2>10
<1> QED  BY <1>2, <1>3

\* Nothing the readers do touches what the native worker has left: it has packed
\* both files already.
LEMMA ReadersLeave ==
  ASSUME NativeInv, BundleInv, Reader
  PROVE  UNCHANGED workerVars
<1>1. CASE Repack
  <2>1. /\ stage = "repack"
        /\ bundle' = [bundle EXCEPT !.packed = @ \cup ({"observations", "templates"} \ @)]
        /\ UNCHANGED <<video, limit, bus, probeVars, fault, queue, closed, broken, procVars,
                       main, linked, work, torn, exit>>
    BY <1>1 DEF Repack, Goto
  <2>2. exit = "0"  BY <2>1 DEF BundleInv
  <2>3. bundle = work /\ bundle.packed = Both  BY <2>2, Delivered DEF NativeInv
  <2>4. PICK t, f, c, p, m : work = Files(t, f, c, p, m)  BY DEF NativeInv, FilesInv
  <2>5. p = Both  BY <2>3, <2>4 DEF Files
  <2>6. Both \cup ({"observations", "templates"} \ Both) = Both  BY DEF Both
  <2>7. bundle' = [bundle EXCEPT !.packed = Both]  BY <2>1, <2>3, <2>6
  <2>8. bundle' = bundle  BY <2>3, <2>4, <2>5, <2>7 DEF Files
  <2> QED  BY <2>1, <2>8 DEF workerVars, outVars
<1>2. CASE ~Repack
  BY <1>2 DEF Reader, Download, RunNativeWorker, OpenBundle, ReadObservations, Take, ReaderRaises,
              UnchangedNative
<1> QED  BY <1>1, <1>2

LEMMA BundleStep ==
  ASSUME NativeInv, BundleInv, [BundleNext]_bundleVars
  PROVE  [WorkerNext]_workerVars /\ BundleInv'
<1>1. CASE UNCHANGED bundleVars
  <2>1. UNCHANGED workerVars /\ UNCHANGED <<stage, known, read>>
    BY <1>1 DEF bundleVars, readerVars
  <2>2. UNCHANGED <<exit, sums, recorded, torn>>
    BY <2>1 DEF workerVars, procVars, outVars
  <2> QED  BY <2>1, <2>2 DEF BundleInv, FramesRead, Messages, Message
<1>2. CASE RunWorker
  <2>1. WorkerNext /\ stage = "await" /\ stage' = "await"  BY <1>2 DEF RunWorker, readerVars
  <2> QED  BY <2>1 DEF BundleInv
<1>3. CASE Reader
  <2>1. UNCHANGED workerVars  BY <1>3, ReadersLeave
  <2>2. UNCHANGED <<exit, sums, recorded, torn, bundle>>
    BY <2>1 DEF workerVars, procVars, outVars
  <2>3. FramesRead' = FramesRead  BY <2>2 DEF FramesRead, Messages, Message
  <2>4. BundleInv'
    <3>1. CASE Download
      <4>1. stage' = "await"  BY <3>1 DEF Download, Goto
      <4> QED  BY <4>1 DEF BundleInv
    <3>2. CASE RunNativeWorker
      <4>1. stage' \in {"open", "raised"} /\ (stage' = "open" => exit = "0")
        BY <3>2 DEF RunNativeWorker
      <4> QED  BY <2>2, <4>1 DEF BundleInv
    <3>3. CASE OpenBundle
      <4>1. exit = "0"  BY <3>3 DEF OpenBundle, BundleInv
      <4>2. PICK keys \in TemplatesRead :
              IF "manifest" \notin torn /\ keys # Unreadable /\ CountsValid(keys)
              THEN stage' = "read" /\ known' = keys
              ELSE stage' = "raised" /\ UNCHANGED known
        BY <3>3 DEF OpenBundle
      <4>3. CASE stage' = "raised"  BY <4>3 DEF BundleInv
      <4>4. CASE stage' = "read" /\ known' = keys /\ keys # Unreadable /\ CountsValid(keys)
        <5>1. known' = DOMAIN sums  BY <4>1, <4>4, OpenedAll
        <5> QED  BY <2>2, <4>1, <4>4, <5>1 DEF BundleInv
      <4> QED  BY <4>2, <4>3, <4>4
    <3>4. CASE ReadObservations
      <4>1. /\ stage = "read" /\ stage' = "repack" /\ read' \in FramesRead /\ known' = known
        BY <3>4 DEF ReadObservations, Goto
      <4>2. exit = "0" /\ known = DOMAIN sums  BY <4>1 DEF BundleInv
      <4> QED  BY <2>2, <2>3, <4>1, <4>2 DEF BundleInv
    <3>5. CASE Repack \/ Take
      <4>1. /\ stage \in {"repack", "reopen"} /\ stage' \in {"reopen", "taken"}
            /\ known' = known /\ read' = read
        BY <3>5 DEF Repack, Take, Goto
      <4>2. exit = "0" /\ known = DOMAIN sums /\ read \in FramesRead  BY <4>1 DEF BundleInv
      <4> QED  BY <2>2, <2>3, <4>1, <4>2 DEF BundleInv
    <3>6. CASE ReaderRaises
      <4>1. stage' = "raised"  BY <3>6 DEF ReaderRaises
      <4> QED  BY <4>1 DEF BundleInv
    <3> QED  BY <1>3, <3>1, <3>2, <3>3, <3>4, <3>5, <3>6 DEF Reader
  <2> QED  BY <2>1, <2>4
<1> QED  BY <1>1, <1>2, <1>3 DEF BundleNext

LEMMA TakenTold == NativeInv /\ BundleInv => TakenMeansWhole
<1> SUFFICES ASSUME NativeInv, BundleInv PROVE TakenMeansWhole  OBVIOUS
<1>1. ZeroMeansWhole  BY ZeroTold DEF NativeInv
<1> DEFINE seen == UNION {ToSet(read[i].keys) : i \in 1..Len(read)}
<1>2. ASSUME stage = "taken"
      PROVE  /\ exit = "0" /\ seen \subseteq known
             /\ bus # "error" =>
                  \A i \in 1..(IF "observations" \in torn THEN Len(read) ELSE Len(Expected)) :
                     read[i].index = Expected[i].index /\ read[i].pts = Expected[i].pts
             /\ "observations" \notin torn =>
                  Len(read) = bundle.manifest.frames + 1 /\ Last(read) = FooterFrame
  <2>1. exit = "0" /\ known = DOMAIN sums /\ read \in FramesRead  BY <1>2 DEF BundleInv
  <2>2. recorded \in Seq(Records) /\ Len(recorded) \in Nat
    BY Together DEF NativeInv, TypeInv, ProcInv
  <2>3. /\ Len(read) \in Nat
        /\ "observations" \in torn => Len(read) <= Len(recorded)
        /\ "observations" \notin torn =>
             Len(read) = Len(recorded) + 1 /\ Last(read) = FooterFrame
        /\ \A i \in 1..Len(read) : \/ i \in 1..Len(recorded) /\ read[i] = Message(i)
                                   \/ i = Len(recorded) + 1 /\ read[i] = FooterFrame
    BY <2>1, <2>2, ReadTold
  <2>4. ASSUME NEW i \in 1..Len(read), NEW k \in ToSet(read[i].keys) PROVE k \in known
    <3>1. CASE i \in 1..Len(recorded) /\ read[i] = Message(i)
      <4>1. read[i].keys = recorded[i].keys  BY <3>1 DEF Message
      <4> QED  BY <2>1, <2>4, <3>1, <4>1 DEF NativeInv, TemplatesInv
    <3>2. CASE read[i] = FooterFrame
      <4>1. read[i].keys = <<>>  BY <3>2 DEF FooterFrame
      <4>2. ToSet(<<>>) = {}  BY DEF ToSet
      <4> QED  BY <2>4, <4>1, <4>2
    <3> QED  BY <2>3, <3>1, <3>2
  <2>5. seen \subseteq known  BY <2>4
  <2>6. ASSUME bus # "error",
               NEW i \in 1..(IF "observations" \in torn THEN Len(read) ELSE Len(Expected))
        PROVE  read[i].index = Expected[i].index /\ read[i].pts = Expected[i].pts
    <3>1. Written = Expected /\ Len(Expected) = Len(recorded)
      BY <2>1, <2>6, AllRecorded DEF NativeInv
    <3>2. i \in 1..Len(recorded) /\ i \in 1..Len(read)
      <4>1. CASE "observations" \in torn  BY <2>2, <2>3, <2>6, <4>1
      <4>2. CASE "observations" \notin torn  BY <2>2, <2>3, <2>6, <3>1, <4>2
      <4> QED  BY <4>1, <4>2
    <3>3. read[i] = Message(i)
      <4>1. i # Len(recorded) + 1  BY <2>2, <3>2
      <4> QED  BY <2>3, <3>2, <4>1
    <3>4. read[i].index = recorded[i].index /\ read[i].pts = recorded[i].pts
      BY <3>3 DEF Message
    <3>5. Expected[i] = [index |-> recorded[i].index, pts |-> recorded[i].pts,
                         num |-> recorded[i].num]
      BY <3>1, <3>2 DEF Written
    <3> QED  BY <3>4, <3>5
  <2>7. bundle.manifest.frames = Len(recorded)  BY <2>1, Delivered DEF NativeInv
  <2> QED  BY <2>1, <2>3, <2>5, <2>6, <2>7
<1> QED  BY <1>1, <1>2 DEF TakenMeansWhole

\* The Python worker leaves the native one and its files alone: seen from inside,
\* the composition is the native worker's own specification.
THEOREM ReadersOnlyRead == BundleSpec => WorkerSpec
<1>1. BundleInit => WorkerInit /\ NativeInv /\ BundleInv
  <2>1. BundleInit => WorkerInit /\ stage = "download"  BY DEF BundleInit
  <2> QED  BY <2>1, NativeInvInit DEF BundleInv
<1>2. NativeInv /\ BundleInv /\ [BundleNext]_bundleVars
        => [WorkerNext]_workerVars /\ (NativeInv /\ BundleInv)'
  BY BundleStep, NativeInvStep
<1> QED  BY <1>1, <1>2, PTL DEF BundleSpec, WorkerSpec

\* What an attempt goes on with is what a native run that ended with 0 has left:
\* the frames it reads are those of the video from the first on, all of them and
\* the footer unless a full disk cut the file between two frames, and every face
\* in them has a key it has read a template of.
THEOREM TakenIsWhole == BundleSpec => []TakenMeansWhole
<1>1. BundleInit => NativeInv /\ BundleInv
  <2>1. BundleInit => WorkerInit /\ stage = "download"  BY DEF BundleInit
  <2> QED  BY <2>1, NativeInvInit DEF BundleInv
<1>2. NativeInv /\ BundleInv /\ [BundleNext]_bundleVars => (NativeInv /\ BundleInv)'
  BY BundleStep, NativeInvStep
<1> QED  BY <1>1, <1>2, TakenTold, PTL DEF BundleSpec

-----------------------------------------------------------------------------
(* The inductive invariant.                                                *)

N == Len(Parts)

\* The appearances attempt t writes for the n-th track.
Pieces(t, n) == {[by |-> t, ord |-> n, index |-> i] : i \in 0..(Parts[n] - 1)}

\* All of the tracks up to the k-th, with all of their appearances, and all
\* written by attempt t.
Whole(rows, t, k) ==
  /\ \A r \in rows.tracks : r.by = t /\ r.ord \in 1..k
  /\ \A n \in 1..k : \E r \in rows.tracks : r.ord = n
  /\ \A q, r \in rows.tracks : q.ord = r.ord => q = r
  /\ rows.intervals = UNION {Pieces(t, n) : n \in 1..k}

NoRowsAt(rows) == rows.tracks = {} /\ rows.intervals = {} /\ rows.chunks = {}

\* The job's committed rows are one attempt's, and the overlay they describe is
\* the one stored.
RowsInv ==
  /\ \/ NoRowsAt(db)
     \/ \E t \in 1..attempt : Whole(db, t, N) /\ db.chunks \subseteq {[by |-> t]}
  /\ \A c \in db.chunks : objects.overlay = c.by

WorkerInv ==
  /\ worker.at # "idle" <=> job.state = "processing"
  /\ worker.at # "idle" => attempt >= 1
  /\ worker.at \in {"resolve", "persist"} => \A r \in db.tracks : r.by < attempt
  /\ worker.at = "persist" =>
       /\ Len(worker.outcomes) = N /\ Staged \in 0..N
       /\ Whole(worker.staged, attempt, Staged) /\ worker.staged.chunks = {}
  /\ worker.at \in {"overlay", "chunk", "manifest", "final"} => Whole(db, attempt, N)
  /\ worker.at \in {"chunk", "manifest", "final"} => objects.overlay = attempt
  /\ worker.at \in {"manifest", "final"} => db.chunks = {[by |-> attempt]}

JobInv ==
  /\ job.state = "completed" <=> job.manifest # None
  /\ job.state = "completed" =>
       /\ job.manifest \in 1..attempt /\ job.persons = N
       /\ Whole(db, job.manifest, N) /\ db.chunks = {[by |-> job.manifest]}

\* What a client has read of the tracks: a whole cast, of an attempt that is
\* not after the one whose rows there are now.
FoundOK ==
  LET listed == reader.found
  IN  /\ listed \in Seq(TrackRows)
      /\ listed # <<>> =>
           /\ Len(listed) = N
           /\ \A n \in 1..N : listed[n].ord = n /\ listed[n].by = listed[1].by
           /\ db.tracks # {} /\ \A r \in db.tracks : r.by >= listed[1].by

CountsOK ==
  /\ reader.counts \in Seq(Nat) /\ Len(reader.counts) <= Len(reader.found)
  /\ \A n \in 1..Len(reader.counts) :
       \/ reader.counts[n] = Parts[n]
       \/ reader.counts[n] = 0 /\ \A r \in db.tracks : r.by > reader.found[n].by

ReadsTracks == \/ reader.at \in {"identities", "count"}
               \/ reader.at = "answered" /\ reader.kind \in {"people", "appearances"}

SawInv == reader.saw => job.state = "completed"

PointsInv ==
  /\ reader.at \in {"polled", "identities"} => reader.counts = <<>>
  /\ reader.at \in {"identities", "count"} => reader.kind \in {"people", "appearances"}
  /\ reader.at = "streaming" => reader.kind = "playback"

CastInv ==
  ReadsTracks =>
    /\ FoundOK /\ CountsOK
    /\ reader.saw => /\ Len(reader.found) = N /\ reader.found[1].by = job.manifest
                     /\ \A n \in 1..Len(reader.counts) : reader.counts[n] = Parts[n]

FramesInv ==
  /\ reader.at = "chunks" => /\ reader.kind = "frames"
                             /\ \A c \in reader.found : objects.overlay = c.by
                             /\ reader.found \subseteq ChunkRows
                             /\ reader.saw => reader.found = {[by |-> job.manifest]}
  /\ Answered("frames") => /\ reader.answer # None => [by |-> reader.answer] \in reader.found
                           /\ reader.saw => reader.answer = job.manifest

AnswersInv ==
  /\ Answered("people") \/ Answered("appearances") => Len(reader.counts) = Len(reader.found)
  /\ Answered("people") => reader.answer = Len(reader.found)
  /\ Answered("result") /\ reader.saw => reader.answer = job.manifest

ReaderInv == SawInv /\ PointsInv /\ CastInv /\ FramesInv /\ AnswersInv

\* A player has got the bytes of its range up to the next chunk.
Served(a, h) ==
  LET r == ParseByteRange(h, a.total)
  IN  /\ a \in [total : Sizes, sent : Seq(Int), next : Nat, stop : Nat, length : Nat]
      /\ h \in Headers
      /\ a.stop = r.stop /\ a.length = IF h = None THEN a.total ELSE r.stop - r.start + 1
      /\ Len(a.sent) = Min({a.next, a.stop + 1}) - r.start
      /\ \A i \in 1..Len(a.sent) : a.sent[i] = r.start + i - 1

PlaybackInv ==
  /\ reader.at = "streaming" =>
       Served(reader.answer, reader.found) /\ reader.answer.next <= reader.answer.stop
  /\ Answered("playback") /\ reader.answer # None =>
       Served(reader.answer, reader.found) /\ ~(reader.answer.next <= reader.answer.stop)

\* An outcome whose status does not go with the name the identity has now.
Outdated(n) == LET o == worker.outcomes[n]
               IN  (o.status = "known") # (identity[o.face] = "known")
ChangeInv ==
  /\ misnamed <= changes
  /\ worker.at \in {"resolve", "persist"} /\ (\E n \in 1..Len(worker.outcomes) : Outdated(n))
       => misnamed < changes

ResultsInv == TypeOK /\ RowsInv /\ WorkerInv /\ JobInv /\ ReaderInv /\ PlaybackInv /\ ChangeInv

-----------------------------------------------------------------------------
(* Types.                                                                  *)

\* There is a track, and every track appears at least once.
LEMMA Parted == N \in Nat \ {0} /\ \A n \in 1..N : Parts[n] \in Nat \ {0}
BY PartsAssumption DEF N

\* An attempt under way has a number.
LEMMA Started ==
  ASSUME TypeOK, WorkerInv, worker.at # "idle"
  PROVE  attempt \in Attempts /\ MaxAttempts \in Nat
BY AttemptAssumption DEF TypeOK, WorkerInv, Attempts

\* Empty tables, and a worker with nothing to do.
LEMMA NoRowsTyped ==
  /\ NoRows \in Tables
  /\ Idle \in [at : WorkerPoints, outcomes : Seq(Outcomes), staged : Tables]
<1>1. NoRows \in Tables  BY DEF NoRows, Tables
<1> QED  BY <1>1 DEF Idle, WorkerPoints

LEMMA ResultsTypeInit == Init => TypeOK
BY NoRowsTyped, AttemptAssumption DEF Init, TypeOK, NoReader, ReaderPoints

\* What the row of a track adds to what is staged.
LEMMA Widened ==
  ASSUME TypeOK, WorkerInv, worker.at = "persist", NEW n \in 1..N
  PROVE  /\ WithTrack(worker.staged, n) \in Tables
         /\ WithTrack(worker.staged, n).tracks = worker.staged.tracks \cup {TrackRow(n)}
         /\ WithTrack(worker.staged, n).intervals = worker.staged.intervals \cup IntervalsOf(n)
         /\ WithTrack(worker.staged, n).chunks = worker.staged.chunks
<1>1. attempt \in Attempts  BY Started
<1>2. worker.outcomes[n] \in Outcomes /\ worker.staged \in Tables /\ Parts[n] \in Nat
  BY Parted DEF TypeOK, WorkerInv
<1>3. TrackRow(n) \in TrackRows
  BY <1>1, <1>2 DEF TrackRow, TrackRows, Outcomes, Ordinals, N
<1>4. TrackletsOf(n) \subseteq TrackletRows
  BY <1>1 DEF TrackletsOf, TrackletRows, Ordinals, N
<1>5. IntervalsOf(n) \subseteq IntervalRows
  BY <1>1, <1>2 DEF IntervalsOf, IntervalRows, Ordinals, N
<1>6. SamplesOf(n) \subseteq SampleRows
  BY <1>1, <1>2 DEF SamplesOf, SampleRows, Outcomes, Ordinals, N
<1> DEFINE rows == worker.staged
           a == [rows EXCEPT !.tracks = @ \cup {TrackRow(n)}]
           b == [a EXCEPT !.tracklets = @ \cup TrackletsOf(n)]
           c == [b EXCEPT !.intervals = @ \cup IntervalsOf(n)]
           d == [c EXCEPT !.samples = @ \cup SamplesOf(n)]
<1>7. /\ a \in Tables /\ a.tracks = rows.tracks \cup {TrackRow(n)}
      /\ a.intervals = rows.intervals /\ a.chunks = rows.chunks
  BY <1>2, <1>3 DEF Tables
<1> HIDE DEF a
<1>8. b \in Tables /\ b.tracks = a.tracks /\ b.intervals = a.intervals /\ b.chunks = a.chunks
  BY <1>4, <1>7 DEF Tables
<1> HIDE DEF b
<1>9. /\ c \in Tables /\ c.tracks = b.tracks
      /\ c.intervals = b.intervals \cup IntervalsOf(n) /\ c.chunks = b.chunks
  BY <1>5, <1>8 DEF Tables
<1> HIDE DEF c
<1>10. d \in Tables /\ d.tracks = c.tracks /\ d.intervals = c.intervals /\ d.chunks = c.chunks
  BY <1>6, <1>9 DEF Tables
<1>11. WithTrack(rows, n) = d
  BY <1>2 DEF WithTrack, Tables, a, b, c
<1> HIDE DEF d
<1> QED  BY <1>7, <1>8, <1>9, <1>10, <1>11

\* The attempt's part of the state is well formed after each of its steps.
Sound == /\ identity \in [Faces -> {"none", "anonymous", "known", "inactive"}]
         /\ job \in [state : {"pending", "processing", "completed", "failed"},
                     manifest : Attempts \cup {None}, persons : Nat]
         /\ attempt \in 0..MaxAttempts
         /\ worker \in [at : WorkerPoints, outcomes : Seq(Outcomes), staged : Tables]
         /\ db \in Tables
         /\ objects \in [overlay : Attempts \cup {None}, manifest : Attempts \cup {None}]
         /\ changes \in Nat /\ misnamed \in Nat

\* An attempt that raises leaves the manifest column as it was.
LEMMA GivenUp ==
  ASSUME TypeOK, GiveUp
  PROVE  /\ worker' \in [at : WorkerPoints, outcomes : Seq(Outcomes), staged : Tables]
         /\ worker'.at = "idle" /\ worker'.outcomes = <<>>
         /\ job' \in [state : {"pending", "processing", "completed", "failed"},
                      manifest : Attempts \cup {None}, persons : Nat]
         /\ job'.state \in {"pending", "failed"}
         /\ job'.manifest = job.manifest /\ job'.persons = job.persons
<1>1. /\ worker' = Idle
      /\ job' = [job EXCEPT !.state = IF attempt < MaxAttempts THEN "pending" ELSE "failed"]
  BY DEF GiveUp
<1>2. Idle.at = "idle" /\ Idle.outcomes = <<>>  BY DEF Idle
<1> QED  BY <1>1, <1>2, NoRowsTyped DEF TypeOK

LEMMA UploadSound ==
  ASSUME TypeOK, WorkerInv, NEW point \in WorkerPoints \ {"idle"}, NEW object \in {"overlay",
         "manifest"},
         NEW next \in WorkerPoints, Upload(point, object, next)
  PROVE  Sound'
<1>1. attempt \in Attempts  BY Started DEF Upload
<1>2. objects' \in [overlay : Attempts \cup {None}, manifest : Attempts \cup {None}]
  BY <1>1 DEF TypeOK, Upload
<1>3. CASE worker' = [worker EXCEPT !.at = next] /\ UNCHANGED job
  BY <1>2, <1>3 DEF TypeOK, Upload, Sound
<1>4. CASE GiveUp
  BY <1>2, <1>4, GivenUp DEF TypeOK, Upload, Sound
<1> QED  BY <1>3, <1>4 DEF Upload

\* Each step of an attempt keeps its part of the state well formed.
LEMMA AttemptSound ==
  ASSUME TypeOK, WorkerInv, Attempt
  PROVE  Sound'
<1> USE DEF TypeOK, Sound
<1>1. CASE Claim
  <2>1. [Idle EXCEPT !.at = "resolve"]
          \in [at : WorkerPoints, outcomes : Seq(Outcomes), staged : Tables]
    BY NoRowsTyped DEF WorkerPoints
  <2>2. attempt + 1 \in 0..MaxAttempts  BY <1>1, AttemptAssumption DEF Claim
  <2>3. worker' \in [at : WorkerPoints, outcomes : Seq(Outcomes), staged : Tables]
    BY <1>1, <2>1 DEF Claim
  <2> QED  BY <1>1, <2>2, <2>3 DEF Claim
<1>2. ASSUME NEW f \in Faces, AcceptCandidate(f) \/ CreateIdentity(f)  PROVE Sound'
  <2>1. PICK o \in Outcomes : Resolved(o)
    BY <1>2 DEF AcceptCandidate, CreateIdentity, Outcomes, Statuses
  <2>2. Append(worker.outcomes, o) \in Seq(Outcomes)  OBVIOUS
  <2> DEFINE longer == Append(worker.outcomes, o)
  <2>3. worker' = [worker EXCEPT !.outcomes = longer]  BY <2>1 DEF Resolved
  <2>4. longer \in Seq(Outcomes)  BY <2>2
  <2> HIDE DEF longer
  <2>5. worker' \in [at : WorkerPoints, outcomes : Seq(Outcomes), staged : Tables]
    BY <2>3, <2>4
  <2> QED  BY <1>2, <2>5 DEF AcceptCandidate, CreateIdentity
<1>3. CASE ClearRows
  BY <1>3, NoRowsTyped DEF ClearRows, WorkerPoints
<1>4. CASE AddTrack
  <2>1. worker.at = "persist" /\ Staged + 1 \in 1..N
    BY <1>4 DEF AddTrack, WorkerInv, Whole, N
  <2>2. CASE GiveUp
    BY <1>4, <2>2, GivenUp DEF AddTrack
  <2>3. CASE /\ worker' = [worker EXCEPT !.staged = WithTrack(worker.staged, Staged + 1)]
             /\ UNCHANGED <<job, misnamed>>
    <3>1. WithTrack(worker.staged, Staged + 1) \in Tables  BY <2>1, Widened
    <3> QED  BY <1>4, <2>3, <3>1 DEF AddTrack
  <2> QED  BY <1>4, <2>2, <2>3 DEF AddTrack
<1>5. CASE CommitTracks
  BY <1>5, NoRowsTyped DEF CommitTracks, WorkerPoints
<1>6. CASE UploadOverlay
  BY <1>6, UploadSound DEF UploadOverlay, WorkerPoints
<1>7. CASE AddChunk
  <2>1. attempt \in Attempts  BY <1>7, Started DEF AddChunk
  <2>2. {[by |-> attempt]} \subseteq ChunkRows  BY <2>1 DEF ChunkRows
  <2>3. db' \in Tables  BY <1>7, <2>2 DEF AddChunk, Tables
  <2> QED  BY <1>7, <2>3 DEF AddChunk, WorkerPoints
<1>8. CASE UploadManifest
  BY <1>8, UploadSound DEF UploadManifest, WorkerPoints
<1>9. CASE CompleteJob
  <2>1. attempt \in Attempts /\ Len(Parts) \in Nat
    BY <1>9, Started, PartsAssumption DEF CompleteJob
  <2> QED  BY <1>9, <2>1, NoRowsTyped DEF CompleteJob
<1>10. CASE Raise
  BY <1>10, GivenUp DEF Raise
<1> QED  BY <1>1, <1>2, <1>3, <1>4, <1>5, <1>6, <1>7, <1>8, <1>9, <1>10 DEF Attempt

\* Each step of the client keeps the types.
LEMMA ReaderTyped ==
  ASSUME TypeOK, Read
  PROVE  TypeOK'
<1> USE DEF TypeOK, UnchangedByReader, Answers, ReaderPoints, Kinds, NoReader
<1>1. CASE GetJob  BY <1>1 DEF GetJob
<1>2. CASE GetResult  BY <1>2 DEF GetResult
<1>3. ASSUME NEW kind \in Kinds, ListTracks(kind)  PROVE TypeOK'  BY <1>3 DEF ListTracks
<1>4. CASE ReadIdentities \/ ReadAppearances
  <2>1. CASE ReadIdentities  BY <2>1 DEF ReadIdentities
  <2>2. CASE ReadAppearances  BY <2>2 DEF ReadAppearances
  <2> QED  BY <1>4, <2>1, <2>2
<1>5. CASE ListPeople \/ ListAppearances
  <2>1. CASE ListPeople  BY <2>1 DEF ListPeople
  <2>2. CASE ListAppearances  BY <2>2 DEF ListAppearances
  <2> QED  BY <1>5, <2>1, <2>2
<1>6. CASE ListChunks \/ GetFrames
  <2>1. CASE ListChunks  BY <2>1 DEF ListChunks
  <2>2. CASE GetFrames  BY <2>2 DEF GetFrames
  <2> QED  BY <1>6, <2>1, <2>2
<1>7. ASSUME NEW h \in Headers, NEW total \in Sizes, Playback(h, total)  PROVE TypeOK'
  BY <1>7 DEF Playback
<1>8. CASE NoVideo
  <2>1. reader' = [NoReader EXCEPT !.at = "answered", !.kind = "playback"]  BY <1>8 DEF NoVideo
  <2> QED  BY <1>8, <2>1 DEF NoVideo
<1>9. CASE Leave
  BY <1>9 DEF Leave
<1>10. CASE Yield
  BY <1>10 DEF Yield
<1> QED  BY <1>1, <1>2, <1>3, <1>4, <1>5, <1>6, <1>7, <1>8, <1>9, <1>10 DEF Read

\* No step of an attempt or of an identity touches the client.
LEMMA ReaderKept == Attempt \/ Change => UNCHANGED reader
BY DEF Attempt, Claim, AcceptCandidate, CreateIdentity, ClearRows, AddTrack, CommitTracks,
     UploadOverlay,
       AddChunk, UploadManifest, Upload, CompleteJob, Raise, Change, Enroll, Deactivate, Changed

LEMMA ResultsTypeStep ==
  ASSUME TypeOK, WorkerInv, [Next]_vars
  PROVE  TypeOK'
<1>1. CASE Attempt
  BY <1>1, AttemptSound, ReaderKept DEF TypeOK, Sound
<1>2. CASE Change
  BY <1>2 DEF Change, Enroll, Deactivate, Changed, TypeOK
<1>3. CASE Read
  BY <1>3, ReaderTyped
<1>4. CASE UNCHANGED vars
  BY <1>4 DEF vars, TypeOK
<1> QED  BY <1>1, <1>2, <1>3, <1>4 DEF Next

-----------------------------------------------------------------------------
(* Rows numbered without a gap: how many there are, and in which order they *)
(* are read.                                                               *)

ByNumber(rows, k) ==
  /\ \A r \in rows : r.ord \in 1..k
  /\ \A n \in 1..k : \E r \in rows : r.ord = n
  /\ \A q, r \in rows : q.ord = r.ord => q = r

\* Rows numbered 1 to k without a gap are k rows.
LEMMA RowsCounted ==
  ASSUME NEW rows, NEW k \in Nat, ByNumber(rows, k)
  PROVE  IsFiniteSet(rows) /\ Cardinality(rows) = k
<1> DEFINE at == [n \in 1..k |-> CHOOSE r \in rows : r.ord = n]
<1>1. \A n \in 1..k : at[n] \in rows /\ at[n].ord = n  BY DEF ByNumber
<1>2. \A r \in rows : r.ord \in 1..k /\ at[r.ord] = r  BY <1>1 DEF ByNumber
<1>3. at \in [1..k -> rows]  BY <1>1
<1> HIDE DEF at
<1>4. at \in Injection(1..k, rows)  BY <1>1, <1>3 DEF Injection, IsInjective
<1>5. at \in Surjection(1..k, rows)  BY <1>2, <1>3 DEF Surjection
<1>6. ExistsBijection(1..k, rows)  BY <1>4, <1>5 DEF ExistsBijection, Bijection
<1>7. IsFiniteSet(1..k) /\ Cardinality(1..k) = k  BY UpTo
<1> QED  BY <1>6, <1>7, FS_Bijection

\* Sorted by their numbers, the n-th row has number n.
LEMMA InOrder ==
  ASSUME NEW rows, NEW k \in Nat, ByNumber(rows, k)
  PROVE  /\ ByOrdinal(rows) \in Seq(rows) /\ Len(ByOrdinal(rows)) = k
         /\ \A n \in 1..k : ByOrdinal(rows)[n] \in rows /\ ByOrdinal(rows)[n].ord = n
<1>1. Cardinality(rows) = k  BY RowsCounted
<1>2. ASSUME NEW r \in rows
      PROVE  Cardinality({q \in rows : q.ord < r.ord}) = r.ord - 1
  <2> DEFINE before == {q \in rows : q.ord < r.ord}
  <2>1. r.ord \in 1..k /\ r.ord - 1 \in Nat  BY DEF ByNumber
  <2>2. ByNumber(before, r.ord - 1)  BY <2>1 DEF ByNumber
  <2> QED  BY <2>1, <2>2, RowsCounted
<1>3. ASSUME NEW n \in 1..k
      PROVE  ByOrdinal(rows)[n] \in rows /\ ByOrdinal(rows)[n].ord = n
  <2> DEFINE Nth(r) == Cardinality({q \in rows : q.ord < r.ord}) = n - 1
  <2>1. ByOrdinal(rows)[n] = CHOOSE r \in rows : Nth(r)  BY <1>1 DEF ByOrdinal
  <2>2. PICK r \in rows : r.ord = n  BY DEF ByNumber
  <2>3. Nth(r)  BY <1>2, <2>2
  <2>4. ByOrdinal(rows)[n] \in rows /\ Nth(ByOrdinal(rows)[n])
    <3> HIDE DEF At
    <3> QED  BY <2>1, <2>3
  <2>5. Cardinality({q \in rows : q.ord < ByOrdinal(rows)[n].ord}) = ByOrdinal(rows)[n].ord - 1
    BY <1>2, <2>4
  <2>6. ByOrdinal(rows)[n].ord \in 1..k  BY <2>4 DEF ByNumber
  <2> QED  BY <2>4, <2>5, <2>6
<1>4. ByOrdinal(rows) \in [1..k -> rows]
  <2> DEFINE F(n) == CHOOSE r \in rows : Cardinality({q \in rows : q.ord < r.ord}) = n - 1
  <2>1. ByOrdinal(rows) = [n \in 1..k |-> F(n)]  BY <1>1 DEF ByOrdinal
  <2> HIDE DEF F
  <2>2. \A n \in 1..k : F(n) \in rows  BY <1>3, <2>1
  <2> QED  BY <2>1, <2>2
<1> QED  BY <1>3, <1>4

\* A track has as many appearances as its part tells.
LEMMA PiecesCounted ==
  ASSUME NEW t, NEW n \in 1..N
  PROVE  IsFiniteSet(Pieces(t, n)) /\ Cardinality(Pieces(t, n)) = Parts[n]
<1> DEFINE S == 0..(Parts[n] - 1)
           piece == [i \in S |-> [by |-> t, ord |-> n, index |-> i]]
<1>1. Parts[n] \in Nat \ {0}  BY Parted
<1>2. piece \in [S -> Pieces(t, n)]  BY DEF Pieces
<1>3. \A i, j \in S : piece[i] = piece[j] => i = j
  <2> TAKE i, j \in S
  <2>1. piece[i].index = i /\ piece[j].index = j  OBVIOUS
  <2> QED  BY <2>1
<1>4. \A x \in Pieces(t, n) : \E i \in S : piece[i] = x  BY DEF Pieces
<1> HIDE DEF piece
<1>5. piece \in Injection(S, Pieces(t, n))  BY <1>2, <1>3 DEF Injection, IsInjective
<1>6. piece \in Surjection(S, Pieces(t, n))  BY <1>2, <1>4 DEF Surjection
<1>7. ExistsBijection(S, Pieces(t, n))  BY <1>5, <1>6 DEF ExistsBijection, Bijection
<1>8. IsFiniteSet(S) /\ Cardinality(S) = Parts[n]
  <2>1. 0 \in Int /\ Parts[n] - 1 \in Int /\ 0 <= Parts[n] - 1  BY <1>1
  <2>2. IsFiniteSet(S) /\ Cardinality(S) = IF 0 > Parts[n] - 1 THEN 0 ELSE Parts[n] - 1 - 0 + 1
    BY <2>1, FS_Interval
  <2> QED  BY <1>1, <2>1, <2>2
<1> QED  BY <1>7, <1>8, FS_Bijection

\* The appearances of a track in a whole set of rows: all of it, or nothing
\* when the row is another attempt's.
LEMMA Appearances ==
  ASSUME NEW rows, NEW t, Whole(rows, t, N), NEW row, row.ord \in 1..N
  PROVE  Cardinality({i \in rows.intervals : i.by = row.by /\ i.ord = row.ord})
           = IF row.by = t THEN Parts[row.ord] ELSE 0
<1> DEFINE listed == {i \in rows.intervals : i.by = row.by /\ i.ord = row.ord}
<1>1. \A i \in rows.intervals : \E n \in 1..N : i \in Pieces(t, n)  BY DEF Whole
<1>2. \A n \in 1..N : Pieces(t, n) \subseteq rows.intervals  BY DEF Whole
<1>3. \A n \in 1..N : \A i \in Pieces(t, n) : i.by = t /\ i.ord = n  BY DEF Pieces
<1>4. CASE row.by = t
  <2>1. listed \subseteq Pieces(t, row.ord)  BY <1>1, <1>3
  <2>2. Pieces(t, row.ord) \subseteq listed  BY <1>2, <1>3, <1>4
  <2>3. listed = Pieces(t, row.ord)  BY <2>1, <2>2
  <2> QED  BY <1>4, <2>3, PiecesCounted
<1>5. CASE row.by # t
  <2>1. listed = {}  BY <1>1, <1>3, <1>5
  <2> QED  BY <1>5, <2>1, FS_EmptySet
<1> QED  BY <1>4, <1>5

\* An emptied set of tables is whole up to no track.
LEMMA WholeNone == ASSUME NEW t PROVE Whole(NoRows, t, 0)
<1>1. UNION {Pieces(t, n) : n \in 1..0} = {}  OBVIOUS
<1> QED  BY <1>1 DEF Whole, NoRows

\* The rows of the next track make it whole up to that track.
LEMMA WholeNext ==
  ASSUME NEW a, NEW b, NEW t, NEW k \in Nat, NEW x, Whole(a, t, k),
         x.by = t, x.ord = k + 1,
         b.tracks = a.tracks \cup {x}, b.intervals = a.intervals \cup Pieces(t, k + 1)
  PROVE  Whole(b, t, k + 1)
<1>1. \A n \in 1..(k + 1) : n \in 1..k \/ n = k + 1  OBVIOUS
<1>2. UNION {Pieces(t, n) : n \in 1..(k + 1)}
        = (UNION {Pieces(t, n) : n \in 1..k}) \cup Pieces(t, k + 1)
  BY <1>1
<1>3. \A r \in b.tracks : r.by = t /\ r.ord \in 1..(k + 1)  BY DEF Whole
<1>4. \A n \in 1..(k + 1) : \E r \in b.tracks : r.ord = n  BY <1>1 DEF Whole
<1>5. \A q, r \in b.tracks : q.ord = r.ord => q = r  BY DEF Whole
<1>6. b.intervals = UNION {Pieces(t, n) : n \in 1..(k + 1)}  BY <1>2 DEF Whole
<1> QED  BY <1>3, <1>4, <1>5, <1>6 DEF Whole

\* A whole set of rows is numbered without a gap.
LEMMA WholeNumbered ==
  ASSUME NEW rows, NEW t, NEW k \in Nat, Whole(rows, t, k)
  PROVE  /\ IsFiniteSet(rows.tracks) /\ Cardinality(rows.tracks) = k
         /\ ByNumber(rows.tracks, k)
<1>1. ByNumber(rows.tracks, k)  BY DEF ByNumber, Whole
<1> QED  BY <1>1, RowsCounted

-----------------------------------------------------------------------------
(* The attempt writes whole results.                                       *)

Core == RowsInv /\ WorkerInv /\ JobInv

\* A step that leaves the rows and the overlay they describe, and publishes
\* nothing, keeps what is said of them.
LEMMA RowsKept ==
  ASSUME RowsInv, JobInv, UNCHANGED <<attempt, db>>,
         \A c \in db.chunks : objects.overlay = c.by => objects'.overlay = c.by,
         UNCHANGED job \/ (job'.state # "completed" /\ job'.manifest = None)
  PROVE  RowsInv' /\ JobInv'
<1>1. RowsInv'  BY DEF RowsInv
<1>2. CASE UNCHANGED job  BY <1>1, <1>2 DEF JobInv
<1>3. CASE job'.state # "completed" /\ job'.manifest = None  BY <1>1, <1>3 DEF JobInv
<1> QED  BY <1>2, <1>3

\* While an attempt is under way the job is processing, so no manifest is
\* published: giving up leaves none.
LEMMA GivesUpUnpublished ==
  ASSUME TypeOK, Core, worker.at # "idle", GiveUp
  PROVE  WorkerInv' /\ job'.state # "completed" /\ job'.manifest = None
<1>1. job.state = "processing" /\ job.manifest = None  BY DEF Core, WorkerInv, JobInv
<1>2. worker'.at = "idle" /\ job'.state \in {"pending", "failed"} /\ job'.manifest = None
  BY <1>1, GivenUp
<1> QED  BY <1>2 DEF WorkerInv

\* An upload writes under a free key or over its own object: an overlay that is
\* described stays the one described.
LEMMA UploadCore ==
  ASSUME TypeOK, Core, NEW object \in {"overlay", "manifest"},
         NEW point, NEW next,
         <<point, object, next>> \in {<<"overlay", "overlay", "chunk">>,
                                      <<"manifest", "manifest", "final">>},
         Upload(point, object, next)
  PROVE  Core'
<1> USE DEF Core
<1>1. worker.at = point /\ attempt \in Attempts /\ UNCHANGED <<attempt, db>>
  BY Started DEF Upload
<1>2. \A c \in db.chunks : objects.overlay # None /\ objects.overlay = c.by
  BY NullAssumption DEF RowsInv, TypeOK, Tables, ChunkRows, Attempts
<1>3. \/ UNCHANGED objects
      \/ object = "manifest" /\ objects'.overlay = objects.overlay
      \/ object = "overlay" /\ objects.overlay \in {None, attempt} /\ objects'.overlay = attempt
  BY DEF Upload, TypeOK
<1>4. \A c \in db.chunks : objects'.overlay = c.by
  BY <1>2, <1>3
<1>5. CASE GiveUp
  <2>1. WorkerInv' /\ job'.state # "completed" /\ job'.manifest = None
    BY <1>1, <1>5, GivesUpUnpublished
  <2> QED  BY <1>1, <1>4, <2>1, RowsKept
<1>6. CASE /\ worker' = [worker EXCEPT !.at = next] /\ UNCHANGED job
           /\ objects' = [objects EXCEPT ![object] = attempt]
  <2>1. worker'.at = next  BY <1>6 DEF TypeOK
  <2>2. WorkerInv'
    <3>1. Whole(db, attempt, N) /\ job.state = "processing" /\ attempt >= 1
      BY <1>1 DEF WorkerInv
    <3>2. CASE point = "overlay"
      <4>1. worker'.at = "chunk" /\ objects'.overlay = attempt  BY <1>6, <2>1, <3>2 DEF TypeOK
      <4> QED  BY <1>1, <1>6, <3>1, <4>1 DEF WorkerInv
    <3>3. CASE point = "manifest"
      <4>1. worker'.at = "final" /\ objects'.overlay = attempt /\ db.chunks = {[by |-> attempt]}
        BY <1>1, <1>6, <2>1, <3>3 DEF TypeOK, WorkerInv
      <4> QED  BY <1>1, <1>6, <3>1, <4>1 DEF WorkerInv
    <3> QED  BY <3>2, <3>3
  <2> QED  BY <1>1, <1>4, <1>6, <2>2, RowsKept
<1> QED  BY <1>5, <1>6 DEF Upload

\* The rows of the n-th track extend what is staged.
LEMMA StagedGrows ==
  ASSUME TypeOK, Core, worker.at = "persist", Staged < N,
         worker' = [worker EXCEPT !.staged = WithTrack(worker.staged, Staged + 1)]
  PROVE  /\ Staged' = Staged + 1 /\ Whole(worker'.staged, attempt, Staged')
         /\ worker'.staged.chunks = {}
<1> DEFINE k == Staged
           a == worker.staged
           b == WithTrack(a, k + 1)
<1>1. k \in Nat /\ k + 1 \in 1..N /\ Whole(a, attempt, k) /\ a.chunks = {}
  BY Parted DEF Core, WorkerInv
<1>2. /\ b.tracks = a.tracks \cup {TrackRow(k + 1)}
      /\ b.intervals = a.intervals \cup Pieces(attempt, k + 1)
      /\ b.chunks = {}
  BY <1>1, Widened DEF Core, IntervalsOf, Pieces
<1>3. TrackRow(k + 1).by = attempt /\ TrackRow(k + 1).ord = k + 1  BY DEF TrackRow
<1>4. worker'.staged = b  BY DEF TypeOK
<1> HIDE DEF k, a, b
<1>5. Whole(b, attempt, k + 1)  BY <1>1, <1>2, <1>3, WholeNext
<1>6. Cardinality(b.tracks) = k + 1  BY <1>1, <1>5, WholeNumbered
<1>7. Staged' = Cardinality(worker'.staged.tracks)  BY DEF Staged
<1> QED  BY <1>2, <1>4, <1>5, <1>6, <1>7 DEF k

\* Each step of an attempt keeps the rows whole.
LEMMA AttemptCore ==
  ASSUME TypeOK, Core, Attempt
  PROVE  Core'
<1> USE DEF Core
<1>1. CASE Claim
  <2>1. attempt \in Nat /\ attempt' = attempt + 1  BY <1>1 DEF Claim, TypeOK
  <2>2. worker'.at = "resolve" /\ job'.state = "processing" /\ job'.manifest = None /\ UNCHANGED <<db, objects>>
    BY <1>1 DEF Claim, JobInv, TypeOK, Idle
  <2>3. RowsInv'
    <3>1. CASE NoRowsAt(db)  BY <2>2, <3>1 DEF RowsInv
    <3>2. CASE \E t \in 1..attempt : Whole(db, t, N) /\ db.chunks \subseteq {[by |-> t]}
      BY <2>1, <2>2, <3>2 DEF RowsInv
    <3> QED  BY <3>1, <3>2 DEF RowsInv
  <2>4. \A r \in db'.tracks : r.by < attempt'
    <3>1. CASE NoRowsAt(db)  BY <2>2, <3>1 DEF NoRowsAt
    <3>2. CASE \E t \in 1..attempt : Whole(db, t, N)  BY <2>1, <2>2, <3>2 DEF Whole
    <3> QED  BY <3>1, <3>2 DEF RowsInv
  <2>5. WorkerInv'  BY <2>1, <2>2, <2>4 DEF WorkerInv
  <2>6. JobInv'  BY <2>2 DEF JobInv
  <2> QED  BY <2>3, <2>5, <2>6
<1>2. ASSUME NEW f \in Faces, AcceptCandidate(f) \/ CreateIdentity(f)  PROVE Core'
  <2>1. worker.at = "resolve" /\ UNCHANGED <<job, attempt, db, objects>>
    BY <1>2 DEF AcceptCandidate, CreateIdentity
  <2>2. worker'.at = "resolve"
    BY <1>2, <2>1 DEF AcceptCandidate, CreateIdentity, Resolved, TypeOK
  <2>3. WorkerInv'  BY <2>1, <2>2 DEF WorkerInv
  <2> QED  BY <2>1, <2>3, RowsKept
<1>3. CASE ClearRows
  <2>1. worker.at = "resolve" /\ Len(worker.outcomes) = N /\ UNCHANGED <<job, attempt, db, objects>>
    BY <1>3 DEF ClearRows, N
  <2>2. worker'.at = "persist" /\ worker'.outcomes = worker.outcomes /\ worker'.staged = NoRows
    BY <1>3 DEF ClearRows, TypeOK
  <2>3. Staged' = 0 /\ NoRows.chunks = {}
    <3>1. NoRows.tracks = {} /\ NoRows.chunks = {}  BY DEF NoRows
    <3>2. Staged' = Cardinality(NoRows.tracks)  BY <2>2 DEF Staged
    <3> QED  BY <3>1, <3>2, FS_EmptySet
  <2>4. Whole(worker'.staged, attempt', Staged')  BY <2>2, <2>3, WholeNone
  <2>5. WorkerInv'
    BY <2>1, <2>2, <2>3, <2>4, Parted DEF WorkerInv
  <2> QED  BY <2>1, <2>5, RowsKept
<1>4. CASE AddTrack
  <2>1. worker.at = "persist" /\ Staged < N /\ UNCHANGED <<attempt, db, objects>>
    BY <1>4 DEF AddTrack, N
  <2>2. CASE GiveUp
    <3>1. WorkerInv' /\ job'.state # "completed" /\ job'.manifest = None
      BY <2>1, <2>2, GivesUpUnpublished
    <3> QED  BY <2>1, <3>1, RowsKept
  <2>3. CASE worker' = [worker EXCEPT !.staged = WithTrack(worker.staged, Staged + 1)] /\ UNCHANGED job
    <3>1. worker'.at = "persist" /\ worker'.outcomes = worker.outcomes  BY <2>1, <2>3 DEF TypeOK
    <3>2. /\ Staged' = Staged + 1 /\ Whole(worker'.staged, attempt, Staged')
          /\ worker'.staged.chunks = {}
      BY <2>1, <2>3, StagedGrows
    <3>3. Staged' \in 0..N  BY <2>1, <3>2, Parted DEF WorkerInv
    <3>4. WorkerInv'  BY <2>1, <2>3, <3>1, <3>2, <3>3 DEF WorkerInv
    <3> QED  BY <2>1, <2>3, <3>4, RowsKept
  <2> QED  BY <1>4, <2>2, <2>3 DEF AddTrack
<1>5. CASE CommitTracks
  <2>1. /\ worker.at = "persist" /\ Whole(worker.staged, attempt, N) /\ worker.staged.chunks = {}
        /\ attempt \in 1..attempt /\ job.state = "processing"
    BY <1>5, Started DEF CommitTracks, WorkerInv, N, TypeOK
  <2>2. db' = worker.staged /\ worker'.at = "overlay" /\ UNCHANGED <<job, attempt, objects>>
    BY <1>5 DEF CommitTracks, TypeOK
  <2>3. RowsInv'  BY <2>1, <2>2 DEF RowsInv
  <2>4. WorkerInv'  BY <2>1, <2>2 DEF WorkerInv
  <2>5. JobInv'  BY <2>1, <2>2 DEF JobInv
  <2> QED  BY <2>3, <2>4, <2>5
<1>6. CASE UploadOverlay
  BY <1>6, UploadCore DEF UploadOverlay
<1>7. CASE AddChunk
  <2>1. /\ worker.at = "chunk" /\ Whole(db, attempt, N) /\ objects.overlay = attempt
        /\ attempt \in 1..attempt /\ job.state = "processing" /\ attempt >= 1
    BY <1>7, Started DEF AddChunk, WorkerInv, TypeOK
  <2>2. worker'.at = "manifest" /\ UNCHANGED <<job, attempt, objects>>
    BY <1>7 DEF AddChunk, TypeOK
  <2>3. db'.tracks = db.tracks /\ db'.intervals = db.intervals /\ db'.chunks = {[by |-> attempt]}
    BY <1>7 DEF AddChunk, TypeOK, Tables
  <2>4. Whole(db', attempt, N)  BY <2>1, <2>3 DEF Whole
  <2>5. RowsInv'  BY <2>1, <2>2, <2>3, <2>4 DEF RowsInv
  <2>6. WorkerInv'  BY <2>1, <2>2, <2>3, <2>4 DEF WorkerInv
  <2>7. JobInv'  BY <2>1, <2>2 DEF JobInv
  <2> QED  BY <2>5, <2>6, <2>7
<1>8. CASE UploadManifest
  BY <1>8, UploadCore DEF UploadManifest
<1>9. CASE CompleteJob
  <2>1. /\ worker.at = "final" /\ Whole(db, attempt, N) /\ db.chunks = {[by |-> attempt]}
        /\ attempt \in 1..attempt
    BY <1>9, Started DEF CompleteJob, WorkerInv, TypeOK
  <2>2. /\ job'.state = "completed" /\ job'.manifest = attempt /\ job'.persons = N
        /\ worker'.at = "idle" /\ UNCHANGED <<attempt, db, objects>>
    BY <1>9 DEF CompleteJob, Idle, N
  <2>3. RowsInv'  BY <2>2 DEF RowsInv
  <2>4. WorkerInv'  BY <2>2 DEF WorkerInv
  <2>5. JobInv'
    <3>1. attempt # None  BY NullAssumption DEF TypeOK
    <3> QED  BY <2>1, <2>2, <3>1 DEF JobInv
  <2> QED  BY <2>3, <2>4, <2>5
<1>10. CASE Raise
  <2>1. worker.at # "idle" /\ GiveUp /\ UNCHANGED <<attempt, db, objects>>  BY <1>10 DEF Raise
  <2>2. WorkerInv' /\ job'.state # "completed" /\ job'.manifest = None
    BY <2>1, GivesUpUnpublished
  <2> QED  BY <2>1, <2>2, RowsKept
<1> QED  BY <1>1, <1>2, <1>3, <1>4, <1>5, <1>6, <1>7, <1>8, <1>9, <1>10 DEF Attempt

LEMMA OthersCore ==
  ASSUME Core, UNCHANGED <<job, attempt, worker, db, objects>>
  PROVE  Core'
<1>1. RowsInv'  BY DEF Core, RowsInv
<1>2. Staged' = Staged  BY DEF Staged
<1>3. WorkerInv'  BY <1>2 DEF Core, WorkerInv
<1>4. JobInv'  BY DEF Core, JobInv
<1> QED  BY <1>1, <1>3, <1>4 DEF Core

\* The clients and the identities leave the rows alone.
LEMMA CoreStep ==
  ASSUME TypeOK, Core, [Next]_vars
  PROVE  Core'
<1>1. CASE Attempt  BY <1>1, AttemptCore
<1>2. CASE ~Attempt
  <2>1. UNCHANGED <<job, attempt, worker, db, objects>>
    BY <1>2 DEF Next, Change, Enroll, Deactivate, Changed, vars, Read, UnchangedByReader, GetJob,
         GetResult,
       ListTracks, ReadIdentities, ReadAppearances, ListPeople, ListAppearances, ListChunks, GetFrames,
       Playback, Yield, NoVideo, Leave
  <2> QED  BY <2>1, OthersCore
<1> QED  BY <1>1, <1>2

-----------------------------------------------------------------------------
(* What a changed identity costs.                                          *)

\* An outcome the resolution adds is not outdated, and does not outdate one
\* that is there.
LEMMA ResolvedUpToDate ==
  ASSUME TypeOK, NEW f \in Faces, AcceptCandidate(f) \/ CreateIdentity(f),
         NEW n \in 1..Len(worker'.outcomes), Outdated(n)'
  PROVE  n \in 1..Len(worker.outcomes) /\ Outdated(n)
<1> DEFINE L == Len(worker.outcomes)
<1>0. L \in Nat  BY DEF TypeOK
<1>1. PICK o : Resolved(o) /\ o.face = f /\ ((o.status = "known") = (identity'[f] = "known"))
  <2>1. CASE AcceptCandidate(f)
    BY <2>1 DEF AcceptCandidate, Accepted
  <2>2. CASE CreateIdentity(f)
    BY <2>2 DEF CreateIdentity, TypeOK
  <2> QED  BY <2>1, <2>2
<1>2. worker'.outcomes = Append(worker.outcomes, o)  BY <1>1 DEF Resolved, TypeOK
<1>3. Len(worker'.outcomes) = L + 1 /\ worker'.outcomes[L + 1] = o
      /\ \A i \in 1..L : worker'.outcomes[i] = worker.outcomes[i]
  BY <1>2 DEF TypeOK
<1>4. \A i \in 1..L : worker.outcomes[i].face \in Faces
  <2>1. worker.outcomes \in Seq(Outcomes)  BY DEF TypeOK
  <2>2. \A i \in 1..L : worker.outcomes[i] \in Outcomes  BY <2>1
  <2> QED  BY <2>2 DEF Outcomes
<1>5. \A g \in Faces : (identity'[g] = "known") = (identity[g] = "known")
  BY DEF AcceptCandidate, CreateIdentity, TypeOK
<1> HIDE DEF L
<1>6. n # L + 1  BY <1>1, <1>3 DEF Outdated
<1>7. n \in 1..L  BY <1>0, <1>3, <1>6
<1>8. Outdated(n)  BY <1>3, <1>4, <1>5, <1>7 DEF Outdated
<1> QED  BY <1>7, <1>8 DEF L

\* The count of attempts lost to the name check stays within the changes, and
\* below it while an outcome is outdated.
LEMMA ChangeStep ==
  ASSUME TypeOK, Core, ChangeInv, [Next]_vars
  PROVE  ChangeInv'
<1>0. misnamed \in Nat /\ changes \in Nat /\ misnamed <= changes  BY DEF TypeOK, ChangeInv
<1>1. ASSUME UNCHANGED <<changes, misnamed>>,
             worker'.at \in {"resolve", "persist"} =>
               /\ worker.at \in {"resolve", "persist"}
               /\ \A n \in 1..Len(worker'.outcomes) :
                    Outdated(n)' => n \in 1..Len(worker.outcomes) /\ Outdated(n)
      PROVE  ChangeInv'
  BY <1>0, <1>1 DEF ChangeInv
<1>2. ASSUME UNCHANGED <<identity, changes, misnamed>>, worker'.at \in {"resolve", "persist"},
             worker.at \in {"resolve", "persist"}, worker'.outcomes = worker.outcomes
      PROVE  ChangeInv'
  <2>1. \A n : Outdated(n)' = Outdated(n)  BY <1>2 DEF Outdated
  <2> QED  BY <1>1, <1>2, <2>1
<1>3. ASSUME GiveUp, UNCHANGED <<changes, misnamed>>  PROVE ChangeInv'
  <2>1. worker'.at = "idle"  BY <1>3, GivenUp
  <2> QED  BY <1>1, <1>3, <2>1
<1>4. ASSUME NEW point, NEW object, NEW next, next \in {"chunk", "final"}, Upload(point, object, next)
      PROVE  ChangeInv'
  <2>1. UNCHANGED <<changes, misnamed>>  BY <1>4 DEF Upload
  <2>2. CASE worker' = [worker EXCEPT !.at = next]
    <3>1. worker'.at = next  BY <2>2 DEF TypeOK
    <3> QED  BY <1>1, <1>4, <2>1, <3>1
  <2> QED  BY <1>3, <1>4, <2>1, <2>2 DEF Upload
<1>5. CASE Attempt
  <2>1. CASE Claim
    <3>1. worker'.outcomes = <<>>  BY <2>1 DEF Claim, Idle
    <3>2. \A n \in 1..Len(worker'.outcomes) : FALSE  BY <3>1
    <3> QED  BY <1>0, <2>1, <3>2 DEF Claim, ChangeInv
  <2>2. ASSUME NEW f \in Faces, AcceptCandidate(f) \/ CreateIdentity(f)  PROVE ChangeInv'
    <3>1. UNCHANGED <<changes, misnamed>> /\ worker.at = "resolve"
      BY <2>2 DEF AcceptCandidate, CreateIdentity
    <3> QED  BY <1>1, <2>2, <3>1, ResolvedUpToDate
  <2>3. CASE ClearRows
    <3>1. worker'.at = "persist" /\ worker'.outcomes = worker.outcomes
      BY <2>3 DEF ClearRows, TypeOK
    <3> QED  BY <1>2, <2>3, <3>1 DEF ClearRows
  <2>4. CASE AddTrack
    <3>1. worker.at = "persist" /\ Staged + 1 \in 1..N /\ Len(worker.outcomes) = N
      BY <2>4, Parted DEF AddTrack, Core, WorkerInv, N
    <3>2. CASE NameAgrees(TrackRow(Staged + 1))
      <4>1. worker' = [worker EXCEPT !.staged = WithTrack(worker.staged, Staged + 1)]
            /\ UNCHANGED <<identity, changes, misnamed>>
        BY <2>4, <3>2 DEF AddTrack
      <4>2. worker'.at = worker.at /\ worker'.outcomes = worker.outcomes
        BY <4>1 DEF TypeOK
      <4> QED  BY <1>2, <3>1, <4>1, <4>2
    <3>3. CASE ~NameAgrees(TrackRow(Staged + 1))
      <4>1. GiveUp /\ misnamed' = misnamed + 1 /\ UNCHANGED changes
        BY <2>4, <3>3 DEF AddTrack
      <4>2. Outdated(Staged + 1)
        BY <3>3 DEF NameAgrees, TrackRow, Outdated
      <4>3. misnamed < changes  BY <3>1, <4>2 DEF ChangeInv
      <4>4. worker'.at = "idle"  BY <4>1, GivenUp
      <4> QED  BY <1>0, <4>1, <4>3, <4>4 DEF ChangeInv
    <3> QED  BY <3>2, <3>3
  <2>5. CASE CommitTracks
    <3>1. worker'.at = "overlay"  BY <2>5 DEF CommitTracks, TypeOK
    <3> QED  BY <1>1, <2>5, <3>1 DEF CommitTracks
  <2>6. CASE UploadOverlay \/ UploadManifest
    BY <1>4, <2>6 DEF UploadOverlay, UploadManifest
  <2>7. CASE AddChunk
    <3>1. worker'.at = "manifest"  BY <2>7 DEF AddChunk, TypeOK
    <3> QED  BY <1>1, <2>7, <3>1 DEF AddChunk
  <2>8. CASE CompleteJob
    <3>1. worker'.at = "idle"  BY <2>8 DEF CompleteJob, Idle
    <3> QED  BY <1>1, <2>8, <3>1 DEF CompleteJob
  <2>9. CASE Raise
    BY <1>3, <2>9 DEF Raise
  <2> QED  BY <1>5, <2>1, <2>2, <2>3, <2>4, <2>5, <2>6, <2>7, <2>8, <2>9 DEF Attempt
<1>6. CASE Change
  <2>1. changes' = changes + 1 /\ misnamed' = misnamed
    BY <1>6 DEF Change, Enroll, Deactivate, Changed
  <2> QED  BY <1>0, <2>1 DEF ChangeInv
<1>7. CASE Read \/ UNCHANGED vars
  <2>1. UNCHANGED <<identity, changes, worker, misnamed>>
    BY <1>7 DEF vars, Read, UnchangedByReader, GetJob, GetResult, ListTracks, ReadIdentities,
         ReadAppearances,
       ListPeople, ListAppearances, ListChunks, GetFrames, Playback, Yield, NoVideo, Leave
  <2>2. \A n : Outdated(n)' = Outdated(n)  BY <2>1 DEF Outdated
  <2> QED  BY <1>1, <2>1, <2>2
<1> QED  BY <1>5, <1>6, <1>7 DEF Next

-----------------------------------------------------------------------------
(* What the client has read stays true of an attempt.                      *)

\* What no step of an attempt undoes: a completed job, rows at least as late
\* as those read, an overlay that is there.
Undoes ==
  \/ job.state = "completed" /\ ~UNCHANGED <<job, db, objects>>
  \/ \E b \in Attempts : /\ db.tracks # {} /\ \A r \in db.tracks : r.by >= b
                         /\ ~(db'.tracks # {} /\ \A r \in db'.tracks : r.by >= b)
  \/ \E b \in Attempts : /\ db.tracks # {} /\ \A r \in db.tracks : r.by > b
                         /\ ~(\A r \in db'.tracks : r.by > b)
  \/ objects.overlay # None /\ objects'.overlay # objects.overlay

\* Once completed, a job, its rows and its objects stay; rows are replaced by
\* those of later attempts; an overlay is never overwritten.
LEMMA AttemptFrame ==
  ASSUME TypeOK, Core, Attempt
  PROVE  ~Undoes
<1> USE DEF Core
<1>1. job.state # "completed"
  BY DEF WorkerInv, Attempt, Claim, AcceptCandidate, CreateIdentity, ClearRows, AddTrack,
       CommitTracks,
     UploadOverlay, AddChunk, UploadManifest, Upload, CompleteJob, Raise
<1>2. CASE CommitTracks
  <2>1. /\ worker.at = "persist" /\ \A r \in db.tracks : r.by < attempt
        /\ Whole(worker.staged, attempt, N) /\ db' = worker.staged /\ UNCHANGED objects
    BY <1>2 DEF CommitTracks, WorkerInv, N
  <2>2. \A r \in db'.tracks : r.by = attempt  BY <2>1 DEF Whole
  <2>3. db'.tracks # {}  BY <2>1, Parted DEF Whole
  <2>4. attempt \in Attempts /\ \A r \in db.tracks : r.by \in Attempts
    BY <2>1, Started DEF TypeOK, Tables, TrackRows
  <2> QED  BY <1>1, <2>1, <2>2, <2>3, <2>4 DEF Undoes, Attempts
<1>3. CASE AddChunk
  <2>1. db'.tracks = db.tracks /\ UNCHANGED objects  BY <1>3 DEF AddChunk, TypeOK, Tables
  <2> QED  BY <1>1, <2>1 DEF Undoes
<1>4. CASE UploadOverlay \/ UploadManifest
  <2>1. UNCHANGED db  BY <1>4 DEF UploadOverlay, UploadManifest, Upload
  <2>2. objects.overlay # None => objects'.overlay = objects.overlay
    BY <1>4 DEF UploadOverlay, UploadManifest, Upload, TypeOK
  <2> QED  BY <1>1, <2>1, <2>2 DEF Undoes
<1>5. CASE ~(CommitTracks \/ AddChunk \/ UploadOverlay \/ UploadManifest)
  <2>1. UNCHANGED <<db, objects>>
    BY <1>5 DEF Attempt, Claim, AcceptCandidate, CreateIdentity, ClearRows, AddTrack,
         CompleteJob, Raise
  <2> QED  BY <1>1, <2>1 DEF Undoes
<1> QED  BY <1>2, <1>3, <1>4, <1>5

LEMMA FoundByTyped ==
  ASSUME FoundOK
  PROVE  \A n \in 1..Len(reader.found) : reader.found[n].by \in Attempts
<1>1. \A n \in 1..Len(reader.found) : reader.found[n] \in TrackRows  BY DEF FoundOK
<1> QED  BY <1>1 DEF TrackRows

\* What a client has read survives such a step.
LEMMA ReaderUndisturbed ==
  ASSUME TypeOK, ReaderInv, UNCHANGED reader, ~Undoes
  PROVE  ReaderInv'
<1> USE DEF ReaderInv
<1>1. reader.saw => job.state = "completed" /\ UNCHANGED <<job, db, objects>>
  BY DEF SawInv, Undoes
<1>2. SawInv'  BY <1>1 DEF SawInv
<1>3. PointsInv'  BY DEF PointsInv
<1>4. AnswersInv'  BY <1>1 DEF AnswersInv, Answered
<1>5. CastInv'
  <2>1. CASE ReadsTracks
    <3>1. FoundOK /\ CountsOK  BY <2>1 DEF CastInv
    <3>2. \A n \in 1..Len(reader.found) : reader.found[n].by \in Attempts  BY <3>1, FoundByTyped
    <3>3. Len(reader.found) \in Nat /\ Len(reader.counts) \in Nat /\ Len(reader.counts) <= Len(reader.found)
      BY <3>1 DEF FoundOK, CountsOK
    <3>4. reader.found # <<>> => 1 \in 1..Len(reader.found)  BY <3>1 DEF FoundOK
    <3>5. FoundOK'
      <4>1. reader.found # <<>> => db'.tracks # {} /\ \A r \in db'.tracks : r.by >= reader.found[1].by
        BY <3>1, <3>2, <3>4 DEF FoundOK, Undoes
      <4> QED  BY <3>1, <4>1 DEF FoundOK
    <3>6. CountsOK'
      <4>1. ASSUME NEW n \in 1..Len(reader.counts), reader.counts[n] # Parts[n]
            PROVE  reader.counts[n] = 0 /\ \A r \in db'.tracks : r.by > reader.found[n].by
        <5>1. reader.counts[n] = 0 /\ \A r \in db.tracks : r.by > reader.found[n].by
          BY <3>1, <4>1 DEF CountsOK
        <5>2. n \in 1..Len(reader.found) /\ reader.found # <<>>  BY <3>3
        <5>3. db.tracks # {} /\ reader.found[n].by \in Attempts  BY <3>1, <3>2, <5>2 DEF FoundOK
        <5> QED  BY <5>1, <5>3 DEF Undoes
      <4> QED  BY <3>1, <4>1 DEF CountsOK
    <3> QED  BY <1>1, <2>1, <3>5, <3>6 DEF CastInv, ReadsTracks
  <2>2. CASE ~ReadsTracks  BY <2>2 DEF CastInv, ReadsTracks
  <2> QED  BY <2>1, <2>2
<1>6. FramesInv'
  <2>1. ASSUME reader.at = "chunks", NEW c \in reader.found  PROVE objects'.overlay = c.by
    <3>1. objects.overlay = c.by /\ c \in ChunkRows  BY <2>1 DEF FramesInv
    <3>2. objects.overlay # None  BY <3>1, NullAssumption DEF ChunkRows, Attempts
    <3> QED  BY <3>1, <3>2 DEF Undoes
  <2> QED  BY <1>1, <2>1 DEF FramesInv, Answered
<1> QED  BY <1>2, <1>3, <1>4, <1>5, <1>6

-----------------------------------------------------------------------------
(* What the client reads.                                                  *)

\* The committed rows are nothing or the whole of one attempt's, the published
\* one's when the job is completed.
LEMMA CommittedRows ==
  ASSUME TypeOK, Core
  PROVE  \/ NoRowsAt(db) /\ job.state # "completed"
         \/ \E t \in Attempts : /\ Whole(db, t, N) /\ db.chunks \subseteq {[by |-> t]}
                                /\ job.state = "completed" => t = job.manifest
<1> USE DEF Core
<1>1. CASE job.state = "completed"
  BY <1>1 DEF JobInv, TypeOK, Attempts
<1>2. CASE job.state # "completed"
  <2>1. \A t \in 1..attempt : t \in Attempts  BY AttemptAssumption DEF TypeOK, Attempts
  <2> QED  BY <1>2, <2>1 DEF RowsInv
<1> QED  BY <1>1, <1>2

\* The tracks a client lists are none, or the whole cast in order.
LEMMA Listed ==
  ASSUME TypeOK, Core
  PROVE  LET listed == ByOrdinal(db.tracks)
         IN  /\ listed \in Seq(TrackRows)
             /\ listed # <<>> =>
                  /\ Len(listed) = N
                  /\ \A n \in 1..N : listed[n].ord = n /\ listed[n].by = listed[1].by
                  /\ db.tracks # {} /\ \A r \in db.tracks : r.by >= listed[1].by
             /\ job.state = "completed" => listed # <<>> /\ listed[1].by = job.manifest
<1> DEFINE listed == ByOrdinal(db.tracks)
<1>1. CASE NoRowsAt(db) /\ job.state # "completed"
  <2>1. ByNumber(db.tracks, 0)  BY <1>1 DEF NoRowsAt, ByNumber
  <2>2. listed \in Seq(db.tracks) /\ Len(listed) = 0  BY <2>1, InOrder
  <2>3. listed = <<>>  BY <2>2
  <2> QED  BY <1>1, <2>3
<1>2. ASSUME NEW t \in Attempts, Whole(db, t, N), job.state = "completed" => t = job.manifest
      PROVE  /\ listed \in Seq(TrackRows) /\ listed # <<>> /\ Len(listed) = N
             /\ \A n \in 1..N : listed[n].ord = n /\ listed[n].by = t
             /\ db.tracks # {} /\ \A r \in db.tracks : r.by >= t
  <2>0. N \in Nat /\ 1 \in 1..N  BY Parted
  <2>1. ByNumber(db.tracks, N)  BY <1>2, <2>0, WholeNumbered
  <2>2. /\ listed \in Seq(db.tracks) /\ Len(listed) = N
        /\ \A n \in 1..N : listed[n] \in db.tracks /\ listed[n].ord = n
    BY <2>0, <2>1, InOrder
  <2>3. db.tracks \subseteq TrackRows  BY DEF TypeOK, Tables
  <2> HIDE DEF listed
  <2>4. listed \in Seq(TrackRows)  BY <2>2, <2>3
  <2>5. \A r \in db.tracks : r.by = t  BY <1>2 DEF Whole
  <2>6. listed # <<>>  BY <2>0, <2>2
  <2> QED  BY <2>0, <2>2, <2>4, <2>5, <2>6 DEF Attempts
<1> HIDE DEF listed
<1>3. CASE \E t \in Attempts : Whole(db, t, N) /\ (job.state = "completed" => t = job.manifest)
  <2>1. PICK t \in Attempts : Whole(db, t, N) /\ (job.state = "completed" => t = job.manifest)
    BY <1>3
  <2>2. 1 \in 1..N  BY Parted
  <2> QED  BY <1>2, <2>1, <2>2 DEF listed
<1> QED  BY <1>1, <1>3, CommittedRows DEF listed

LEMMA ListTracksReads ==
  ASSUME TypeOK, Core, ReaderInv, NEW kind \in Kinds, ListTracks(kind)
  PROVE  ReaderInv'
<1> DEFINE listed == ByOrdinal(db.tracks)
<1>1. /\ reader.at = "polled" /\ reader.counts = <<>> /\ kind \in {"people", "appearances"}
      /\ UNCHANGED <<job, db, objects>>
  BY DEF ListTracks, UnchangedByReader, ReaderInv, PointsInv
<1>2. /\ reader'.found = listed /\ reader'.counts = <<>> /\ reader'.saw = reader.saw
      /\ reader'.kind = kind /\ reader'.at \in {"identities", "count"}
  BY <1>1 DEF ListTracks, TypeOK, NoReader
<1> HIDE DEF listed
<1>3. SawInv' /\ PointsInv' /\ FramesInv' /\ AnswersInv'
  BY <1>1, <1>2 DEF ReaderInv, SawInv, PointsInv, FramesInv, AnswersInv, Answered
<1>4. FoundOK'
  BY <1>1, <1>2, Listed DEF FoundOK, listed
<1>5. CountsOK'
  <2>1. Len(<<>>) = 0 /\ <<>> \in Seq(Nat)  OBVIOUS
  <2> QED  BY <1>2, <1>4, <2>1 DEF CountsOK, FoundOK
<1>6. reader'.saw => Len(listed) = N /\ listed[1].by = job.manifest
  BY <1>1, <1>2, Listed DEF ReaderInv, SawInv, listed
<1>7. CastInv'
  BY <1>1, <1>2, <1>4, <1>5, <1>6 DEF CastInv
<1> QED  BY <1>3, <1>7 DEF ReaderInv

\* The appearances of the next track are all there, or its attempt's rows are
\* gone.
LEMMA ReadAppearancesReads ==
  ASSUME TypeOK, Core, ReaderInv, ReadAppearances
  PROVE  ReaderInv'
<1> DEFINE n == Len(reader.counts) + 1
           row == reader.found[n]
           c == Cardinality(AppearancesOf(row))
<1>1. /\ reader.at = "count" /\ n - 1 < Len(reader.found) /\ ReadsTracks
      /\ FoundOK /\ CountsOK /\ UNCHANGED <<job, db, objects>>
  BY DEF ReadAppearances, UnchangedByReader, ReaderInv, CastInv, ReadsTracks, CountsOK
<1>2. /\ reader'.counts = Append(reader.counts, c) /\ reader'.found = reader.found
      /\ reader'.saw = reader.saw /\ reader'.at = "count" /\ reader'.kind = reader.kind
  BY <1>1 DEF ReadAppearances, TypeOK, NoReader
<1>3. SawInv' /\ PointsInv' /\ FramesInv' /\ AnswersInv'
  BY <1>1, <1>2 DEF ReaderInv, SawInv, PointsInv, FramesInv, AnswersInv, Answered
<1>4. Len(reader.counts) \in Nat /\ Len(reader.found) \in Nat /\ n \in 1..Len(reader.found) /\ reader.found # <<>>
  BY <1>1 DEF FoundOK, CountsOK
<1>5. /\ n \in 1..N /\ row.ord = n /\ row.by \in Attempts /\ row.by = reader.found[1].by
      /\ db.tracks # {} /\ \A r \in db.tracks : r.by >= row.by
  BY <1>1, <1>4, FoundByTyped DEF FoundOK
<1> HIDE DEF row, n
<1>6. PICK t \in Attempts : Whole(db, t, N) /\ (job.state = "completed" => t = job.manifest)
  BY <1>5, CommittedRows DEF NoRowsAt
<1>7. c = IF row.by = t THEN Parts[n] ELSE 0
  BY <1>5, <1>6, Appearances DEF AppearancesOf
<1> HIDE DEF c
<1>8. c \in Nat /\ Parts[n] \in Nat  BY <1>5, <1>7, Parted
<1>9. c = Parts[n] \/ (c = 0 /\ \A r \in db.tracks : r.by > row.by)
  <2>1. \A r \in db.tracks : r.by = t  BY <1>6 DEF Whole
  <2> QED  BY <1>5, <1>7, <2>1 DEF Attempts
<1>10. reader.saw => c = Parts[n]
  <2>1. reader.saw => row.by = t
    BY <1>1, <1>5, <1>6 DEF ReaderInv, SawInv, CastInv
  <2> QED  BY <1>7, <2>1
<1>11. /\ reader'.counts \in Seq(Nat) /\ Len(reader'.counts) = n /\ reader'.counts[n] = c
       /\ \A i \in 1..n : i # n => i \in 1..Len(reader.counts) /\ reader'.counts[i] = reader.counts[i]
  <2>1. reader.counts \in Seq(Nat)  BY <1>1 DEF CountsOK
  <2>2. n = Len(reader.counts) + 1  BY DEF n
  <2> QED  BY <1>2, <1>8, <2>1, <2>2
<1>12. FoundOK'  BY <1>1, <1>2 DEF FoundOK
<1>13. CountsOK'
  <2>1. \A i \in 1..n : \/ reader'.counts[i] = Parts[i]
                        \/ reader'.counts[i] = 0 /\ \A r \in db.tracks : r.by > reader.found[i].by
    <3> TAKE i \in 1..n
    <3>1. CASE i = n  BY <1>9, <1>11, <3>1 DEF row
    <3>2. CASE i # n  BY <1>1, <1>11, <3>2 DEF CountsOK
    <3> QED  BY <3>1, <3>2
  <2>2. n <= Len(reader.found)  BY <1>4
  <2> QED  BY <1>1, <1>2, <1>11, <2>1, <2>2 DEF CountsOK
<1>14. reader.saw => \A i \in 1..n : reader'.counts[i] = Parts[i]
  <2> SUFFICES ASSUME reader.saw, NEW i \in 1..n  PROVE reader'.counts[i] = Parts[i]
    OBVIOUS
  <2>1. CASE i = n  BY <1>10, <1>11, <2>1
  <2>2. CASE i # n  BY <1>1, <1>11, <2>2 DEF ReaderInv, CastInv
  <2> QED  BY <2>1, <2>2
<1>15. CastInv'
  BY <1>1, <1>2, <1>11, <1>12, <1>13, <1>14 DEF ReaderInv, CastInv
<1> QED  BY <1>3, <1>15 DEF ReaderInv

\* Each statement of the client keeps what has been read true.
LEMMA ReaderReads ==
  ASSUME TypeOK, Core, ReaderInv, Read
  PROVE  ReaderInv'
<1> USE DEF ReaderInv
<1>0. UNCHANGED <<job, db, objects>>
  BY DEF Read, UnchangedByReader, GetJob, GetResult, ListTracks, ReadIdentities, ReadAppearances,
     ListPeople, ListAppearances, ListChunks, GetFrames, Playback, Yield, NoVideo, Leave
<1>1. ASSUME \/ reader'.at \in {"idle", "polled"}
             \/ reader'.at \in {"streaming", "answered"} /\ reader'.kind = "playback",
             reader'.at = "polled" => reader'.counts = <<>>,
             reader'.saw => job.state = "completed"
      PROVE  ReaderInv'
  BY <1>0, <1>1 DEF SawInv, PointsInv, CastInv, ReadsTracks, FramesInv, AnswersInv, Answered
<1>2. CASE GetJob
  BY <1>1, <1>2 DEF GetJob, JobSnapshot, NoReader
<1>3. CASE GetResult
  <2>1. /\ reader.at = "polled" /\ reader'.at = "answered" /\ reader'.kind = "result" /\ reader'.saw = reader.saw
        /\ ResultAvailable => reader'.answer = job.manifest
    BY <1>3 DEF GetResult, TypeOK, NoReader
  <2>2. reader.saw => ResultAvailable  BY DEF SawInv, ResultAvailable, Core, JobInv
  <2> QED
    BY <1>0, <2>1, <2>2 DEF SawInv, PointsInv, CastInv, ReadsTracks, FramesInv, AnswersInv,
         Answered
<1>4. ASSUME NEW kind \in Kinds, ListTracks(kind)  PROVE ReaderInv'  BY <1>4, ListTracksReads
<1>5. CASE ReadIdentities
  <2>1. /\ reader.at = "identities" /\ reader'.at = "count" /\ reader'.kind = reader.kind
        /\ reader'.saw = reader.saw /\ reader'.found = reader.found /\ reader'.counts = reader.counts
    BY <1>5 DEF ReadIdentities, TypeOK, NoReader
  <2>2. ReadsTracks  BY <2>1 DEF ReadsTracks
  <2>3. FoundOK' /\ CountsOK'  BY <1>0, <2>1, <2>2 DEF CastInv, FoundOK, CountsOK
  <2> QED
    BY <1>0, <2>1, <2>2, <2>3 DEF SawInv, PointsInv, CastInv, FramesInv, AnswersInv, Answered
<1>6. CASE ReadAppearances  BY <1>6, ReadAppearancesReads
<1>7. CASE ListPeople \/ ListAppearances
  <2>1. /\ reader.at = "count" /\ reader'.at = "answered" /\ reader'.kind = reader.kind
        /\ reader'.saw = reader.saw /\ reader'.found = reader.found /\ reader'.counts = reader.counts
        /\ reader.kind \in {"people", "appearances"} /\ Len(reader.counts) = Len(reader.found)
        /\ reader.kind = "people" => reader'.answer = Len(reader.found)
    <3>1. CASE ListPeople  BY <3>1 DEF ListPeople, Answers, TypeOK, NoReader
    <3>2. CASE ListAppearances  BY <3>2 DEF ListAppearances, Answers, TypeOK, NoReader
    <3> QED  BY <1>7, <3>1, <3>2
  <2>2. ReadsTracks  BY <2>1 DEF ReadsTracks
  <2>3. FoundOK' /\ CountsOK'  BY <1>0, <2>1, <2>2 DEF CastInv, FoundOK, CountsOK
  <2> QED
    BY <1>0, <2>1, <2>2, <2>3 DEF SawInv, PointsInv, CastInv, FramesInv, AnswersInv, Answered
<1>8. CASE ListChunks
  <2>1. /\ reader.at = "polled" /\ reader'.at = "chunks" /\ reader'.kind = "frames"
        /\ reader'.saw = reader.saw /\ reader'.found = db.chunks
    BY <1>8 DEF ListChunks, TypeOK, NoReader
  <2>2. /\ \A c \in db.chunks : objects.overlay = c.by
        /\ db.chunks \subseteq ChunkRows
        /\ reader.saw => db.chunks = {[by |-> job.manifest]}
    BY DEF Core, RowsInv, JobInv, TypeOK, Tables, SawInv
  <2> QED
    BY <1>0, <2>1, <2>2 DEF SawInv, PointsInv, CastInv, ReadsTracks, FramesInv, AnswersInv,
         Answered
<1>9. CASE GetFrames
  <2>1. /\ reader.at = "chunks" /\ reader'.at = "answered" /\ reader'.kind = "frames" /\ reader.kind = "frames"
        /\ reader'.saw = reader.saw /\ reader'.found = reader.found
        /\ reader'.answer = IF reader.found = {} THEN None ELSE objects.overlay
    BY <1>9 DEF GetFrames, Answers, TypeOK, NoReader, FramesInv
  <2>2. ASSUME NEW c \in reader.found
        PROVE  c = [by |-> objects.overlay] /\ (reader.saw => objects.overlay = job.manifest)
    <3>1. c \in ChunkRows /\ objects.overlay = c.by /\ (reader.saw => c = [by |-> job.manifest])
      BY <2>1 DEF FramesInv
    <3> QED  BY <3>1 DEF ChunkRows
  <2>3. reader'.answer # None => [by |-> reader'.answer] \in reader.found
    BY <2>1, <2>2
  <2>4. reader.saw => reader'.answer = job.manifest
    <3>1. reader.saw => reader.found = {[by |-> job.manifest]}  BY <2>1 DEF FramesInv
    <3> QED  BY <2>1, <2>2, <3>1
  <2> QED
    BY <1>0, <2>1, <2>3, <2>4 DEF SawInv, PointsInv, CastInv, ReadsTracks, FramesInv, AnswersInv,
         Answered
<1>10. ASSUME NEW h \in Headers, NEW total \in Sizes, Playback(h, total)  PROVE ReaderInv'
  <2>1. reader'.at = "streaming" /\ reader'.kind = "playback" /\ reader'.saw = FALSE
    BY <1>10 DEF Playback, NoReader
  <2> QED  BY <1>1, <2>1
<1>11. CASE NoVideo
  <2>1. reader'.at = "answered" /\ reader'.kind = "playback" /\ reader'.saw = FALSE
    BY <1>11 DEF NoVideo, NoReader
  <2> QED  BY <1>1, <2>1
<1>12. CASE Leave
  BY <1>1, <1>12 DEF Leave, NoReader
<1>13. CASE Yield
  <2>1. /\ reader.at = "streaming" /\ reader'.at \in {"streaming", "answered"}
        /\ reader'.kind = reader.kind /\ reader'.saw = reader.saw
    BY <1>13 DEF Yield, TypeOK, NoReader
  <2>2. reader'.kind = "playback"  BY <2>1 DEF PointsInv
  <2> QED  BY <1>1, <2>1, <2>2 DEF SawInv
<1> QED
  BY <1>2, <1>3, <1>4, <1>5, <1>6, <1>7, <1>8, <1>9, <1>10, <1>11, <1>12, <1>13 DEF Read

-----------------------------------------------------------------------------
(* Playback.                                                               *)

LEMMA MinMax ==
  ASSUME NEW a \in Int, NEW b \in Int
  PROVE  /\ Min({a, b}) = IF a <= b THEN a ELSE b
         /\ Max({a, b}) = IF a >= b THEN a ELSE b
BY DEF Min, Max

\* Numbers that follow each other, and what comes after them.
LEMMA Counting ==
  ASSUME NEW k \in Nat, NEW n \in Nat
  PROVE  LET s == [i \in 1..n |-> k + i - 1]
         IN  s \in Seq(Int) /\ Len(s) = n /\ \A i \in 1..n : s[i] = k + i - 1
OBVIOUS

LEMMA JoinedBytes ==
  ASSUME NEW s \in Seq(Int), NEW t \in Seq(Int)
  PROVE  /\ s \o t \in Seq(Int) /\ Len(s \o t) = Len(s) + Len(t)
         /\ \A i \in 1..Len(s) : (s \o t)[i] = s[i]
         /\ \A i \in 1..Len(t) : (s \o t)[Len(s) + i] = t[i]
OBVIOUS

LEMMA Clamped ==
  ASSUME NEW n \in Int, NEW hi \in Nat
  PROVE  /\ Clamp(n, 0, hi) \in 0..hi
         /\ n \in 0..hi => Clamp(n, 0, hi) = n
<1> DEFINE m == Min({n, hi})
<1>1. m = IF n <= hi THEN n ELSE hi  BY MinMax
<1>2. m \in Int /\ m <= hi /\ (n \in 0..hi => m = n)  BY <1>1
<1> HIDE DEF m
<1>3. Max({0, m}) = IF 0 >= m THEN 0 ELSE m  BY <1>2, MinMax
<1>4. Clamp(n, 0, hi) = Max({0, m})  BY DEF Clamp, m
<1> QED  BY <1>2, <1>3, <1>4

\* A range is inside the video, and the one that was asked for as far as it is.
LEMMA Parsed ==
  ASSUME NEW h \in Headers, NEW total \in Nat \ {0}
  PROVE  LET r == ParseByteRange(h, total)
         IN  /\ r.start \in Nat /\ r.stop \in Nat
             /\ r.start <= r.stop /\ r.stop <= total - 1
             /\ h = None => r.start = 0 /\ r.stop = total - 1
             /\ h # None /\ h.unit = "bytes" /\ h.first \in 0..(total - 1) =>
                  /\ h.last = Blank => r.start = h.first /\ r.stop = total - 1
                  /\ h.last \in Nat /\ h.last >= h.first =>
                       r.start = h.first /\ r.stop = Min({h.last, total - 1})
<1> DEFINE r == ParseByteRange(h, total)
           all == [start |-> 0, stop |-> total - 1]
           first == IF h.first = Blank THEN 0 ELSE h.first
           last == IF h.last = Blank THEN total - 1 ELSE h.last
           end == Min({last, total - 1})
           start == Clamp(first, 0, total - 1)
<1>1. CASE h = None \/ h.unit # "bytes"
  <2>1. r = all  BY <1>1 DEF ParseByteRange
  <2> HIDE DEF r
  <2> QED  BY <1>1, <2>1 DEF r
<1>2. CASE ~(h = None \/ h.unit # "bytes") /\ Junk \in {h.first, h.last}
  <2>1. r = all  BY <1>2 DEF ParseByteRange
  <2>2. h.first = Junk \/ h.last = Junk  BY <1>2
  <2>3. ~(h.first \in 0..(total - 1) /\ (h.last = Blank \/ h.last \in Nat))
    BY <2>2, HeaderAssumption
  <2> HIDE DEF r
  <2> QED  BY <1>2, <2>1, <2>3 DEF r
<1>3. CASE ~(h = None \/ h.unit # "bytes") /\ Junk \notin {h.first, h.last}
  <2>1. r = [start |-> start, stop |-> Max({start, end})]
    BY <1>3 DEF ParseByteRange
  <2>2. h.first \in Int \cup {Blank} /\ h.last \in Int \cup {Blank}
    BY <1>3, HeaderAssumption
  <2>3. first \in Int /\ last \in Int /\ total - 1 \in Nat  BY <2>2
  <2>4. h.first \in 0..(total - 1) => first = h.first
    BY HeaderAssumption
  <2>5. h.last \in Nat => last = h.last  BY HeaderAssumption
  <2> HIDE DEF first
  <2>6. start \in 0..(total - 1) /\ (first \in 0..(total - 1) => start = first)
    BY <2>3, Clamped
  <2> HIDE DEF start
  <2>7. end = IF last <= total - 1 THEN last ELSE total - 1
    <3> HIDE DEF last
    <3> QED  BY <2>3, MinMax
  <2>8. h.last = Blank => last = total - 1  OBVIOUS
  <2> HIDE DEF last
  <2>9. end \in Int  BY <2>3, <2>7
  <2>10. h.last \in Nat => end = Min({h.last, total - 1})  BY <2>5
  <2> HIDE DEF end
  <2>11. Max({start, end}) = IF start >= end THEN start ELSE end
    <3>1. start \in Int  BY <2>3, <2>6
    <3> QED  BY <2>9, <3>1, MinMax
  <2>12. r.start = start /\ r.stop = Max({start, end})  BY <2>1
  <2> HIDE DEF r
  <2>13. /\ r.start \in Nat /\ r.stop \in Nat
         /\ r.start <= r.stop /\ r.stop <= total - 1
    BY <2>3, <2>6, <2>7, <2>11, <2>12
  <2>14. ASSUME h.first \in 0..(total - 1), h.last = Blank
         PROVE  r.start = h.first /\ r.stop = total - 1
    BY <2>3, <2>4, <2>6, <2>7, <2>8, <2>11, <2>12, <2>14
  <2>15. ASSUME h.first \in 0..(total - 1), h.last \in Nat, h.last >= h.first
         PROVE  r.start = h.first /\ r.stop = Min({h.last, total - 1})
    <3>1. start = h.first /\ last = h.last  BY <2>4, <2>5, <2>6, <2>15
    <3>2. end >= start  BY <3>1, <2>3, <2>6, <2>7, <2>15
    <3> QED  BY <3>1, <3>2, <2>6, <2>9, <2>10, <2>11, <2>12, <2>15
  <2> QED  BY <1>3, <2>13, <2>14, <2>15 DEF r
<1> QED  BY <1>1, <1>2, <1>3

\* The next chunk is the next bytes.
LEMMA Sends ==
  ASSUME NEW a, NEW h, Served(a, h), a.next <= a.stop
  PROVE  Served([a EXCEPT !.sent = @ \o Chunk(a.next, a.stop), !.next = @ + ChunkSize], h)
<1> DEFINE r == ParseByteRange(h, a.total)
           start == r.start
           end == Min({a.next + ChunkSize, a.stop + 1})
           chunk == Chunk(a.next, a.stop)
           b == [a EXCEPT !.sent = a.sent \o chunk, !.next = a.next + ChunkSize]
<1>1. /\ a \in [total : Sizes, sent : Seq(Int), next : Nat, stop : Nat, length : Nat]
      /\ h \in Headers
      /\ a.stop = r.stop /\ a.length = IF h = None THEN a.total ELSE r.stop - r.start + 1
      /\ Len(a.sent) = Min({a.next, a.stop + 1}) - start
      /\ \A i \in 1..Len(a.sent) : a.sent[i] = start + i - 1
  BY DEF Served
<1>2. /\ a.next \in Nat /\ a.stop \in Nat /\ a.sent \in Seq(Int) /\ Len(a.sent) \in Nat
      /\ a.total \in Nat \ {0}
  <2>1. a.total \in Sizes  BY <1>1
  <2>2. a.total \in Nat \ {0}  BY <2>1, SizeAssumption
  <2> QED  BY <1>1, <2>2
<1>3. start \in Nat  BY <1>1, <1>2, Parsed
<1> HIDE DEF r, start
<1>4. Min({a.next, a.stop + 1}) = a.next
  <2>1. a.next \in Int /\ a.stop + 1 \in Int /\ a.next <= a.stop + 1  BY <1>2
  <2> QED  BY <2>1, MinMax
<1>5. Len(a.sent) = a.next - start  BY <1>1, <1>4
<1>6. end = IF a.next + ChunkSize <= a.stop + 1 THEN a.next + ChunkSize ELSE a.stop + 1
  <2>1. a.next + ChunkSize \in Int /\ a.stop + 1 \in Int  BY <1>2, SizeAssumption
  <2> QED  BY <2>1, MinMax
<1>7. end - a.next \in Nat /\ end \in Int  BY <1>2, <1>6, SizeAssumption
<1>8. chunk = [i \in 1..(end - a.next) |-> a.next + i - 1]  BY DEF Chunk
<1> HIDE DEF end, chunk
<1>9. /\ chunk \in Seq(Int) /\ Len(chunk) = end - a.next
      /\ \A i \in 1..(end - a.next) : chunk[i] = a.next + i - 1
  BY <1>2, <1>7, <1>8, Counting
<1> DEFINE sent == a.sent \o chunk
<1>10. /\ sent \in Seq(Int) /\ Len(sent) = Len(a.sent) + Len(chunk)
       /\ \A i \in 1..Len(a.sent) : sent[i] = a.sent[i]
       /\ \A i \in 1..Len(chunk) : sent[Len(a.sent) + i] = chunk[i]
  BY <1>2, <1>9, JoinedBytes
<1> HIDE DEF sent
<1>11. Len(sent) = end - start  BY <1>2, <1>3, <1>5, <1>7, <1>9, <1>10
<1>12. ASSUME NEW i \in 1..Len(sent) PROVE sent[i] = start + i - 1
  <2>1. CASE i <= Len(a.sent)
    <3>1. i \in 1..Len(a.sent)  BY <1>2, <1>7, <1>3, <1>11, <2>1
    <3> QED  BY <3>1, <1>1, <1>10
  <2>2. CASE ~(i <= Len(a.sent))
    <3> DEFINE j == i - Len(a.sent)
    <3>1. /\ j \in 1..(end - a.next) /\ Len(a.sent) + j = i
          /\ a.next + j - 1 = start + i - 1
      <4> DEFINE n == Len(a.sent)   m == Len(sent)   next == a.next
      <4>1. /\ next \in Nat /\ start \in Nat /\ end \in Int /\ end - next \in Nat
            /\ n = next - start /\ m = end - start /\ i \in 1..m /\ ~(i <= n)
        BY <1>2, <1>3, <1>5, <1>7, <1>11, <2>2
      <4> HIDE DEF n, m, next
      <4>2. i - n \in 1..(end - next) /\ n + (i - n) = i /\ next + (i - n) - 1 = start + i - 1
        BY <4>1
      <4> QED  BY <4>2 DEF n, next
    <3> HIDE DEF j
    <3>2. sent[Len(a.sent) + j] = chunk[j]  BY <3>1, <1>9, <1>10
    <3>3. chunk[j] = a.next + j - 1  BY <3>1, <1>9
    <3> QED  BY <3>1, <3>2, <3>3
  <2> QED  BY <2>1, <2>2
<1>13. /\ b \in [total : Sizes, sent : Seq(Int), next : Nat, stop : Nat, length : Nat]
       /\ b.total = a.total /\ b.stop = a.stop /\ b.length = a.length
       /\ b.sent = sent /\ b.next = a.next + ChunkSize
  <2>1. a.next + ChunkSize \in Nat  BY <1>2, SizeAssumption
  <2>2. b = [a EXCEPT !.sent = sent, !.next = a.next + ChunkSize]  BY DEF sent
  <2> HIDE DEF b
  <2> QED  BY <1>1, <1>10, <2>1, <2>2
<1> HIDE DEF b
<1>14. Served(b, h)
  BY <1>1, <1>11, <1>12, <1>13 DEF Served, r, start, end
<1>15. b = [a EXCEPT !.sent = @ \o Chunk(a.next, a.stop), !.next = @ + ChunkSize]
  BY DEF b, chunk
<1> QED  BY <1>14, <1>15

LEMMA PlaybackStep ==
  ASSUME TypeOK, ReaderInv, PlaybackInv, [Next]_vars
  PROVE  PlaybackInv'
<1> USE DEF NoReader
<1>1. CASE UNCHANGED reader  BY <1>1 DEF PlaybackInv, Answered, Served
<1>2. ASSUME NEW h \in Headers, NEW total \in Sizes, Playback(h, total) PROVE PlaybackInv'
  <2> DEFINE r == ParseByteRange(h, total)
             a == [total |-> total, sent |-> <<>>, next |-> r.start, stop |-> r.stop,
                   length |-> IF h = None THEN total ELSE r.stop - r.start + 1]
  <2>1. reader' = [NoReader EXCEPT !.at = "streaming", !.kind = "playback", !.found = h,
                     !.answer = a]
    BY <1>2 DEF Playback
  <2>2. /\ reader'.at = "streaming" /\ reader'.kind = "playback"
        /\ reader'.found = h /\ reader'.answer = a
    BY <2>1
  <2>3. total \in Nat \ {0}  BY SizeAssumption
  <2>4. r.start \in Nat /\ r.stop \in Nat /\ r.start <= r.stop  BY <2>3, Parsed
  <2>5. /\ a.total = total /\ a.sent = <<>> /\ a.next = r.start /\ a.stop = r.stop
        /\ a.length = IF h = None THEN total ELSE r.stop - r.start + 1
    OBVIOUS
  <2>6. a \in [total : Sizes, sent : Seq(Int), next : Nat, stop : Nat, length : Nat]
    <3>1. (IF h = None THEN total ELSE r.stop - r.start + 1) \in Nat  BY <2>3, <2>4
    <3> HIDE DEF r
    <3> QED  BY <2>4, <3>1
  <2> HIDE DEF a
  <2>7. Min({a.next, a.stop + 1}) = a.next
    <3>1. a.next \in Int /\ a.stop + 1 \in Int /\ a.next <= a.stop + 1  BY <2>4, <2>5
    <3> QED  BY <3>1, MinMax
  <2>8. Served(a, h)
    <3>1. Len(a.sent) = Min({a.next, a.stop + 1}) - r.start  BY <2>4, <2>5, <2>7
    <3>2. 1..Len(a.sent) = {}  BY <2>5
    <3> HIDE DEF r
    <3> QED  BY <2>5, <2>6, <3>1, <3>2 DEF Served, r
  <2>9. a.next <= a.stop  BY <2>4, <2>5
  <2> HIDE DEF r
  <2> QED  BY <2>2, <2>8, <2>9 DEF PlaybackInv, Answered
<1>3. CASE Yield
  <2> DEFINE a == reader.answer
             b == [a EXCEPT !.sent = @ \o Chunk(a.next, a.stop), !.next = @ + ChunkSize]
             at == IF a.next + ChunkSize > a.stop THEN "answered" ELSE "streaming"
  <2>1. reader.at = "streaming" /\ reader' = [reader EXCEPT !.answer = b, !.at = at]
    BY <1>3 DEF Yield
  <2> HIDE DEF b, at
  <2>2. /\ reader'.at = at /\ reader'.answer = b /\ reader'.kind = reader.kind
        /\ reader'.found = reader.found
    BY <2>1 DEF TypeOK
  <2>3. Served(a, reader.found) /\ a.next <= a.stop  BY <2>1 DEF PlaybackInv
  <2>4. Served(b, reader.found)  BY <2>3, Sends DEF b
  <2>5. b.next = a.next + ChunkSize /\ b.stop = a.stop /\ a.stop \in Nat /\ a.next \in Nat
    BY <2>3 DEF b, Served
  <2>6. at = "streaming" <=> b.next <= b.stop
    BY <2>5, SizeAssumption DEF at
  <2>7. at \in {"streaming", "answered"}  BY DEF at
  <2> QED  BY <2>2, <2>4, <2>6, <2>7 DEF PlaybackInv, Answered
<1>4. CASE GetJob \/ Leave
  <2>1. CASE GetJob
    <3>1. reader'.at = "polled"  BY <2>1 DEF GetJob
    <3> QED  BY <3>1 DEF PlaybackInv, Answered
  <2>2. CASE Leave
    <3>1. reader'.at = "idle"  BY <2>2 DEF Leave
    <3> QED  BY <3>1 DEF PlaybackInv, Answered
  <2> QED  BY <1>4, <2>1, <2>2
<1>5. CASE GetResult \/ (\E kind \in Kinds : ListTracks(kind))
  <2>1. reader'.at # "streaming" /\ ~Answered("playback")'
    BY <1>5 DEF GetResult, ListTracks, Answered, TypeOK
  <2> QED  BY <2>1 DEF PlaybackInv
<1>6. CASE NoVideo
  <2>1. reader'.at = "answered" /\ reader'.answer = None  BY <1>6 DEF NoVideo
  <2> QED  BY <2>1 DEF PlaybackInv
<1>7. CASE ReadIdentities \/ ReadAppearances \/ ListPeople \/ ListAppearances \/ ListChunks
             \/ GetFrames
  <2>1. reader'.kind # "playback" /\ reader'.at # "streaming"
    <3>0. ReaderInv /\ TypeOK  OBVIOUS
    <3>1. CASE ReadIdentities
      BY <3>0, <3>1 DEF ReadIdentities, TypeOK, ReaderInv, PointsInv
    <3>2. CASE ReadAppearances
      BY <3>0, <3>2 DEF ReadAppearances, TypeOK, ReaderInv, PointsInv
    <3>3. CASE ListPeople
      BY <3>0, <3>3 DEF ListPeople, Answers, TypeOK
    <3>4. CASE ListAppearances
      BY <3>0, <3>4 DEF ListAppearances, Answers, TypeOK
    <3>5. CASE ListChunks
      BY <3>0, <3>5 DEF ListChunks, TypeOK
    <3>6. CASE GetFrames
      <4>1. reader.at = "chunks" /\ \E x : reader' = [reader EXCEPT !.at = "answered", !.answer = x]
        BY <3>6 DEF GetFrames, Answers
      <4>2. reader'.at = "answered" /\ reader'.kind = reader.kind  BY <3>0, <4>1 DEF TypeOK
      <4> QED  BY <3>0, <4>1, <4>2 DEF ReaderInv, FramesInv
    <3> QED  BY <1>7, <3>1, <3>2, <3>3, <3>4, <3>5, <3>6
  <2> QED  BY <2>1 DEF PlaybackInv, Answered
<1> QED  BY <1>1, <1>2, <1>3, <1>4, <1>5, <1>6, <1>7, ReaderKept DEF Next, Read, vars

-----------------------------------------------------------------------------
(* The theorems.                                                           *)

LEMMA ResultsInit == Init => ResultsInv
<1> SUFFICES ASSUME Init PROVE ResultsInv
  OBVIOUS
<1>1. TypeOK  BY ResultsTypeInit
<1>2. /\ attempt = 0 /\ worker.at = "idle" /\ worker.outcomes = <<>> /\ db = NoRows
      /\ job.state = "pending" /\ job.manifest = None
  BY DEF Init, Idle
<1>3. RowsInv  BY <1>2 DEF RowsInv, NoRowsAt, NoRows
<1>4. WorkerInv  BY <1>2 DEF WorkerInv
<1>5. JobInv  BY <1>2 DEF JobInv
<1>6. reader.at = "idle" /\ ~reader.saw  BY DEF Init, NoReader
<1>7. ReaderInv
  BY <1>6 DEF ReaderInv, SawInv, PointsInv, CastInv, ReadsTracks, FramesInv, AnswersInv, Answered
<1>8. ChangeInv  BY <1>2 DEF Init, ChangeInv
<1>9. PlaybackInv  BY <1>6 DEF PlaybackInv, Answered
<1> QED  BY <1>1, <1>3, <1>4, <1>5, <1>7, <1>8, <1>9 DEF ResultsInv

LEMMA ResultsStep == ResultsInv /\ [Next]_vars => ResultsInv'
<1> SUFFICES ASSUME ResultsInv, [Next]_vars PROVE ResultsInv'
  OBVIOUS
<1>1. TypeOK /\ Core /\ ReaderInv /\ PlaybackInv /\ ChangeInv  BY DEF ResultsInv, Core
<1>2. TypeOK'  BY <1>1, ResultsTypeStep DEF Core
<1>3. Core'  BY <1>1, CoreStep
<1>4. ReaderInv'
  <2>1. CASE Attempt
    BY <1>1, <2>1, AttemptFrame, ReaderKept, ReaderUndisturbed
  <2>2. CASE Change \/ UNCHANGED vars
    <3>1. UNCHANGED <<job, db, objects, reader>>
      BY <2>2 DEF Change, Enroll, Deactivate, Changed, vars
    <3>2. ~Undoes  BY <3>1 DEF Undoes
    <3> QED  BY <1>1, <3>1, <3>2, ReaderUndisturbed
  <2>3. CASE Read
    BY <1>1, <2>3, ReaderReads
  <2> QED  BY <2>1, <2>2, <2>3 DEF Next
<1>5. ChangeInv'  BY <1>1, ChangeStep
<1>6. PlaybackInv'  BY <1>1, PlaybackStep
<1> QED  BY <1>2, <1>3, <1>4, <1>5, <1>6 DEF ResultsInv, Core

\* The inductive invariant holds: the committed rows are nothing or one whole
\* attempt, and what a client holds agrees with them.
THEOREM ResultsInvariant == Spec => []ResultsInv
BY ResultsInit, ResultsStep, PTL DEF Spec

\* Every variable keeps its type (the rows of the result tables, the job row,
\* the attempt under way, the client).
THEOREM ResultsTypeCorrect == Spec => []TypeOK
<1>1. ResultsInv => TypeOK  BY DEF ResultsInv
<1> QED  BY <1>1, ResultsInvariant, PTL

\* Whatever the client asks, whenever it asks, it is answered with one attempt's
\* result, whole, and with the published attempt's once it has seen the job
\* completed (persist_tracks, write_public_overlay, list_people,
\* list_appearances, get_job).
THEOREM ReadsAreWhole == Spec => []ReadsWhole
<1>1. ResultsInv => ReadsWhole
  <2> SUFFICES ASSUME ResultsInv PROVE ReadsWhole
    OBVIOUS
  <2> USE DEF ResultsInv, ReaderInv
  <2>0. N \in Nat /\ 1..N = Ordinals /\ 1 \in 1..N /\ Len(Parts) = N  BY Parted DEF N, Ordinals
  <2>1. Answered("result") /\ reader.saw => reader.answer = job.manifest
    BY DEF AnswersInv
  <2>2. /\ Answered("frames") /\ reader.saw => reader.answer = job.manifest
        /\ Answered("frames") /\ reader.answer # None => [by |-> reader.answer] \in reader.found
    BY DEF FramesInv
  <2>3. ASSUME Answered("people") \/ Answered("appearances")
        PROVE  /\ FoundOK /\ CountsOK /\ Len(reader.counts) = Len(reader.found)
               /\ Len(reader.found) \in Nat
               /\ reader.saw => Len(reader.found) = N /\ reader.found[1].by = job.manifest
               /\ reader.saw => \A n \in 1..Len(reader.counts) : reader.counts[n] = Parts[n]
    BY <2>3 DEF CastInv, ReadsTracks, Answered, AnswersInv, FoundOK
  <2>4. Answered("people") /\ reader.saw => reader.answer = job.persons
    BY <2>3 DEF AnswersInv, SawInv, JobInv
  <2>5. ASSUME Answered("people") \/ Answered("appearances"), reader.saw
        PROVE  reader.counts = FullCounts /\ \A n \in Ordinals : reader.found[n].by = job.manifest
    <3>1. reader.counts \in Seq(Nat) /\ Len(reader.counts) = N  BY <2>3, <2>5 DEF CountsOK
    <3>2. reader.counts = [n \in Ordinals |-> reader.counts[n]]  BY <2>0, <3>1
    <3>3. reader.counts = FullCounts  BY <2>0, <2>3, <2>5, <3>1, <3>2 DEF FullCounts
    <3>4. reader.found # <<>>  BY <2>0, <2>3, <2>5
    <3> QED  BY <2>0, <2>3, <2>5, <3>3, <3>4 DEF FoundOK
  <2>6. ASSUME Answered("people") \/ Answered("appearances")
        PROVE  /\ reader.found # <<>> =>
                    /\ Len(reader.found) = Len(Parts)
                    /\ \A n \in Ordinals : reader.found[n].by = reader.found[1].by
               /\ \A n \in 1..Len(reader.found) :
                    \/ reader.counts[n] = Parts[n]
                    \/ reader.counts[n] = 0 /\ \A t \in db.tracks : t.by > reader.found[n].by
    BY <2>0, <2>3, <2>6 DEF FoundOK, CountsOK
  <2> QED  BY <2>1, <2>2, <2>4, <2>5, <2>6 DEF ReadsWhole
<1> QED  BY <1>1, ResultsInvariant, PTL

\* The name check of video_track ends no more attempts than identities were
\* changed (accept_candidate_for_process, persist_tracks).
THEOREM ChangesCostAttempts == Spec => []ChangeCostsAnAttempt
<1>1. ResultsInv => ChangeCostsAnAttempt
  BY DEF ResultsInv, ChangeInv, ChangeCostsAnAttempt
<1> QED  BY <1>1, ResultsInvariant, PTL

\* A player is sent the bytes that were announced, in order, each once, and of a
\* range inside the video exactly its bytes, for every size, chunk size and
\* Range header (_parse_byte_range, playback_video).
THEOREM RangesAreServed == Spec => []RangeServed
<1>1. PlaybackInv => RangeServed
  <2> SUFFICES ASSUME PlaybackInv, Answered("playback"), reader.answer # None
               PROVE  RangeServed
    BY DEF RangeServed
  <2> DEFINE h == reader.found
             a == reader.answer
             sent == a.sent
             r == ParseByteRange(h, a.total)
  <2>1. Served(a, h) /\ ~(a.next <= a.stop)  BY DEF PlaybackInv
  <2>2. h \in Headers /\ a.total \in Nat \ {0}
    <3>1. h \in Headers /\ a.total \in Sizes  BY <2>1 DEF Served
    <3> QED  BY <3>1, SizeAssumption
  <2>3. /\ a.next \in Nat /\ a.stop \in Nat /\ a.stop = r.stop
        /\ a.length = IF h = None THEN a.total ELSE r.stop - r.start + 1
        /\ Len(sent) = Min({a.next, a.stop + 1}) - r.start
        /\ \A i \in 1..Len(sent) : sent[i] = r.start + i - 1
    BY <2>1 DEF Served
  <2>4. /\ r.start \in Nat /\ r.stop \in Nat
        /\ r.start <= r.stop /\ r.stop <= a.total - 1
        /\ h = None => r.start = 0 /\ r.stop = a.total - 1
        /\ h # None /\ h.unit = "bytes" /\ h.first \in 0..(a.total - 1) =>
             /\ h.last = Blank => r.start = h.first /\ r.stop = a.total - 1
             /\ h.last \in Nat /\ h.last >= h.first =>
                  r.start = h.first /\ r.stop = Min({h.last, a.total - 1})
    BY <2>2, Parsed
  <2> HIDE DEF r, h, a
  <2>5. Min({a.next, a.stop + 1}) = a.stop + 1
    <3>1. a.next \in Int /\ a.stop + 1 \in Int /\ a.stop + 1 <= a.next  BY <2>1, <2>3
    <3> QED  BY <3>1, MinMax
  <2>6. Len(sent) = r.stop - r.start + 1  BY <2>3, <2>4, <2>5
  <2>7. /\ sent[1] = r.start /\ sent[Len(sent)] = r.stop
        /\ \A i \in 1..Len(sent) : sent[i] = sent[1] + i - 1 /\ sent[i] \in 0..(a.total - 1)
    <3> DEFINE n == Len(sent)
    <3>1. n \in Nat /\ 1 \in 1..n /\ n \in 1..n /\ n = r.stop - r.start + 1  BY <2>4, <2>6
    <3> HIDE DEF n
    <3>2. \A i \in 1..n : sent[i] = r.start + i - 1  BY <2>3 DEF n
    <3>3. sent[1] = r.start /\ sent[n] = r.stop  BY <2>4, <3>1, <3>2
    <3>4. \A i \in 1..n : r.start + i - 1 \in 0..(a.total - 1)  BY <2>2, <2>4, <3>1
    <3> QED  BY <3>2, <3>3, <3>4 DEF n
  <2>8. Len(sent) = a.length /\ (h = None => Len(sent) = a.total)
    BY <2>2, <2>3, <2>4, <2>6
  <2>9. h # None /\ h.unit = "bytes" /\ h.first \in 0..(a.total - 1) =>
          /\ h.last = Blank => sent[1] = h.first /\ sent[Len(sent)] = a.total - 1
          /\ h.last \in Nat /\ h.last >= h.first =>
               sent[1] = h.first /\ sent[Len(sent)] = Min({h.last, a.total - 1})
    BY <2>4, <2>7
  <2> QED  BY <2>7, <2>8, <2>9 DEF RangeServed, h, a
<1>2. ResultsInv => PlaybackInv  BY DEF ResultsInv
<1> QED  BY <1>1, <1>2, ResultsInvariant, PTL
=============================================================================
