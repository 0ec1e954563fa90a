----------------------- MODULE BulkEnrollment_proofs ------------------------
(***************************************************************************)
(* Proofs about BulkEnrollment, for every manifest, any number of runs and *)
(* all sizes of chunk and engine.                                          *)
(*                                                                         *)
(* Core says of each run what it holds of its bundle: which pictures it    *)
(* has accepted, uploaded, rejected and failed at its step.  Three         *)
(* arguments rest on it.  VectorIsOwn needs that the counters of           *)
(* extraction and recognition number the same pictures (NthRank) and that  *)
(* no row of the engine's output is written twice (EmbeddingType).         *)
(* RunsSettle needs what a run still owes to the rows and what it is       *)
(* undoing at each step (Settling), and what the stores have of the bundle *)
(* (StoredInv).  JournalHolds needs besides that no step touches samples   *)
(* of another bundle (Elsewhere).                                          *)
(***************************************************************************)
EXTENDS GpuPipeline, FiniteSetTheorems, WellFoundedInduction, TLAPS

-----------------------------------------------------------------------------
(* Numbers, and positions in order.                                        *)

\* A finite set of numbers has a greatest element: of the sets of what lies
\* above an element, a smallest one is empty.
LEMMA Greatest ==
  ASSUME NEW T \in SUBSET Nat, IsFiniteSet(T), T # {}
  PROVE  \E m \in T : \A n \in T : n <= m
<1> DEFINE Above(m) == {n \in T : m < n}
           Tails == {Above(m) : m \in T}
           R == StrictSubsetOrdering(T)
<1>1. IsWellFoundedOn(R, FiniteSubsetsOf(T))  BY FS_StrictSubsetOrderingWellFounded
<1>2. FiniteSubsetsOf(T) = SUBSET T  BY FS_FiniteSubsetsOfFinite
<1>3. Tails \subseteq SUBSET T /\ Tails # {}  OBVIOUS
<1> HIDE DEF R, Tails
<1>4. PICK U \in Tails : \A V \in Tails : ~(<<V, U>> \in R)
  <2>1. Tails \subseteq FiniteSubsetsOf(T)  BY <1>2, <1>3
  <2> QED  BY <1>1, <1>3, <2>1, WFMin
<1>5. PICK m \in T : U = Above(m)  BY <1>4 DEF Tails
<1>6. Above(m) = {}
  <2> SUFFICES ASSUME NEW n \in T, m < n PROVE FALSE  OBVIOUS
  <2>1. \A q \in T : n < q => m < q  OBVIOUS
  <2>2. Above(n) \subseteq Above(m)  BY <2>1
  <2>3. n \in Above(m) /\ n \notin Above(n)  OBVIOUS
  <2>4. Above(n) \in Tails  BY DEF Tails
  <2>5. <<Above(n), Above(m)>> \in R  BY <2>2, <2>3 DEF R, StrictSubsetOrdering
  <2> QED  BY <2>4, <2>5, <1>4, <1>5
<1> QED  BY <1>6

\* The number of a position among some: how many there are up to it.
Rank(ps, p) == Cardinality({q \in ps : q <= p})

LEMMA RankType ==
  ASSUME NEW ps \in SUBSET Nat, IsFiniteSet(ps), NEW p \in ps
  PROVE  Cardinality(ps) \in Nat /\ Rank(ps, p) \in 1..Cardinality(ps)
<1>1. {q \in ps : q <= p} \subseteq ps /\ p \in {q \in ps : q <= p}  OBVIOUS
<1>2. IsFiniteSet({q \in ps : q <= p}) /\ Cardinality(ps) \in Nat
        /\ Rank(ps, p) <= Cardinality(ps)  BY <1>1, FS_Subset, FS_CardinalityType DEF Rank
<1>3. Rank(ps, p) \in Nat /\ Rank(ps, p) # 0
  BY <1>1, <1>2, FS_EmptySet, FS_CardinalityType DEF Rank
<1> QED  BY <1>2, <1>3

LEMMA RanksDiffer ==
  ASSUME NEW ps \in SUBSET Nat, IsFiniteSet(ps), NEW p \in ps, NEW q \in ps,
         Rank(ps, p) = Rank(ps, q)
  PROVE  p = q
<1>1. ASSUME NEW a \in ps, NEW b \in ps, a < b, Rank(ps, a) = Rank(ps, b)  PROVE FALSE
  <2> DEFINE A == {x \in ps : x <= a}
             B == {x \in ps : x <= b}
  <2>1. A \subseteq B /\ b \in B /\ b \notin A
    <3>1. a \in Nat /\ b \in Nat /\ \A x \in ps : x \in Nat  BY <1>1
    <3>2. \A x \in ps : x <= a => x <= b  BY <1>1, <3>1
    <3>3. A \subseteq B  BY <3>2
    <3>4. b \in B  BY <1>1, <3>1
    <3>5. b \notin A  BY <1>1, <3>1
    <3> QED  BY <3>3, <3>4, <3>5
  <2>2. IsFiniteSet(B)  BY FS_Subset
  <2>3. Cardinality(A) = Cardinality(B)  BY <1>1 DEF Rank
  <2> HIDE DEF A, B
  <2> QED  BY <2>1, <2>2, <2>3, FS_Subset
<1> QED  BY <1>1

\* Nth finds the position with a number, and each number up to the size of the
\* set is the number of one.
LEMMA NthRank ==
  ASSUME NEW ps \in SUBSET Nat, IsFiniteSet(ps), NEW p \in ps
  PROVE  Nth(ps, Rank(ps, p)) = p
BY RanksDiffer DEF Nth, Rank

LEMMA NthType ==
  ASSUME NEW ps \in SUBSET Nat, IsFiniteSet(ps), NEW n \in 1..Cardinality(ps)
  PROVE  Nth(ps, n) \in ps
<1> DEFINE f == [p \in ps |-> Rank(ps, p)]
           m == Cardinality(ps)
<1>1. m \in Nat  BY FS_CardinalityType
<1>2. f \in Injection(ps, 1..m)
  <2>1. \A p \in ps : Rank(ps, p) \in 1..m  BY RankType
  <2>2. \A p, q \in ps : Rank(ps, p) = Rank(ps, q) => p = q  BY RanksDiffer
  <2>3. f \in [ps -> 1..m] /\ \A p, q \in ps : f[p] = f[q] => p = q  BY <2>1, <2>2
  <2> HIDE DEF f, m
  <2> QED  BY <2>3 DEF Injection, IsInjective
<1>3. IsFiniteSet(1..m) /\ Cardinality(1..m) = m  BY <1>1, FS_Interval
<1> HIDE DEF f
<1>4. f \in Surjection(ps, 1..m)  BY <1>2, <1>3, FS_Injection
<1>5. PICK p \in ps : f[p] = n  BY <1>4 DEF Surjection
<1>6. \E q \in ps : Cardinality({x \in ps : x <= q}) = n  BY <1>5 DEF f, Rank
<1> QED  BY <1>6 DEF Nth

\* Places of the engine's output within one batch, and from one batch to the next.
LEMMA Rest ==
  ASSUME NEW E \in Nat \ {0}, NEW k \in 1..E, NEW n \in 1..E, k % E = n % E
  PROVE  k = n
OBVIOUS

\* A chunk is an interval of positions.
LEMMA Div ==
  ASSUME NEW C \in Nat \ {0}, NEW p \in Nat \ {0}
  PROVE  /\ (p - 1) \div C \in Nat
         /\ p \in (((p - 1) \div C) * C + 1)..(((p - 1) \div C) * C + C)
OBVIOUS

LEMMA NextOfRest ==
  ASSUME NEW E \in Nat \ {0}, NEW k \in Nat
  PROVE  (k + E) % E = k % E
<1> DEFINE a == k \div E   r == k % E
           b == (k + E) \div E   s == (k + E) % E
<1>1. a \in Nat /\ r \in 0..(E - 1) /\ k = E * a + r  OBVIOUS
<1>2. b \in Nat /\ s \in 0..(E - 1) /\ k + E = E * b + s
  <2> DEFINE j == k + E
  <2>1. j \in Nat  OBVIOUS
  <2> HIDE DEF j
  <2>2. j \div E \in Nat /\ j % E \in 0..(E - 1) /\ j = E * (j \div E) + (j % E)  BY <2>1
  <2> QED  BY <2>2 DEF j
<1> HIDE DEF a, b, r, s
<1>3. E * (a + 1) + r = E * b + s
  <2>1. E * (a + 1) = E * a + E  BY <1>1
  <2> QED  BY <1>1, <1>2, <2>1
<1>4. ~(b > a + 1)
  <2> SUFFICES ASSUME b > a + 1 PROVE FALSE  OBVIOUS
  <2>1. E * b >= E * (a + 2)  BY <1>1, <1>2
  <2>2. E * (a + 2) = E * (a + 1) + E  BY <1>1
  <2>3. E * (a + 1) \in Nat /\ E * b \in Nat  BY <1>1, <1>2
  <2> QED  BY <1>1, <1>2, <1>3, <2>1, <2>2, <2>3
<1>5. ~(b < a + 1)
  <2> SUFFICES ASSUME b < a + 1 PROVE FALSE  OBVIOUS
  <2>1. E * (a + 1) >= E * (b + 1)  BY <1>1, <1>2
  <2>2. E * (b + 1) = E * b + E  BY <1>2
  <2>3. E * (a + 1) \in Nat /\ E * b \in Nat  BY <1>1, <1>2
  <2> QED  BY <1>1, <1>2, <1>3, <2>1, <2>2, <2>3
<1>6. b = a + 1  BY <1>1, <1>2, <1>4, <1>5
<1>7. E * (a + 1) \in Nat  BY <1>1
<1>8. r = s  BY <1>1, <1>2, <1>3, <1>6, <1>7
<1> QED  BY <1>8 DEF r, s

\* The last chip that is written to a place of the output.
LEMMA LastOne ==
  ASSUME NEW E \in Nat \ {0}, NEW m \in Nat, NEW n \in 1..m
  PROVE  \E k \in 1..m : k % E = n % E /\ k + E > m
<1> DEFINE T == {k \in 1..m : k % E = n % E}
<1>1. IsFiniteSet(T) /\ T \subseteq Nat /\ n \in T
  <2>1. T \subseteq 1..m /\ n \in T /\ 1..m \subseteq Nat  OBVIOUS
  <2>2. IsFiniteSet(1..m)  BY FS_Interval
  <2> HIDE DEF T
  <2> QED  BY <2>1, <2>2, FS_Subset
<1>2. PICK k \in T : \A q \in T : q <= k
  <2> HIDE DEF T
  <2> QED  BY <1>1, Greatest
<1>3. k \in 1..m /\ k % E = n % E  BY <1>2
<1>4. k + E > m
  <2> SUFFICES ASSUME k + E <= m PROVE FALSE  BY <1>3
  <2>1. (k + E) % E = k % E
    <3>1. k \in Nat  BY <1>3
    <3> QED  BY <3>1, NextOfRest, Zenon
  <2>2. (k + E) % E = n % E  BY <1>3, <2>1
  <2>3. k + E \in 1..m  BY <1>3
  <2>4. k + E \in T  BY <2>2, <2>3
  <2>5. k + E <= k  BY <2>4, <1>2
  <2> QED  BY <2>5, <1>3
<1> QED  BY <1>3, <1>4

-----------------------------------------------------------------------------
\* What ManifestAssumption says of one subject.
LEMMA ManifestFacts ==
  ASSUME NEW k \in DOMAIN Manifest
  PROVE  /\ k \in 1..Len(Manifest) /\ Len(Manifest) \in Nat
         /\ DOMAIN Manifest = 1..Len(Manifest)
         /\ Manifest[k].face \in Faces
         /\ Manifest[k].images \in Seq(Images)
         /\ Len(Manifest[k].images) \in Nat \ {0}
         /\ DOMAIN Manifest[k].images = 1..Len(Manifest[k].images)
         /\ DOMAIN Manifest[k].images \subseteq Positions
         /\ \A p \in DOMAIN Manifest[k].images :
              /\ Manifest[k].images[p] \in Images
              /\ Manifest[k].images[p] # "nothing"
              /\ SampleId(Manifest[k].face, Manifest[k].images[p]) \in Samples
<1>1. Manifest[k] \in [face : Faces, images : Seq(Images)] /\ Len(Manifest[k].images) > 0
        /\ DOMAIN Manifest = 1..Len(Manifest) /\ Len(Manifest) \in Nat
  <2> DEFINE Subjects == [face : Faces, images : Seq(Images)]
  <2>1. Manifest \in Seq(Subjects)  BY ManifestAssumption
  <2>2. Len(Manifest[k].images) > 0  BY ManifestAssumption
  <2> HIDE DEF Subjects
  <2>3. Manifest[k] \in Subjects /\ DOMAIN Manifest = 1..Len(Manifest) /\ Len(Manifest) \in Nat
    BY <2>1
  <2> QED  BY <2>2, <2>3 DEF Subjects
<1>2. Manifest[k].images \in Seq(Images) /\ Manifest[k].face \in Faces  BY <1>1
<1>3. \A p \in DOMAIN Manifest[k].images : Manifest[k].images[p] \in Images  BY <1>2
<1>4. DOMAIN Manifest[k].images = 1..Len(Manifest[k].images)
        /\ Len(Manifest[k].images) \in Nat \ {0}  BY <1>1, <1>2
<1>5. DOMAIN Manifest[k].images \subseteq Positions  BY DEF Positions
<1>6. \A p \in DOMAIN Manifest[k].images :
        SampleId(Manifest[k].face, Manifest[k].images[p]) \in Samples
  <2> DEFINE Own == {SampleId(Manifest[k].face, Manifest[k].images[p]) :
                       p \in DOMAIN Manifest[k].images}
  <2>1. Own \subseteq Samples  BY DEF Samples
  <2> QED  BY <2>1
<1>7. \A p \in DOMAIN Manifest[k].images : Manifest[k].images[p] # "nothing"
  BY <1>3, ManifestAssumption
<1> QED  BY <1>1, <1>2, <1>3, <1>4, <1>5, <1>6, <1>7

\* The decoded and the selected pictures of the chunk of a position.
LEMMA ChunkFacts ==
  ASSUME NEW images \in Seq(Images), Len(images) > 0, NEW p \in DOMAIN images
  PROVE  LET c == Chunk(images, p) IN
         /\ p \in Valid(images, c) <=> Kind[images[p]] # "broken"
         /\ p \in Selected(images, c) <=> Kind[images[p]] = "single"
         /\ Selected(images, c) \subseteq Valid(images, c)
         /\ Valid(images, c) \subseteq Nat /\ Selected(images, c) \subseteq Nat
         /\ IsFiniteSet(Valid(images, c)) /\ IsFiniteSet(Selected(images, c))
         /\ Cardinality(Selected(images, c)) <= ChunkSize(images)
         /\ Cardinality(Selected(images, c)) \in Nat
<1> DEFINE c == Chunk(images, p)
           C == ChunkSize(images)
<1>1. DOMAIN images = 1..Len(images) /\ Len(images) \in Nat /\ images[p] \in Images  OBVIOUS
<1>2. p \in Valid(images, c) <=> Kind[images[p]] # "broken"  BY DEF Valid
<1>3. Selected(images, c) \subseteq Valid(images, c)  BY DEF Selected
<1>4. Valid(images, c) \subseteq 1..Len(images)  BY <1>1 DEF Valid
<1>5. p \in Selected(images, c) <=> Kind[images[p]] = "single"  BY <1>2 DEF Selected
<1>6. 1..Len(images) \subseteq Nat /\ IsFiniteSet(1..Len(images))  BY <1>1, FS_Interval
<1>7. IsFiniteSet(Valid(images, c)) /\ IsFiniteSet(Selected(images, c))
  BY <1>3, <1>4, <1>6, FS_Subset
<1>8. C \in Nat \ {0}  BY <1>1, SizeAssumption DEF ChunkSize
<1>9. \A q \in DOMAIN images : Chunk(images, q) = (q - 1) \div C  BY DEF Chunk
<1> HIDE DEF C
<1>10. c \in Nat
  <2>1. p \in Nat \ {0} /\ c = (p - 1) \div C  BY <1>1, <1>9
  <2> HIDE DEF c
  <2> QED  BY <2>1, <1>8, Div, Zenon
<1>11. Selected(images, c) \subseteq (c * C + 1)..(c * C + C)
  <2> SUFFICES ASSUME NEW q \in Selected(images, c)
               PROVE  q \in (c * C + 1)..(c * C + C)  OBVIOUS
  <2>1. q \in DOMAIN images /\ Chunk(images, q) = c  BY DEF Selected, Valid
  <2>2. q \in Nat \ {0} /\ (q - 1) \div C = c  BY <2>1, <1>1, <1>9
  <2>3. (q - 1) \div C = c /\ q \in (((q - 1) \div C) * C + 1)..(((q - 1) \div C) * C + C)
    <3> HIDE DEF c
    <3> QED  BY <2>2, <1>8, Div, Zenon
  <2> QED  BY <2>3, Zenon
<1> HIDE DEF c
<1>12. Cardinality((c * C + 1)..(c * C + C)) = C /\ IsFiniteSet((c * C + 1)..(c * C + C))
  <2>1. c * C \in Nat  BY <1>8, <1>10
  <2>2. c * C + 1 \in Int /\ c * C + C \in Int /\ ~(c * C + 1 > c * C + C)
          /\ (c * C + C) - (c * C + 1) + 1 = C  BY <2>1, <1>8
  <2> QED  BY <2>2, FS_Interval
<1>13. Cardinality(Selected(images, c)) <= C  BY <1>11, <1>12, FS_Subset
<1>14. Cardinality(Selected(images, c)) \in Nat  BY <1>7, FS_CardinalityType
<1> QED  BY <1>2, <1>3, <1>4, <1>5, <1>6, <1>7, <1>13, <1>14 DEF c, C

\* The n-th chip is cut from the n-th selected picture.
LEMMA ChipType ==
  ASSUME NEW images \in Seq(Images), Len(images) > 0, NEW p \in DOMAIN images,
         NEW n \in 1..Cardinality(Selected(images, Chunk(images, p)))
  PROVE  /\ Chip(images, Chunk(images, p), n) \in Images
         /\ Chip(images, Chunk(images, p), n)
              = images[Nth(Selected(images, Chunk(images, p)), n)]
<1> DEFINE c == Chunk(images, p)
           q == Nth(Selected(images, c), n)
<1>1. q \in Selected(images, c)  BY ChunkFacts, NthType
<1>2. q \in Valid(images, c) /\ q \in DOMAIN images /\ Chunk(images, q) = c
  BY <1>1 DEF Selected, Valid
<1>3. Slot(images, q) = Rank(Valid(images, c), q)  BY <1>2 DEF Slot, Rank
<1>4. Nth(Valid(images, c), Slot(images, q)) = q  BY <1>2, <1>3, ChunkFacts, NthRank
<1>5. Chip(images, c, n) = images[q]  BY <1>4 DEF Chip
<1>6. images[q] \in Images  BY <1>2
<1> QED  BY <1>5, <1>6

\* An embedding is computed from a picture of the subject, and from the right one
\* when the engine takes a chunk at once.
LEMMA EmbeddingType ==
  ASSUME NEW images \in Seq(Images), Len(images) > 0, NEW p \in DOMAIN images,
         Kind[images[p]] = "single"
  PROVE  /\ Embedding(images, p) \in Images
         /\ ChunkSize(images) <= EngineMax => Embedding(images, p) = images[p]
<1> DEFINE c == Chunk(images, p)
           m == Cardinality(Selected(images, c))
           n == Cardinality({q \in Selected(images, c) : q <= p})
           last == CHOOSE k \in 1..m : /\ k % EngineMax = n % EngineMax
                                       /\ k + EngineMax > m
<1>1. p \in Selected(images, c) /\ Selected(images, c) \subseteq Nat
        /\ IsFiniteSet(Selected(images, c)) /\ m \in Nat
        /\ m <= ChunkSize(images)
  BY ChunkFacts
<1>2. n = Rank(Selected(images, c), p)  BY DEF Rank
<1>3. n \in 1..m  BY <1>1, <1>2, RankType
<1>4. Embedding(images, p) = Chip(images, c, last)  BY DEF Embedding
<1> HIDE DEF m, n
<1>5. \E k \in 1..m : k % EngineMax = n % EngineMax /\ k + EngineMax > m
  BY <1>1, <1>3, SizeAssumption, LastOne, Zenon
<1>6. last \in 1..m /\ last % EngineMax = n % EngineMax  BY <1>5
<1> HIDE DEF last
<1>7. Embedding(images, p) \in Images  BY <1>4, <1>6, ChipType DEF m
<1>8. ASSUME ChunkSize(images) <= EngineMax
      PROVE  Embedding(images, p) = images[p]
  <2>1. ChunkSize(images) \in Nat  BY SizeAssumption DEF ChunkSize
  <2>2. m <= EngineMax  BY <1>1, <1>8, <2>1, SizeAssumption
  <2>3. last \in 1..EngineMax /\ n \in 1..EngineMax  BY <2>2, <1>1, <1>3, <1>6, SizeAssumption
  <2>4. last = n  BY <2>3, <1>6, SizeAssumption, Rest
  <2>5. Nth(Selected(images, c), n) = p  BY <1>1, <1>2, NthRank
  <2> QED  BY <1>3, <1>4, <2>4, <2>5, ChipType DEF m
<1> QED  BY <1>7, <1>8
-----------------------------------------------------------------------------
(* The invariant.                                                          *)

Busy(r) == run[r].at \in Steps
HasBundle(r) == run[r].at \in Steps \ {"extract", "journal"}

\* A run that has not begun is as it was made; one that is under way is at a
\* bundle until it has come to the journal.
ProgressInv(r) ==
  /\ run[r].at = "new" => run[r] = NewRun
  /\ run[r].at \in Steps \ {"journal"} => run[r].next \in DOMAIN Manifest

\* What a run holds of its bundle: rejected are pictures it has not accepted,
\* failed are accepted ones, the uploaded ones only when they are to be undone.
BundleInv(r) ==
  HasBundle(r) =>
    /\ run[r].uploaded \subseteq Accepted(r)
    /\ run[r].rejected \subseteq SamplesAt(r, DOMAIN ImagesOf(r) \ Accepted(r))
    /\ run[r].failed \subseteq SamplesAt(r, Accepted(r))
    /\ run[r].at \notin {"dropObjects", "dropBoth", "failAll", "count", "hide"} =>
         run[r].failed \subseteq SamplesAt(r, Accepted(r) \ run[r].uploaded)
    /\ run[r].at \in {"dropObjects", "dropBoth"} =>
         SamplesAt(r, run[r].uploaded) \subseteq run[r].failed
    /\ run[r].at = "admit" => run[r].uploaded = {}
    /\ run[r].at = "upsert" => run[r].uploaded # {}
    /\ run[r].uploaded = {} /\ run[r].at \in {"admit", "look", "create", "index"} =>
         run[r].failed = {}

\* The embeddings at hand are those of their pictures.
OwnInv(r) ==
  HasBundle(r) => \A p \in Accepted(r) : run[r].embedding[p] = ImagesOf(r)[p]

PointsInv == \A s \in Samples : vector[s] # NoPoint => vector[s].of \in Images

OneRun == \A q, r \in Runs : Busy(q) /\ Busy(r) => q = r
Unbroken == \A r \in Runs : run[r].at # "aborted"

\* The samples whose row may be pending still at a step, and those whose row
\* may be active still although object or point have been taken away.
Owed(r) ==
  IF run[r].at = "upload" THEN SamplesAt(r, Accepted(r))
  ELSE IF run[r].at \in {"look", "create", "index", "upsert", "activate"}
       THEN SamplesAt(r, run[r].uploaded) \cup run[r].failed
  ELSE IF run[r].at \in {"dropObjects", "dropBoth", "failAll", "settle"}
       THEN run[r].failed ELSE {}
Undone(r) == IF run[r].at \in {"dropObjects", "dropBoth", "failAll"} THEN run[r].failed ELSE {}

Settling ==
  Unbroken => \A s \in Samples :
    /\ sample[s].state = "pending" => \E r \in Runs : s \in Owed(r)
    /\ sample[s].state = "active" =>
         (s \in object /\ vector[s].active) \/ \E r \in Runs : s \in Undone(r)

\* What the stores have of the bundle at hand.
StoredInv(r) ==
  /\ run[r].at \in {"look", "create", "index", "upsert", "activate", "settle"} =>
       \A s \in SamplesAt(r, run[r].uploaded) : s \in object
  /\ run[r].at = "activate" =>
       \A s \in SamplesAt(r, run[r].uploaded) :
         vector[s] # NoPoint /\ (vector[s].active \/ sample[s].ended)
  /\ run[r].at = "settle" =>
       \A s \in SamplesAt(r, run[r].uploaded) :
         vector[s] # NoPoint /\ sample[s].state \in {"active", "inactive"}

\* What a run will write to its journal holds already.
SampleOf(k) == {SampleId(Manifest[k].face, Manifest[k].images[p]) : p \in DOMAIN Manifest[k].images}
JournalInv(r) ==
  Busy(r) => \A k \in DOMAIN Manifest : \A s \in run[r].outcomes[k] :
    /\ k < run[r].next /\ s \in SampleOf(k)
    /\ Reconciles(s) \/ sample[s].state = "inactive"

\* The types, and what each run holds of its bundle.
Core ==
  /\ TypeOK
  /\ \A r \in Runs : ProgressInv(r)
  /\ \A r \in Runs : BundleInv(r)
  /\ PointsInv

-----------------------------------------------------------------------------
(* Steps of one run.                                                       *)

\* What TypeOK says of one run.
LEMMA RunType ==
  ASSUME TypeOK, NEW r \in Runs
  PROVE  /\ run \in [Runs -> RunStates]
         /\ DOMAIN run = Runs
         /\ run[r] \in RunStates
         /\ run[r].at \in Steps \cup Ends \cup {"new"}
         /\ run[r].next \in 1..(Len(Manifest) + 1)
         /\ run[r].embedding \in [Positions -> Images \cup {"nothing"}]
         /\ run[r].rejected \subseteq Samples /\ run[r].failed \subseteq Samples
         /\ run[r].uploaded \subseteq Positions
         /\ run[r].outcomes \in [DOMAIN Manifest -> SUBSET Samples]
BY DEF TypeOK, RunStates

\* What is derived from the bundle's number and its embeddings.
LEMMA SameBundle ==
  ASSUME NEW r \in Runs, run'[r].next = run[r].next, run'[r].embedding = run[r].embedding
  PROVE  /\ ImagesOf(r)' = ImagesOf(r) /\ FaceOf(r)' = FaceOf(r)
         /\ Accepted(r)' = Accepted(r)
         /\ \A ps : SamplesAt(r, ps)' = SamplesAt(r, ps)
         /\ \A p : SampleAt(r, p)' = SampleAt(r, p)
BY DEF ImagesOf, FaceOf, Accepted, SamplesAt, SampleAt

\* Samples of a run's bundle.
LEMMA OwnSamples ==
  ASSUME NEW r \in Runs, run[r].next \in DOMAIN Manifest,
         NEW ps \in SUBSET DOMAIN ImagesOf(r)
  PROVE  /\ SamplesAt(r, ps) \subseteq Samples
         /\ \A p \in ps : SampleAt(r, p) \in Samples /\ SampleAt(r, p)[2] = ImagesOf(r)[p]
<1>1. \A p \in ps :
        SampleId(Manifest[run[r].next].face, Manifest[run[r].next].images[p]) \in Samples
  BY ManifestFacts DEF ImagesOf
<1>2. \A p \in ps : SampleAt(r, p) \in Samples  BY <1>1 DEF SampleAt, FaceOf, ImagesOf
<1>3. \A p \in ps : SampleAt(r, p)[2] = ImagesOf(r)[p]  BY DEF SampleAt, SampleId
<1> QED  BY <1>2, <1>3 DEF SamplesAt

\* A run that does not move keeps its part of the invariant.
LEMMA StandingStill ==
  ASSUME NEW q \in Runs, run'[q] = run[q]
  PROVE  /\ ProgressInv(q) => ProgressInv(q)'
         /\ BundleInv(q) => BundleInv(q)'
         /\ OwnInv(q) => OwnInv(q)'
<1>1. /\ ImagesOf(q)' = ImagesOf(q) /\ Accepted(q)' = Accepted(q)
      /\ \A ps : SamplesAt(q, ps)' = SamplesAt(q, ps)
  BY SameBundle
<1>2. ProgressInv(q) => ProgressInv(q)'  BY DEF ProgressInv
<1>3. BundleInv(q) => BundleInv(q)'  BY <1>1 DEF BundleInv, HasBundle
<1>4. OwnInv(q) => OwnInv(q)'  BY <1>1 DEF OwnInv, HasBundle
<1> QED  BY <1>2, <1>3, <1>4

\* A step of one run leaves the others where they are.
LEMMA OthersStand ==
  ASSUME TypeOK, NEW r \in Runs, RunNext(r), NEW q \in Runs, q # r
  PROVE  run'[q] = run[q]
<1>1. DOMAIN run = Runs  BY RunType
<1>2. CASE Start(r)  BY <1>1, <1>2 DEF Start, Goto
<1>3. CASE Admit(r)  BY <1>1, <1>3 DEF Admit, Goto
<1>4. CASE LookUp(r)  BY <1>1, <1>4 DEF LookUp, Goto, Ensured, Refused
<1>5. CASE CreateCollection(r)  BY <1>1, <1>5 DEF CreateCollection, Goto, Refused
<1>6. CASE CreateIndexes(r)  BY <1>1, <1>6 DEF CreateIndexes, Ensured, Refused
<1>7. CASE Extract(r)  BY <1>1, <1>7 DEF Extract
<1>8. CASE Reject(r)  BY <1>1, <1>8 DEF Reject, NextBundle
<1>9. CASE Prepare(r)  BY <1>1, <1>9 DEF Prepare, Goto
<1>10. CASE Upload(r)  BY <1>1, <1>10 DEF Upload
<1>11. CASE Upsert(r)  BY <1>1, <1>11 DEF Upsert, Goto, Refused
<1>12. CASE Activate(r)  BY <1>1, <1>12 DEF Activate, Goto
<1>13. CASE DropObjects(r)  BY <1>1, <1>13 DEF DropObjects, Goto
<1>14. CASE DropBoth(r)  BY <1>1, <1>14 DEF DropBoth, Goto
<1>15. CASE FailAll(r)  BY <1>1, <1>15 DEF FailAll, Goto
<1>16. CASE CountActive(r)  BY <1>1, <1>16 DEF CountActive, NextBundle, Goto
<1>17. CASE HideFace(r)  BY <1>1, <1>17 DEF HideFace, NextBundle
<1>18. CASE Settle(r)  BY <1>1, <1>18 DEF Settle, NextBundle
<1>19. CASE WriteJournal(r)  BY <1>1, <1>19 DEF WriteJournal, Goto
<1>20. CASE Abort(r)  BY <1>1, <1>20 DEF Abort, Goto
<1> QED
  BY <1>2, <1>3, <1>4, <1>5, <1>6, <1>7, <1>8, <1>9, <1>10, <1>11, <1>12, <1>13, <1>14,
     <1>15, <1>16, <1>17, <1>18, <1>19, <1>20 DEF RunNext

\* What a step that only moves the run along makes of it.
LEMMA Gone ==
  ASSUME TypeOK, NEW r \in Runs, NEW v \in Steps \cup Ends \cup {"new"}, Goto(r, v)
  PROVE  /\ run' \in [Runs -> RunStates]
         /\ run'[r] = [run[r] EXCEPT !.at = v]
         /\ run'[r].at = v
         /\ run'[r].next = run[r].next /\ run'[r].embedding = run[r].embedding
         /\ run'[r].rejected = run[r].rejected /\ run'[r].uploaded = run[r].uploaded
         /\ run'[r].failed = run[r].failed /\ run'[r].outcomes = run[r].outcomes
<1>1. run[r] \in RunStates /\ run \in [Runs -> RunStates]  BY RunType
<1>2. run'[r] = [run[r] EXCEPT !.at = v] /\ run' = [run EXCEPT ![r] = [run[r] EXCEPT !.at = v]]
  BY <1>1 DEF Goto
<1>3. [run[r] EXCEPT !.at = v] \in RunStates  BY <1>1 DEF RunStates
<1>4. run' \in [Runs -> RunStates]  BY <1>1, <1>2, <1>3
<1> QED  BY <1>1, <1>2, <1>4 DEF RunStates

\* ensure_collection that succeeded, and one that raised.
LEMMA Ensures ==
  ASSUME TypeOK, NEW r \in Runs, Ensured(r)
  PROVE  /\ run' \in [Runs -> RunStates]
         /\ run'[r].at = IF Uploaded(r) THEN "upsert" ELSE "extract"
         /\ run'[r].next = run[r].next /\ run'[r].embedding = run[r].embedding
         /\ run'[r].rejected = run[r].rejected /\ run'[r].uploaded = run[r].uploaded
         /\ run'[r].failed = run[r].failed /\ run'[r].outcomes = run[r].outcomes
<1>1. run[r] \in RunStates /\ run \in [Runs -> RunStates]  BY RunType
<1>2. PICK x \in RunStates :
        /\ run' = [run EXCEPT ![r] = x]
        /\ x = IF Uploaded(r) THEN [run[r] EXCEPT !.at = "upsert", !.validated = TRUE]
               ELSE [run[r] EXCEPT !.at = "extract"]
  BY <1>1 DEF Ensured, RunStates, Steps
<1>3. run' \in [Runs -> RunStates] /\ run'[r] = x  BY <1>1, <1>2
<1> QED  BY <1>1, <1>2, <1>3 DEF RunStates

LEMMA Refuses ==
  ASSUME TypeOK, NEW r \in Runs, Refused(r), SamplesAt(r, run[r].uploaded) \subseteq Samples
  PROVE  /\ run' \in [Runs -> RunStates]
         /\ run'[r].at = IF Uploaded(r) THEN "dropObjects" ELSE "blocked"
         /\ run'[r].next = run[r].next /\ run'[r].embedding = run[r].embedding
         /\ run'[r].rejected = run[r].rejected /\ run'[r].uploaded = run[r].uploaded
         /\ run'[r].outcomes = run[r].outcomes
         /\ Uploaded(r) => run'[r].failed = run[r].failed \cup SamplesAt(r, run[r].uploaded)
<1>1. run[r] \in RunStates /\ run \in [Runs -> RunStates]  BY RunType
<1>2. PICK x \in RunStates :
        /\ run' = [run EXCEPT ![r] = x]
        /\ x = IF Uploaded(r)
               THEN [run[r] EXCEPT !.at = "dropObjects",
                                   !.failed = @ \cup SamplesAt(r, run[r].uploaded)]
               ELSE [run[r] EXCEPT !.at = "blocked"]
  BY <1>1 DEF Refused, RunStates, Steps, Ends
<1>3. run' \in [Runs -> RunStates] /\ run'[r] = x  BY <1>1, <1>2
<1> QED  BY <1>1, <1>2, <1>3 DEF RunStates

\* The end of a bundle.
LEMMA MovesOn ==
  ASSUME TypeOK, NEW r \in Runs, run[r].next \in DOMAIN Manifest,
         NEW persisted \in SUBSET Samples, NextBundle(r, persisted)
  PROVE  /\ run' \in [Runs -> RunStates]
         /\ run'[r].at = IF run[r].next = Len(Manifest) THEN "journal" ELSE "extract"
         /\ run'[r].next = run[r].next + 1
         /\ run'[r].at = "extract" => run'[r].next \in DOMAIN Manifest
         /\ run'[r].outcomes = [run[r].outcomes EXCEPT ![run[r].next] = persisted]
<1>1. run[r] \in RunStates /\ run \in [Runs -> RunStates]  BY RunType
<1>2. /\ DOMAIN Manifest = 1..Len(Manifest) /\ Len(Manifest) \in Nat
      /\ run[r].next \in 1..Len(Manifest)  BY ManifestFacts
<1>3. run[r].next + 1 \in 1..(Len(Manifest) + 1)  BY <1>2
<1>4. PICK x \in RunStates :
        /\ run' = [run EXCEPT ![r] = x]
        /\ x = [run[r] EXCEPT
                  !.at = IF run[r].next = Len(Manifest) THEN "journal" ELSE "extract",
                  !.next = @ + 1, !.outcomes[run[r].next] = persisted]
  BY <1>1, <1>3 DEF NextBundle, RunStates, Steps
<1>5. run' \in [Runs -> RunStates] /\ run'[r] = x  BY <1>1, <1>4
<1>6. run'[r].at = "extract" => run[r].next + 1 \in DOMAIN Manifest
  BY <1>2, <1>4, <1>5, <1>1 DEF RunStates
<1> QED  BY <1>1, <1>4, <1>5, <1>6 DEF RunStates

-----------------------------------------------------------------------------
(* Types, and what a run holds of its bundle.                              *)

\* What Core gives for a run at a bundle.
LEMMA HasNext ==
  ASSUME Core, NEW r \in Runs, HasBundle(r)
  PROVE  /\ run[r].next \in DOMAIN Manifest
         /\ Accepted(r) \subseteq DOMAIN ImagesOf(r)
         /\ run[r].uploaded \subseteq Accepted(r)
         /\ SamplesAt(r, DOMAIN ImagesOf(r)) \subseteq Samples
         /\ SamplesAt(r, run[r].uploaded) \subseteq Samples
         /\ SamplesAt(r, Accepted(r)) \subseteq Samples
         /\ SamplesAt(r, run[r].uploaded) \subseteq SamplesAt(r, Accepted(r))
         /\ \A ps : ps \subseteq Accepted(r) => SamplesAt(r, ps) \subseteq Samples
<1>1. run[r].next \in DOMAIN Manifest  BY DEF Core, ProgressInv, HasBundle
<1>2. run[r].uploaded \subseteq Accepted(r)  BY DEF Core, BundleInv
<1>3. Accepted(r) \subseteq DOMAIN ImagesOf(r)  BY DEF Accepted
<1>4. \A ps : ps \subseteq DOMAIN ImagesOf(r) => SamplesAt(r, ps) \subseteq Samples
  BY <1>1, OwnSamples
<1>5. SamplesAt(r, run[r].uploaded) \subseteq SamplesAt(r, Accepted(r))  BY <1>2 DEF SamplesAt
<1> QED  BY <1>1, <1>2, <1>3, <1>4, <1>5

\* A step that only moves a run along a bundle, to a step at which less is said
\* of it.
LEMMA CoreGo ==
  ASSUME Core, NEW r \in Runs, NEW v \in Steps \cup Ends, Goto(r, v),
         v \in Steps \ {"extract", "journal"} =>
           /\ HasBundle(r) /\ v \notin {"admit", "upsert"}
           /\ v \notin {"dropObjects", "dropBoth", "failAll", "count", "hide"} =>
                run[r].at \notin {"dropObjects", "dropBoth", "failAll", "count", "hide"}
           /\ v \in {"dropObjects", "dropBoth"} =>
                SamplesAt(r, run[r].uploaded) \subseteq run[r].failed
           /\ run[r].uploaded = {} /\ v \in {"look", "create", "index"} => run[r].failed = {},
         v = "extract" => run[r].next \in DOMAIN Manifest
  PROVE  /\ run' \in [Runs -> RunStates]
         /\ ProgressInv(r)' /\ BundleInv(r)'
<1>1. TypeOK  BY DEF Core
<1>2. /\ run' \in [Runs -> RunStates] /\ run'[r].at = v
      /\ run'[r].next = run[r].next /\ run'[r].embedding = run[r].embedding
      /\ run'[r].rejected = run[r].rejected /\ run'[r].uploaded = run[r].uploaded
      /\ run'[r].failed = run[r].failed
  BY <1>1, Gone
<1>3. /\ ImagesOf(r)' = ImagesOf(r) /\ Accepted(r)' = Accepted(r)
      /\ \A ps : SamplesAt(r, ps)' = SamplesAt(r, ps)
  BY <1>2, SameBundle
<1>4. ProgressInv(r)'
  <2>1. HasBundle(r) => run[r].next \in DOMAIN Manifest  BY DEF Core, ProgressInv, HasBundle
  <2> QED  BY <1>2, <2>1 DEF ProgressInv, Steps, Ends
<1>5. BundleInv(r)'
  <2>1. BundleInv(r)  BY DEF Core
  <2> QED  BY <1>2, <1>3, <2>1 DEF BundleInv, HasBundle, Ends
<1> QED  BY <1>2, <1>4, <1>5

LEMMA CoreRefused ==
  ASSUME Core, NEW r \in Runs, run[r].at \in {"look", "create", "index", "upsert"}, Refused(r)
  PROVE  /\ run' \in [Runs -> RunStates]
         /\ ProgressInv(r)' /\ BundleInv(r)'
<1>1. TypeOK /\ HasBundle(r) /\ BundleInv(r)  BY DEF Core, HasBundle, Steps
<1>2. /\ SamplesAt(r, run[r].uploaded) \subseteq Samples
      /\ SamplesAt(r, run[r].uploaded) \subseteq SamplesAt(r, Accepted(r))
      /\ run[r].next \in DOMAIN Manifest
  BY <1>1, HasNext
<1>3. /\ run' \in [Runs -> RunStates]
      /\ run'[r].at = IF Uploaded(r) THEN "dropObjects" ELSE "blocked"
      /\ run'[r].next = run[r].next /\ run'[r].embedding = run[r].embedding
      /\ run'[r].rejected = run[r].rejected /\ run'[r].uploaded = run[r].uploaded
      /\ Uploaded(r) => run'[r].failed = run[r].failed \cup SamplesAt(r, run[r].uploaded)
  BY <1>1, <1>2, Refuses
<1>4. /\ ImagesOf(r)' = ImagesOf(r) /\ Accepted(r)' = Accepted(r)
      /\ \A ps : SamplesAt(r, ps)' = SamplesAt(r, ps)
  BY <1>3, SameBundle
<1>5. ProgressInv(r)'  BY <1>2, <1>3 DEF ProgressInv
<1>6. BundleInv(r)'
  <2>1. CASE Uploaded(r)  BY <1>1, <1>2, <1>3, <1>4, <2>1 DEF BundleInv, HasBundle
  <2>2. CASE ~Uploaded(r)  BY <1>3, <2>2 DEF BundleInv, HasBundle, Steps
  <2> QED  BY <2>1, <2>2
<1> QED  BY <1>3, <1>5, <1>6

LEMMA CoreEnsured ==
  ASSUME Core, NEW r \in Runs, run[r].at \in {"look", "index"}, Ensured(r)
  PROVE  /\ run' \in [Runs -> RunStates]
         /\ ProgressInv(r)' /\ BundleInv(r)'
<1>1. TypeOK /\ HasBundle(r) /\ BundleInv(r)  BY DEF Core, HasBundle, Steps
<1>2. run[r].next \in DOMAIN Manifest  BY <1>1, HasNext
<1>3. /\ run' \in [Runs -> RunStates]
      /\ run'[r].at = IF Uploaded(r) THEN "upsert" ELSE "extract"
      /\ run'[r].next = run[r].next /\ run'[r].embedding = run[r].embedding
      /\ run'[r].rejected = run[r].rejected /\ run'[r].uploaded = run[r].uploaded
      /\ run'[r].failed = run[r].failed
  BY <1>1, Ensures
<1>4. /\ ImagesOf(r)' = ImagesOf(r) /\ Accepted(r)' = Accepted(r)
      /\ \A ps : SamplesAt(r, ps)' = SamplesAt(r, ps)
  BY <1>3, SameBundle
<1>5. ProgressInv(r)'  BY <1>2, <1>3 DEF ProgressInv
<1>6. BundleInv(r)'  BY <1>1, <1>3, <1>4 DEF BundleInv, HasBundle, Uploaded
<1> QED  BY <1>3, <1>5, <1>6

LEMMA CoreNextBundle ==
  ASSUME Core, NEW r \in Runs, HasBundle(r), NEW ps \in SUBSET Samples, NextBundle(r, ps)
  PROVE  /\ run' \in [Runs -> RunStates]
         /\ ProgressInv(r)' /\ BundleInv(r)'
<1>1. run[r].next \in DOMAIN Manifest /\ TypeOK  BY HasNext DEF Core
<1>2. /\ run' \in [Runs -> RunStates]
      /\ run'[r].at = IF run[r].next = Len(Manifest) THEN "journal" ELSE "extract"
      /\ run'[r].at = "extract" => run'[r].next \in DOMAIN Manifest
  BY <1>1, MovesOn
<1>3. run'[r].at \in {"journal", "extract"}  BY <1>2
<1> QED  BY <1>2, <1>3 DEF ProgressInv, BundleInv, HasBundle, Steps

\* What an extraction makes of the run: ok are the pictures it takes.
LEMMA Extracts ==
  ASSUME NEW r \in Runs, Extract(r)
  PROVE  \E ok \in SUBSET DOMAIN ImagesOf(r) :
           /\ \A p \in ok : Kind[ImagesOf(r)[p]] = "single"
           /\ run' = [run EXCEPT
                ![r].at = IF ok = {} THEN "reject" ELSE "prepare",
                ![r].embedding = [p \in Positions |->
                                    IF p \in ok THEN Embedding(ImagesOf(r), p) ELSE "nothing"],
                ![r].rejected = SamplesAt(r, DOMAIN ImagesOf(r) \ ok),
                ![r].uploaded = {}, ![r].failed = {}]
<1> DEFINE images == ImagesOf(r)
           Ok(broken) == {p \in DOMAIN images : /\ Chunk(images, p) \notin broken
                                                /\ Kind[images[p]] = "single"}
<1>1. PICK broken \in SUBSET Chunks(ImagesOf(r)) :
        run' = [run EXCEPT
          ![r].at = IF Ok(broken) = {} THEN "reject" ELSE "prepare",
          ![r].embedding = [p \in Positions |->
                              IF p \in Ok(broken) THEN Embedding(images, p) ELSE "nothing"],
          ![r].rejected = SamplesAt(r, DOMAIN images \ Ok(broken)),
          ![r].uploaded = {}, ![r].failed = {}]
  BY DEF Extract
<1>2. Ok(broken) \in SUBSET DOMAIN images
        /\ \A p \in Ok(broken) : Kind[images[p]] = "single"  OBVIOUS
<1> QED  BY <1>1, <1>2

LEMMA CoreExtract ==
  ASSUME Core, NEW r \in Runs, Extract(r)
  PROVE  /\ run' \in [Runs -> RunStates]
         /\ ProgressInv(r)' /\ BundleInv(r)'
<1> DEFINE images == ImagesOf(r)
<1>1. TypeOK /\ run[r] \in RunStates /\ run \in [Runs -> RunStates]  BY RunType DEF Core
<1>2. run[r].next \in DOMAIN Manifest /\ run[r].at = "extract"
  BY DEF Core, ProgressInv, Extract, At, Steps
<1>3. /\ images \in Seq(Images) /\ Len(images) > 0 /\ DOMAIN images \subseteq Positions
  BY <1>2, ManifestFacts DEF ImagesOf
<1>4. PICK ok \in SUBSET DOMAIN images :
        /\ \A p \in ok : Kind[images[p]] = "single"
        /\ run' = [run EXCEPT
             ![r].at = IF ok = {} THEN "reject" ELSE "prepare",
             ![r].embedding = [p \in Positions |->
                                 IF p \in ok THEN Embedding(images, p) ELSE "nothing"],
             ![r].rejected = SamplesAt(r, DOMAIN images \ ok),
             ![r].uploaded = {}, ![r].failed = {}]
  BY Extracts, Zenon
<1> DEFINE e == [p \in Positions |-> IF p \in ok THEN Embedding(images, p) ELSE "nothing"]
<1>5. \A p \in ok : Embedding(images, p) \in Images  BY <1>3, <1>4, EmbeddingType
<1>6. e \in [Positions -> Images \cup {"nothing"}]  BY <1>5
<1>7. SamplesAt(r, DOMAIN images \ ok) \subseteq Samples  BY <1>2, OwnSamples
<1>8. PICK x \in RunStates :
        /\ run' = [run EXCEPT ![r] = x]
        /\ x = [run[r] EXCEPT !.at = IF ok = {} THEN "reject" ELSE "prepare",
                              !.embedding = e,
                              !.rejected = SamplesAt(r, DOMAIN images \ ok),
                              !.uploaded = {}, !.failed = {}]
  <2> HIDE DEF e
  <2>1. [run[r] EXCEPT !.at = IF ok = {} THEN "reject" ELSE "prepare",
                       !.embedding = e,
                       !.rejected = SamplesAt(r, DOMAIN images \ ok),
                       !.uploaded = {}, !.failed = {}] \in RunStates
    BY <1>1, <1>6, <1>7 DEF RunStates, Steps
  <2> QED  BY <2>1, <1>1, <1>4 DEF e
<1> HIDE DEF e
<1>9. run' \in [Runs -> RunStates] /\ run'[r] = x  BY <1>1, <1>8
<1>10. /\ run'[r].next = run[r].next /\ run'[r].embedding = e
       /\ run'[r].rejected = SamplesAt(r, DOMAIN images \ ok)
       /\ run'[r].uploaded = {} /\ run'[r].failed = {}
       /\ run'[r].at \in {"reject", "prepare"}
  BY <1>1, <1>8, <1>9 DEF RunStates
<1>11. ImagesOf(r)' = images  BY <1>10 DEF ImagesOf
<1>12. Accepted(r)' = ok
  <2>1. \A p \in DOMAIN images : e[p] # "nothing" <=> p \in ok
    BY <1>3, <1>5, ManifestAssumption DEF e
  <2> QED  BY <1>4, <1>10, <1>11, <2>1 DEF Accepted
<1>13. \A ps : SamplesAt(r, ps)' = SamplesAt(r, ps)
  BY <1>10 DEF SamplesAt, SampleAt, FaceOf, ImagesOf
<1>14. ProgressInv(r)'  BY <1>2, <1>10 DEF ProgressInv
<1>15. BundleInv(r)'  BY <1>10, <1>11, <1>12, <1>13 DEF BundleInv, HasBundle
<1> QED  BY <1>9, <1>14, <1>15

\* What an upload makes of the run.
LEMMA Uploads ==
  ASSUME Core, NEW r \in Runs, Upload(r)
  PROVE  \E good \in SUBSET Accepted(r) :
           /\ \E put \in SUBSET SamplesAt(r, Accepted(r) \ good) :
                object' = object \cup SamplesAt(r, good) \cup put
           /\ run' \in [Runs -> RunStates]
           /\ run'[r].at = IF good = {} THEN "failAll"
                           ELSE IF run[r].validated THEN "upsert" ELSE "look"
           /\ run'[r].uploaded = good
           /\ run'[r].failed = SamplesAt(r, Accepted(r) \ good)
           /\ run'[r].next = run[r].next /\ run'[r].embedding = run[r].embedding
           /\ run'[r].rejected = run[r].rejected /\ run'[r].outcomes = run[r].outcomes
<1>1. TypeOK /\ HasBundle(r)  BY DEF Core, HasBundle, Upload, At, Steps
<1>2. run[r] \in RunStates /\ run \in [Runs -> RunStates]  BY <1>1, RunType
<1>3. PICK good \in SUBSET Accepted(r) :
        /\ \E put \in SUBSET SamplesAt(r, Accepted(r) \ good) :
             object' = object \cup SamplesAt(r, good) \cup put
        /\ run' = [run EXCEPT
             ![r].uploaded = good,
             ![r].failed = SamplesAt(r, Accepted(r) \ good),
             ![r].at = IF good = {} THEN "failAll"
                       ELSE IF run[r].validated THEN "upsert" ELSE "look"]
  BY DEF Upload
<1>4. SamplesAt(r, Accepted(r) \ good) \subseteq Samples  BY <1>1, HasNext
<1>5. good \subseteq Positions
  <2>1. run[r].next \in DOMAIN Manifest /\ Accepted(r) \subseteq DOMAIN ImagesOf(r)
    BY <1>1, HasNext
  <2>2. DOMAIN ImagesOf(r) \subseteq Positions  BY <2>1, ManifestFacts DEF ImagesOf
  <2> QED  BY <2>1, <2>2
<1>6. PICK x \in RunStates :
        /\ run' = [run EXCEPT ![r] = x]
        /\ x = [run[r] EXCEPT !.uploaded = good, !.failed = SamplesAt(r, Accepted(r) \ good),
                              !.at = IF good = {} THEN "failAll"
                                     ELSE IF run[r].validated THEN "upsert" ELSE "look"]
  <2>1. [run[r] EXCEPT !.uploaded = good, !.failed = SamplesAt(r, Accepted(r) \ good),
                       !.at = IF good = {} THEN "failAll"
                              ELSE IF run[r].validated THEN "upsert" ELSE "look"] \in RunStates
    BY <1>2, <1>4, <1>5 DEF RunStates, Steps
  <2> QED  BY <2>1, <1>2, <1>3
<1>7. run' \in [Runs -> RunStates] /\ run'[r] = x  BY <1>2, <1>6
<1>8. /\ run'[r].at = IF good = {} THEN "failAll"
                      ELSE IF run[r].validated THEN "upsert" ELSE "look"
      /\ run'[r].uploaded = good
      /\ run'[r].failed = SamplesAt(r, Accepted(r) \ good)
      /\ run'[r].next = run[r].next /\ run'[r].embedding = run[r].embedding
      /\ run'[r].rejected = run[r].rejected /\ run'[r].outcomes = run[r].outcomes
  BY <1>2, <1>6, <1>7 DEF RunStates
<1> QED  BY <1>3, <1>7, <1>8, Zenon

\* After a commit whose answer was lost the run goes the way of a failure.
LEMMA ActivateFails ==
  ASSUME Core, NEW r \in Runs, run[r].at = "activate",
         run' = [run EXCEPT ![r].at = "dropBoth",
                   ![r].failed = @ \cup SamplesAt(r, run[r].uploaded)]
  PROVE  /\ run' \in [Runs -> RunStates]
         /\ run'[r].at = "dropBoth"
         /\ run'[r].failed = run[r].failed \cup SamplesAt(r, run[r].uploaded)
         /\ run'[r].next = run[r].next /\ run'[r].embedding = run[r].embedding
         /\ run'[r].rejected = run[r].rejected /\ run'[r].uploaded = run[r].uploaded
         /\ run'[r].outcomes = run[r].outcomes
<1>1. TypeOK /\ HasBundle(r)  BY DEF Core, HasBundle, Steps
<1>2. run[r] \in RunStates /\ run \in [Runs -> RunStates]  BY <1>1, RunType
<1>3. SamplesAt(r, run[r].uploaded) \subseteq Samples  BY <1>1, HasNext
<1>4. PICK x \in RunStates :
        /\ run' = [run EXCEPT ![r] = x]
        /\ x = [run[r] EXCEPT !.at = "dropBoth",
                              !.failed = @ \cup SamplesAt(r, run[r].uploaded)]
  BY <1>2, <1>3 DEF RunStates, Steps
<1>5. run' \in [Runs -> RunStates] /\ run'[r] = x  BY <1>2, <1>4
<1> QED  BY <1>2, <1>4, <1>5 DEF RunStates

\* An upserted point holds the embedding of one of the pictures with its id.
LEMMA UpsertedPoints ==
  ASSUME Core, NEW r \in Runs, HasBundle(r), Upserted(r)
  PROVE  /\ vector' \in [Samples -> Points]
         /\ \A s \in Samples :
              \/ s \notin SamplesAt(r, run[r].uploaded) /\ vector'[s] = vector[s]
              \/ \E p \in run[r].uploaded :
                   /\ SampleAt(r, p) = s
                   /\ vector'[s] = [of |-> run[r].embedding[p], active |-> TRUE]
                   /\ run[r].embedding[p] \in Images
<1> DEFINE Same(s) == {p \in run[r].uploaded : SampleAt(r, p) = s}
           Latest(s) == CHOOSE p \in Same(s) : \A q \in Same(s) : q <= p
<1>1. TypeOK /\ run[r].next \in DOMAIN Manifest /\ run[r].uploaded \subseteq Accepted(r)
        /\ Accepted(r) \subseteq DOMAIN ImagesOf(r)
  BY HasNext DEF Core
<1>2. DOMAIN ImagesOf(r) = 1..Len(ImagesOf(r)) /\ Len(ImagesOf(r)) \in Nat
        /\ DOMAIN ImagesOf(r) \subseteq Positions
  BY <1>1, ManifestFacts DEF ImagesOf
<1>3. ASSUME NEW s \in SamplesAt(r, run[r].uploaded)
      PROVE  Latest(s) \in run[r].uploaded /\ SampleAt(r, Latest(s)) = s
  <2>1. Same(s) # {}  BY <1>3 DEF SamplesAt
  <2>2. Same(s) \subseteq 1..Len(ImagesOf(r))  BY <1>1, <1>2
  <2>3. IsFiniteSet(1..Len(ImagesOf(r))) /\ 1..Len(ImagesOf(r)) \subseteq Nat
    BY <1>2, FS_Interval
  <2>4. IsFiniteSet(Same(s)) /\ Same(s) \subseteq Nat
    <3> HIDE DEF Same
    <3> QED  BY <2>2, <2>3, FS_Subset
  <2>5. \E p \in Same(s) : \A q \in Same(s) : q <= p
    <3> HIDE DEF Same
    <3> QED  BY <2>1, <2>4, Greatest
  <2>6. Latest(s) \in Same(s)
    <3> HIDE DEF Same
    <3> QED  BY <2>5
  <2> QED  BY <2>6
<1>4. \A s \in SamplesAt(r, run[r].uploaded) : run[r].embedding[Latest(s)] \in Images
  <2> HIDE DEF Latest, Same
  <2>1. run[r].embedding \in [Positions -> Images \cup {"nothing"}]  BY <1>1, RunType
  <2>2. \A p \in Accepted(r) : run[r].embedding[p] # "nothing" /\ p \in Positions
    BY <1>1, <1>2 DEF Accepted
  <2> QED  BY <1>1, <1>3, <2>1, <2>2
<1>5. vector' = [s \in Samples |->
                   IF s \in SamplesAt(r, run[r].uploaded)
                   THEN [of |-> run[r].embedding[Latest(s)], active |-> TRUE]
                   ELSE vector[s]]
  BY DEF Upserted
<1> HIDE DEF Latest, Same
<1>6. vector \in [Samples -> Points]  BY <1>1 DEF TypeOK
<1>7. vector' \in [Samples -> Points]  BY <1>4, <1>5, <1>6 DEF Points
<1>8. ASSUME NEW s \in Samples
      PROVE  \/ s \notin SamplesAt(r, run[r].uploaded) /\ vector'[s] = vector[s]
             \/ \E p \in run[r].uploaded :
                   /\ SampleAt(r, p) = s
                   /\ vector'[s] = [of |-> run[r].embedding[p], active |-> TRUE]
                   /\ run[r].embedding[p] \in Images
  BY <1>3, <1>4, <1>5
<1> QED  BY <1>7, <1>8

\* What fail_samples_tx makes of the rows.
LEMMA FailedRowsType ==
  ASSUME sample \in [Samples -> SampleRows], NEW S, FailRows(S)
  PROVE  /\ sample' \in [Samples -> SampleRows]
         /\ \A s \in Samples : s \notin S => sample'[s] = sample[s]
         /\ \A s \in Samples : s \in S =>
              sample'[s].state \in {"none", "failed"} /\ sample'[s].ended = sample[s].ended
<1>1. \A s \in Samples : [sample[s] EXCEPT !.state = "failed"] \in SampleRows
  BY DEF SampleRows, States
<1>2. \A s \in Samples :
        sample'[s] = IF s \in S /\ sample[s].state # "none"
                     THEN [sample[s] EXCEPT !.state = "failed"] ELSE sample[s]
  BY DEF FailRows
<1>3. sample' \in [Samples -> SampleRows]  BY <1>1 DEF FailRows
<1>4. \A s \in Samples : sample[s] \in SampleRows  OBVIOUS
<1> QED  BY <1>2, <1>3, <1>4 DEF SampleRows

LEMMA CoreRun ==
  ASSUME Core, NEW r \in Runs, RunNext(r)
  PROVE  Core'
<1>1. TypeOK  BY DEF Core
<1>2. \A q \in Runs : q # r => ProgressInv(q)' /\ BundleInv(q)'
  <2>1. \A q \in Runs : q # r => run'[q] = run[q]  BY <1>1, OthersStand
  <2> QED  BY <2>1, StandingStill DEF Core
<1>3. /\ face \in [Faces -> {"none", "active", "inactive"}]
      /\ sample \in [Samples -> SampleRows]
      /\ object \subseteq Samples /\ vector \in [Samples -> Points]
      /\ collection \in {"absent", "bare", "indexed"} /\ PointsInv
  BY <1>1 DEF TypeOK, Core
<1>4. HasBundle(r) => FaceOf(r) \in Faces
  BY HasNext, ManifestFacts DEF FaceOf
<1>5. SUFFICES /\ run' \in [Runs -> RunStates] /\ ProgressInv(r)' /\ BundleInv(r)'
               /\ face' \in [Faces -> {"none", "active", "inactive"}]
               /\ sample' \in [Samples -> SampleRows]
               /\ object' \subseteq Samples /\ vector' \in [Samples -> Points]
               /\ collection' \in {"absent", "bare", "indexed"} /\ PointsInv'
  BY <1>2 DEF Core, TypeOK
<1>6. UNCHANGED vector => PointsInv'  BY <1>3 DEF PointsInv
<1>7. CASE Start(r)
  <2>1. run[r] = NewRun  BY <1>7 DEF Core, ProgressInv, Start, At
  <2>2. /\ run' \in [Runs -> RunStates] /\ run'[r].at = "admit" /\ run'[r].next = 1
        /\ run'[r].uploaded = {} /\ run'[r].rejected = {} /\ run'[r].failed = {}
    <3>1. Goto(r, "admit") /\ "admit" \in Steps \cup Ends \cup {"new"}
      BY <1>7 DEF Start, Steps
    <3>2. /\ run' \in [Runs -> RunStates] /\ run'[r].at = "admit"
          /\ run'[r].next = run[r].next /\ run'[r].rejected = run[r].rejected
          /\ run'[r].uploaded = run[r].uploaded /\ run'[r].failed = run[r].failed
      BY <1>1, <3>1, Gone
    <3> QED  BY <2>1, <3>2 DEF NewRun
  <2>3. 1 \in DOMAIN Manifest
    <3> DEFINE Subjects == [face : Faces, images : Seq(Images)]
    <3>1. Manifest \in Seq(Subjects) /\ Len(Manifest) > 0  BY ManifestAssumption
    <3> HIDE DEF Subjects
    <3> QED  BY <3>1
  <2>4. ProgressInv(r)'  BY <2>2, <2>3 DEF ProgressInv
  <2>5. BundleInv(r)'  BY <2>2 DEF BundleInv, HasBundle, SamplesAt
  <2> QED  BY <1>3, <1>6, <1>7, <2>2, <2>4, <2>5 DEF Start
<1>8. CASE Admit(r)
  <2>1. HasBundle(r) /\ run[r].at = "admit" /\ BundleInv(r)
    BY <1>8 DEF Admit, At, HasBundle, Steps, Core
  <2>2. run[r].next \in DOMAIN Manifest  BY <2>1, HasNext
  <2>3. run[r].uploaded = {} => run[r].failed = {}  BY <2>1 DEF BundleInv
  <2>4. PICK v \in {"look", "blocked", "extract"} : Goto(r, v)  BY <1>8 DEF Admit
  <2>5. run' \in [Runs -> RunStates] /\ ProgressInv(r)' /\ BundleInv(r)'
    BY <2>1, <2>2, <2>3, <2>4, CoreGo DEF Steps, Ends
  <2> QED  BY <1>3, <1>6, <1>8, <2>5 DEF Admit
<1>9. CASE LookUp(r)
  <2>1. run[r].at = "look" /\ HasBundle(r) /\ BundleInv(r)
    BY <1>9 DEF LookUp, At, HasBundle, Steps, Core
  <2>2. run[r].uploaded = {} => run[r].failed = {}  BY <2>1 DEF BundleInv
  <2>3. Goto(r, "create") => run' \in [Runs -> RunStates] /\ ProgressInv(r)' /\ BundleInv(r)'
    BY <2>1, <2>2, CoreGo DEF Steps
  <2>4. run' \in [Runs -> RunStates] /\ ProgressInv(r)' /\ BundleInv(r)'
    BY <1>9, <2>1, <2>3, CoreEnsured, CoreRefused DEF LookUp
  <2> QED  BY <1>3, <1>6, <1>9, <2>4 DEF LookUp
<1>10. CASE CreateCollection(r)
  <2>1. run[r].at = "create" /\ HasBundle(r) /\ BundleInv(r)
    BY <1>10 DEF CreateCollection, At, HasBundle, Steps, Core
  <2>2. run[r].uploaded = {} => run[r].failed = {}  BY <2>1 DEF BundleInv
  <2>3. Goto(r, "index") => run' \in [Runs -> RunStates] /\ ProgressInv(r)' /\ BundleInv(r)'
    BY <2>1, <2>2, CoreGo DEF Steps
  <2>4. run' \in [Runs -> RunStates] /\ ProgressInv(r)' /\ BundleInv(r)'
    BY <1>10, <2>1, <2>3, CoreRefused DEF CreateCollection
  <2> QED  BY <1>3, <1>6, <1>10, <2>4 DEF CreateCollection
<1>11. CASE CreateIndexes(r)
  <2>1. run[r].at = "index"  BY <1>11 DEF CreateIndexes, At
  <2>2. run' \in [Runs -> RunStates] /\ ProgressInv(r)' /\ BundleInv(r)'
    BY <1>11, <2>1, CoreEnsured, CoreRefused DEF CreateIndexes
  <2> QED  BY <1>3, <1>6, <1>11, <2>2 DEF CreateIndexes
<1>12. CASE Extract(r)
  BY <1>3, <1>6, <1>12, CoreExtract DEF Extract
<1>13. CASE Reject(r)
  <2>1. HasBundle(r) /\ FailRows(run[r].rejected) /\ NextBundle(r, {})
    BY <1>13 DEF Reject, At, HasBundle, Steps
  <2>2. sample' \in [Samples -> SampleRows]  BY <1>3, <2>1, FailedRowsType
  <2>3. {} \in SUBSET Samples  OBVIOUS
  <2>4. run' \in [Runs -> RunStates] /\ ProgressInv(r)' /\ BundleInv(r)'
    BY <2>1, <2>3, CoreNextBundle
  <2> QED  BY <1>3, <1>6, <1>13, <2>2, <2>4 DEF Reject
<1>14. CASE Prepare(r)
  <2>1. run[r].at = "prepare" /\ HasBundle(r) /\ Goto(r, "upload")
    BY <1>14 DEF Prepare, At, HasBundle, Steps
  <2>2. run' \in [Runs -> RunStates] /\ ProgressInv(r)' /\ BundleInv(r)'
    BY <2>1, CoreGo DEF Steps
  <2>3. face' \in [Faces -> {"none", "active", "inactive"}]
    BY <1>3, <1>14, <2>1, <1>4 DEF Prepare
  <2>4. [NoRow EXCEPT !.state = "pending"] \in SampleRows  BY DEF NoRow, SampleRows, States
  <2>5. sample' \in [Samples -> SampleRows]
    <3> DEFINE made == [NoRow EXCEPT !.state = "pending"]
    <3>1. sample' = [s \in Samples |->
                       IF s \in SamplesAt(r, Accepted(r)) /\ sample[s].state = "none"
                       THEN made ELSE sample[s]]
      BY <1>14 DEF Prepare
    <3> HIDE DEF made
    <3> QED  BY <3>1, <1>3, <2>4 DEF made
  <2> QED  BY <1>3, <1>6, <1>14, <2>2, <2>3, <2>5 DEF Prepare
<1>15. CASE Upload(r)
  <2>1. HasBundle(r) /\ run[r].at = "upload" /\ BundleInv(r)
    BY <1>15 DEF Upload, At, HasBundle, Steps, Core
  <2>2. PICK good \in SUBSET Accepted(r) :
           /\ \E put \in SUBSET SamplesAt(r, Accepted(r) \ good) :
                object' = object \cup SamplesAt(r, good) \cup put
           /\ run' \in [Runs -> RunStates]
           /\ run'[r].at = IF good = {} THEN "failAll"
                           ELSE IF run[r].validated THEN "upsert" ELSE "look"
           /\ run'[r].uploaded = good
           /\ run'[r].failed = SamplesAt(r, Accepted(r) \ good)
           /\ run'[r].next = run[r].next /\ run'[r].embedding = run[r].embedding
           /\ run'[r].rejected = run[r].rejected
    BY <1>15, Uploads
  <2>3. run[r].next \in DOMAIN Manifest  BY <2>1, HasNext
  <2>4. /\ ImagesOf(r)' = ImagesOf(r) /\ Accepted(r)' = Accepted(r)
        /\ \A ps : SamplesAt(r, ps)' = SamplesAt(r, ps)
    BY <2>2, SameBundle
  <2>5. ProgressInv(r)'  BY <2>2, <2>3 DEF ProgressInv
  <2>6. SamplesAt(r, Accepted(r) \ good) \subseteq SamplesAt(r, Accepted(r))  BY DEF SamplesAt
  <2>7. BundleInv(r)'
    <3>1. run[r].rejected \subseteq SamplesAt(r, DOMAIN ImagesOf(r) \ Accepted(r))
      BY <2>1 DEF BundleInv
    <3>2. run'[r].at \in {"failAll", "upsert", "look"} /\ (run'[r].at = "look" => good # {})
      BY <2>2
    <3> QED  BY <2>2, <2>4, <2>6, <3>1, <3>2 DEF BundleInv, HasBundle
  <2>8. SamplesAt(r, good) \subseteq Samples /\ SamplesAt(r, Accepted(r) \ good) \subseteq Samples
    BY <2>1, HasNext
  <2>9. object' \subseteq Samples  BY <1>3, <2>2, <2>8
  <2> QED  BY <1>3, <1>6, <1>15, <2>2, <2>5, <2>7, <2>9 DEF Upload
<1>16. CASE Upsert(r)
  <2>1. HasBundle(r) /\ run[r].at = "upsert"  BY <1>16 DEF Upsert, At, HasBundle, Steps
  <2>2. Goto(r, "activate") =>
          run' \in [Runs -> RunStates] /\ ProgressInv(r)' /\ BundleInv(r)'
    BY <2>1, CoreGo DEF Steps
  <2>3. run' \in [Runs -> RunStates] /\ ProgressInv(r)' /\ BundleInv(r)'
    BY <1>16, <2>1, <2>2, CoreRefused DEF Upsert
  <2>4. vector' \in [Samples -> Points] /\ PointsInv'
    <3>1. CASE Upserted(r)
      <4>1. /\ vector' \in [Samples -> Points]
            /\ \A s \in Samples : vector'[s] = vector[s] \/ vector'[s].of \in Images
        <5>1. /\ vector' \in [Samples -> Points]
              /\ \A s \in Samples :
                   \/ s \notin SamplesAt(r, run[r].uploaded) /\ vector'[s] = vector[s]
                   \/ \E p \in run[r].uploaded :
                        /\ SampleAt(r, p) = s
                        /\ vector'[s] = [of |-> run[r].embedding[p], active |-> TRUE]
                        /\ run[r].embedding[p] \in Images
          BY <2>1, <3>1, UpsertedPoints
        <5> QED  BY <5>1
      <4> QED  BY <1>3, <4>1 DEF PointsInv
    <3>2. CASE UNCHANGED vector  BY <1>3, <1>6, <3>2
    <3> QED  BY <1>16, <3>1, <3>2 DEF Upsert
  <2> QED  BY <1>3, <1>16, <2>3, <2>4 DEF Upsert
<1>17. CASE Activate(r)
  <2>1. HasBundle(r) /\ run[r].at = "activate" /\ BundleInv(r)
    BY <1>17 DEF Activate, At, HasBundle, Steps, Core
  <2>2. Goto(r, "settle") => run' \in [Runs -> RunStates] /\ ProgressInv(r)' /\ BundleInv(r)'
    BY <2>1, CoreGo DEF Steps
  <2>3. ASSUME run' = [run EXCEPT ![r].at = "dropBoth",
                       ![r].failed = @ \cup SamplesAt(r, run[r].uploaded)]
        PROVE  run' \in [Runs -> RunStates] /\ ProgressInv(r)' /\ BundleInv(r)'
    <3>1. /\ run' \in [Runs -> RunStates]
          /\ run'[r].at = "dropBoth"
          /\ run'[r].failed = run[r].failed \cup SamplesAt(r, run[r].uploaded)
          /\ run'[r].next = run[r].next /\ run'[r].embedding = run[r].embedding
          /\ run'[r].rejected = run[r].rejected /\ run'[r].uploaded = run[r].uploaded
      BY <2>1, <2>3, ActivateFails
    <3>2. run[r].next \in DOMAIN Manifest
            /\ SamplesAt(r, run[r].uploaded) \subseteq SamplesAt(r, Accepted(r))
      BY <2>1, HasNext
    <3>3. /\ ImagesOf(r)' = ImagesOf(r) /\ Accepted(r)' = Accepted(r)
          /\ \A ps : SamplesAt(r, ps)' = SamplesAt(r, ps)
      BY <3>1, SameBundle
    <3>4. ProgressInv(r)'  BY <3>1, <3>2 DEF ProgressInv
    <3>5. BundleInv(r)'  BY <2>1, <3>1, <3>2, <3>3 DEF BundleInv, HasBundle
    <3> QED  BY <3>1, <3>4, <3>5
  <2>4. sample' \in [Samples -> SampleRows]
    <3>1. \A s \in Samples : [sample[s] EXCEPT !.state = "active"] \in SampleRows
      BY <1>3 DEF SampleRows, States
    <3>2. Activated(r) => sample' \in [Samples -> SampleRows]  BY <1>3, <3>1 DEF Activated
    <3> QED  BY <1>3, <1>17, <3>2 DEF Activate
  <2> QED  BY <1>3, <1>6, <1>17, <2>2, <2>3, <2>4 DEF Activate
<1>18. CASE DropObjects(r)
  <2>1. HasBundle(r) /\ Goto(r, "failAll")  BY <1>18 DEF DropObjects, At, HasBundle, Steps
  <2>2. run' \in [Runs -> RunStates] /\ ProgressInv(r)' /\ BundleInv(r)'
    BY <2>1, CoreGo DEF Steps
  <2> QED  BY <1>3, <1>6, <1>18, <2>2 DEF DropObjects
<1>19. CASE DropBoth(r)
  <2>1. HasBundle(r) /\ Goto(r, "failAll")  BY <1>19 DEF DropBoth, At, HasBundle, Steps
  <2>2. run' \in [Runs -> RunStates] /\ ProgressInv(r)' /\ BundleInv(r)'
    BY <2>1, CoreGo DEF Steps
  <2>3. PICK lost : vector' = [s \in Samples |-> IF s \in lost THEN NoPoint ELSE vector[s]]
    BY <1>19 DEF DropBoth
  <2>4. NoPoint \in Points  BY DEF NoPoint, Points
  <2>5. vector' \in [Samples -> Points] /\ PointsInv'  BY <1>3, <2>3, <2>4 DEF PointsInv
  <2> QED  BY <1>3, <1>19, <2>2, <2>5 DEF DropBoth
<1>20. CASE FailAll(r)
  <2>1. HasBundle(r) /\ Goto(r, "count") /\ FailRows(run[r].failed)
    BY <1>20 DEF FailAll, At, HasBundle, Steps
  <2>2. run' \in [Runs -> RunStates] /\ ProgressInv(r)' /\ BundleInv(r)'
    BY <2>1, CoreGo DEF Steps
  <2>3. sample' \in [Samples -> SampleRows]  BY <1>3, <2>1, FailedRowsType
  <2> QED  BY <1>3, <1>6, <1>20, <2>2, <2>3 DEF FailAll
<1>21. CASE CountActive(r)
  <2>1. HasBundle(r) /\ {} \in SUBSET Samples  BY <1>21 DEF CountActive, At, HasBundle, Steps
  <2>2. Goto(r, "hide") => run' \in [Runs -> RunStates] /\ ProgressInv(r)' /\ BundleInv(r)'
    BY <2>1, CoreGo DEF Steps
  <2>3. NextBundle(r, {}) =>
          run' \in [Runs -> RunStates] /\ ProgressInv(r)' /\ BundleInv(r)'
    BY <2>1, CoreNextBundle
  <2> QED  BY <1>3, <1>6, <1>21, <2>2, <2>3 DEF CountActive
<1>22. CASE HideFace(r)
  <2>1. HasBundle(r) /\ {} \in SUBSET Samples /\ NextBundle(r, {})
    BY <1>22 DEF HideFace, At, HasBundle, Steps
  <2>2. run' \in [Runs -> RunStates] /\ ProgressInv(r)' /\ BundleInv(r)'
    BY <2>1, CoreNextBundle
  <2> QED  BY <1>3, <1>6, <1>22, <2>2 DEF HideFace
<1>23. CASE Settle(r)
  <2>1. /\ HasBundle(r) /\ FailRows(run[r].failed \cup run[r].rejected)
        /\ NextBundle(r, SamplesAt(r, run[r].uploaded))
    BY <1>23 DEF Settle, At, HasBundle, Steps
  <2>2. SamplesAt(r, run[r].uploaded) \in SUBSET Samples  BY <2>1, HasNext
  <2>3. run' \in [Runs -> RunStates] /\ ProgressInv(r)' /\ BundleInv(r)'
    BY <2>1, <2>2, CoreNextBundle
  <2>4. sample' \in [Samples -> SampleRows]  BY <1>3, <2>1, FailedRowsType
  <2> QED  BY <1>3, <1>6, <1>23, <2>3, <2>4 DEF Settle
<1>24. CASE WriteJournal(r)
  <2>1. run' \in [Runs -> RunStates] /\ ProgressInv(r)' /\ BundleInv(r)'
    BY <1>24, CoreGo DEF WriteJournal, Ends, Steps
  <2> QED  BY <1>3, <1>6, <1>24, <2>1 DEF WriteJournal
<1>25. CASE Abort(r)
  <2>1. run' \in [Runs -> RunStates] /\ ProgressInv(r)' /\ BundleInv(r)'
    BY <1>25, CoreGo DEF Abort, Ends, Steps
  <2> QED  BY <1>3, <1>6, <1>25, <2>1 DEF Abort
<1> QED
  BY <1>7, <1>8, <1>9, <1>10, <1>11, <1>12, <1>13, <1>14, <1>15, <1>16, <1>17, <1>18, <1>19,
     <1>20, <1>21, <1>22, <1>23, <1>24, <1>25 DEF RunNext

LEMMA CoreDeactivate ==
  ASSUME Core, NEW f \in Faces, Deactivate(f)
  PROVE  Core'
<1>1. /\ face \in [Faces -> {"none", "active", "inactive"}]
      /\ sample \in [Samples -> SampleRows] /\ vector \in [Samples -> Points] /\ PointsInv
      /\ object \subseteq Samples /\ collection \in {"absent", "bare", "indexed"}
      /\ run \in [Runs -> RunStates]
  BY DEF Core, TypeOK
<1>2. UNCHANGED <<object, collection, run>>
        /\ face' \in [Faces -> {"none", "active", "inactive"}]
  BY <1>1 DEF Deactivate
<1>3. PICK own \in SUBSET Samples, hidden \in SUBSET Samples :
        /\ sample' = [s \in Samples |->
                        IF s \in own THEN [state |-> "inactive", ended |-> TRUE] ELSE sample[s]]
        /\ vector' = [s \in Samples |-> IF s \in hidden /\ vector[s] # NoPoint
                                        THEN [vector[s] EXCEPT !.active = FALSE] ELSE vector[s]]
  <2> DEFINE own == {s \in Samples : s[1] = f /\ sample[s].state = "active"}
  <2>1. own \in SUBSET Samples  OBVIOUS
  <2>2. PICK hidden \in SUBSET own :
          vector' = [s \in Samples |-> IF s \in hidden /\ vector[s] # NoPoint
                                       THEN [vector[s] EXCEPT !.active = FALSE] ELSE vector[s]]
    BY DEF Deactivate
  <2>3. sample' = [s \in Samples |->
                     IF s \in own THEN [state |-> "inactive", ended |-> TRUE] ELSE sample[s]]
    BY DEF Deactivate
  <2> QED  BY <2>1, <2>2, <2>3
<1>4. sample' \in [Samples -> SampleRows]  BY <1>1, <1>3 DEF SampleRows, States
<1>5. vector' \in [Samples -> Points] /\ PointsInv'
  <2>1. \A s \in Samples : [vector[s] EXCEPT !.active = FALSE] \in Points
          /\ [vector[s] EXCEPT !.active = FALSE].of = vector[s].of
    BY <1>1 DEF Points
  <2>2. vector' \in [Samples -> Points]  BY <1>1, <1>3, <2>1
  <2>3. PointsInv'  BY <1>1, <1>3, <2>1 DEF PointsInv
  <2> QED  BY <2>2, <2>3
<1>6. \A r \in Runs : ProgressInv(r)' /\ BundleInv(r)'
  BY <1>2, StandingStill DEF Core
<1> QED  BY <1>1, <1>2, <1>4, <1>5, <1>6 DEF Core, TypeOK

LEMMA CoreInit == Init => Core
<1> SUFFICES ASSUME Init PROVE Core  OBVIOUS
<1>1. NewRun \in RunStates /\ NewRun.at = "new"
  <2>1. 1 \in 1..(Len(Manifest) + 1)
    <3> DEFINE Subjects == [face : Faces, images : Seq(Images)]
    <3>1. Manifest \in Seq(Subjects)  BY ManifestAssumption
    <3> HIDE DEF Subjects
    <3>2. Len(Manifest) \in Nat  BY <3>1
    <3> QED  BY <3>2
  <2> QED  BY <2>1 DEF NewRun, RunStates
<1>2. NoRow \in SampleRows /\ NoPoint \in Points
  BY DEF NoRow, SampleRows, States, NoPoint, Points
<1>3. TypeOK  BY <1>1, <1>2 DEF Init, TypeOK
<1>4. \A r \in Runs : ProgressInv(r) /\ BundleInv(r)
  BY <1>1 DEF Init, ProgressInv, BundleInv, HasBundle, Steps
<1>5. PointsInv  BY DEF Init, PointsInv
<1> QED  BY <1>3, <1>4, <1>5 DEF Core

LEMMA CoreStep == Core /\ [Next]_vars => Core'
<1> SUFFICES ASSUME Core, [Next]_vars PROVE Core'  OBVIOUS
<1>1. ASSUME NEW r \in Runs, RunNext(r) PROVE Core'  BY <1>1, CoreRun
<1>2. ASSUME NEW f \in Faces, Deactivate(f) PROVE Core'  BY <1>2, CoreDeactivate
<1>3. CASE UNCHANGED vars
  <2>1. \A r \in Runs : ProgressInv(r)' /\ BundleInv(r)'
    BY <1>3, StandingStill DEF Core, vars
  <2> QED  BY <1>3, <2>1 DEF Core, TypeOK, PointsInv, vars
<1> QED  BY <1>1, <1>2, <1>3 DEF Next

\* The types, and what each run holds of its bundle, hold always.
THEOREM BulkInvariant == Spec => []Core
<1>1. Init => Core  BY CoreInit
<1>2. Core /\ [Next]_vars => Core'  BY CoreStep
<1> QED  BY <1>1, <1>2, PTL DEF Spec

\* The types of the rows, objects, points and runs (persist_bundle, enroll).
THEOREM BulkTypeCorrect == Spec => []TypeOK
<1>1. Core => TypeOK  BY DEF Core
<1> QED  BY <1>1, BulkInvariant, PTL

-----------------------------------------------------------------------------
(* Each point holds its own picture.                                       *)

\* The recognizer takes each chunk in one batch.  Of what it splits, later batches
\* overwrite the rows of earlier ones in the engine's one output buffer.
FitsEngine == \A k \in DOMAIN Manifest : ChunkSize(Manifest[k].images) <= EngineMax

Owns == VectorIsOwn /\ \A r \in Runs : OwnInv(r)

\* A run that does not extract keeps its bundle, or has none afterwards.
LEMMA KeepsBundle ==
  ASSUME Core, NEW r \in Runs, RunNext(r), ~Extract(r)
  PROVE  \/ ~HasBundle(r)'
         \/ /\ run'[r].next = run[r].next /\ run'[r].embedding = run[r].embedding
            /\ HasBundle(r) \/ run[r] = NewRun
<1>1. TypeOK  BY DEF Core
<1>2. HasBundle(r) =>
        SamplesAt(r, run[r].uploaded) \subseteq Samples /\ run[r].next \in DOMAIN Manifest
  BY HasNext
<1>3. ASSUME NEW v \in Steps \cup Ends \cup {"new"}, Goto(r, v)
      PROVE  run'[r].next = run[r].next /\ run'[r].embedding = run[r].embedding
  BY <1>1, <1>3, Gone
<1>4. Ensured(r) => run'[r].next = run[r].next /\ run'[r].embedding = run[r].embedding
  BY <1>1, Ensures
<1>5. HasBundle(r) /\ Refused(r) =>
        run'[r].next = run[r].next /\ run'[r].embedding = run[r].embedding
  BY <1>1, <1>2, Refuses
<1>6. ASSUME NEW ps \in SUBSET Samples, HasBundle(r), NextBundle(r, ps) PROVE ~HasBundle(r)'
  <2>1. run'[r].at \in {"journal", "extract"}  BY <1>1, <1>2, <1>6, MovesOn
  <2> QED  BY <2>1 DEF HasBundle
<1>7. CASE Start(r)
  BY <1>3, <1>7 DEF Start, At, Steps, Core, ProgressInv
<1>8. CASE Admit(r)
  BY <1>3, <1>8 DEF Admit, At, Steps, Ends, HasBundle
<1>9. CASE LookUp(r)
  BY <1>3, <1>4, <1>5, <1>9 DEF LookUp, At, Steps, HasBundle
<1>10. CASE CreateCollection(r)
  BY <1>3, <1>5, <1>10 DEF CreateCollection, At, Steps, HasBundle
<1>11. CASE CreateIndexes(r)
  BY <1>4, <1>5, <1>11 DEF CreateIndexes, At, Steps, HasBundle
<1>12. CASE Reject(r)
  BY <1>6, <1>12 DEF Reject, At, Steps, HasBundle
<1>13. CASE Prepare(r)
  BY <1>3, <1>13 DEF Prepare, At, Steps, HasBundle
<1>14. CASE Upload(r)
  <2>1. run'[r].next = run[r].next /\ run'[r].embedding = run[r].embedding
    BY <1>14, Uploads
  <2> QED  BY <1>14, <2>1 DEF Upload, At, Steps, HasBundle
<1>15. CASE Upsert(r)
  BY <1>3, <1>5, <1>15 DEF Upsert, At, Steps, HasBundle
<1>16. CASE Activate(r)
  BY <1>3, <1>16, ActivateFails DEF Activate, At, Steps, HasBundle
<1>17. CASE DropObjects(r)
  BY <1>3, <1>17 DEF DropObjects, At, Steps, HasBundle
<1>18. CASE DropBoth(r)
  BY <1>3, <1>18 DEF DropBoth, At, Steps, HasBundle
<1>19. CASE FailAll(r)
  BY <1>3, <1>19 DEF FailAll, At, Steps, HasBundle
<1>20. CASE CountActive(r)
  <2>1. {} \in SUBSET Samples  OBVIOUS
  <2> QED  BY <1>3, <1>6, <1>20, <2>1 DEF CountActive, At, Steps, HasBundle
<1>21. CASE HideFace(r)
  BY <1>6, <1>21 DEF HideFace, At, Steps, HasBundle
<1>22. CASE Settle(r)
  BY <1>2, <1>6, <1>22 DEF Settle, At, Steps, HasBundle
<1>23. CASE WriteJournal(r)
  <2>1. run'[r].at = "done"  BY <1>1, <1>23, Gone DEF WriteJournal, Ends
  <2> QED  BY <2>1 DEF HasBundle, Steps
<1>24. CASE Abort(r)
  <2>1. run'[r].at = "aborted"  BY <1>1, <1>24, Gone DEF Abort, Ends
  <2> QED  BY <2>1 DEF HasBundle, Steps
<1> QED
  BY <1>7, <1>8, <1>9, <1>10, <1>11, <1>12, <1>13, <1>14, <1>15, <1>16, <1>17, <1>18, <1>19,
     <1>20, <1>21, <1>22, <1>23, <1>24 DEF RunNext

\* Points are written by an upsert alone; everything else hides them or takes
\* them away.
LEMMA PointsElsewhere ==
  ASSUME Core, Next, \A r \in Runs : Upsert(r) => UNCHANGED vector, NEW s \in Samples
  PROVE  \/ vector'[s] = NoPoint
         \/ /\ vector'[s].of = vector[s].of
            /\ vector[s] = NoPoint => vector'[s] = NoPoint
<1>1. vector \in [Samples -> Points]  BY DEF Core, TypeOK
<1>2. ASSUME NEW r \in Runs, RunNext(r)
      PROVE  \/ vector' = vector
             \/ \E lost : vector' = [x \in Samples |->
                                       IF x \in lost THEN NoPoint ELSE vector[x]]
  BY <1>2 DEF RunNext, Start, Admit, LookUp, CreateCollection, CreateIndexes, Extract, Reject,
     Prepare, Upload, Activate, DropObjects, DropBoth, FailAll, CountActive, HideFace, Settle,
     WriteJournal, Abort
<1>3. ASSUME NEW f \in Faces, Deactivate(f)
      PROVE  \E hidden : vector' = [x \in Samples |-> IF x \in hidden /\ vector[x] # NoPoint
                                      THEN [vector[x] EXCEPT !.active = FALSE] ELSE vector[x]]
  BY <1>3 DEF Deactivate
<1>4. CASE \E r \in Runs : RunNext(r)  BY <1>1, <1>2, <1>4
<1>5. CASE \E f \in Faces : Deactivate(f)
  <2>1. PICK hidden : vector' = [x \in Samples |-> IF x \in hidden /\ vector[x] # NoPoint
                                   THEN [vector[x] EXCEPT !.active = FALSE] ELSE vector[x]]
    BY <1>3, <1>5
  <2>2. [vector[s] EXCEPT !.active = FALSE].of = vector[s].of  BY <1>1 DEF Points
  <2> QED  BY <1>1, <2>1, <2>2
<1> QED  BY <1>4, <1>5 DEF Next

LEMMA OwnsStep == FitsEngine /\ Core /\ Owns /\ [Next]_vars => Owns'
<1> SUFFICES ASSUME FitsEngine, Core, Owns, [Next]_vars PROVE Owns'  OBVIOUS
<1>1. TypeOK /\ VectorIsOwn /\ \A r \in Runs : OwnInv(r)  BY DEF Owns, Core
<1>2. ASSUME NEW r \in Runs, RunNext(r), NEW q \in Runs PROVE OwnInv(q)'
  <2>1. CASE q # r  BY <1>1, <1>2, <2>1, OthersStand, StandingStill
  <2>2. CASE q = r /\ ~Extract(r)
    <3>1. SUFFICES ASSUME HasBundle(r)' PROVE OwnInv(r)'  BY <2>2 DEF OwnInv
    <3>2. /\ run'[r].next = run[r].next /\ run'[r].embedding = run[r].embedding
          /\ HasBundle(r) \/ run[r] = NewRun
      BY <1>2, <2>2, <3>1, KeepsBundle
    <3>3. ImagesOf(r)' = ImagesOf(r) /\ Accepted(r)' = Accepted(r)  BY <3>2, SameBundle
    <3>4. CASE HasBundle(r)  BY <1>1, <3>2, <3>3, <3>4 DEF OwnInv
    <3>5. CASE run[r] = NewRun
      <4>1. Accepted(r) = {}
        <5>1. run[r].next \in DOMAIN Manifest
          <6>1. Core'  BY <1>2, CoreRun
          <6>2. run'[r].next \in DOMAIN Manifest  BY <6>1, <3>1 DEF Core, ProgressInv, HasBundle
          <6> QED  BY <6>2, <3>2
        <5>2. DOMAIN ImagesOf(r) \subseteq Positions  BY <5>1, ManifestFacts DEF ImagesOf
        <5> QED  BY <3>5, <5>2 DEF Accepted, NewRun
      <4> QED  BY <3>3, <4>1 DEF OwnInv
    <3> QED  BY <3>2, <3>4, <3>5
  <2>3. CASE q = r /\ Extract(r)
    <3> DEFINE images == ImagesOf(r)
    <3>1. run[r].next \in DOMAIN Manifest /\ run[r].at = "extract"
      BY <2>3 DEF Core, ProgressInv, Extract, At, Steps
    <3>2. /\ images \in Seq(Images) /\ Len(images) > 0 /\ DOMAIN images \subseteq Positions
          /\ ChunkSize(images) <= EngineMax
      BY <3>1, ManifestFacts DEF ImagesOf, FitsEngine
    <3>3. PICK ok \in SUBSET DOMAIN images :
            /\ \A p \in ok : Kind[images[p]] = "single"
            /\ run'[r].next = run[r].next
            /\ run'[r].embedding = [p \in Positions |->
                                      IF p \in ok THEN Embedding(images, p) ELSE "nothing"]
      <4>1. run \in [Runs -> RunStates] /\ run[r] \in RunStates  BY <1>1, RunType
      <4>2. PICK ok \in SUBSET DOMAIN images :
              /\ \A p \in ok : Kind[images[p]] = "single"
              /\ run' = [run EXCEPT
                   ![r].at = IF ok = {} THEN "reject" ELSE "prepare",
                   ![r].embedding = [p \in Positions |->
                                       IF p \in ok THEN Embedding(images, p) ELSE "nothing"],
                   ![r].rejected = SamplesAt(r, DOMAIN images \ ok),
                   ![r].uploaded = {}, ![r].failed = {}]
        BY <2>3, Extracts, Zenon
      <4> DEFINE e == [p \in Positions |-> IF p \in ok THEN Embedding(images, p) ELSE "nothing"]
      <4>3. run' = [run EXCEPT
                    ![r].at = IF ok = {} THEN "reject" ELSE "prepare",
                    ![r].embedding = e,
                    ![r].rejected = SamplesAt(r, DOMAIN images \ ok),
                    ![r].uploaded = {}, ![r].failed = {}]
        BY <4>2
      <4> HIDE DEF e
      <4>4. run'[r].next = run[r].next /\ run'[r].embedding = e  BY <4>1, <4>3 DEF RunStates
      <4> QED  BY <4>2, <4>4 DEF e
    <3>4. \A p \in ok : Embedding(images, p) = images[p]  BY <3>2, <3>3, EmbeddingType
    <3>5. ImagesOf(r)' = images  BY <3>3 DEF ImagesOf
    <3> DEFINE e == [p \in Positions |-> IF p \in ok THEN Embedding(images, p) ELSE "nothing"]
    <3>6. \A p \in DOMAIN images : e[p] # "nothing" => e[p] = images[p]  BY <3>2, <3>4
    <3>7. run'[r].embedding = e  BY <3>3
    <3> HIDE DEF e
    <3> QED  BY <2>3, <3>5, <3>6, <3>7 DEF OwnInv, Accepted
  <2> QED  BY <2>1, <2>2, <2>3
<1>3. ASSUME NEW q \in Runs PROVE OwnInv(q)'
  <2>1. run' = run => OwnInv(q)'  BY <1>1, StandingStill
  <2>2. (\E f \in Faces : Deactivate(f)) => run' = run  BY DEF Deactivate
  <2> QED  BY <1>2, <2>1, <2>2 DEF Next, vars
<1>4. VectorIsOwn'
  <2>1. CASE UNCHANGED vars  BY <1>1, <2>1 DEF VectorIsOwn, vars
  <2>2. ASSUME NEW r \in Runs, Upsert(r), Upserted(r) PROVE VectorIsOwn'
    <3>1. HasBundle(r) /\ OwnInv(r)  BY <1>1, <2>2 DEF Upsert, At, HasBundle, Steps
    <3>2. \A s \in Samples :
            \/ s \notin SamplesAt(r, run[r].uploaded) /\ vector'[s] = vector[s]
            \/ \E p \in run[r].uploaded :
                 /\ SampleAt(r, p) = s
                 /\ vector'[s] = [of |-> run[r].embedding[p], active |-> TRUE]
                 /\ run[r].embedding[p] \in Images
      BY <2>2, <3>1, UpsertedPoints
    <3>3. \A p \in run[r].uploaded : run[r].embedding[p] = ImagesOf(r)[p]
      BY <3>1, HasNext DEF OwnInv
    <3>4. \A p \in run[r].uploaded : SampleAt(r, p)[2] = ImagesOf(r)[p]
      BY DEF SampleAt, SampleId
    <3>5. ASSUME NEW s \in Samples, vector'[s] # NoPoint PROVE vector'[s].of = s[2]
      <4>1. CASE vector'[s] = vector[s]  BY <1>1, <3>5, <4>1 DEF VectorIsOwn
      <4>2. CASE \E p \in run[r].uploaded :
                   /\ SampleAt(r, p) = s
                   /\ vector'[s] = [of |-> run[r].embedding[p], active |-> TRUE]
        BY <3>3, <3>4, <4>2
      <4> QED  BY <3>2, <4>1, <4>2
    <3> QED  BY <3>5 DEF VectorIsOwn
  <2>3. CASE Next /\ \A r \in Runs : Upsert(r) => UNCHANGED vector
    BY <1>1, <2>3, PointsElsewhere DEF VectorIsOwn
  <2> QED  BY <2>1, <2>2, <2>3 DEF Upsert
<1> QED  BY <1>3, <1>4 DEF Owns

\* When no chunk of a subject is larger than the recognizer's largest batch, a
\* point never holds the face of another picture: through the slots of the
\* decoded pictures, the selection of those with one face and the places of the
\* engine's output (GpuFacePipeline.extract_batch, GpuRecognizer.embed).
THEOREM PointsAreOwn ==
  ASSUME FitsEngine
  PROVE  Spec => []VectorIsOwn
<1>1. Init => Owns
  BY DEF Init, Owns, VectorIsOwn, OwnInv, HasBundle, NewRun, Steps
<1>2. Owns /\ Core /\ [Next]_vars => Owns'  BY OwnsStep
<1>3. Owns => VectorIsOwn  BY DEF Owns
<1> QED  BY <1>1, <1>2, <1>3, BulkInvariant, PTL DEF Spec

-----------------------------------------------------------------------------
(* Nothing stays pending, and what is active can be found.                 *)

\* One run is under way, and what it owes is settled at its end.
SettleInv ==
  /\ OneRun
  /\ \A r \in Runs : StoredInv(r)
  /\ Settling

\* What Settling says of the rows when r is the run under way.
RowsSettle(r) ==
  \A s \in Samples :
    /\ sample[s].state = "pending" => s \in Owed(r)
    /\ sample[s].state = "active" => (s \in object /\ vector[s].active) \/ s \in Undone(r)

LEMMA NotBusyOwesNothing ==
  ASSUME NEW q \in Runs, ~Busy(q)
  PROVE  Owed(q) = {} /\ Undone(q) = {} /\ StoredInv(q)
BY DEF Busy, Owed, Undone, StoredInv, Steps

\* Before a step of the one run under way.
LEMMA RowsOf ==
  ASSUME SettleInv, Unbroken, NEW r \in Runs, Busy(r) \/ \A q \in Runs : ~Busy(q)
  PROVE  RowsSettle(r)
<1>1. \A q \in Runs : q # r => ~Busy(q)  BY DEF SettleInv, OneRun
<1>2. \A q \in Runs : q # r => Owed(q) = {} /\ Undone(q) = {}  BY <1>1, NotBusyOwesNothing
<1> QED  BY <1>2 DEF SettleInv, Settling, RowsSettle

\* And after it.
LEMMA SettledAfter ==
  ASSUME Core, SettleInv, NEW r \in Runs, RunNext(r),
         Busy(r) \/ \A q \in Runs : ~Busy(q),
         StoredInv(r)', Unbroken' => RowsSettle(r)'
  PROVE  SettleInv'
<1>1. \A q \in Runs : q # r => ~Busy(q)  BY DEF SettleInv, OneRun
<1>2. \A q \in Runs : q # r => run'[q] = run[q]  BY OthersStand DEF Core
<1>3. \A q \in Runs : q # r => ~Busy(q)'  BY <1>1, <1>2 DEF Busy
<1>4. OneRun'  BY <1>3 DEF OneRun
<1>5. \A q \in Runs : q # r => StoredInv(q)'
  BY <1>3 DEF Busy, StoredInv, Steps
<1>6. Settling'  BY DEF Settling, RowsSettle
<1> QED  BY <1>4, <1>5, <1>6 DEF SettleInv

LEMMA SettleRun ==
  ASSUME ~Overlapping, Core, SettleInv, NEW r \in Runs, RunNext(r)
  PROVE  SettleInv'
<1>1. Busy(r) \/ \A q \in Runs : ~Busy(q)
  <2>1. CASE Start(r)
    <3>1. \A q \in Runs : run[q].at \in Ends \cup {"new"}  BY <2>1 DEF Start
    <3> QED  BY <3>1 DEF Busy, Ends, Steps
  <2>2. CASE ~Start(r)
    <3>1. run[r].at \in Steps
      BY <2>2 DEF RunNext, Admit, LookUp, CreateCollection, CreateIndexes, Extract, Reject,
         Prepare, Upload, Upsert, Activate, DropObjects, DropBoth, FailAll, CountActive, HideFace,
         Settle, WriteJournal, Abort, At, Steps
    <3> QED  BY <3>1 DEF Busy
  <2> QED  BY <2>1, <2>2
<1>2. TypeOK /\ run \in [Runs -> RunStates] /\ run[r] \in RunStates  BY RunType DEF Core
<1>3. Unbroken' => Unbroken
  <2>1. run[r].at # "aborted"
    BY DEF RunNext, Start, Admit, LookUp, CreateCollection, CreateIndexes, Extract, Reject,
       Prepare, Upload, Upsert, Activate, DropObjects, DropBoth, FailAll, CountActive, HideFace,
       Settle, WriteJournal, Abort, At, Steps
  <2>2. \A q \in Runs : q # r => run'[q] = run[q]  BY OthersStand DEF Core
  <2> QED  BY <2>1, <2>2 DEF Unbroken
<1>4. SUFFICES StoredInv(r)' /\ (Unbroken' => RowsSettle(r)')  BY <1>1, SettledAfter
<1>5. StoredInv(r) /\ BundleInv(r)  BY DEF SettleInv, Core
<1>6. Unbroken' => RowsSettle(r)  BY <1>1, <1>3, RowsOf
\* The run goes on, and takes what it owes and what it undoes with it.
<1>7. ASSUME UNCHANGED <<sample, object, vector>>,
             Owed(r) \subseteq Owed(r)', Undone(r) \subseteq Undone(r)'
      PROVE  Unbroken' => RowsSettle(r)'
  BY <1>6, <1>7 DEF RowsSettle
<1>8. ASSUME NEW v \in Steps \cup Ends \cup {"new"}, Goto(r, v)
      PROVE  /\ run'[r].at = v /\ run'[r].uploaded = run[r].uploaded
             /\ run'[r].failed = run[r].failed
             /\ Accepted(r)' = Accepted(r)
             /\ \A ps : SamplesAt(r, ps)' = SamplesAt(r, ps)
  <2>1. /\ run'[r].at = v /\ run'[r].next = run[r].next
        /\ run'[r].embedding = run[r].embedding
        /\ run'[r].uploaded = run[r].uploaded /\ run'[r].failed = run[r].failed
    BY <1>2, <1>8, Gone
  <2> QED  BY <2>1, SameBundle
<1>9. ASSUME Refused(r), run[r].at \in {"look", "create", "index", "upsert"}
      PROVE  /\ run'[r].at = IF Uploaded(r) THEN "dropObjects" ELSE "blocked"
             /\ Uploaded(r) => Owed(r)' = Owed(r) /\ Undone(r)' = Owed(r)
             /\ ~Uploaded(r) => Owed(r) = {}
  <2>1. HasBundle(r)  BY <1>9 DEF HasBundle, Steps
  <2>2. /\ run'[r].at = IF Uploaded(r) THEN "dropObjects" ELSE "blocked"
        /\ Uploaded(r) => run'[r].failed = run[r].failed \cup SamplesAt(r, run[r].uploaded)
    BY <1>2, <1>9, <2>1, HasNext, Refuses
  <2>3. ~Uploaded(r) => Owed(r) = {}
    BY <1>5, <1>9, <2>1 DEF BundleInv, Owed, Uploaded, SamplesAt
  <2> QED  BY <1>9, <2>2, <2>3 DEF Owed, Undone
<1>10. ASSUME Ensured(r), run[r].at \in {"look", "index"}
       PROVE  /\ run'[r].at = IF Uploaded(r) THEN "upsert" ELSE "extract"
              /\ run'[r].uploaded = run[r].uploaded
              /\ Owed(r) \subseteq Owed(r)' /\ Undone(r) = {}
              /\ \A ps : SamplesAt(r, ps)' = SamplesAt(r, ps)
  <2>1. HasBundle(r)  BY <1>10 DEF HasBundle, Steps
  <2>2. /\ run'[r].at = IF Uploaded(r) THEN "upsert" ELSE "extract"
        /\ run'[r].next = run[r].next /\ run'[r].embedding = run[r].embedding
        /\ run'[r].uploaded = run[r].uploaded /\ run'[r].failed = run[r].failed
    BY <1>2, <1>10, Ensures
  <2>3. \A ps : SamplesAt(r, ps)' = SamplesAt(r, ps)  BY <2>2, SameBundle
  <2>4. ~Uploaded(r) => Owed(r) = {}
    BY <1>5, <1>10, <2>1 DEF BundleInv, Owed, Uploaded, SamplesAt
  <2> QED  BY <1>10, <2>2, <2>3, <2>4 DEF Owed, Undone
\* The bundle is over; nothing is pending.
<1>11. ASSUME NEW ps \in SUBSET Samples, HasBundle(r), NextBundle(r, ps)
       PROVE  StoredInv(r)'
  <2>1. run'[r].at \in {"journal", "extract"}  BY <1>2, <1>11, HasNext, MovesOn
  <2> QED  BY <2>1 DEF StoredInv
<1>12. ASSUME NEW S, FailRows(S), UNCHANGED <<object, vector>>, Unbroken',
              \A s \in Owed(r) : s \in S, \A s \in Undone(r) : s \in S
       PROVE  RowsSettle(r)'
  <2>1. RowsSettle(r)  BY <1>6, <1>12
  <2>2. /\ \A s \in Samples : s \notin S => sample'[s] = sample[s]
        /\ \A s \in Samples : s \in S => sample'[s].state \in {"none", "failed"}
    BY <1>2, <1>12, FailedRowsType DEF TypeOK
  <2> QED  BY <1>12, <2>1, <2>2 DEF RowsSettle
<1>13. CASE Start(r)
  <2>1. Goto(r, "admit") /\ run[r].at = "new" /\ UNCHANGED <<sample, object, vector>>
    BY <1>13 DEF Start, At
  <2>2. run'[r].at = "admit"  BY <2>1, <1>8 DEF Steps
  <2>3. Owed(r) = {} /\ Undone(r) = {}  BY <2>1 DEF Owed, Undone
  <2> QED  BY <1>7, <2>1, <2>2, <2>3 DEF StoredInv
<1>14. CASE Admit(r)
  <2>1. run[r].at = "admit" /\ HasBundle(r) /\ UNCHANGED <<sample, object, vector>>
    BY <1>14 DEF Admit, At, HasBundle, Steps
  <2>2. PICK v \in {"look", "blocked", "extract"} : Goto(r, v)  BY <1>14 DEF Admit
  <2>3. run'[r].at = v /\ run'[r].uploaded = run[r].uploaded
          /\ \A ps : SamplesAt(r, ps)' = SamplesAt(r, ps)
    BY <2>2, <1>8 DEF Steps, Ends
  <2>4. Owed(r) = {} /\ Undone(r) = {}  BY <2>1 DEF Owed, Undone
  <2>5. SamplesAt(r, run[r].uploaded) = {}  BY <2>1, <1>5 DEF BundleInv, SamplesAt
  <2> QED  BY <1>7, <2>1, <2>3, <2>4, <2>5 DEF StoredInv
<1>15. CASE LookUp(r)
  <2>1. run[r].at = "look" /\ UNCHANGED <<sample, object, vector>>  BY <1>15 DEF LookUp, At
  <2>2. CASE Goto(r, "create")
    <3>1. /\ run'[r].at = "create" /\ run'[r].uploaded = run[r].uploaded
          /\ run'[r].failed = run[r].failed /\ \A ps : SamplesAt(r, ps)' = SamplesAt(r, ps)
      BY <2>2, <1>8 DEF Steps
    <3> QED  BY <1>5, <1>7, <2>1, <3>1 DEF StoredInv, Owed, Undone
  <2>3. CASE Ensured(r)
    <3>1. StoredInv(r)'  BY <1>5, <1>10, <2>1, <2>3 DEF StoredInv
    <3> QED  BY <1>7, <1>10, <2>1, <2>3, <3>1
  <2>4. CASE Refused(r)
    <3>1. StoredInv(r)'  BY <1>9, <2>1, <2>4 DEF StoredInv
    <3>2. Undone(r) = {}  BY <2>1 DEF Undone
    <3> QED  BY <1>7, <1>9, <2>1, <2>4, <3>1, <3>2
  <2> QED  BY <1>15, <2>2, <2>3, <2>4 DEF LookUp
<1>16. CASE CreateCollection(r)
  <2>1. run[r].at = "create" /\ UNCHANGED <<sample, object, vector>>
    BY <1>16 DEF CreateCollection, At
  <2>2. CASE Goto(r, "index")
    <3>1. /\ run'[r].at = "index" /\ run'[r].uploaded = run[r].uploaded
          /\ run'[r].failed = run[r].failed /\ \A ps : SamplesAt(r, ps)' = SamplesAt(r, ps)
      BY <2>2, <1>8 DEF Steps
    <3> QED  BY <1>5, <1>7, <2>1, <3>1 DEF StoredInv, Owed, Undone
  <2>3. CASE Refused(r)
    <3>1. StoredInv(r)'  BY <1>9, <2>1, <2>3 DEF StoredInv
    <3>2. Undone(r) = {}  BY <2>1 DEF Undone
    <3> QED  BY <1>7, <1>9, <2>1, <2>3, <3>1, <3>2
  <2> QED  BY <1>16, <2>2, <2>3 DEF CreateCollection
<1>17. CASE CreateIndexes(r)
  <2>1. run[r].at = "index" /\ UNCHANGED <<sample, object, vector>>
    BY <1>17 DEF CreateIndexes, At
  <2>2. CASE Ensured(r)
    <3>1. StoredInv(r)'  BY <1>5, <1>10, <2>1, <2>2 DEF StoredInv
    <3> QED  BY <1>7, <1>10, <2>1, <2>2, <3>1
  <2>3. CASE Refused(r)
    <3>1. StoredInv(r)'  BY <1>9, <2>1, <2>3 DEF StoredInv
    <3>2. Undone(r) = {}  BY <2>1 DEF Undone
    <3> QED  BY <1>7, <1>9, <2>1, <2>3, <3>1, <3>2
  <2> QED  BY <1>17, <2>2, <2>3 DEF CreateIndexes
<1>18. CASE Extract(r)
  <2>1. run[r].at = "extract" /\ UNCHANGED <<sample, object, vector>>
    BY <1>18 DEF Extract, At
  <2>2. PICK ok \in SUBSET DOMAIN ImagesOf(r) :
          run' = [run EXCEPT
            ![r].at = IF ok = {} THEN "reject" ELSE "prepare",
            ![r].embedding = [p \in Positions |->
                                IF p \in ok THEN Embedding(ImagesOf(r), p) ELSE "nothing"],
            ![r].rejected = SamplesAt(r, DOMAIN ImagesOf(r) \ ok),
            ![r].uploaded = {}, ![r].failed = {}]
    BY <1>18, Extracts, Zenon
  <2>3. run'[r].at \in {"reject", "prepare"}  BY <1>2, <2>2 DEF RunStates
  <2>4. Owed(r) = {} /\ Undone(r) = {}  BY <2>1 DEF Owed, Undone
  <2> QED  BY <1>7, <2>1, <2>3, <2>4 DEF StoredInv
<1>19. CASE Reject(r)
  <2>1. /\ run[r].at = "reject" /\ HasBundle(r) /\ FailRows(run[r].rejected)
        /\ NextBundle(r, {}) /\ UNCHANGED <<object, vector>> /\ {} \in SUBSET Samples
    BY <1>19 DEF Reject, At, HasBundle, Steps
  <2>2. Owed(r) = {} /\ Undone(r) = {}  BY <2>1 DEF Owed, Undone
  <2> QED  BY <1>11, <1>12, <2>1, <2>2
<1>20. CASE Prepare(r)
  <2>1. run[r].at = "prepare" /\ Goto(r, "upload") /\ UNCHANGED <<object, vector>>
    BY <1>20 DEF Prepare, At
  <2>2. /\ run'[r].at = "upload" /\ Accepted(r)' = Accepted(r)
        /\ \A ps : SamplesAt(r, ps)' = SamplesAt(r, ps)
    BY <2>1, <1>8 DEF Steps
  <2>3. Owed(r) = {} /\ Undone(r) = {}  BY <2>1 DEF Owed, Undone
  <2>4. Owed(r)' = SamplesAt(r, Accepted(r))  BY <2>2 DEF Owed
  <2>5. \A s \in Samples :
          \/ sample'[s] = sample[s]
          \/ s \in SamplesAt(r, Accepted(r)) /\ sample'[s].state = "pending"
    <3> DEFINE made == [NoRow EXCEPT !.state = "pending"]
    <3>1. sample' = [s \in Samples |->
                       IF s \in SamplesAt(r, Accepted(r)) /\ sample[s].state = "none"
                       THEN made ELSE sample[s]]
      BY <1>20 DEF Prepare
    <3>2. made.state = "pending"  BY DEF NoRow
    <3> HIDE DEF made
    <3> QED  BY <3>1, <3>2
  <2>6. StoredInv(r)'  BY <2>2 DEF StoredInv
  <2> QED  BY <1>6, <2>1, <2>3, <2>4, <2>5, <2>6 DEF RowsSettle
<1>21. CASE Upload(r)
  <2>1. run[r].at = "upload" /\ HasBundle(r) /\ UNCHANGED <<sample, vector>>
    BY <1>21 DEF Upload, At, HasBundle, Steps
  <2>2. PICK good \in SUBSET Accepted(r) :
           /\ \E put \in SUBSET SamplesAt(r, Accepted(r) \ good) :
                object' = object \cup SamplesAt(r, good) \cup put
           /\ run'[r].at = IF good = {} THEN "failAll"
                           ELSE IF run[r].validated THEN "upsert" ELSE "look"
           /\ run'[r].uploaded = good
           /\ run'[r].failed = SamplesAt(r, Accepted(r) \ good)
           /\ run'[r].next = run[r].next /\ run'[r].embedding = run[r].embedding
    BY <1>21, Uploads
  <2>3. \A ps : SamplesAt(r, ps)' = SamplesAt(r, ps)  BY <2>2, SameBundle
  <2>4. object \subseteq object' /\ SamplesAt(r, good) \subseteq object'  BY <2>2
  <2>5. StoredInv(r)'  BY <2>2, <2>3, <2>4 DEF StoredInv
  <2>6. Owed(r) \subseteq SamplesAt(r, good) \cup SamplesAt(r, Accepted(r) \ good)
    BY <2>1 DEF Owed, SamplesAt
  <2>7. Owed(r) \subseteq Owed(r)'
    <3>1. CASE good = {}
      <4>1. SamplesAt(r, good) = {}  BY <3>1 DEF SamplesAt
      <4> QED  BY <2>2, <2>6, <3>1, <4>1 DEF Owed
    <3>2. CASE good # {}  BY <2>2, <2>3, <2>6, <3>2 DEF Owed
    <3> QED  BY <3>1, <3>2
  <2>8. Undone(r) = {}  BY <2>1 DEF Undone
  <2> QED  BY <1>6, <2>1, <2>4, <2>5, <2>7, <2>8 DEF RowsSettle
<1>22. CASE Upsert(r)
  <2>1. run[r].at = "upsert" /\ HasBundle(r) /\ UNCHANGED <<sample, object>>
    BY <1>22 DEF Upsert, At, HasBundle, Steps
  <2>2. Upserted(r) \/ UNCHANGED vector  BY <1>22 DEF Upsert
  <2>3. Upserted(r) =>
          /\ \A s \in Samples : vector'[s] = vector[s] \/ vector'[s].active
          /\ \A s \in SamplesAt(r, run[r].uploaded) : vector'[s].active /\ vector'[s] # NoPoint
    <3>1. SUFFICES ASSUME Upserted(r) PROVE
            /\ \A s \in Samples : vector'[s] = vector[s] \/ vector'[s].active
            /\ \A s \in SamplesAt(r, run[r].uploaded) : vector'[s].active /\ vector'[s] # NoPoint
      OBVIOUS
    <3>2. \A s \in Samples :
              \/ s \notin SamplesAt(r, run[r].uploaded) /\ vector'[s] = vector[s]
              \/ \E p \in run[r].uploaded :
                   /\ SampleAt(r, p) = s
                   /\ vector'[s] = [of |-> run[r].embedding[p], active |-> TRUE]
                   /\ run[r].embedding[p] \in Images
      BY <2>1, <3>1, UpsertedPoints
    <3>3. \A s \in Samples :
              \/ s \notin SamplesAt(r, run[r].uploaded) /\ vector'[s] = vector[s]
              \/ vector'[s].active /\ vector'[s] # NoPoint
      <4>1. SUFFICES ASSUME NEW s \in Samples, NEW p \in run[r].uploaded,
                            vector'[s] = [of |-> run[r].embedding[p], active |-> TRUE]
                     PROVE  vector'[s].active /\ vector'[s] # NoPoint
        BY <3>2
      <4>2. vector'[s].active  BY <4>1
      <4>3. ~NoPoint.active  BY DEF NoPoint
      <4> QED  BY <4>2, <4>3
    <3>4. SamplesAt(r, run[r].uploaded) \subseteq Samples  BY <2>1, HasNext
    <3> QED  BY <3>3, <3>4
  <2>4. CASE Upserted(r) /\ Goto(r, "activate")
    <3>1. /\ run'[r].at = "activate" /\ run'[r].uploaded = run[r].uploaded
          /\ run'[r].failed = run[r].failed /\ \A ps : SamplesAt(r, ps)' = SamplesAt(r, ps)
      BY <2>4, <1>8 DEF Steps
    <3>2. StoredInv(r)'  BY <1>5, <2>1, <2>3, <2>4, <3>1 DEF StoredInv
    <3>3. Owed(r)' = Owed(r) /\ Undone(r) = {}  BY <2>1, <3>1 DEF Owed, Undone
    <3> QED  BY <1>6, <2>1, <2>3, <2>4, <3>2, <3>3 DEF RowsSettle
  <2>5. CASE Refused(r)
    <3>1. Uploaded(r)  BY <1>5, <2>1 DEF BundleInv, Uploaded
    <3>2. run'[r].at = "dropObjects" /\ Owed(r)' = Owed(r)  BY <1>9, <2>1, <2>5, <3>1
    <3>3. Undone(r) = {}  BY <2>1 DEF Undone
    <3>4. StoredInv(r)'  BY <3>2 DEF StoredInv
    <3> QED  BY <1>6, <2>1, <2>2, <2>3, <3>2, <3>3, <3>4 DEF RowsSettle
  <2> QED  BY <1>22, <2>4, <2>5 DEF Upsert
<1>23. CASE Activate(r)
  <2>1. run[r].at = "activate" /\ HasBundle(r) /\ UNCHANGED <<object, vector>>
    BY <1>23 DEF Activate, At, HasBundle, Steps
  <2>2. /\ Owed(r) = SamplesAt(r, run[r].uploaded) \cup run[r].failed /\ Undone(r) = {}
        /\ SamplesAt(r, run[r].uploaded) \subseteq Samples
    BY <2>1, HasNext DEF Owed, Undone
  <2>3. \A s \in SamplesAt(r, run[r].uploaded) :
          s \in object /\ vector[s] # NoPoint /\ (vector[s].active \/ sample[s].ended)
    BY <1>5, <2>1 DEF StoredInv
  <2>4. \A s \in Samples : sample[s] \in SampleRows  BY <1>2 DEF TypeOK
  <2>5. Activated(r) =>
          /\ \A s \in SamplesAt(r, run[r].uploaded) : sample'[s].state = "active"
          /\ \A s \in Samples : s \notin SamplesAt(r, run[r].uploaded) => sample'[s] = sample[s]
    BY <2>2, <2>4 DEF Activated, SampleRows
  <2>6. CASE Activatable(r) /\ Activated(r) /\ Goto(r, "settle")
    <3>1. /\ run'[r].at = "settle" /\ run'[r].uploaded = run[r].uploaded
          /\ run'[r].failed = run[r].failed /\ \A ps : SamplesAt(r, ps)' = SamplesAt(r, ps)
      BY <2>6, <1>8 DEF Steps
    <3>2. \A s \in SamplesAt(r, run[r].uploaded) : vector[s].active
      BY <2>3, <2>6 DEF Activatable
    <3>3. StoredInv(r)'  BY <2>1, <2>3, <2>5, <2>6, <3>1 DEF StoredInv
    <3>4. Owed(r)' = run[r].failed  BY <3>1 DEF Owed
    <3> QED  BY <1>6, <2>1, <2>2, <2>3, <2>5, <2>6, <3>2, <3>3, <3>4 DEF RowsSettle
  <2>7. CASE run' = [run EXCEPT ![r].at = "dropBoth",
                       ![r].failed = @ \cup SamplesAt(r, run[r].uploaded)]
    <3>1. /\ run'[r].at = "dropBoth"
          /\ run'[r].failed = run[r].failed \cup SamplesAt(r, run[r].uploaded)
      BY <2>1, <2>7, ActivateFails
    <3>2. StoredInv(r)'  BY <3>1 DEF StoredInv
    <3>3. Owed(r)' = Owed(r) /\ Undone(r)' = Owed(r)  BY <2>2, <3>1 DEF Owed, Undone
    <3>4. Activated(r) \/ UNCHANGED sample  BY <1>23 DEF Activate
    <3> QED  BY <1>6, <2>1, <2>2, <2>5, <3>2, <3>3, <3>4 DEF RowsSettle
  <2> QED  BY <1>23, <2>6, <2>7 DEF Activate
<1>24. CASE DropObjects(r)
  <2>1. /\ run[r].at = "dropObjects" /\ HasBundle(r) /\ Goto(r, "failAll")
        /\ UNCHANGED <<sample, vector>>
    BY <1>24 DEF DropObjects, At, HasBundle, Steps
  <2>2. run'[r].at = "failAll" /\ run'[r].failed = run[r].failed  BY <2>1, <1>8 DEF Steps
  <2>3. StoredInv(r)'  BY <2>2 DEF StoredInv
  <2>4. Owed(r)' = Owed(r) /\ Undone(r)' = Undone(r) /\ Undone(r) = run[r].failed
    BY <2>1, <2>2 DEF Owed, Undone
  <2>5. \A s \in object : s \in object' \/ s \in run[r].failed
    BY <1>5, <1>24, <2>1 DEF DropObjects, BundleInv
  <2> QED  BY <1>6, <2>1, <2>3, <2>4, <2>5 DEF RowsSettle
<1>25. CASE DropBoth(r)
  <2>1. run[r].at = "dropBoth" /\ HasBundle(r) /\ Goto(r, "failAll") /\ UNCHANGED sample
    BY <1>25 DEF DropBoth, At, HasBundle, Steps
  <2>2. run'[r].at = "failAll" /\ run'[r].failed = run[r].failed  BY <2>1, <1>8 DEF Steps
  <2>3. StoredInv(r)'  BY <2>2 DEF StoredInv
  <2>4. Owed(r)' = Owed(r) /\ Undone(r)' = Undone(r) /\ Undone(r) = run[r].failed
    BY <2>1, <2>2 DEF Owed, Undone
  <2>5. /\ \A s \in object : s \in object' \/ s \in run[r].failed
        /\ \A s \in Samples : vector'[s] = vector[s] \/ s \in run[r].failed
    BY <1>2, <1>5, <1>25, <2>1 DEF DropBoth, BundleInv, TypeOK
  <2> QED  BY <1>6, <2>1, <2>3, <2>4, <2>5 DEF RowsSettle
<1>26. CASE FailAll(r)
  <2>1. /\ run[r].at = "failAll" /\ Goto(r, "count") /\ FailRows(run[r].failed)
        /\ UNCHANGED <<object, vector>>
    BY <1>26 DEF FailAll, At
  <2>2. run'[r].at = "count"  BY <2>1, <1>8 DEF Steps
  <2>3. Owed(r) = run[r].failed /\ Undone(r) = run[r].failed  BY <2>1 DEF Owed, Undone
  <2>4. StoredInv(r)'  BY <2>2 DEF StoredInv
  <2> QED  BY <1>12, <2>1, <2>3, <2>4
<1>27. CASE CountActive(r)
  <2>1. run[r].at = "count" /\ HasBundle(r) /\ UNCHANGED <<sample, object, vector>>
          /\ {} \in SUBSET Samples
    BY <1>27 DEF CountActive, At, HasBundle, Steps
  <2>2. Owed(r) = {} /\ Undone(r) = {}  BY <2>1 DEF Owed, Undone
  <2>3. CASE NextBundle(r, {})  BY <1>7, <1>11, <2>1, <2>2, <2>3
  <2>4. CASE Goto(r, "hide")
    <3>1. run'[r].at = "hide"  BY <2>4, <1>8 DEF Steps
    <3> QED  BY <1>7, <2>1, <2>2, <3>1 DEF StoredInv
  <2> QED  BY <1>27, <2>3, <2>4 DEF CountActive
<1>28. CASE HideFace(r)
  <2>1. /\ run[r].at = "hide" /\ HasBundle(r) /\ UNCHANGED <<sample, object, vector>>
        /\ NextBundle(r, {}) /\ {} \in SUBSET Samples
    BY <1>28 DEF HideFace, At, HasBundle, Steps
  <2>2. Owed(r) = {} /\ Undone(r) = {}  BY <2>1 DEF Owed, Undone
  <2> QED  BY <1>7, <1>11, <2>1, <2>2
<1>29. CASE Settle(r)
  <2>1. /\ run[r].at = "settle" /\ HasBundle(r) /\ FailRows(run[r].failed \cup run[r].rejected)
        /\ NextBundle(r, SamplesAt(r, run[r].uploaded)) /\ UNCHANGED <<object, vector>>
    BY <1>29 DEF Settle, At, HasBundle, Steps
  <2>2. SamplesAt(r, run[r].uploaded) \in SUBSET Samples  BY <2>1, HasNext
  <2>3. Owed(r) = run[r].failed /\ Undone(r) = {}  BY <2>1 DEF Owed, Undone
  <2> QED  BY <1>11, <1>12, <2>1, <2>2, <2>3
<1>30. CASE WriteJournal(r)
  <2>1. run[r].at = "journal" /\ UNCHANGED <<sample, object, vector>> /\ Goto(r, "done")
    BY <1>30 DEF WriteJournal, At
  <2>2. run'[r].at = "done"  BY <2>1, <1>8 DEF Ends
  <2>3. Owed(r) = {} /\ Undone(r) = {}  BY <2>1 DEF Owed, Undone
  <2> QED  BY <1>7, <2>1, <2>2, <2>3 DEF StoredInv
<1>31. CASE Abort(r)
  <2>1. run'[r].at = "aborted"  BY <1>31, <1>8 DEF Abort, Ends
  <2> QED  BY <2>1 DEF StoredInv, Unbroken
<1> QED
  BY <1>13, <1>14, <1>15, <1>16, <1>17, <1>18, <1>19, <1>20, <1>21, <1>22, <1>23, <1>24, <1>25,
     <1>26, <1>27, <1>28, <1>29, <1>30, <1>31 DEF RunNext

LEMMA SettleDeactivate ==
  ASSUME Core, SettleInv, NEW f \in Faces, Deactivate(f)
  PROVE  SettleInv'
<1>1. sample \in [Samples -> SampleRows] /\ vector \in [Samples -> Points] /\ PointsInv
  BY DEF Core, TypeOK
<1>2. object' = object /\ run' = run  BY DEF Deactivate
<1> DEFINE own == {s \in Samples : s[1] = f /\ sample[s].state = "active"}
<1>3. PICK hidden \in SUBSET own :
        vector' = [s \in Samples |-> IF s \in hidden /\ vector[s] # NoPoint
                                     THEN [vector[s] EXCEPT !.active = FALSE] ELSE vector[s]]
  BY DEF Deactivate
<1>4. sample' = [s \in Samples |->
                   IF s \in own THEN [state |-> "inactive", ended |-> TRUE] ELSE sample[s]]
  BY DEF Deactivate
<1>5. \A s \in Samples :
        /\ s \in own => /\ sample'[s].state = "inactive" /\ sample'[s].ended
                        /\ sample[s].state = "active"
        /\ s \notin own => sample'[s] = sample[s] /\ vector'[s] = vector[s]
  BY <1>3, <1>4
<1>6. \A s \in Samples : vector[s] # NoPoint => vector'[s] # NoPoint
  <2>1. SUFFICES ASSUME NEW s \in Samples, vector[s] # NoPoint PROVE vector'[s] # NoPoint
    OBVIOUS
  <2>2. vector[s].of \in Images /\ vector[s] \in Points  BY <1>1, <2>1 DEF PointsInv
  <2>3. vector'[s].of = vector[s].of  BY <1>1, <1>3, <2>2 DEF Points
  <2> QED  BY <2>2, <2>3, ManifestAssumption DEF NoPoint
<1> HIDE DEF own
<1>7. \A r \in Runs : /\ Owed(r)' = Owed(r) /\ Undone(r)' = Undone(r)
                      /\ \A ps : SamplesAt(r, ps)' = SamplesAt(r, ps)
                      /\ Busy(r)' = Busy(r)
  BY <1>2 DEF Owed, Undone, SamplesAt, SampleAt, FaceOf, ImagesOf, Accepted, Busy
<1>8. OneRun' /\ (Unbroken' <=> Unbroken)  BY <1>2 DEF SettleInv, OneRun, Busy, Unbroken
<1>9. ASSUME NEW r \in Runs PROVE StoredInv(r)'
  <2>1. HasBundle(r) => SamplesAt(r, run[r].uploaded) \subseteq Samples  BY HasNext
  <2>2. StoredInv(r)  BY DEF SettleInv
  <2>3. run[r].at \in {"activate", "settle"} => SamplesAt(r, run[r].uploaded) \subseteq Samples
    BY <2>1 DEF HasBundle, Steps
  <2> QED  BY <1>2, <1>5, <1>6, <1>7, <2>2, <2>3 DEF StoredInv
<1>10. Settling'
  BY <1>2, <1>5, <1>7, <1>8 DEF SettleInv, Settling
<1> QED  BY <1>8, <1>9, <1>10 DEF SettleInv

LEMMA SettleStep == ~Overlapping /\ Core /\ SettleInv /\ [Next]_vars => SettleInv'
<1> SUFFICES ASSUME ~Overlapping, Core, SettleInv, [Next]_vars PROVE SettleInv'  OBVIOUS
<1>1. ASSUME NEW r \in Runs, RunNext(r) PROVE SettleInv'  BY <1>1, SettleRun
<1>2. ASSUME NEW f \in Faces, Deactivate(f) PROVE SettleInv'  BY <1>2, SettleDeactivate
<1>3. CASE UNCHANGED vars
  BY <1>3 DEF vars, SettleInv, OneRun, Busy, StoredInv, Settling, Unbroken, Owed, Undone,
     SamplesAt, SampleAt, FaceOf, ImagesOf, Accepted
<1> QED  BY <1>1, <1>2, <1>3 DEF Next

\* One run at a time: whatever failed in it, when no run was cut off each active
\* row has its object and a point that is found, and no row is pending
\* (PersistenceOrchestrator.persist_bundle and its compensations).
THEOREM RunsSettleAll ==
  ASSUME ~Overlapping
  PROVE  Spec => []RunsSettle
<1>1. Init => SettleInv
  <2> SUFFICES ASSUME Init PROVE SettleInv  OBVIOUS
  <2>1. \A r \in Runs : run[r].at = "new"  BY DEF Init, NewRun
  <2>2. \A r \in Runs : ~Busy(r)  BY <2>1 DEF Busy, Steps
  <2>3. \A s \in Samples : sample[s].state = "none"  BY DEF Init, NoRow
  <2> QED  BY <2>2, <2>3, NotBusyOwesNothing DEF SettleInv, OneRun, Settling
<1>2. SettleInv /\ Core /\ [Next]_vars => SettleInv'  BY SettleStep
<1>3. SettleInv => RunsSettle
  <2> SUFFICES ASSUME SettleInv, Quiet PROVE
        \A s \in Samples : /\ sample[s].state = "active" => s \in object /\ vector[s].active
                           /\ sample[s].state # "pending"
    BY DEF RunsSettle
  <2>1. \A r \in Runs : ~Busy(r)  BY DEF Quiet, Busy, Steps
  <2>2. Unbroken  BY DEF Quiet, Unbroken
  <2> QED  BY <2>1, <2>2, NotBusyOwesNothing DEF SettleInv, Settling
<1> QED  BY <1>1, <1>2, <1>3, BulkInvariant, PTL DEF Spec

-----------------------------------------------------------------------------
(* A journal is true when it is written.                                   *)

\* No picture is in the manifest twice under one face.
Distinct ==
  \A k, l \in DOMAIN Manifest :
    \A p \in DOMAIN Manifest[k].images, q \in DOMAIN Manifest[l].images :
      SampleId(Manifest[k].face, Manifest[k].images[p])
        = SampleId(Manifest[l].face, Manifest[l].images[q]) => k = l /\ p = q

\* A step of a run touches the samples of its bundle alone.
LEMMA Elsewhere ==
  ASSUME Core, NEW r \in Runs, RunNext(r), NEW s \in Samples,
         HasBundle(r) => s \notin SamplesAt(r, DOMAIN ImagesOf(r))
  PROVE  /\ sample'[s] = sample[s] /\ vector'[s] = vector[s]
         /\ s \in object => s \in object'
<1>1. sample \in [Samples -> SampleRows] /\ vector \in [Samples -> Points]  BY DEF Core, TypeOK
<1>2. HasBundle(r) =>
        /\ s \notin SamplesAt(r, run[r].uploaded) /\ s \notin SamplesAt(r, Accepted(r))
        /\ s \notin run[r].failed /\ s \notin run[r].rejected
  <2> SUFFICES ASSUME HasBundle(r) PROVE
        /\ s \notin SamplesAt(r, run[r].uploaded) /\ s \notin SamplesAt(r, Accepted(r))
        /\ s \notin run[r].failed /\ s \notin run[r].rejected
    OBVIOUS
  <2>1. /\ run[r].uploaded \subseteq Accepted(r) /\ Accepted(r) \subseteq DOMAIN ImagesOf(r)
    BY HasNext
  <2>2. \A ps, qs : ps \subseteq qs => SamplesAt(r, ps) \subseteq SamplesAt(r, qs)
    BY DEF SamplesAt
  <2>3. /\ SamplesAt(r, run[r].uploaded) \subseteq SamplesAt(r, DOMAIN ImagesOf(r))
        /\ SamplesAt(r, Accepted(r)) \subseteq SamplesAt(r, DOMAIN ImagesOf(r))
        /\ SamplesAt(r, DOMAIN ImagesOf(r) \ Accepted(r)) \subseteq SamplesAt(r, DOMAIN ImagesOf(r))
    BY <2>1, <2>2
  <2>4. /\ run[r].rejected \subseteq SamplesAt(r, DOMAIN ImagesOf(r) \ Accepted(r))
        /\ run[r].failed \subseteq SamplesAt(r, Accepted(r))
    BY DEF Core, BundleInv
  <2> QED  BY <2>3, <2>4
<1>3. CASE UNCHANGED <<sample, object, vector>>  BY <1>3
<1>4. CASE Reject(r)
  BY <1>1, <1>2, <1>4, FailedRowsType DEF Reject, At, HasBundle, Steps
<1>5. CASE Prepare(r)
  <2>1. HasBundle(r) /\ UNCHANGED <<object, vector>>  BY <1>5 DEF Prepare, At, HasBundle, Steps
  <2> QED  BY <1>1, <1>2, <1>5, <2>1 DEF Prepare
<1>6. CASE Upload(r)
  BY <1>6 DEF Upload
<1>7. CASE Upsert(r)
  <2>1. HasBundle(r) /\ UNCHANGED <<sample, object>>  BY <1>7 DEF Upsert, At, HasBundle, Steps
  <2>2. Upserted(r) => vector'[s] = vector[s]  BY <1>2, <2>1 DEF Upserted
  <2> QED  BY <1>7, <2>1, <2>2 DEF Upsert
<1>8. CASE Activate(r)
  <2>1. HasBundle(r) /\ UNCHANGED <<object, vector>>  BY <1>8 DEF Activate, At, HasBundle, Steps
  <2>2. Activated(r) => sample'[s] = sample[s]  BY <1>2, <2>1 DEF Activated
  <2> QED  BY <1>8, <2>1, <2>2 DEF Activate
<1>9. CASE DropObjects(r)
  BY <1>2, <1>9 DEF DropObjects, At, HasBundle, Steps
<1>10. CASE DropBoth(r)
  BY <1>2, <1>10 DEF DropBoth, At, HasBundle, Steps
<1>11. CASE FailAll(r)
  BY <1>1, <1>2, <1>11, FailedRowsType DEF FailAll, At, HasBundle, Steps
<1>12. CASE Settle(r)
  BY <1>1, <1>2, <1>12, FailedRowsType DEF Settle, At, HasBundle, Steps
<1> QED
  BY <1>3, <1>4, <1>5, <1>6, <1>7, <1>8, <1>9, <1>10, <1>11, <1>12
  DEF RunNext, Start, Admit, LookUp, CreateCollection, CreateIndexes, Extract, CountActive,
      HideFace, WriteJournal, Abort

\* What a step makes of a run's outcomes, and when it comes to its end.
LEMMA OutcomesAfter ==
  ASSUME Core, NEW r \in Runs, RunNext(r)
  PROVE  /\ \/ run'[r].next = run[r].next /\ run'[r].outcomes = run[r].outcomes
            \/ /\ HasBundle(r) /\ run'[r].next = run[r].next + 1
               /\ \/ run'[r].outcomes = [run[r].outcomes EXCEPT ![run[r].next] = {}]
                  \/ /\ Settle(r)
                     /\ run'[r].outcomes = [run[r].outcomes EXCEPT
                          ![run[r].next] = SamplesAt(r, run[r].uploaded)]
         /\ run'[r].at = "done" => WriteJournal(r)
<1>1. TypeOK /\ run[r] \in RunStates /\ run \in [Runs -> RunStates]  BY RunType DEF Core
<1>2. HasBundle(r) =>
        SamplesAt(r, run[r].uploaded) \subseteq Samples /\ run[r].next \in DOMAIN Manifest
  BY HasNext
<1>3. ASSUME NEW v \in Steps \cup Ends \cup {"new"}, Goto(r, v)
      PROVE  /\ run'[r].next = run[r].next /\ run'[r].outcomes = run[r].outcomes
             /\ run'[r].at = v
  BY <1>1, <1>3, Gone
<1>4. Ensured(r) => /\ run'[r].next = run[r].next /\ run'[r].outcomes = run[r].outcomes
                    /\ run'[r].at # "done"
  BY <1>1, Ensures
<1>5. HasBundle(r) /\ Refused(r) =>
        /\ run'[r].next = run[r].next /\ run'[r].outcomes = run[r].outcomes
        /\ run'[r].at # "done"
  BY <1>1, <1>2, Refuses
<1>6. ASSUME NEW ps \in SUBSET Samples, HasBundle(r), NextBundle(r, ps)
      PROVE  /\ run'[r].next = run[r].next + 1 /\ run'[r].at # "done"
             /\ run'[r].outcomes = [run[r].outcomes EXCEPT ![run[r].next] = ps]
  BY <1>1, <1>2, <1>6, MovesOn
<1>7. CASE Start(r)  BY <1>3, <1>7 DEF Start, Steps
<1>8. CASE Admit(r)  BY <1>3, <1>8 DEF Admit, Steps, Ends
<1>9. CASE LookUp(r)  BY <1>3, <1>4, <1>5, <1>9 DEF LookUp, At, Steps, HasBundle
<1>10. CASE CreateCollection(r)
  BY <1>3, <1>5, <1>10 DEF CreateCollection, At, Steps, HasBundle
<1>11. CASE CreateIndexes(r)  BY <1>4, <1>5, <1>11 DEF CreateIndexes, At, Steps, HasBundle
<1>12. CASE Extract(r)
  <2>1. PICK ok \in SUBSET DOMAIN ImagesOf(r) :
          run' = [run EXCEPT
            ![r].at = IF ok = {} THEN "reject" ELSE "prepare",
            ![r].embedding = [p \in Positions |->
                                IF p \in ok THEN Embedding(ImagesOf(r), p) ELSE "nothing"],
            ![r].rejected = SamplesAt(r, DOMAIN ImagesOf(r) \ ok),
            ![r].uploaded = {}, ![r].failed = {}]
    BY <1>12, Extracts, Zenon
  <2> QED  BY <1>1, <2>1 DEF RunStates
<1>13. CASE Reject(r)
  <2>1. {} \in SUBSET Samples  OBVIOUS
  <2> QED  BY <1>6, <1>13, <2>1 DEF Reject, At, Steps, HasBundle
<1>14. CASE Prepare(r)  BY <1>3, <1>14 DEF Prepare, Steps
<1>15. CASE Upload(r)
  <2>1. PICK good \in SUBSET Accepted(r) :
           /\ run'[r].at = IF good = {} THEN "failAll"
                           ELSE IF run[r].validated THEN "upsert" ELSE "look"
           /\ run'[r].next = run[r].next /\ run'[r].outcomes = run[r].outcomes
    BY <1>15, Uploads
  <2> QED  BY <2>1
<1>16. CASE Upsert(r)  BY <1>3, <1>5, <1>16 DEF Upsert, At, Steps, HasBundle
<1>17. CASE Activate(r)
  <2>1. CASE Goto(r, "settle")  BY <1>3, <2>1 DEF Steps
  <2>2. CASE run' = [run EXCEPT ![r].at = "dropBoth",
                       ![r].failed = @ \cup SamplesAt(r, run[r].uploaded)]
    BY <1>17, <2>2, ActivateFails DEF Activate, At
  <2> QED  BY <1>17, <2>1, <2>2 DEF Activate
<1>18. CASE DropObjects(r)  BY <1>3, <1>18 DEF DropObjects, Steps
<1>19. CASE DropBoth(r)  BY <1>3, <1>19 DEF DropBoth, Steps
<1>20. CASE FailAll(r)  BY <1>3, <1>20 DEF FailAll, Steps
<1>21. CASE CountActive(r)
  <2>1. {} \in SUBSET Samples  OBVIOUS
  <2>2. HasBundle(r) /\ (NextBundle(r, {}) \/ Goto(r, "hide"))
    BY <1>21 DEF CountActive, At, Steps, HasBundle
  <2>3. CASE NextBundle(r, {})  BY <1>6, <2>1, <2>2, <2>3
  <2>4. CASE Goto(r, "hide")  BY <1>3, <1>21, <2>4 DEF CountActive, Steps
  <2> QED  BY <2>2, <2>3, <2>4
<1>22. CASE HideFace(r)
  <2>1. {} \in SUBSET Samples  OBVIOUS
  <2> QED  BY <1>6, <1>22, <2>1 DEF HideFace, At, Steps, HasBundle
<1>23. CASE Settle(r)
  <2>1. HasBundle(r) /\ NextBundle(r, SamplesAt(r, run[r].uploaded))
    BY <1>23 DEF Settle, At, Steps, HasBundle
  <2> QED  BY <1>2, <1>6, <1>23, <2>1
<1>24. CASE WriteJournal(r)  BY <1>3, <1>24 DEF WriteJournal, Ends
<1>25. CASE Abort(r)  BY <1>3, <1>25 DEF Abort, Ends
<1> QED
  BY <1>7, <1>8, <1>9, <1>10, <1>11, <1>12, <1>13, <1>14, <1>15, <1>16, <1>17, <1>18, <1>19,
     <1>20, <1>21, <1>22, <1>23, <1>24, <1>25 DEF RunNext

Journals == \A r \in Runs : JournalInv(r)

LEMMA JournalRun ==
  ASSUME ~Overlapping, Distinct, Core, SettleInv, Journals, NEW r \in Runs, RunNext(r)
  PROVE  Journals'
<1>1. TypeOK /\ run[r] \in RunStates /\ run \in [Runs -> RunStates]  BY RunType DEF Core
<1>2. Busy(r) \/ (run[r] = NewRun /\ \A q \in Runs : ~Busy(q))
  <2>1. CASE Start(r)
    <3>1. \A q \in Runs : run[q].at \in Ends \cup {"new"}  BY <2>1 DEF Start
    <3>2. run[r] = NewRun  BY <2>1 DEF Core, ProgressInv, Start, At
    <3> QED  BY <3>1, <3>2 DEF Busy, Ends, Steps
  <2>2. CASE ~Start(r)
    <3>1. run[r].at \in Steps
      BY <2>2 DEF RunNext, Admit, LookUp, CreateCollection, CreateIndexes, Extract, Reject,
         Prepare, Upload, Upsert, Activate, DropObjects, DropBoth, FailAll, CountActive, HideFace,
         Settle, WriteJournal, Abort, At, Steps
    <3> QED  BY <3>1 DEF Busy
  <2> QED  BY <2>1, <2>2
<1>3. ASSUME NEW q \in Runs, q # r PROVE JournalInv(q)'
  <2>1. ~Busy(q) /\ run'[q] = run[q]
    BY <1>2, <1>3, OthersStand DEF Core, SettleInv, OneRun
  <2> QED  BY <2>1 DEF JournalInv, Busy
<1>4. JournalInv(r)'
  <2> DEFINE True(s) == Reconciles(s) \/ sample[s].state = "inactive"
  <2>1. SUFFICES ASSUME NEW k \in DOMAIN Manifest, NEW s \in run'[r].outcomes[k]
                 PROVE  k < run'[r].next /\ s \in SampleOf(k) /\ True(s)'
    BY DEF JournalInv
  <2>2. run[r].next \in Nat /\ k \in Nat /\ DOMAIN run[r].outcomes = DOMAIN Manifest
    <3>1. run[r].next \in 1..(Len(Manifest) + 1) /\ DOMAIN run[r].outcomes = DOMAIN Manifest
      BY <1>1 DEF RunStates
    <3>2. k \in Nat /\ Len(Manifest) \in Nat  BY ManifestFacts
    <3> QED  BY <3>1, <3>2
  \* What was persisted of earlier bundles is not touched.
  <2>3. ASSUME s \in run[r].outcomes[k]
        PROVE  k < run[r].next /\ s \in SampleOf(k) /\ True(s)'
    <3>1. Busy(r)  BY <1>2, <2>3 DEF NewRun
    <3>2. k < run[r].next /\ s \in SampleOf(k) /\ True(s)
      BY <2>3, <3>1 DEF Journals, JournalInv
    <3>3. s \in Samples
      BY <3>2, ManifestFacts DEF SampleOf
    <3>4. HasBundle(r) => s \notin SamplesAt(r, DOMAIN ImagesOf(r))
      <4> SUFFICES ASSUME HasBundle(r), NEW q \in DOMAIN ImagesOf(r), s = SampleAt(r, q)
                   PROVE FALSE
        BY DEF SamplesAt
      <4>1. run[r].next \in DOMAIN Manifest  BY HasNext
      <4>2. PICK p \in DOMAIN Manifest[k].images :
              s = SampleId(Manifest[k].face, Manifest[k].images[p])
        BY <3>2 DEF SampleOf
      <4>3. s = SampleId(Manifest[run[r].next].face, Manifest[run[r].next].images[q])
              /\ q \in DOMAIN Manifest[run[r].next].images
        BY DEF SampleAt, FaceOf, ImagesOf
      <4>4. k = run[r].next  BY <4>1, <4>2, <4>3, Zenon DEF Distinct
      <4> QED  BY <2>2, <3>2, <4>4
    <3>5. sample'[s] = sample[s] /\ vector'[s] = vector[s] /\ (s \in object => s \in object')
      BY <3>3, <3>4, Elsewhere
    <3> QED  BY <3>2, <3>5 DEF Reconciles
  <2>4. CASE run'[r].next = run[r].next /\ run'[r].outcomes = run[r].outcomes
    BY <2>1, <2>3, <2>4
  <2>5. CASE /\ HasBundle(r) /\ run'[r].next = run[r].next + 1
             /\ run'[r].outcomes = [run[r].outcomes EXCEPT ![run[r].next] = {}]
    <3>1. k # run[r].next  BY <2>1, <2>2, <2>5
    <3>2. s \in run[r].outcomes[k]  BY <2>1, <2>5, <3>1
    <3> QED  BY <2>2, <2>3, <2>5, <3>2
  <2>6. CASE /\ HasBundle(r) /\ run'[r].next = run[r].next + 1 /\ Settle(r)
             /\ run'[r].outcomes = [run[r].outcomes EXCEPT
                  ![run[r].next] = SamplesAt(r, run[r].uploaded)]
    <3>1. CASE k # run[r].next
      <4>1. s \in run[r].outcomes[k]  BY <2>1, <2>6, <3>1
      <4> QED  BY <2>2, <2>3, <2>6, <4>1
    <3>2. CASE k = run[r].next
      <4>1. s \in SamplesAt(r, run[r].uploaded)  BY <2>1, <2>2, <2>6, <3>2
      <4>2. PICK p \in run[r].uploaded : s = SampleAt(r, p)  BY <4>1 DEF SamplesAt
      <4>3. /\ run[r].uploaded \subseteq Accepted(r) /\ Accepted(r) \subseteq DOMAIN ImagesOf(r)
            /\ SamplesAt(r, run[r].uploaded) \subseteq Samples
        BY <2>6, HasNext
      <4>4. run[r].at = "settle" /\ FailRows(run[r].failed \cup run[r].rejected)
              /\ UNCHANGED <<object, vector>>
        BY <2>6 DEF Settle, At
      <4>5. s \in SampleOf(k)
        BY <3>2, <4>2, <4>3 DEF SampleOf, SampleAt, FaceOf, ImagesOf
      <4>6. s \in object /\ vector[s] # NoPoint /\ sample[s].state \in {"active", "inactive"}
        BY <4>1, <4>4 DEF SettleInv, StoredInv
      <4>7. \A q \in DOMAIN ImagesOf(r) : s = SampleAt(r, q) => q = p
        <5>1. run[r].next \in DOMAIN Manifest /\ p \in DOMAIN ImagesOf(r)  BY <2>6, <4>3, HasNext
        <5>2. \A q \in DOMAIN Manifest[run[r].next].images :
                SampleId(Manifest[run[r].next].face, Manifest[run[r].next].images[p])
                  = SampleId(Manifest[run[r].next].face, Manifest[run[r].next].images[q]) => p = q
          BY <5>1, Zenon DEF Distinct, ImagesOf
        <5> QED  BY <4>2, <5>2 DEF SampleAt, FaceOf, ImagesOf
      <4>8. s \notin run[r].failed \cup run[r].rejected
        <5>1. /\ run[r].failed \subseteq SamplesAt(r, Accepted(r) \ run[r].uploaded)
              /\ run[r].rejected \subseteq SamplesAt(r, DOMAIN ImagesOf(r) \ Accepted(r))
          BY <2>6, <4>4 DEF Core, BundleInv
        <5>2. s \notin SamplesAt(r, Accepted(r) \ run[r].uploaded)
          BY <4>2, <4>3, <4>7 DEF SamplesAt
        <5>3. s \notin SamplesAt(r, DOMAIN ImagesOf(r) \ Accepted(r))
          BY <4>2, <4>3, <4>7 DEF SamplesAt
        <5> QED  BY <5>1, <5>2, <5>3
      <4>9. sample'[s] = sample[s]
        BY <1>1, <4>1, <4>3, <4>4, <4>8, FailedRowsType DEF TypeOK
      <4>10. True(s)'  BY <4>4, <4>6, <4>9 DEF Reconciles
      <4> QED  BY <2>2, <2>6, <3>2, <4>5, <4>10
    <3> QED  BY <3>1, <3>2
  <2> QED  BY <2>4, <2>5, <2>6, OutcomesAfter
<1> QED  BY <1>3, <1>4 DEF Journals

LEMMA JournalStep ==
  ~Overlapping /\ Distinct /\ Core /\ SettleInv /\ Journals /\ [Next]_vars => Journals'
<1> SUFFICES ASSUME ~Overlapping, Distinct, Core, SettleInv, Journals, [Next]_vars
             PROVE  Journals'
  OBVIOUS
<1>1. ASSUME NEW r \in Runs, RunNext(r) PROVE Journals'  BY <1>1, JournalRun
<1>2. ASSUME NEW f \in Faces, Deactivate(f) PROVE Journals'
  <2>1. sample \in [Samples -> SampleRows] /\ vector \in [Samples -> Points] /\ PointsInv
    BY DEF Core, TypeOK
  <2>2. object' = object /\ run' = run  BY <1>2 DEF Deactivate
  <2> DEFINE own == {s \in Samples : s[1] = f /\ sample[s].state = "active"}
  <2>3. PICK hidden \in SUBSET own :
          vector' = [s \in Samples |-> IF s \in hidden /\ vector[s] # NoPoint
                                       THEN [vector[s] EXCEPT !.active = FALSE] ELSE vector[s]]
    BY <1>2 DEF Deactivate
  <2>4. sample' = [s \in Samples |->
                     IF s \in own THEN [state |-> "inactive", ended |-> TRUE] ELSE sample[s]]
    BY <1>2 DEF Deactivate
  <2>5. \A s \in Samples :
          \/ sample'[s].state = "inactive"
          \/ sample'[s] = sample[s] /\ vector'[s] = vector[s]
    BY <2>3, <2>4
  <2> HIDE DEF own
  <2>6. SUFFICES ASSUME NEW r \in Runs, Busy(r), NEW k \in DOMAIN Manifest,
                        NEW s \in run[r].outcomes[k]
                 PROVE  /\ k < run[r].next /\ s \in SampleOf(k)
                        /\ (Reconciles(s) \/ sample[s].state = "inactive")'
    BY <2>2 DEF Journals, JournalInv, Busy
  <2>7. k < run[r].next /\ s \in SampleOf(k) /\ (Reconciles(s) \/ sample[s].state = "inactive")
    BY <2>6 DEF Journals, JournalInv
  <2>8. s \in Samples  BY <2>7, ManifestFacts DEF SampleOf
  <2> QED  BY <2>2, <2>5, <2>7, <2>8 DEF Reconciles
<1>3. CASE UNCHANGED vars
  BY <1>3 DEF vars, Journals, JournalInv, Busy, Reconciles
<1> QED  BY <1>1, <1>2, <1>3 DEF Next

\* The step that writes a journal changes nothing of what it says.
LEMMA JournalWritten ==
  ASSUME ~Overlapping, Core, Journals, [Next]_vars, NEW r \in Runs,
         run[r].at # "done", run'[r].at = "done"
  PROVE  \A k \in DOMAIN Manifest : \A s \in run[r].outcomes[k] :
           Reconciles(s)' \/ sample'[s].state = "inactive"
<1>1. run' # run  OBVIOUS
<1>2. PICK q \in Runs : RunNext(q)  BY <1>1 DEF Next, vars, Deactivate
<1>3. q = r  BY <1>2, OthersStand DEF Core
<1>4. WriteJournal(r)  BY <1>2, <1>3, OutcomesAfter
<1>5. Busy(r) /\ UNCHANGED <<sample, object, vector>>  BY <1>4 DEF WriteJournal, At, Busy, Steps
<1> QED  BY <1>5 DEF Journals, JournalInv, Reconciles

\* One run at a time and no picture twice under one face: what a journal says was
\* persisted passes reconcile when it is written, or has been deactivated since
\* (PersistenceOrchestrator.persist_bundle, _write_journal, _run_reconcile).
THEOREM JournalsHold ==
  ASSUME ~Overlapping, Distinct
  PROVE  Spec => JournalHolds
<1>1. Init => SettleInv /\ Journals
  <2> SUFFICES ASSUME Init PROVE SettleInv /\ Journals  OBVIOUS
  <2>1. \A r \in Runs : run[r].at = "new"  BY DEF Init, NewRun
  <2>2. \A r \in Runs : ~Busy(r)  BY <2>1 DEF Busy, Steps
  <2>3. \A s \in Samples : sample[s].state = "none"  BY DEF Init, NoRow
  <2> QED
    BY <2>2, <2>3, NotBusyOwesNothing DEF SettleInv, OneRun, Settling, Journals, JournalInv
<1>2. Core /\ SettleInv /\ Journals /\ [Next]_vars => SettleInv' /\ Journals'
  BY SettleStep, JournalStep
<1>3. Core /\ Journals /\ [Next]_vars =>
        [\A r \in Runs : run[r].at # "done" /\ run'[r].at = "done" =>
           \A k \in DOMAIN Manifest : \A s \in run[r].outcomes[k] :
             Reconciles(s)' \/ sample'[s].state = "inactive"]_vars
  BY JournalWritten
<1> QED  BY <1>1, <1>2, <1>3, BulkInvariant, PTL DEF Spec, JournalHolds

-----------------------------------------------------------------------------
(* The device.                                                             *)

\* The allocation records are numbered, each with a key, a state and a content.
DeviceCore ==
  /\ Len(block) \in Nat /\ DOMAIN block = 1..Len(block)
  /\ \A i \in DOMAIN block :
       block[i] = [key |-> block[i].key, state |-> block[i].state, holds |-> block[i].holds]
  /\ BuffersExclusive

LEMMA TabulatedLength ==
  ASSUME NEW n \in Nat, NEW f, f = [k \in 1..n |-> f[k]]
  PROVE  Len(f) = n
<1> DEFINE S == {f[k] : k \in 1..n}
<1>1. f \in [1..n -> S]  OBVIOUS
<1>2. f \in Seq(S)  BY <1>1
<1> QED  BY <1>1, <1>2

\* A record that is taken is a free one, or the next.
LEMMA PlaceIsFree ==
  ASSUME DeviceCore, NEW key
  PROVE  /\ Place(key) \in 1..(Len(block) + 1)
         /\ Place(key) \in DOMAIN block => block[Place(key)].state = "free"
<1> DEFINE free == {i \in DOMAIN block : block[i].key = key /\ block[i].state = "free"}
           n == Len(block)
           mirror == {n - i : i \in free}
<1>1. n \in Nat /\ DOMAIN block = 1..n  BY DEF DeviceCore
<1>2. CASE free = {}  BY <1>1, <1>2 DEF Place
<1>3. CASE free # {}
  <2>1. mirror \in SUBSET Nat /\ mirror # {}  BY <1>1, <1>3
  <2>2. mirror \subseteq 0..n  BY <1>1
  <2>3. IsFiniteSet(mirror)
    <3>1. IsFiniteSet(0..n)  BY <1>1, FS_Interval
    <3> HIDE DEF mirror, n
    <3> QED  BY <2>2, <3>1, FS_Subset
  <2>4. PICK m \in mirror : \A k \in mirror : k <= m  BY <2>1, <2>3, Greatest
  <2>5. PICK i \in free : m = n - i  BY <2>4
  <2>6. ASSUME NEW j \in free PROVE i <= j
    <3>1. n - j <= n - i  BY <2>4, <2>5
    <3> QED  BY <3>1, <1>1
  <2>7. \E f \in free : \A j \in free : f <= j  BY <2>6
  <2>8. (CHOOSE f \in free : \A j \in free : f <= j) \in free  BY <2>7
  <2>9. Place(key) \in free  BY <1>3, <2>8 DEF Place
  <2> QED  BY <2>9, <1>1
<1> QED  BY <1>2, <1>3

LEMMA BindKeeps ==
  ASSUME DeviceCore, NEW name, NEW key, Bind(name, key)
  PROVE  DeviceCore'
<1> DEFINE i == Place(key)
           gone == {tensor[n] : n \in {name} \cap DOMAIN tensor}
           top == IF i \in DOMAIN block THEN Len(block) ELSE Len(block) + 1
<1>1. Len(block) \in Nat /\ DOMAIN block = 1..Len(block)  BY DEF DeviceCore
<1>2. i \in 1..(Len(block) + 1) /\ (i \in DOMAIN block => block[i].state = "free")
  BY PlaceIsFree
<1>3. top \in Nat /\ DOMAIN block \cup {i} = 1..top  BY <1>1, <1>2
<1>4. /\ DOMAIN Grown(key) = 1..top
      /\ \A k \in 1..top :
           /\ Grown(key)[k] = [key |-> Grown(key)[k].key, state |-> Grown(key)[k].state,
                               holds |-> Grown(key)[k].holds]
           /\ k # i => k \in DOMAIN block /\ Grown(key)[k] = block[k]
           /\ k = i => Grown(key)[k].state = "active"
  BY <1>3 DEF Grown, DeviceCore
<1>5. block' = [k \in DOMAIN Grown(key) |->
                  IF k \in gone THEN [Grown(key)[k] EXCEPT !.state = "free"] ELSE Grown(key)[k]]
  BY DEF Bind, Freed
<1>6. DOMAIN block' = 1..top /\ block' = [k \in 1..top |-> block'[k]]  BY <1>4, <1>5
<1>7. Len(block') = top  BY <1>3, <1>6, TabulatedLength
<1>8. \A k \in 1..top :
        /\ block'[k] = [key |-> block'[k].key, state |-> block'[k].state, holds |-> block'[k].holds]
        /\ k \notin gone => block'[k] = Grown(key)[k]
  BY <1>4, <1>5
<1>9. i \notin gone /\ \A n \in DOMAIN tensor : tensor[n] # i
  BY <1>2 DEF DeviceCore, BuffersExclusive
<1>10. DOMAIN tensor' = DOMAIN tensor \cup {name}
         /\ tensor'[name] = i /\ \A n \in DOMAIN tensor \ {name} : tensor'[n] = tensor[n]
  BY DEF Bind
<1>11. ASSUME NEW n \in DOMAIN tensor'
       PROVE  tensor'[n] \in DOMAIN block' /\ block'[tensor'[n]].state = "active"
  <2>1. CASE n = name
    <3>1. tensor'[n] = i  BY <2>1, <1>10
    <3>2. i \in 1..top  BY <1>3
    <3>3. block'[i].state = "active"  BY <3>2, <1>4, <1>8, <1>9
    <3> QED  BY <3>1, <3>2, <3>3, <1>6
  <2>2. CASE n # name
    <3>1. n \in DOMAIN tensor /\ tensor'[n] = tensor[n]  BY <2>2, <1>10
    <3>2. tensor[n] \in DOMAIN block /\ block[tensor[n]].state = "active" /\ tensor[n] \notin gone
      BY <2>2, <3>1 DEF DeviceCore, BuffersExclusive
    <3>3. tensor[n] \in 1..top /\ tensor[n] # i  BY <3>1, <3>2, <1>3, <1>9
    <3>4. block'[tensor[n]] = block[tensor[n]]  BY <3>2, <3>3, <1>4, <1>8
    <3> QED  BY <3>1, <3>2, <3>3, <3>4, <1>6
  <2> QED  BY <2>1, <2>2
<1>12. ASSUME NEW n \in DOMAIN tensor', NEW m \in DOMAIN tensor', tensor'[n] = tensor'[m]
       PROVE  n = m
  BY <1>9, <1>10, <1>12 DEF DeviceCore, BuffersExclusive
<1> QED  BY <1>3, <1>6, <1>7, <1>8, <1>11, <1>12 DEF DeviceCore, BuffersExclusive

LEMMA CollectKeeps ==
  ASSUME DeviceCore, NEW names, Collect(names)
  PROVE  DeviceCore'
<1> DEFINE gone == {tensor[n] : n \in names \cap DOMAIN tensor}
<1>1. Len(block) \in Nat /\ DOMAIN block = 1..Len(block)  BY DEF DeviceCore
<1>2. block' = [k \in DOMAIN block |->
                  IF k \in gone THEN [block[k] EXCEPT !.state = "free"] ELSE block[k]]
  BY DEF Collect, Freed
<1>3. DOMAIN block' = 1..Len(block) /\ block' = [k \in 1..Len(block) |-> block'[k]]  BY <1>1, <1>2
<1>4. Len(block') = Len(block)  BY <1>1, <1>3, TabulatedLength
<1>5. \A k \in DOMAIN block :
        /\ block'[k] = [key |-> block'[k].key, state |-> block'[k].state, holds |-> block'[k].holds]
        /\ k \notin gone => block'[k] = block[k]
  BY <1>2 DEF DeviceCore
<1>6. DOMAIN tensor' = DOMAIN tensor \ names /\ \A n \in DOMAIN tensor' : tensor'[n] = tensor[n]
  BY DEF Collect, Restrict
<1>7. ASSUME NEW n \in DOMAIN tensor'
      PROVE  tensor'[n] \in DOMAIN block' /\ block'[tensor'[n]].state = "active"
  BY <1>1, <1>3, <1>5, <1>6 DEF DeviceCore, BuffersExclusive
<1>8. ASSUME NEW n \in DOMAIN tensor', NEW m \in DOMAIN tensor', tensor'[n] = tensor'[m]
      PROVE  n = m
  BY <1>6, <1>8 DEF DeviceCore, BuffersExclusive
<1> QED  BY <1>1, <1>3, <1>4, <1>5, <1>7, <1>8 DEF DeviceCore, BuffersExclusive

\* The device writes contents only.
LEMMA DeviceKeeps ==
  ASSUME DeviceCore, Device
  PROVE  DeviceCore'
<1>1. CASE UNCHANGED block
  BY <1>1 DEF Device, DeviceCore, BuffersExclusive
<1>2. CASE ~UNCHANGED block
  <2> DEFINE work == Head(stream)
             in == [k \in DOMAIN work.in |-> block[work.in[k]].holds]
             old == [k \in DOMAIN work.out |-> block[work.out[k]].holds]
  <2>1. PICK new :
          block' = [i \in DOMAIN block |->
                      IF \E k \in DOMAIN work.out : work.out[k] = i
                      THEN [block[i] EXCEPT !.holds =
                              new[CHOOSE k \in DOMAIN work.out : work.out[k] = i]]
                      ELSE block[i]]
    BY <1>2 DEF Device
  <2>2. Len(block) \in Nat /\ DOMAIN block = 1..Len(block)  BY DEF DeviceCore
  <2>3. DOMAIN block' = 1..Len(block) /\ block' = [k \in 1..Len(block) |-> block'[k]]
    BY <2>1, <2>2
  <2>4. Len(block') = Len(block)  BY <2>2, <2>3, TabulatedLength
  <2>5. \A i \in DOMAIN block :
          /\ block'[i] = [key |-> block'[i].key, state |-> block'[i].state,
                          holds |-> block'[i].holds]
          /\ block'[i].state = block[i].state
    BY <2>1 DEF DeviceCore
  <2>6. tensor' = tensor  BY DEF Device
  <2> QED  BY <2>2, <2>3, <2>4, <2>5, <2>6 DEF DeviceCore, BuffersExclusive
<1> QED  BY <1>1, <1>2

LEMMA DeviceNextKeeps ==
  ASSUME DeviceCore, DeviceNext
  PROVE  DeviceCore'
<1>1. CASE \E name, key : Bind(name, key)  BY <1>1, BindKeeps
<1>2. CASE \E names : Collect(names)  BY <1>2, CollectKeeps
<1>3. CASE Device  BY <1>3, DeviceKeeps
<1>4. CASE UNCHANGED <<block, tensor>>  BY <1>4 DEF DeviceCore, BuffersExclusive
<1>5. CASE Close
  <2>1. block' = <<>> /\ tensor' = <<>>  BY <1>5 DEF Close
  <2>2. Len(block') = 0 /\ DOMAIN block' = {} /\ DOMAIN tensor' = {}  BY <2>1
  <2> QED  BY <2>2 DEF DeviceCore, BuffersExclusive
<1>6. HostReserve \/ HostEnsure => UNCHANGED <<block, tensor>> \/ \E name, key : Bind(name, key)
  BY DEF HostReserve, HostEnsure
<1>7. HostDrop \/ Undecoded \/ Unselected \/ Accept \/ Raise => \E names : Collect(names)
  BY DEF HostDrop, Undecoded, Unselected, Accept, Raise, Leave
<1>8. HostLaunch \/ HostFetch \/ HostSync \/ HostCheck \/ WarmedUp \/ Decode \/ Detect
        \/ RankCandidates \/ Choose \/ Pick \/ Select \/ NextExtraction
      => UNCHANGED <<block, tensor>>
  BY DEF HostLaunch, HostFetch, HostSync, HostCheck, WarmedUp, Decode, Detect,
         RankCandidates, Choose, Pick, Select, NextExtraction
<1> QED  BY <1>1, <1>2, <1>3, <1>4, <1>5, <1>6, <1>7, <1>8 DEF DeviceNext

\* BufferArena: no two DeviceTensors that are alive share memory, and none lies
\* in memory that reserve would hand out, whatever the program reserves, drops
\* and raises.
THEOREM BuffersAreExclusive == BulkSpec => []BuffersExclusive
<1>1. BulkInit => DeviceCore
  <2> SUFFICES ASSUME BulkInit PROVE DeviceCore  OBVIOUS
  <2>1. block = <<>> /\ tensor = <<>>  BY DEF BulkInit, DeviceInit
  <2>2. Len(block) = 0 /\ DOMAIN block = {} /\ DOMAIN tensor = {}  BY <2>1
  <2> QED  BY <2>2 DEF DeviceCore, BuffersExclusive
<1>2. DeviceCore /\ [BulkNext]_<<vars, deviceVars>> => DeviceCore'
  <2> SUFFICES ASSUME DeviceCore, [BulkNext]_<<vars, deviceVars>> PROVE DeviceCore'  OBVIOUS
  <2>1. CASE DeviceNext  BY <2>1, DeviceNextKeeps
  <2>2. CASE UNCHANGED deviceVars  BY <2>2 DEF DeviceCore, BuffersExclusive, deviceVars
  <2> QED  BY <2>1, <2>2 DEF BulkNext
<1>3. DeviceCore => BuffersExclusive  BY DEF DeviceCore
<1> QED  BY <1>1, <1>2, <1>3, PTL DEF BulkSpec

\* With its device the command still does what Spec allows: what is proved of
\* the stores for every behaviour of Spec holds of BulkSpec.
THEOREM DeviceIsApart == BulkSpec => Spec
<1>1. BulkInit => Init  BY DEF BulkInit
<1>2. [BulkNext]_<<vars, deviceVars>> => [Next]_vars  BY DEF BulkNext
<1> QED  BY <1>1, <1>2, PTL DEF BulkSpec, Spec
=============================================================================
