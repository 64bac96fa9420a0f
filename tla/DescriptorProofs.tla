-------------------------- MODULE DescriptorProofs --------------------------
(***************************************************************************)
(* What gx_sift_extract guarantees of its keypoints, for every image,      *)
(* border, spacing and cap; what gx_sift_island_add and the score of a     *)
(* verification guarantee, for every finger that Island's hypotheses hold  *)
(* of (Legible, and ScoreSafe for the score), every window and any number  *)
(* of presses.                                                             *)
(***************************************************************************)
EXTENDS Keypoints, Island, SequenceTheorems, FiniteSetTheorems, TLAPS

LEMMA KeypointsInitInv == KeypointsInit => KeypointsInv
<1> SUFFICES ASSUME KeypointsInit PROVE KeypointsInv
  OBVIOUS
<1>1. PICK m \in [{p \in Pixels : Inner(p)} -> Saliency] :
         map = [p \in Pixels |-> IF Inner(p) THEN m[p] ELSE 0]
  BY DEF KeypointsInit
<1>2. map \in [Pixels -> Saliency] /\ sal = map /\ keypoints = <<>> /\ done = FALSE
  BY <1>1, KeypointsAssumption DEF KeypointsInit
<1>3. \A q \in Pixels : map[q] > 0 => Inner(q)
  BY <1>1
<1>4. DOMAIN keypoints = {} /\ Len(keypoints) = 0
  BY <1>2
<1>5. KeypointsTypeOK
  <2>1. keypoints \in Seq(Pixels)
    BY <1>2
  <2>2. sal \in [Pixels -> Saliency]
    BY <1>2
  <2>3. Len(keypoints) <= MaxPts
    BY <1>4, KeypointsAssumption
  <2>4. done \in BOOLEAN
    BY <1>2
  <2> QED BY <2>1, <2>2, <2>3, <2>4, <1>2 DEF KeypointsTypeOK
<1>6. Left /\ Blank /\ Salient
  BY <1>2, <1>3, <1>4 DEF Left, Blank, Salient
<1>7. Spaced /\ StrongestFirst /\ Exhaustive
  BY <1>2, <1>4 DEF Spaced, StrongestFirst, Exhaustive
<1> QED BY <1>5, <1>6, <1>7 DEF KeypointsInv

LEMMA PickInv == KeypointsInv /\ Pick => KeypointsInv'
<1> SUFFICES ASSUME KeypointsInv, Pick PROVE KeypointsInv'
  OBVIOUS
<1> USE KeypointsAssumption
<1>1. PICK p \in Pixels :
         /\ sal[p] > 0
         /\ \A q \in Pixels \ {p} : sal[q] < sal[p] \/ (sal[q] = sal[p] /\ Before(p, q))
         /\ keypoints' = Append(keypoints, p)
         /\ sal' = [q \in Pixels |-> IF Near(p, q) THEN 0 ELSE sal[q]]
  BY DEF Pick
<1>2. /\ ~done /\ Len(keypoints) < MaxPts /\ map' = map /\ done' = done
      /\ map \in [Pixels -> Saliency] /\ sal \in [Pixels -> Saliency]
      /\ keypoints \in Seq(Pixels) /\ Len(keypoints) \in Nat
  BY DEF Pick, KeypointsInv, KeypointsTypeOK
<1>3. \A q \in Pixels : map[q] \in Nat /\ sal[q] \in Nat
  BY <1>2
<1>4. \A q \in Pixels : sal[q] <= sal[p]
  BY <1>1, <1>3
<1>5. /\ keypoints' \in Seq(Pixels) /\ Len(keypoints') = Len(keypoints) + 1
      /\ DOMAIN keypoints' = DOMAIN keypoints \cup {Len(keypoints) + 1}
      /\ DOMAIN keypoints = 1 .. Len(keypoints)
      /\ keypoints'[Len(keypoints) + 1] = p
      /\ \A i \in DOMAIN keypoints : keypoints'[i] = keypoints[i] /\ keypoints[i] \in Pixels
  BY <1>1, <1>2
<1>6. KeypointsTypeOK'
  <2>1. sal' \in [Pixels -> Saliency]
    BY <1>1, <1>2
  <2>2. Len(keypoints') <= MaxPts
    BY <1>2, <1>5
  <2> QED BY <2>1, <2>2, <1>2, <1>5 DEF KeypointsTypeOK, KeypointsInv
<1>7. sal[p] = map[p] /\ \A i \in DOMAIN keypoints : map[keypoints[i]] >= map[p]
  BY <1>1 DEF KeypointsInv, Left
<1>8. \A q \in Pixels : sal'[q] = IF Near(p, q) THEN 0 ELSE sal[q]
  BY <1>1
<1>9. Left'
  <2> SUFFICES ASSUME NEW q \in Pixels
               PROVE \/ sal'[q] = map[q] /\ \A i \in DOMAIN keypoints' : map[keypoints'[i]] >= map[q]
                     \/ sal'[q] = 0 /\ \E i \in DOMAIN keypoints' : Near(keypoints'[i], q) /\ map[keypoints'[i]] >= map[q]
    BY <1>2 DEF Left
  <2>1. CASE sal[q] = map[q] /\ \A i \in DOMAIN keypoints : map[keypoints[i]] >= map[q]
    <3>1. map[p] >= map[q]
      BY <2>1, <1>4, <1>7
    <3>2. CASE Near(p, q)
      BY <3>1, <3>2, <1>5, <1>8
    <3>3. CASE ~Near(p, q)
      BY <3>1, <3>3, <2>1, <1>5, <1>8
    <3> QED BY <3>2, <3>3
  <2>2. CASE sal[q] = 0 /\ \E i \in DOMAIN keypoints : Near(keypoints[i], q) /\ map[keypoints[i]] >= map[q]
    BY <2>2, <1>5, <1>8
  <2> QED BY <2>1, <2>2 DEF KeypointsInv, Left
<1>10. Blank'
  <2> SUFFICES ASSUME NEW i \in DOMAIN keypoints', NEW q \in Pixels, Near(keypoints'[i], q)
               PROVE sal'[q] = 0
    BY DEF Blank
  <2>1. CASE i = Len(keypoints) + 1
    BY <2>1, <1>5, <1>8
  <2>2. CASE i \in DOMAIN keypoints
    BY <2>2, <1>5, <1>8 DEF KeypointsInv, Blank
  <2> QED BY <2>1, <2>2, <1>5
<1>11. Salient'
  BY <1>1, <1>2, <1>5, <1>7 DEF KeypointsInv, Salient
<1>12. Spaced'
  <2>1. \A i \in DOMAIN keypoints : ~Near(keypoints[i], p)
    BY <1>1 DEF KeypointsInv, Blank
  <2>2. \A i \in DOMAIN keypoints :
           \/ keypoints[i][1] - p[1] \notin -Spacing .. Spacing
           \/ keypoints[i][2] - p[2] \notin -Spacing .. Spacing
    <3> SUFFICES ASSUME NEW i \in DOMAIN keypoints
                 PROVE \/ keypoints[i][1] - p[1] \notin -Spacing .. Spacing
                       \/ keypoints[i][2] - p[2] \notin -Spacing .. Spacing
      OBVIOUS
    <3>1. /\ keypoints[i][1] \in Int /\ keypoints[i][2] \in Int
          /\ p[1] \in Int /\ p[2] \in Int
      BY <1>5 DEF Pixels
    <3> QED BY <3>1, <2>1 DEF Near
  <2>3. \A i \in DOMAIN keypoints :
           \/ p[1] - keypoints[i][1] \notin -Spacing .. Spacing
           \/ p[2] - keypoints[i][2] \notin -Spacing .. Spacing
    <3> SUFFICES ASSUME NEW i \in DOMAIN keypoints
                 PROVE \/ p[1] - keypoints[i][1] \notin -Spacing .. Spacing
                       \/ p[2] - keypoints[i][2] \notin -Spacing .. Spacing
      OBVIOUS
    <3>1. /\ keypoints[i][1] \in Int /\ keypoints[i][2] \in Int
          /\ p[1] \in Int /\ p[2] \in Int
      BY <1>5 DEF Pixels
    <3> QED BY <3>1, <2>2
  <2> QED BY <2>2, <2>3, <1>5 DEF KeypointsInv, Spaced
<1>13. StrongestFirst'
  BY <1>2, <1>3, <1>5, <1>7, SMTT(20) DEF KeypointsInv, StrongestFirst
<1>14. Exhaustive'
  BY <1>2 DEF Exhaustive
<1> QED BY <1>6, <1>9, <1>10, <1>11, <1>12, <1>13, <1>14 DEF KeypointsInv

LEMMA FinishInv == KeypointsInv /\ Finish => KeypointsInv'
<1> SUFFICES ASSUME KeypointsInv, Finish PROVE KeypointsInv'
  OBVIOUS
<1>1. map' = map /\ sal' = sal /\ keypoints' = keypoints /\ done' = TRUE
  BY DEF Finish
<1>2. KeypointsTypeOK' /\ Left' /\ Blank' /\ Salient' /\ Spaced' /\ StrongestFirst'
  BY <1>1 DEF KeypointsInv, KeypointsTypeOK, Left, Blank, Salient, Spaced, StrongestFirst
<1>3. Exhaustive'
  <2> SUFFICES ASSUME Len(keypoints) < MaxPts, NEW p \in Pixels, map[p] > 0
               PROVE \E i \in DOMAIN keypoints : Near(keypoints[i], p) /\ map[keypoints[i]] >= map[p]
    BY <1>1 DEF Exhaustive
  <2>1. Len(keypoints) \in Nat /\ MaxPts \in Nat
    BY KeypointsAssumption DEF KeypointsInv, KeypointsTypeOK
  <2>2. sal[p] = 0
    BY <2>1 DEF Finish
  <2> QED BY <2>2 DEF KeypointsInv, Left
<1> QED BY <1>2, <1>3 DEF KeypointsInv

LEMMA KeypointsNextInv == KeypointsInv /\ [KeypointsNext]_keypointVars => KeypointsInv'
<1> SUFFICES ASSUME KeypointsInv, [KeypointsNext]_keypointVars PROVE KeypointsInv'
  OBVIOUS
<1>1. CASE Pick
  BY <1>1, PickInv
<1>2. CASE Finish
  BY <1>2, FinishInv
<1>3. CASE UNCHANGED keypointVars
  BY <1>3 DEF keypointVars, KeypointsInv, KeypointsTypeOK, Left, Blank, Salient, Spaced, StrongestFirst, Exhaustive
<1> QED BY <1>1, <1>2, <1>3 DEF KeypointsNext

\* The choice of keypoints keeps the invariant: what is left of the map is the
\* map or lies near a point as salient, so that the next point taken is apart
\* from all before and no stronger.
THEOREM KeypointsInvariance == KeypointsSpec => []KeypointsInv
  BY KeypointsInitInv, KeypointsNextInv, PTL DEF KeypointsSpec

\* Of any map, gx_sift_extract keeps pixels of the image, at most MaxPts.
THEOREM KeypointsTypeCorrect == KeypointsSpec => []KeypointsTypeOK
<1>1. KeypointsInv => KeypointsTypeOK
  BY DEF KeypointsInv
<1> QED BY <1>1, KeypointsInvariance, PTL

\* A point that is not blanked is an inner one: its descriptor window fits.
LEMMA WindowsInside == KeypointsInv => WindowInside
<1> SUFFICES ASSUME KeypointsInv, NEW i \in DOMAIN keypoints
             PROVE /\ keypoints[i][1] - Half >= 0 /\ keypoints[i][1] + Half - 1 < W
                   /\ keypoints[i][2] - Half >= 0 /\ keypoints[i][2] + Half - 1 < H
  BY DEF WindowInside
<1>1. keypoints[i] \in Pixels
  BY DEF KeypointsInv, KeypointsTypeOK
<1>2. Inner(keypoints[i])
  BY <1>1 DEF KeypointsInv, Salient
<1>3. keypoints[i][1] \in Int /\ keypoints[i][2] \in Int
  BY <1>1 DEF Pixels
<1> QED BY <1>2, <1>3, KeypointsAssumption DEF Inner

\* Of any map, the keypoints lie apart (the blanking around each one), their
\* descriptor windows inside the image, strongest first, and below the cap no
\* salient pixel is overlooked.
THEOREM ChoiceIsSound == KeypointsSpec => []WellChosen
<1>1. KeypointsInv => WellChosen
  BY WindowsInside DEF KeypointsInv, WellChosen
<1> QED BY <1>1, KeypointsInvariance, PTL

-----------------------------------------------------------------------------
\* Numbers in order, and least ones.

\* A set of naturals has a least element.
LEMMA LeastNatural ==
    ASSUME NEW S \in SUBSET Nat, S # {}
    PROVE  \E a \in S : \A b \in S : a <= b
<1> DEFINE R == StrictSubsetOrdering(Nat)
           T == {0 .. n : n \in S}
<1>1. IsWellFoundedOn(R, FiniteSubsetsOf(Nat))
  BY FS_StrictSubsetOrderingWellFounded
<1>2. T \subseteq FiniteSubsetsOf(Nat) /\ T # {}
  <2>1. ASSUME NEW n \in S PROVE 0 .. n \in FiniteSubsetsOf(Nat)
    <3>1. n \in Nat /\ 0 \in Int /\ n \in Int
      OBVIOUS
    <3>2. IsFiniteSet(0 .. n)
      BY <3>1, FS_Interval
    <3> QED BY <3>1, <3>2 DEF FiniteSubsetsOf
  <2> QED BY <2>1
<1> HIDE DEF R, T
<1>3. PICK x \in T : \A y \in T : ~(<<y, x>> \in R)
  BY <1>1, <1>2, WFMin
<1>4. PICK a \in S : x = 0 .. a
  BY DEF T
<1>5. \A b \in S : a <= b
  <2> SUFFICES ASSUME NEW b \in S, b < a PROVE FALSE
    OBVIOUS
  <2>1. 0 .. b \in T /\ <<0 .. b, 0 .. a>> \in R
    <3>1. 0 .. b \subseteq 0 .. a /\ 0 .. b # 0 .. a
      <4>1. a \in 0 .. a /\ a \notin 0 .. b
        OBVIOUS
      <4> QED BY <4>1
    <3> QED BY <3>1 DEF T, R, StrictSubsetOrdering
  <2> QED BY <2>1, <1>3, <1>4
<1> QED BY <1>5

\* Of a set that is not empty, a measure has a least element.
LEMMA LeastBy ==
    ASSUME NEW S, S # {}, NEW f \in [S -> Nat]
    PROVE  \E a \in S : \A b \in S : f[a] <= f[b]
<1> DEFINE V == {f[a] : a \in S}
<1>1. V \in SUBSET Nat /\ V # {}
  OBVIOUS
<1>2. \E n \in V : \A k \in V : n <= k
  <2> HIDE DEF V
  <2> QED BY <1>1, LeastNatural
<1> QED BY <1>2

\* How many elements of S are n or less.
Rank(S, n) == Cardinality({m \in S : m <= n})

\* The rank grows with the element.
LEMMA RankGrows ==
    ASSUME NEW S \in SUBSET Int, IsFiniteSet(S)
    PROVE  /\ \A n \in S : Rank(S, n) \in 1 .. Cardinality(S)
           /\ \A n, k \in S : n < k => Rank(S, n) < Rank(S, k)
<1> DEFINE Upto(n) == {m \in S : m <= n}
<1>1. /\ Cardinality(S) \in Nat
      /\ \A n : IsFiniteSet(Upto(n)) /\ Rank(S, n) = Cardinality(Upto(n))
      /\ \A n : Rank(S, n) \in Nat /\ Rank(S, n) <= Cardinality(S)
  <2>1. Cardinality(S) \in Nat
    BY FS_CardinalityType
  <2>2. ASSUME NEW n PROVE IsFiniteSet(Upto(n)) /\ Cardinality(Upto(n)) <= Cardinality(S)
    <3>1. Upto(n) \in SUBSET S
      OBVIOUS
    <3> HIDE DEF Upto
    <3> QED BY <3>1, FS_Subset
  <2>3. ASSUME NEW n PROVE Rank(S, n) = Cardinality(Upto(n))
    BY DEF Rank
  <2> HIDE DEF Upto
  <2>4. ASSUME NEW n PROVE Rank(S, n) \in Nat
    BY <2>2, <2>3, FS_CardinalityType
  <2> QED BY <2>1, <2>2, <2>3, <2>4
<1>2. ASSUME NEW n \in S PROVE Rank(S, n) \in 1 .. Cardinality(S)
  <2>1. Upto(n) # {}
    OBVIOUS
  <2> HIDE DEF Upto
  <2>2. Rank(S, n) # 0
    BY <2>1, <1>1, FS_EmptySet
  <2> QED BY <2>2, <1>1
<1>3. ASSUME NEW n \in S, NEW k \in S, n < k PROVE Rank(S, n) < Rank(S, k)
  <2>0. n \in Int /\ k \in Int /\ \A m \in S : m \in Int
    OBVIOUS
  <2>1. \A m \in S : m <= n => m <= k
    BY <2>0, <1>3
  <2>2. Upto(n) \in SUBSET Upto(k) /\ k \in Upto(k) /\ k \notin Upto(n)
    <3>1. k <= k /\ ~(k <= n)
      BY <2>0, <1>3
    <3> QED BY <2>1, <3>1
  <2> HIDE DEF Upto
  <2>3. /\ Cardinality(Upto(n)) <= Cardinality(Upto(k))
        /\ Cardinality(Upto(n)) # Cardinality(Upto(k))
    BY <2>2, <1>1, FS_Subset
  <2> QED BY <2>3, <1>1
<1> QED BY <1>2, <1>3

\* A finite set of numbers, in order, is a sequence that has each of its elements
\* once.
LEMMA InOrderIsEnumeration ==
    ASSUME NEW S \in SUBSET Int, IsFiniteSet(S)
    PROVE  /\ InOrder(S) \in Seq(S) /\ Len(InOrder(S)) = Cardinality(S)
           /\ DOMAIN InOrder(S) = 1 .. Cardinality(S)
           /\ \A n \in S : \E i \in DOMAIN InOrder(S) : InOrder(S)[i] = n
           /\ \A i, j \in DOMAIN InOrder(S) : InOrder(S)[i] = InOrder(S)[j] => i = j
<1> DEFINE N == Cardinality(S)
           f == [n \in S |-> Rank(S, n)]
<1>1. N \in Nat /\ IsFiniteSet(1 .. N) /\ Cardinality(1 .. N) = N
  BY FS_CardinalityType, FS_Interval
<1>2. f \in [S -> 1 .. N] /\ \A n, k \in S : f[n] = f[k] => n = k
  <2>1. \A n, k \in S : Rank(S, n) = Rank(S, k) => n = k
    <3> SUFFICES ASSUME NEW n \in S, NEW k \in S, n # k PROVE Rank(S, n) # Rank(S, k)
      OBVIOUS
    <3>1. n < k \/ k < n
      OBVIOUS
    <3>2. Rank(S, n) \in Int /\ Rank(S, k) \in Int
      BY RankGrows, <1>1
    <3> QED BY <3>1, <3>2, RankGrows
  <2> QED BY <2>1, RankGrows
<1> HIDE DEF f
<1>3. f \in Surjection(S, 1 .. N)
  <2>1. f \in Injection(S, 1 .. N)
    BY <1>2 DEF Injection, IsInjective
  <2> HIDE DEF N
  <2>2. Cardinality(S) = Cardinality(1 .. N)
    BY <1>1 DEF N
  <2> QED BY <1>1, <2>1, <2>2, FS_Injection
<1>4. \A i \in 1 .. N : \E n \in S : Rank(S, n) = i
  BY <1>3 DEF f, Surjection
<1>5. \A n : Rank(S, n) = Cardinality({m \in S : m <= n})
  BY DEF Rank
<1>6. \A i \in 1 .. N : InOrder(S)[i] \in S /\ Rank(S, InOrder(S)[i]) = i
  BY <1>4, <1>5 DEF InOrder
<1>7. DOMAIN InOrder(S) = 1 .. N
  BY DEF InOrder
<1>8. InOrder(S) \in Seq(S) /\ Len(InOrder(S)) = N
  <2>1. InOrder(S) \in [1 .. N -> S]
    BY <1>6 DEF InOrder
  <2> QED BY <2>1, <1>1
<1>9. ASSUME NEW n \in S PROVE \E i \in DOMAIN InOrder(S) : InOrder(S)[i] = n
  <2>1. f[n] \in 1 .. N /\ Rank(S, InOrder(S)[f[n]]) = f[n] /\ InOrder(S)[f[n]] \in S
    BY <1>2, <1>6
  <2>2. f[InOrder(S)[f[n]]] = f[n]
    BY <2>1 DEF f
  <2> QED BY <2>1, <2>2, <1>2, <1>7
<1>10. \A i, j \in DOMAIN InOrder(S) : InOrder(S)[i] = InOrder(S)[j] => i = j
  BY <1>6, <1>7
<1> QED BY <1>7, <1>8, <1>9, <1>10

-----------------------------------------------------------------------------
\* The matcher: one of the largest clusters wins.

\* A set that a function maps one-to-one into a finite one is finite and no larger.
LEMMA NoLarger ==
    ASSUME NEW S, NEW T, IsFiniteSet(T), NEW f \in [S -> T],
           \A a, b \in S : f[a] = f[b] => a = b
    PROVE  /\ IsFiniteSet(S) /\ Cardinality(S) \in Nat
           /\ Cardinality(T) \in Nat /\ Cardinality(S) <= Cardinality(T)
<1>1. f \in Injection(S, T)
  BY DEF Injection, IsInjective
<1> QED BY <1>1, FS_Injection, FS_CardinalityType

\* The pairs that vote as c does.
Agreeing(A, B, c) == Cluster(A, B, Pairs(A, B), c)

Votes(A, B, c) == Cardinality(Agreeing(A, B, c))

\* Of two sequences, the pairs and the clusters are finite.
LEMMA FinitePairs ==
    ASSUME NEW A \in Seq(Point), NEW B \in Seq(Point)
    PROVE  /\ IsFiniteSet(Pairs(A, B)) /\ Cardinality(Pairs(A, B)) \in Nat
           /\ Pairs(A, B) \subseteq (DOMAIN A) \X (DOMAIN B)
           /\ \A c : /\ Agreeing(A, B, c) \subseteq Pairs(A, B)
                     /\ IsFiniteSet(Agreeing(A, B, c)) /\ Votes(A, B, c) \in Nat
                     /\ Votes(A, B, c) <= Cardinality(Pairs(A, B))
<1>1. IsFiniteSet(DOMAIN A) /\ IsFiniteSet(DOMAIN B)
  <2>1. DOMAIN A = 1 .. Len(A) /\ DOMAIN B = 1 .. Len(B) /\ Len(A) \in Int /\ Len(B) \in Int /\ 1 \in Int
    OBVIOUS
  <2> QED BY <2>1, FS_Interval
<1>2. Pairs(A, B) \in SUBSET ((DOMAIN A) \X (DOMAIN B))
  BY DEF Pairs
<1>3. IsFiniteSet((DOMAIN A) \X (DOMAIN B))
  BY <1>1, FS_Product
<1>4. IsFiniteSet(Pairs(A, B)) /\ Cardinality(Pairs(A, B)) \in Nat
  BY <1>2, <1>3, FS_Subset, FS_CardinalityType
<1>5. ASSUME NEW c
      PROVE  /\ Agreeing(A, B, c) \subseteq Pairs(A, B)
             /\ IsFiniteSet(Agreeing(A, B, c)) /\ Votes(A, B, c) \in Nat
             /\ Votes(A, B, c) <= Cardinality(Pairs(A, B))
  <2>1. Agreeing(A, B, c) \in SUBSET Pairs(A, B)
    BY DEF Agreeing, Cluster
  <2> QED BY <2>1, <1>4, FS_Subset, FS_CardinalityType DEF Votes
<1> QED BY <1>2, <1>4, <1>5

\* A pair with the most votes.
Winner(A, B, c) ==
    c \in Pairs(A, B) /\ \A q \in Pairs(A, B) : Votes(A, B, q) <= Votes(A, B, c)

\* The matcher finds nothing, of too little, or goes by a pair with the most votes.
LEMMA MatchGoesByWinner ==
    ASSUME NEW A \in Seq(Point), NEW B \in Seq(Point)
    PROVE  \/ /\ MatchXform(A, B) = NoMatch
              /\ \/ Len(A) < MinPairs \/ Len(B) < MinPairs
                 \/ Cardinality(Pairs(A, B)) < MinPairs
           \/ \E c \in Pairs(A, B) :
                 /\ Winner(A, B, c)
                 /\ MatchXform(A, B).score = Votes(A, B, c)
                 /\ MatchXform(A, B).t = Vote(A, B, c)
                 /\ MatchXform(A, B).mask = IF Votes(A, B, c) >= MinPairs
                                            THEN {p[2] : p \in Agreeing(A, B, c)} ELSE {}
<1> DEFINE P == Pairs(A, B)
           Leading(c) == \A q \in P : \/ Votes(A, B, q) < Votes(A, B, c)
                                      \/ Votes(A, B, q) = Votes(A, B, c) /\ c[1] <= q[1]
           few == Len(A) < MinPairs \/ Len(B) < MinPairs \/ Cardinality(P) < MinPairs
           best == CHOOSE c \in P : Leading(c)
<1>1. CASE few
  BY <1>1 DEF MatchXform
<1>2. CASE ~few
  <2>1. P # {} /\ \A c : Votes(A, B, c) \in Nat /\ Votes(A, B, c) <= Cardinality(P)
    <3>1. Cardinality(P) # 0
      BY <1>2, FinitePairs, MatchingAssumption
    <3> QED BY <3>1, FinitePairs, FS_EmptySet
  <2>2. \E c \in P : Leading(c)
    <3> DEFINE f == [c \in P |-> Cardinality(P) - Votes(A, B, c)]
    <3>1. f \in [P -> Nat]
      BY <2>1, FinitePairs
    <3>2. PICK a \in P : \A b \in P : f[a] <= f[b]
      <4> HIDE DEF f, P
      <4> QED BY <2>1, <3>1, LeastBy
    <3>3. \A b \in P : Votes(A, B, b) <= Votes(A, B, a)
      BY <3>2, <2>1, FinitePairs
    <3> DEFINE Q == {c \in P : Votes(A, B, c) = Votes(A, B, a)}
               g == [c \in Q |-> c[1]]
    <3>4. g \in [Q -> Nat] /\ Q # {}
      <4>1. \A c \in P : c[1] \in Nat
        BY FinitePairs
      <4> QED BY <4>1
    <3>5. PICK c \in Q : \A q \in Q : g[c] <= g[q]
      <4> HIDE DEF Q, g
      <4> QED BY <3>4, LeastBy
    <3>6. ASSUME NEW q \in P
          PROVE  \/ Votes(A, B, q) < Votes(A, B, c)
                 \/ Votes(A, B, q) = Votes(A, B, c) /\ c[1] <= q[1]
      <4>1. Votes(A, B, c) = Votes(A, B, a) /\ Votes(A, B, q) <= Votes(A, B, a)
        BY <3>3
      <4>2. CASE Votes(A, B, q) = Votes(A, B, a)
        <5>1. q \in Q /\ c[1] <= q[1]
          BY <3>5, <4>2
        <5> QED BY <4>1, <4>2, <5>1
      <4> QED BY <4>1, <4>2, <2>1
    <3> QED BY <3>6
  <2>3. best \in P /\ Leading(best)
    <3> HIDE DEF Leading, P
    <3> QED BY <2>2
  <2>4. Winner(A, B, best)
    <3> HIDE DEF best
    <3> QED BY <2>1, <2>3 DEF Winner
  <2>5. MatchXform(A, B) = [score |-> Votes(A, B, best), t |-> Vote(A, B, best),
                            mask |-> IF Votes(A, B, best) >= MinPairs
                                     THEN {p[2] : p \in Agreeing(A, B, best)} ELSE {}]
    BY <1>2 DEF MatchXform, Votes, Agreeing
  <2> HIDE DEF best
  <2>6. /\ MatchXform(A, B).score = Votes(A, B, best)
        /\ MatchXform(A, B).t = Vote(A, B, best)
        /\ MatchXform(A, B).mask = IF Votes(A, B, best) >= MinPairs
                                   THEN {p[2] : p \in Agreeing(A, B, best)} ELSE {}
    BY <2>5
  <2> QED BY <2>3, <2>4, <2>6
<1> QED BY <1>1, <1>2

-----------------------------------------------------------------------------
\* What the points of a view, or of the island, show.

\* What is within a distance is so on each axis, and what is so on one axis is within it.
LEMMA WithinEachAxis ==
    /\ \A a, b \in Int, r \in Nat :
          Square(a) + Square(b) <= Square(r) => a \in -r .. r /\ b \in -r .. r
    /\ \A a \in Int, r \in Nat : a \in -r .. r => Square(a) + Square(0) <= Square(r)
<1>1. ASSUME NEW a \in Int, NEW b \in Int, NEW r \in Nat, Square(a) + Square(b) <= Square(r)
      PROVE  a \in -r .. r
  <2>1. a * a \in Int /\ b * b \in Int /\ r * r \in Int /\ b * b >= 0 /\ a * a + b * b <= r * r
    BY <1>1 DEF Square
  <2>2. a * a <= r * r
    BY <2>1
  <2>3. ~(a > r)
    <3> SUFFICES ASSUME a > r PROVE FALSE
      OBVIOUS
    <3>1. a * a > r * r
      OBVIOUS
    <3> QED BY <3>1, <2>2, <2>1
  <2>4. ~(a < -r)
    <3> SUFFICES ASSUME a < -r PROVE FALSE
      OBVIOUS
    <3>1. (-a) * (-a) > r * r /\ (-a) * (-a) = a * a
      OBVIOUS
    <3> QED BY <3>1, <2>2, <2>1
  <2> QED BY <2>3, <2>4
<1>2. ASSUME NEW a \in Int, NEW r \in Nat, a \in -r .. r
      PROVE  Square(a) + Square(0) <= Square(r)
  <2>1. CASE a >= 0
    BY <2>1, <1>2 DEF Square
  <2>2. CASE a < 0
    <3>1. (-a) * (-a) <= r * r /\ (-a) * (-a) = a * a
      BY <2>2, <1>2
    <3> QED BY <3>1 DEF Square
  <2> QED BY <2>1, <2>2
<1>3. \A a, b \in Int : Square(a) + Square(b) = Square(b) + Square(a)
  BY DEF Square
<1> QED BY <1>1, <1>2, <1>3

\* The points of A show the features of S, each once, in the frame of a window at `at`,
\* with errors from lo to lo + w.
Shows(A, S, at, lo, w) ==
    /\ A \in Seq(Point) /\ at \in [x : Int, y : Int] /\ lo \in Int /\ w \in Nat
    /\ S \subseteq Features
    /\ \A i \in DOMAIN A :
          /\ A[i].feat \in S /\ A[i].desc = Desc[A[i].feat]
          /\ A[i].x - (Place[A[i].feat].x - at.x) \in lo .. lo + w
          /\ A[i].y = Place[A[i].feat].y - at.y
    /\ \A f \in S : \E i \in DOMAIN A : A[i].feat = f
    /\ \A i, j \in DOMAIN A : A[i].feat = A[j].feat => i = j

\* A detection is off by no more than Jitter.
LEMMA OffRange == \A f \in Features, off \in BOOLEAN : Off(f, off) \in 0 .. Jitter
BY FingerAssumption DEF Off

\* The features in a window are finitely many.
LEMMA VisibleFinite ==
    ASSUME NEW o
    PROVE  Visible(o) \subseteq Features /\ IsFiniteSet(Visible(o)) /\ Cardinality(Visible(o)) \in Nat
<1>1. Visible(o) \in SUBSET Features
  BY DEF Visible
<1> QED BY <1>1, FingerAssumption, FS_Subset, FS_CardinalityType

\* A view shows the features in its window.
LEMMA ViewShows ==
    ASSUME NEW o \in Offsets, NEW off \in BOOLEAN
    PROVE  /\ Shows(View(o, off), Visible(o), o, 0, Jitter)
           /\ Len(View(o, off)) = Cardinality(Visible(o))
<1> DEFINE S == Visible(o)
           fs == InOrder(S)
           v == View(o, off)
<1>1. /\ S \in SUBSET Int /\ S \subseteq Features /\ IsFiniteSet(S) /\ Cardinality(S) \in Nat
      /\ o \in [x : Int, y : Int]
  <2>1. S \subseteq Features /\ IsFiniteSet(S) /\ Cardinality(S) \in Nat
    BY VisibleFinite
  <2>2. Features \subseteq Nat /\ Offsets \subseteq [x : Int, y : Int]
    BY FingerAssumption
  <2> HIDE DEF S
  <2> QED BY <2>1, <2>2
<1>2. /\ DOMAIN fs = 1 .. Cardinality(S) /\ \A i \in DOMAIN fs : fs[i] \in S
      /\ \A n \in S : \E i \in DOMAIN fs : fs[i] = n
      /\ \A i, j \in DOMAIN fs : fs[i] = fs[j] => i = j
  <2> HIDE DEF S
  <2> QED BY <1>1, InOrderIsEnumeration
<1>3. v = [i \in DOMAIN fs |-> [x |-> Place[fs[i]].x - o.x + Off(fs[i], off),
                                y |-> Place[fs[i]].y - o.y,
                                desc |-> Desc[fs[i]], feat |-> fs[i]]]
  BY DEF View
<1> HIDE DEF fs, v, S
<1>4. DOMAIN v = 1 .. Cardinality(S)
  BY <1>2, <1>3
<1>5. ASSUME NEW i \in DOMAIN v
      PROVE  /\ v[i] \in Point /\ v[i].feat = fs[i] /\ v[i].desc = Desc[fs[i]]
             /\ v[i].x - (Place[fs[i]].x - o.x) \in 0 .. 0 + Jitter
             /\ v[i].y = Place[fs[i]].y - o.y
  <2>1. fs[i] \in Features /\ v[i] = [x |-> Place[fs[i]].x - o.x + Off(fs[i], off),
                                y |-> Place[fs[i]].y - o.y,
                                desc |-> Desc[fs[i]], feat |-> fs[i]]
    BY <1>1, <1>2, <1>3, <1>4
  <2>2. /\ Place[fs[i]].x \in Int /\ Place[fs[i]].y \in Int /\ Desc[fs[i]] \in Int
        /\ o.x \in Int /\ o.y \in Int /\ Off(fs[i], off) \in 0 .. Jitter /\ Jitter \in Nat
    BY <2>1, <1>1, FingerAssumption, OffRange
  <2>3. /\ v[i].x = Place[fs[i]].x - o.x + Off(fs[i], off) /\ v[i].y = Place[fs[i]].y - o.y
        /\ v[i].desc = Desc[fs[i]] /\ v[i].feat = fs[i]
    BY <2>1
  <2>4. v[i] \in Point
    BY <2>1, <2>2 DEF Point
  <2> QED BY <2>2, <2>3, <2>4
<1>6. v \in Seq(Point) /\ Len(v) = Cardinality(S)
  <2>1. v \in [1 .. Cardinality(S) -> Point]
    BY <1>3, <1>4, <1>5
  <2> QED BY <2>1, <1>1
<1>7. Shows(v, S, o, 0, Jitter)
  <2>1. \A f \in S : \E i \in DOMAIN v : v[i].feat = f
    BY <1>2, <1>4, <1>5
  <2>2. \A i, j \in DOMAIN v : v[i].feat = v[j].feat => i = j
    BY <1>2, <1>4, <1>5
  <2>3. \A i \in DOMAIN v :
           /\ v[i].feat \in S /\ v[i].desc = Desc[v[i].feat]
           /\ v[i].x - (Place[v[i].feat].x - o.x) \in 0 .. 0 + Jitter
           /\ v[i].y = Place[v[i].feat].y - o.y
    BY <1>2, <1>4, <1>5
  <2> QED BY <2>1, <2>2, <2>3, <1>1, <1>6, FingerAssumption DEF Shows
<1> QED BY <1>6, <1>7 DEF v, S

\* What is shown of a view, or of the island.
LEMMA ShownOfShows ==
    ASSUME NEW A, NEW S, NEW at, NEW lo, NEW w, Shows(A, S, at, lo, w)
    PROVE  Shown(A) = S
BY DEF Shows, Shown, Points

-----------------------------------------------------------------------------
\* Which pairs vote alike.

\* A and B show features each, and their errors together span no more than Slack.
Facing(A, S, at, lo, w, B, T, o, l, z) ==
    /\ Shows(A, S, at, lo, w) /\ Shows(B, T, o, l, z)
    /\ w + z <= Slack /\ Slack \in Nat

\* The features that a pair of points shows.
Named(A, B, p) == <<A[p[1]].feat, B[p[2]].feat>>

TruePair(A, B, p) == A[p[1]].feat = B[p[2]].feat

\* A pair votes for how far its features lie apart in the two windows, up to its errors;
\* one of different features is a confusion.
LEMMA PairFacts ==
    ASSUME NEW A, NEW S, NEW at, NEW lo, NEW w, NEW B, NEW T, NEW o, NEW l, NEW z,
           Facing(A, S, at, lo, w, B, T, o, l, z), NEW p \in Pairs(A, B)
    PROVE  /\ p = <<p[1], p[2]>> /\ p[1] \in DOMAIN A /\ p[2] \in DOMAIN B
           /\ A[p[1]].feat \in S /\ B[p[2]].feat \in T
           /\ Apart(Named(A, B, p)) \in [x : Int, y : Int] /\ Vote(A, B, p) \in [x : Int, y : Int]
           /\ Vote(A, B, p).x - (Apart(Named(A, B, p)).x - (o.x - at.x)) \in l - (lo + w) .. l + z - lo
           /\ Vote(A, B, p).y = Apart(Named(A, B, p)).y - (o.y - at.y)
           /\ TruePair(A, B, p) => Apart(Named(A, B, p)) = [x |-> 0, y |-> 0]
           /\ ~TruePair(A, B, p) => Named(A, B, p) \in Confused(S, T)
<1> DEFINE f == A[p[1]].feat
           g == B[p[2]].feat
           a == A[p[1]]
           b == B[p[2]]
<1>1. p = <<p[1], p[2]>> /\ p[1] \in DOMAIN A /\ p[2] \in DOMAIN B
  BY DEF Pairs
<1>2. /\ f \in S /\ g \in T /\ S \subseteq Features /\ T \subseteq Features
      /\ a \in Point /\ b \in Point
      /\ a.x - (Place[f].x - at.x) \in lo .. lo + w /\ a.y = Place[f].y - at.y
      /\ b.x - (Place[g].x - o.x) \in l .. l + z /\ b.y = Place[g].y - o.y
      /\ lo \in Int /\ w \in Nat /\ l \in Int /\ z \in Nat
      /\ at \in [x : Int, y : Int] /\ o \in [x : Int, y : Int]
  <2>1. Shows(A, S, at, lo, w) /\ Shows(B, T, o, l, z)
    BY DEF Facing
  <2>2. /\ f \in S /\ S \subseteq Features /\ A \in Seq(Point) /\ at \in [x : Int, y : Int]
        /\ a.x - (Place[f].x - at.x) \in lo .. lo + w /\ a.y = Place[f].y - at.y
        /\ lo \in Int /\ w \in Nat
    BY <1>1, <2>1 DEF Shows
  <2>3. /\ g \in T /\ T \subseteq Features /\ B \in Seq(Point) /\ o \in [x : Int, y : Int]
        /\ b.x - (Place[g].x - o.x) \in l .. l + z /\ b.y = Place[g].y - o.y
        /\ l \in Int /\ z \in Nat
    BY <1>1, <2>1 DEF Shows
  <2>4. a \in Point /\ b \in Point
    BY <1>1, <2>2, <2>3
  <2> QED BY <2>2, <2>3, <2>4
<1>3. /\ Place[f].x \in Int /\ Place[f].y \in Int /\ Place[g].x \in Int /\ Place[g].y \in Int
      /\ a.x \in Int /\ a.y \in Int /\ b.x \in Int /\ b.y \in Int
      /\ at.x \in Int /\ at.y \in Int /\ o.x \in Int /\ o.y \in Int
  BY <1>2, FingerAssumption DEF Point
<1>4. Apart(Named(A, B, p)) = [x |-> Place[g].x - Place[f].x, y |-> Place[g].y - Place[f].y]
  BY DEF Apart, Named
<1>5. Vote(A, B, p) = [x |-> b.x - a.x, y |-> b.y - a.y]
  BY DEF Vote
<1>6. ~TruePair(A, B, p) => Named(A, B, p) \in Confused(S, T)
  <2> SUFFICES ASSUME f # g
               PROVE  <<f, g>> \in Confused(S, T)
    BY DEF TruePair, Named
  <2>1. ASSUME NEW h \in T \ {g}
        PROVE  RatioDen * Square(Desc[f] - Desc[g]) < RatioNum * Square(Desc[f] - Desc[h])
    <3>1. PICK k \in DOMAIN B : B[k].feat = h
      BY DEF Facing, Shows
    <3>2. k # p[2] /\ B[k].desc = Desc[h] /\ a.desc = Desc[f] /\ b.desc = Desc[g]
      BY <3>1, <1>1 DEF Facing, Shows
    <3>3. RatioDen * desc_dist2(a, b) < RatioNum * desc_dist2(a, B[k])
      BY <3>2, <1>1 DEF Pairs
    <3> QED BY <3>2, <3>3 DEF desc_dist2
  <2> QED BY <2>1, <1>2 DEF Confused
<1> HIDE DEF a, b
<1>7. /\ Vote(A, B, p).x - (Apart(Named(A, B, p)).x - (o.x - at.x)) \in l - (lo + w) .. l + z - lo
      /\ Vote(A, B, p).y = Apart(Named(A, B, p)).y - (o.y - at.y)
      /\ Apart(Named(A, B, p)) \in [x : Int, y : Int] /\ Vote(A, B, p) \in [x : Int, y : Int]
  <2>1. /\ Apart(Named(A, B, p)).x = Place[g].x - Place[f].x
        /\ Apart(Named(A, B, p)).y = Place[g].y - Place[f].y
        /\ Vote(A, B, p).x = b.x - a.x /\ Vote(A, B, p).y = b.y - a.y
        /\ Apart(Named(A, B, p)) \in [x : Int, y : Int] /\ Vote(A, B, p) \in [x : Int, y : Int]
    BY <1>3, <1>4, <1>5
  <2> HIDE DEF f, g
  <2> QED BY <2>1, <1>2, <1>3
<1>8. TruePair(A, B, p) => Apart(Named(A, B, p)) = [x |-> 0, y |-> 0]
  BY <1>3, <1>4 DEF TruePair
<1> QED BY <1>1, <1>2, <1>6, <1>7, <1>8

\* Pairs that vote alike lie alike on the finger; two true pairs vote alike.
LEMMA AgreeingPairs ==
    ASSUME NEW A, NEW S, NEW at, NEW lo, NEW w, NEW B, NEW T, NEW o, NEW l, NEW z,
           Facing(A, S, at, lo, w, B, T, o, l, z), NEW p \in Pairs(A, B), NEW c \in Pairs(A, B)
    PROVE  /\ p \in Agreeing(A, B, c) =>
                 Alike(Apart(Named(A, B, c)), Apart(Named(A, B, p)))
           /\ TruePair(A, B, p) /\ TruePair(A, B, c) /\ Slack <= GeoTol => p \in Agreeing(A, B, c)
<1> DEFINE P == Apart(Named(A, B, p))
           C == Apart(Named(A, B, c))
           u == Vote(A, B, p)
           v == Vote(A, B, c)
           dx == o.x - at.x
           dy == o.y - at.y
<1>1. /\ P.x \in Int /\ P.y \in Int /\ u.x \in Int /\ u.y \in Int
      /\ C.x \in Int /\ C.y \in Int /\ v.x \in Int /\ v.y \in Int
      /\ u.x - (P.x - dx) \in l - (lo + w) .. l + z - lo /\ u.y = P.y - dy
      /\ v.x - (C.x - dx) \in l - (lo + w) .. l + z - lo /\ v.y = C.y - dy
      /\ TruePair(A, B, p) => P = [x |-> 0, y |-> 0]
      /\ TruePair(A, B, c) => C = [x |-> 0, y |-> 0]
  BY PairFacts
<1>2. /\ at.x \in Int /\ at.y \in Int /\ o.x \in Int /\ o.y \in Int
      /\ l \in Int /\ z \in Nat /\ lo \in Int /\ w \in Nat /\ Slack \in Nat /\ w + z <= Slack
      /\ GeoTol \in Nat
  BY MatchingAssumption DEF Facing, Shows
<1>3. p \in Agreeing(A, B, c) <=> Square(u.x - v.x) + Square(u.y - v.y) <= Square(GeoTol)
  BY DEF Agreeing, Cluster, Dist2
<1> HIDE DEF P, C, u, v
<1>4. (u.x - v.x) - (P.x - C.x) \in -Slack .. Slack /\ u.y - v.y = P.y - C.y
  BY <1>1, <1>2
<1>5. ASSUME p \in Agreeing(A, B, c) PROVE Alike(C, P)
  <2>1. u.x - v.x \in -GeoTol .. GeoTol /\ u.y - v.y \in -GeoTol .. GeoTol
    <3>1. u.x - v.x \in Int /\ u.y - v.y \in Int
      BY <1>1
    <3> QED BY <3>1, <1>2, <1>3, <1>5, WithinEachAxis
  <2> QED BY <2>1, <1>1, <1>2, <1>4 DEF Alike
<1>6. ASSUME TruePair(A, B, p), TruePair(A, B, c), Slack <= GeoTol PROVE p \in Agreeing(A, B, c)
  <2>1. P.x = 0 /\ P.y = 0 /\ C.x = 0 /\ C.y = 0
    BY <1>1, <1>6
  <2>2. u.x - v.x \in -GeoTol .. GeoTol /\ u.y - v.y = 0
    BY <2>1, <1>1, <1>2, <1>4, <1>6
  <2>3. Square(u.x - v.x) + Square(0) <= Square(GeoTol)
    <3>1. u.x - v.x \in Int
      BY <1>1
    <3> QED BY <3>1, <2>2, <1>2, WithinEachAxis
  <2> QED BY <2>2, <2>3, <1>3
<1> QED BY <1>5, <1>6 DEF C, P

Zero == [x |-> 0, y |-> 0]

\* None of these confusions passes for a true pair.
Harmless(C) == \A d \in C : ~Alike(Apart(d), Zero)

\* A pair agrees with true ones only, or with confusions only.
LEMMA ClustersApart ==
    ASSUME NEW A, NEW S, NEW at, NEW lo, NEW w, NEW B, NEW T, NEW o, NEW l, NEW z,
           Facing(A, S, at, lo, w, B, T, o, l, z), Harmless(Confused(S, T)),
           NEW c \in Pairs(A, B), NEW p \in Agreeing(A, B, c)
    PROVE  p \in Pairs(A, B) /\ (TruePair(A, B, p) <=> TruePair(A, B, c))
<1>1. p \in Pairs(A, B)
  BY DEF Agreeing, Cluster
<1> DEFINE P == Apart(Named(A, B, p))
           C == Apart(Named(A, B, c))
<1>2. /\ P \in [x : Int, y : Int] /\ C \in [x : Int, y : Int]
      /\ TruePair(A, B, p) => P = Zero
      /\ TruePair(A, B, c) => C = Zero
      /\ ~TruePair(A, B, p) => ~Alike(P, Zero)
      /\ ~TruePair(A, B, c) => ~Alike(C, Zero)
  BY <1>1, PairFacts DEF Zero, Harmless
<1>3. Alike(C, P)
  BY <1>1, AgreeingPairs
<1> HIDE DEF P, C
<1>4. Alike(P, C)
  <2>1. GeoTol \in Nat /\ Slack \in Nat
    BY MatchingAssumption DEF Facing
  <2>2. P.x \in Int /\ P.y \in Int /\ C.x \in Int /\ C.y \in Int
    BY <1>2
  <2> QED BY <2>1, <2>2, <1>3 DEF Alike
<1> QED BY <1>1, <1>2, <1>3, <1>4

\* What a view of fewer features is confused about, one of more is.
LEMMA ConfusedGrows ==
    ASSUME NEW S, NEW U, S \subseteq U, NEW T
    PROVE  Confused(S, T) \subseteq Confused(U, T)
BY DEF Confused

\* A confusion has no more votes than accomplices.
LEMMA ConfusedVotes ==
    ASSUME NEW A, NEW S, NEW at, NEW lo, NEW w, NEW B, NEW T, NEW o, NEW l, NEW z,
           Facing(A, S, at, lo, w, B, T, o, l, z), NEW U \in SUBSET Features, S \subseteq U,
           Harmless(Confused(U, T)), NEW c \in Pairs(A, B), ~TruePair(A, B, c)
    PROVE  LET C == Confused(U, T)
               d == Named(A, B, c)
           IN  /\ d \in C /\ Cardinality(Accomplices(C, d)) \in Nat
               /\ Votes(A, B, c) <= Cardinality(Accomplices(C, d))
<1> DEFINE C == Confused(U, T)
           d == Named(A, B, c)
           f == [p \in Agreeing(A, B, c) |-> Named(A, B, p)]
<1>1. Confused(S, T) \subseteq C
  BY ConfusedGrows
<1>2. Harmless(Confused(S, T))
  BY <1>1 DEF Harmless
<1>3. d \in C
  BY <1>1, PairFacts
<1>4. ASSUME NEW p \in Agreeing(A, B, c)
      PROVE  Named(A, B, p) \in Accomplices(C, d)
  <2>1. p \in Pairs(A, B) /\ ~TruePair(A, B, p)
    BY <1>2, ClustersApart
  <2>2. Named(A, B, p) \in C
    BY <2>1, <1>1, PairFacts
  <2>3. Alike(Apart(d), Apart(Named(A, B, p)))
    BY <2>1, AgreeingPairs
  <2> QED BY <2>2, <2>3 DEF Accomplices
<1>5. ASSUME NEW p \in Agreeing(A, B, c), NEW q \in Agreeing(A, B, c),
             Named(A, B, p) = Named(A, B, q)
      PROVE  p = q
  <2>1. p \in Pairs(A, B) /\ q \in Pairs(A, B)
    BY DEF Agreeing, Cluster
  <2>2. A[p[1]].feat = A[q[1]].feat /\ B[p[2]].feat = B[q[2]].feat
    BY <1>5 DEF Named
  <2>3. /\ p = <<p[1], p[2]>> /\ p[1] \in DOMAIN A /\ p[2] \in DOMAIN B
        /\ q = <<q[1], q[2]>> /\ q[1] \in DOMAIN A /\ q[2] \in DOMAIN B
    BY <2>1, PairFacts
  <2>4. p[1] = q[1] /\ p[2] = q[2]
    BY <2>2, <2>3 DEF Facing, Shows
  <2> QED BY <2>3, <2>4
<1>6. IsFiniteSet(Accomplices(C, d))
  <2>1. T \subseteq Features
    BY DEF Facing, Shows
  <2>2. IsFiniteSet(Features \X Features)
    BY FingerAssumption, FS_Product
  <2>3. Accomplices(C, d) \in SUBSET (Features \X Features)
    BY <2>1 DEF Accomplices, Confused
  <2> QED BY <2>2, <2>3, FS_Subset
<1> HIDE DEF C, d
<1>7. f \in [Agreeing(A, B, c) -> Accomplices(C, d)] /\ \A p, q \in Agreeing(A, B, c) : f[p] = f[q] => p = q
  BY <1>4, <1>5
<1> HIDE DEF f
<1>8. /\ Cardinality(Accomplices(C, d)) \in Nat
      /\ Cardinality(Agreeing(A, B, c)) <= Cardinality(Accomplices(C, d))
  BY <1>6, <1>7, NoLarger
<1> QED BY <1>3, <1>8 DEF Votes, C, d

\* A true pair has no more votes than features shared.
LEMMA TrueVotes ==
    ASSUME NEW A, NEW S, NEW at, NEW lo, NEW w, NEW B, NEW T, NEW o, NEW l, NEW z,
           Facing(A, S, at, lo, w, B, T, o, l, z), Harmless(Confused(S, T)),
           NEW c \in Pairs(A, B), TruePair(A, B, c)
    PROVE  Cardinality(S \cap T) \in Nat /\ Votes(A, B, c) <= Cardinality(S \cap T)
<1> DEFINE f == [p \in Agreeing(A, B, c) |-> A[p[1]].feat]
<1>1. ASSUME NEW p \in Agreeing(A, B, c)
      PROVE  p \in Pairs(A, B) /\ TruePair(A, B, p) /\ A[p[1]].feat \in S \cap T
  <2>1. p \in Pairs(A, B) /\ TruePair(A, B, p)
    BY ClustersApart
  <2> QED BY <2>1, PairFacts DEF TruePair
<1>2. ASSUME NEW p \in Agreeing(A, B, c), NEW q \in Agreeing(A, B, c),
             A[p[1]].feat = A[q[1]].feat
      PROVE  p = q
  <2>1. B[p[2]].feat = B[q[2]].feat
    BY <1>1, <1>2 DEF TruePair
  <2>2. /\ p = <<p[1], p[2]>> /\ p[1] \in DOMAIN A /\ p[2] \in DOMAIN B
        /\ q = <<q[1], q[2]>> /\ q[1] \in DOMAIN A /\ q[2] \in DOMAIN B
    BY <1>1, PairFacts
  <2>3. p[1] = q[1] /\ p[2] = q[2]
    BY <2>1, <2>2, <1>2 DEF Facing, Shows
  <2> QED BY <2>2, <2>3
<1>3. IsFiniteSet(S \cap T)
  <2>1. S \cap T \in SUBSET Features
    BY DEF Facing, Shows
  <2> QED BY <2>1, FingerAssumption, FS_Subset
<1>4. f \in [Agreeing(A, B, c) -> S \cap T] /\ \A p, q \in Agreeing(A, B, c) : f[p] = f[q] => p = q
  BY <1>1, <1>2
<1> HIDE DEF f
<1> QED BY <1>3, <1>4, NoLarger DEF Votes

\* The ratio test keeps the pair of a feature that nothing looks like.
LEMMA SurePairs ==
    ASSUME NEW A, NEW S, NEW at, NEW lo, NEW w, NEW B, NEW T, NEW o, NEW l, NEW z,
           Facing(A, S, at, lo, w, B, T, o, l, z), NEW f \in Sure(S, T)
    PROVE  \E p \in Pairs(A, B) : TruePair(A, B, p) /\ A[p[1]].feat = f
<1>1. f \in S /\ f \in T /\ \A g \in T \ {f} : Desc[g] # Desc[f]
  BY DEF Sure
<1>2. PICK i \in DOMAIN A : A[i].feat = f
  <2>1. \A g \in S : \E i \in DOMAIN A : A[i].feat = g
    BY DEF Facing, Shows
  <2> QED BY <2>1, <1>1
<1>3. PICK j \in DOMAIN B : B[j].feat = f
  <2>1. \A g \in T : \E j \in DOMAIN B : B[j].feat = g
    BY DEF Facing, Shows
  <2> QED BY <2>1, <1>1
<1>4. ASSUME NEW k \in (DOMAIN B) \ {j}
      PROVE  RatioDen * desc_dist2(A[i], B[j]) < RatioNum * desc_dist2(A[i], B[k])
  <2> DEFINE d == Desc[f] - Desc[B[k].feat]
  <2>1. /\ B[k].feat \in T \ {f} /\ B[k].feat \in Features /\ f \in Features
        /\ B[k].desc = Desc[B[k].feat] /\ A[i].desc = Desc[f] /\ B[j].desc = Desc[f]
    <3>1. A[i].desc = Desc[f]
      BY <1>2 DEF Facing, Shows
    <3>2. B[j].desc = Desc[f] /\ B[k].desc = Desc[B[k].feat] /\ B[k].feat \in T
      BY <1>3 DEF Facing, Shows
    <3>3. B[k].feat # f
      BY <1>3 DEF Facing, Shows
    <3>4. T \subseteq Features
      BY DEF Facing, Shows
    <3> QED BY <3>1, <3>2, <3>3, <3>4, <1>1
  <2>2. Desc[f] \in Int /\ Desc[B[k].feat] \in Int /\ Desc[B[k].feat] # Desc[f]
    BY <2>1, <1>1, FingerAssumption
  <2>3. d \in Int /\ d # 0 /\ Desc[f] - Desc[f] = 0
    BY <2>2
  <2>4. desc_dist2(A[i], B[j]) = 0 * 0 /\ desc_dist2(A[i], B[k]) = d * d
    BY <2>1, <2>3 DEF desc_dist2, Square
  <2> HIDE DEF d
  <2>5. d * d >= 1 /\ d * d \in Int
    <3>1. CASE d > 0
      BY <3>1, <2>3
    <3>2. CASE d < 0
      <4>1. (-d) * (-d) >= 1 /\ (-d) * (-d) = d * d
        BY <3>2, <2>3
      <4> QED BY <4>1, <2>3
    <3> QED BY <3>1, <3>2, <2>3
  <2>6. RatioDen * (0 * 0) = 0 /\ RatioNum * (d * d) >= 1
    <3> DEFINE e == d * d
    <3>1. e \in Int /\ e >= 1 /\ RatioNum \in Int /\ RatioNum >= 1 /\ RatioDen \in Int
      BY <2>5, MatchingAssumption
    <3> HIDE DEF e
    <3>2. RatioNum * e >= 1
      BY <3>1
    <3> QED BY <3>1, <3>2 DEF e
  <2>7. RatioNum * (d * d) \in Int
    BY <2>5, MatchingAssumption
  <2> QED BY <2>4, <2>6, <2>7
<1>5. <<i, j>> \in Pairs(A, B)
  BY <1>4 DEF Pairs
<1> QED BY <1>2, <1>3, <1>5 DEF TruePair

-----------------------------------------------------------------------------
\* Merging the points of a view into the island.

\* A wider range of errors allows as much.
LEMMA ShowsWider ==
    ASSUME NEW A, NEW S, NEW at, NEW lo, NEW w, Shows(A, S, at, lo, w),
           NEW l \in Int, NEW z \in Nat, l <= lo, lo + w <= l + z
    PROVE  Shows(A, S, at, l, z)
<1>1. lo \in Int /\ w \in Nat /\ lo .. lo + w \subseteq l .. l + z
  BY DEF Shows
<1> QED BY <1>1 DEF Shows

\* A number that 16 bits hold is stored as it is.
LEMMA Int16Holds == \A n \in Int : -32768 <= n /\ n <= 32767 => Int16(n) = n
BY DEF Int16

\* A view that is moved shows the same features in the frame it is moved to: the
\* 16 bits of a position hold them.
LEMMA MovedShows ==
    ASSUME Legible, NEW o, NEW at \in Offsets, NEW T, NEW src, Shows(src, T, o, 0, Jitter),
           NEW s \in Int, NEW l \in Int, NEW z \in Nat,
           l <= s, s + Jitter <= l + z, -Slack <= l, l + z <= Slack, Slack \in Nat,
           NEW t \in [x : Int, y : Int], t.x = o.x - at.x + s, t.y = o.y - at.y
    PROVE  Shows([i \in DOMAIN src |-> Shifted(src[i], t)], T, at, l, z)
<1> DEFINE qs == [i \in DOMAIN src |-> Shifted(src[i], t)]
<1>0. o \in [x : Int, y : Int] /\ at \in [x : Int, y : Int] /\ Jitter \in Nat
  BY FingerAssumption DEF Shows
<1>1. ASSUME NEW i \in DOMAIN src
      PROVE  /\ qs[i] \in Point /\ qs[i].feat = src[i].feat /\ qs[i].desc = src[i].desc
             /\ qs[i].x - (Place[src[i].feat].x - at.x) \in l .. l + z
             /\ qs[i].y = Place[src[i].feat].y - at.y
  <2>1. PICK p, f : p = src[i] /\ f = src[i].feat
    OBVIOUS
  <2>3. /\ p \in Point /\ f \in Features /\ p.feat = f /\ p.y = Place[f].y - o.y
    BY <2>1 DEF Shows
  <2>4. /\ Place[f].x \in Int /\ Place[f].y \in Int /\ o.x \in Int /\ o.y \in Int
        /\ at.x \in Int /\ at.y \in Int /\ t.x \in Int /\ t.y \in Int /\ p.x \in Int /\ p.y \in Int
    BY <2>3, <1>0, FingerAssumption DEF Point
  <2>2. PICK e \in Int : e = p.x - (Place[f].x - o.x) /\ 0 <= e /\ e <= Jitter
    <3>1. p.x - (Place[f].x - o.x) \in 0 .. 0 + Jitter
      BY <2>1 DEF Shows
    <3> QED BY <3>1, <2>4, <1>0
  <2>5. /\ Slack - 32768 <= Place[f].x - at.x /\ Place[f].x - at.x <= 32767 - Slack
        /\ -32768 <= Place[f].y - at.y /\ Place[f].y - at.y <= 32767
    BY <2>3 DEF Legible, InFrame
  <2>6. p.x + t.x = (Place[f].x - at.x) + (e + s) /\ p.y + t.y = Place[f].y - at.y
    BY <2>2, <2>3, <2>4
  <2>7. e + s \in l .. l + z /\ -Slack <= e + s /\ e + s <= Slack
    BY <2>2, <1>0
  <2>8. Int16(p.x + t.x) = p.x + t.x /\ Int16(p.y + t.y) = p.y + t.y
    <3>1. -32768 <= p.x + t.x /\ p.x + t.x <= 32767
      BY <2>2, <2>4, <2>5, <2>6, <2>7
    <3>2. -32768 <= p.y + t.y /\ p.y + t.y <= 32767
      BY <2>5, <2>6
    <3> QED BY <3>1, <3>2, <2>4, Int16Holds
  <2>9. qs[i] = [p EXCEPT !.x = p.x + t.x, !.y = p.y + t.y]
    BY <2>1, <2>8 DEF Shifted
  <2>10. /\ qs[i].x = p.x + t.x /\ qs[i].y = p.y + t.y /\ qs[i].desc = p.desc /\ qs[i].feat = f
         /\ qs[i] \in Point
    <3>1. p \in [x : Int, y : Int, desc : Int, feat : Features] /\ p.x + t.x \in Int /\ p.y + t.y \in Int
      BY <2>3, <2>4 DEF Point
    <3> HIDE DEF qs
    <3> QED BY <3>1, <2>3, <2>9 DEF Point
  <2> HIDE DEF qs
  <2>11. qs[i].x - (Place[f].x - at.x) = e + s
    BY <2>2, <2>4, <2>6, <2>10
  <2> QED BY <2>1, <2>6, <2>7, <2>10, <2>11
<1>2. DOMAIN qs = DOMAIN src /\ qs \in Seq(Point)
  <2>1. DOMAIN src = 1 .. Len(src) /\ Len(src) \in Nat
    BY DEF Shows
  <2>2. qs \in [1 .. Len(src) -> Point]
    BY <1>1, <2>1
  <2> QED BY <2>1, <2>2
<1> HIDE DEF qs
<1>3. \A i \in DOMAIN qs :
          /\ qs[i].feat \in T /\ qs[i].desc = Desc[qs[i].feat]
          /\ qs[i].x - (Place[qs[i].feat].x - at.x) \in l .. l + z
          /\ qs[i].y = Place[qs[i].feat].y - at.y
  BY <1>1, <1>2 DEF Shows
<1>4. /\ \A f \in T : \E i \in DOMAIN qs : qs[i].feat = f
      /\ \A i, j \in DOMAIN qs : qs[i].feat = qs[j].feat => i = j
  <2>1. DOMAIN qs = DOMAIN src /\ \A i \in DOMAIN src : qs[i].feat = src[i].feat
    BY <1>1, <1>2
  <2>2. \A f \in T : \E i \in DOMAIN src : src[i].feat = f
    BY DEF Shows
  <2>3. \A i, j \in DOMAIN src : src[i].feat = src[j].feat => i = j
    BY DEF Shows
  <2>4. \A f \in T : \E i \in DOMAIN qs : qs[i].feat = f
    BY <2>1, <2>2
  <2> QED BY <2>1, <2>3, <2>4
<1>5. T \subseteq Features
  BY DEF Shows
<1> QED BY <1>0, <1>2, <1>3, <1>4, <1>5 DEF Shows, qs

\* Deduplication tells features apart.
LEMMA DuplicatesAreSightings ==
    ASSUME Legible, NEW A, NEW S, NEW B, NEW T, NEW at, NEW l, NEW z,
           Shows(A, S, at, l, z), Shows(B, T, at, l, z), z <= Slack, Slack \in Nat,
           NEW i \in DOMAIN A, NEW j \in DOMAIN B
    PROVE  Duplicates(A[i], B[j]) <=> A[i].feat = B[j].feat
<1> DEFINE a == A[i]
           b == B[j]
           f == A[i].feat
           g == B[j].feat
<1>1. /\ a \in Point /\ b \in Point /\ f \in Features /\ g \in Features
      /\ a.x - (Place[f].x - at.x) \in l .. l + z /\ a.y = Place[f].y - at.y
      /\ b.x - (Place[g].x - at.x) \in l .. l + z /\ b.y = Place[g].y - at.y
      /\ l \in Int /\ z \in Nat /\ at \in [x : Int, y : Int]
  BY DEF Shows
<1>2. /\ Place[f].x \in Int /\ Place[f].y \in Int /\ Place[g].x \in Int /\ Place[g].y \in Int
      /\ a.x \in Int /\ a.y \in Int /\ b.x \in Int /\ b.y \in Int /\ at.x \in Int /\ at.y \in Int
      /\ MergeDedup \in Nat
  BY <1>1, FingerAssumption, IslandAssumption DEF Point
<1>3. Duplicates(a, b) <=> Square(a.x - b.x) + Square(a.y - b.y) <= Square(MergeDedup)
  BY DEF Duplicates, Dist2
<1>4. Slack <= MergeDedup
  BY DEF Legible, Steady
<1>5. /\ f # g => \/ Place[f].x - Place[g].x \notin -(MergeDedup + Slack) .. MergeDedup + Slack
                  \/ Place[f].y - Place[g].y \notin -MergeDedup .. MergeDedup
  BY <1>1 DEF Legible, FeaturesApart
<1> HIDE DEF a, b
<1>6. (a.x - b.x) - (Place[f].x - Place[g].x) \in -Slack .. Slack /\ a.y - b.y = Place[f].y - Place[g].y
  BY <1>1, <1>2
<1>7. a.x - b.x \in Int /\ a.y - b.y \in Int
  BY <1>2
<1>8. ASSUME Duplicates(a, b) PROVE f = g
  <2>1. a.x - b.x \in -MergeDedup .. MergeDedup /\ a.y - b.y \in -MergeDedup .. MergeDedup
    BY <1>2, <1>3, <1>7, <1>8, WithinEachAxis
  <2> QED BY <2>1, <1>2, <1>5, <1>6
<1>9. ASSUME f = g PROVE Duplicates(a, b)
  <2>1. a.x - b.x \in -MergeDedup .. MergeDedup /\ a.y - b.y = 0
    BY <1>2, <1>4, <1>6, <1>9
  <2>2. Square(a.x - b.x) + Square(0) <= Square(MergeDedup)
    BY <2>1, <1>2, <1>7, WithinEachAxis
  <2> QED BY <2>1, <2>2, <1>3
<1> QED BY <1>8, <1>9 DEF a, b

\* Of points that do not duplicate each other, those stay that duplicate none before.
LEMMA FreshOfDistinct ==
    ASSUME NEW dst, NEW qs \in Seq(Point),
           \A i, j \in DOMAIN qs : i # j => ~Duplicates(qs[i], qs[j])
    PROVE  Fresh(dst, qs) = {i \in DOMAIN qs : \A k \in DOMAIN dst : ~Duplicates(dst[k], qs[i])}
<1> DEFINE Old(f, i) == /\ \A k \in DOMAIN dst : ~Duplicates(dst[k], qs[i])
                        /\ \A j \in 1 .. i - 1 : f[j] => ~Duplicates(qs[j], qs[i])
           new == [i \in DOMAIN qs |-> \A k \in DOMAIN dst : ~Duplicates(dst[k], qs[i])]
           fresh == CHOOSE f : f = [i \in DOMAIN qs |-> Old(f, i)]
<1>1. \A i \in DOMAIN qs : i \in Nat /\ \A j \in 1 .. i - 1 : j \in DOMAIN qs /\ j # i
  OBVIOUS
<1>2. \A f : \A i \in DOMAIN qs : Old(f, i) <=> \A k \in DOMAIN dst : ~Duplicates(dst[k], qs[i])
  BY <1>1
<1>3. new = [i \in DOMAIN qs |-> Old(new, i)]
  BY <1>2
<1>4. fresh = [i \in DOMAIN qs |-> Old(fresh, i)]
  <2> HIDE DEF new, Old
  <2> QED BY <1>3
<1>5. Fresh(dst, qs) = {i \in DOMAIN qs : fresh[i]}
  BY DEF Fresh
<1> HIDE DEF fresh
<1>6. \A i \in DOMAIN qs : fresh[i] <=> \A k \in DOMAIN dst : ~Duplicates(dst[k], qs[i])
  BY <1>2, <1>4
<1> QED BY <1>5, <1>6

\* What is appended shows what was not shown yet.
LEMMA AppendedShows ==
    ASSUME NEW A, NEW S, NEW B, NEW T, NEW at, NEW l, NEW z,
           Shows(A, S, at, l, z), Shows(B, T, at, l, z), S \cap T = {}
    PROVE  Shows(A \o B, S \cup T, at, l, z)
<1> DEFINE C == A \o B
<1>1. /\ A \in Seq(Point) /\ B \in Seq(Point) /\ C \in Seq(Point)
      /\ Len(A) \in Nat /\ Len(B) \in Nat /\ Len(C) = Len(A) + Len(B)
      /\ DOMAIN A = 1 .. Len(A) /\ DOMAIN B = 1 .. Len(B) /\ DOMAIN C = 1 .. Len(A) + Len(B)
      /\ \A i \in DOMAIN A : i \in DOMAIN C /\ C[i] = A[i]
      /\ \A i \in DOMAIN B : i + Len(A) \in DOMAIN C /\ C[i + Len(A)] = B[i]
      /\ \A i \in DOMAIN C : i \notin DOMAIN A => i - Len(A) \in DOMAIN B /\ C[i] = B[i - Len(A)]
  <2>1. A \in Seq(Point) /\ B \in Seq(Point)
    BY DEF Shows
  <2> QED BY <2>1
<1> HIDE DEF C
<1>2. ASSUME NEW i \in DOMAIN C
      PROVE  \/ i \in DOMAIN A /\ C[i] = A[i] /\ A[i].feat \in S
             \/ i \notin DOMAIN A /\ i - Len(A) \in DOMAIN B /\ C[i] = B[i - Len(A)] /\ B[i - Len(A)].feat \in T
  BY <1>1 DEF Shows
<1>3. ASSUME NEW i \in DOMAIN C
      PROVE  /\ C[i].feat \in S \cup T /\ C[i].desc = Desc[C[i].feat]
             /\ C[i].x - (Place[C[i].feat].x - at.x) \in l .. l + z
             /\ C[i].y = Place[C[i].feat].y - at.y
  <2>1. CASE i \in DOMAIN A /\ C[i] = A[i]
    BY <2>1 DEF Shows
  <2>2. CASE i - Len(A) \in DOMAIN B /\ C[i] = B[i - Len(A)]
    <3> DEFINE j == i - Len(A)
    <3>1. /\ B[j].feat \in T /\ B[j].desc = Desc[B[j].feat]
          /\ B[j].x - (Place[B[j].feat].x - at.x) \in l .. l + z
          /\ B[j].y = Place[B[j].feat].y - at.y
      BY <2>2 DEF Shows
    <3> QED BY <3>1, <2>2
  <2> QED BY <1>2, <2>1, <2>2
<1>4. ASSUME NEW f \in S \cup T PROVE \E i \in DOMAIN C : C[i].feat = f
  <2>1. CASE f \in S
    <3>1. PICK i \in DOMAIN A : A[i].feat = f
      BY <2>1 DEF Shows
    <3>2. i \in DOMAIN C /\ C[i] = A[i]
      BY <1>1
    <3> QED BY <3>1, <3>2
  <2>2. CASE f \in T
    <3>1. PICK i \in DOMAIN B : B[i].feat = f
      BY <2>2 DEF Shows
    <3>2. i + Len(A) \in DOMAIN C /\ C[i + Len(A)] = B[i]
      BY <1>1
    <3> QED BY <3>1, <3>2
  <2> QED BY <2>1, <2>2
<1>5. ASSUME NEW i \in DOMAIN C, NEW j \in DOMAIN C, C[i].feat = C[j].feat PROVE i = j
  <2>1. CASE i \in DOMAIN A /\ j \in DOMAIN A
    BY <2>1, <1>1, <1>5 DEF Shows
  <2>2. CASE i \notin DOMAIN A /\ j \notin DOMAIN A
    <3>1. i - Len(A) = j - Len(A)
      <4>1. \A a, b \in DOMAIN B : B[a].feat = B[b].feat => a = b
        BY DEF Shows
      <4>2. /\ i - Len(A) \in DOMAIN B /\ C[i] = B[i - Len(A)]
            /\ j - Len(A) \in DOMAIN B /\ C[j] = B[j - Len(A)]
        BY <2>2, <1>1
      <4> QED BY <4>1, <4>2, <1>5
    <3>2. i \in Int /\ j \in Int
      BY <1>1
    <3> QED BY <3>1, <3>2, <1>1
  <2>3. ~(i \in DOMAIN A /\ j \notin DOMAIN A) /\ ~(i \notin DOMAIN A /\ j \in DOMAIN A)
    BY <1>2, <1>5
  <2> QED BY <2>1, <2>2, <2>3
<1>6. /\ at \in [x : Int, y : Int] /\ l \in Int /\ z \in Nat
      /\ S \subseteq Features /\ T \subseteq Features
  BY DEF Shows
<1> QED BY <1>1, <1>3, <1>4, <1>5, <1>6 DEF Shows, C

\* Merging two sets of points in one frame leaves one point for each feature.
LEMMA MergedShows ==
    ASSUME Legible, NEW dst, NEW S, NEW src, NEW T, NEW t, NEW at, NEW l, NEW z,
           Shows(dst, S, at, l, z),
           Shows([i \in DOMAIN src |-> Shifted(src[i], t)], T, at, l, z),
           z <= Slack, Slack \in Nat
    PROVE  Shows(Merged(dst, src, t), S \cup T, at, l, z)
<1> DEFINE qs == [i \in DOMAIN src |-> Shifted(src[i], t)]
           F == Fresh(dst, qs)
           new == InOrder(F)
           r == [i \in DOMAIN new |-> qs[new[i]]]
<1>1. Merged(dst, src, t) = dst \o r
  BY DEF Merged
<1>2. qs \in Seq(Point) /\ Shows(qs, T, at, l, z)
  BY DEF Shows
<1> HIDE DEF qs
<1>3. F = {i \in DOMAIN qs : qs[i].feat \notin S}
  <2>1. \A i, j \in DOMAIN qs : i # j => ~Duplicates(qs[i], qs[j])
    <3>1. \A i, j \in DOMAIN qs : Duplicates(qs[i], qs[j]) <=> qs[i].feat = qs[j].feat
      BY <1>2, DuplicatesAreSightings
    <3> QED BY <3>1, <1>2 DEF Shows
  <2>2. F = {i \in DOMAIN qs : \A k \in DOMAIN dst : ~Duplicates(dst[k], qs[i])}
    BY <2>1, <1>2, FreshOfDistinct
  <2>3. \A k \in DOMAIN dst, i \in DOMAIN qs : Duplicates(dst[k], qs[i]) <=> dst[k].feat = qs[i].feat
    BY <1>2, DuplicatesAreSightings
  <2>4. \A i \in DOMAIN qs : qs[i].feat \in S <=> \E k \in DOMAIN dst : dst[k].feat = qs[i].feat
    BY DEF Shows
  <2> QED BY <2>2, <2>3, <2>4
<1> HIDE DEF F
<1>4. F \in SUBSET Int /\ IsFiniteSet(F)
  <2>1. DOMAIN qs = 1 .. Len(qs) /\ Len(qs) \in Int /\ 1 \in Int
    BY <1>2
  <2>2. F \in SUBSET (1 .. Len(qs)) /\ IsFiniteSet(1 .. Len(qs))
    BY <2>1, <1>3, FS_Interval
  <2>3. IsFiniteSet(F)
    BY <2>2, FS_Subset
  <2>4. F \in SUBSET Int
    BY <2>2
  <2> QED BY <2>3, <2>4
<1>5. /\ new \in Seq(F) /\ Len(new) \in Nat /\ DOMAIN new = 1 .. Len(new)
      /\ \A i \in DOMAIN new : new[i] \in F
      /\ \A n \in F : \E i \in DOMAIN new : new[i] = n
      /\ \A i, j \in DOMAIN new : new[i] = new[j] => i = j
  <2>1. /\ new \in Seq(F)
        /\ \A n \in F : \E i \in DOMAIN new : new[i] = n
        /\ \A i, j \in DOMAIN new : new[i] = new[j] => i = j
    BY <1>4, InOrderIsEnumeration
  <2> HIDE DEF new
  <2> QED BY <2>1
<1> HIDE DEF new
<1>6. DOMAIN r = DOMAIN new /\ \A i \in DOMAIN r : new[i] \in F /\ new[i] \in DOMAIN qs /\ r[i] = qs[new[i]]
  BY <1>3, <1>5
<1>7. r \in Seq(Point)
  <2>1. r \in [1 .. Len(new) -> Point]
    BY <1>2, <1>5, <1>6
  <2> QED BY <2>1, <1>5
<1> HIDE DEF r
<1>8. Shows(r, T \ S, at, l, z)
  <2>1. \A i \in DOMAIN r :
          /\ r[i].feat \in T \ S /\ r[i].desc = Desc[r[i].feat]
          /\ r[i].x - (Place[r[i].feat].x - at.x) \in l .. l + z
          /\ r[i].y = Place[r[i].feat].y - at.y
    <3>1. \A j \in DOMAIN qs :
          /\ qs[j].feat \in T /\ qs[j].desc = Desc[qs[j].feat]
          /\ qs[j].x - (Place[qs[j].feat].x - at.x) \in l .. l + z
          /\ qs[j].y = Place[qs[j].feat].y - at.y
      BY <1>2 DEF Shows
    <3>2. \A j \in F : qs[j].feat \notin S
      BY <1>3
    <3> QED BY <3>1, <3>2, <1>6
  <2>2. ASSUME NEW f \in T \ S PROVE \E i \in DOMAIN r : r[i].feat = f
    <3>1. PICK j \in DOMAIN qs : qs[j].feat = f
      BY <1>2 DEF Shows
    <3>2. j \in F
      BY <3>1, <1>3
    <3>3. PICK i \in DOMAIN new : new[i] = j
      BY <3>2, <1>5
    <3> QED BY <3>1, <3>3, <1>6
  <2>3. ASSUME NEW i \in DOMAIN r, NEW j \in DOMAIN r, r[i].feat = r[j].feat PROVE i = j
    <3>1. new[i] = new[j]
      BY <2>3, <1>2, <1>6 DEF Shows
    <3> QED BY <3>1, <1>5, <1>6
  <2>4. at \in [x : Int, y : Int] /\ l \in Int /\ z \in Nat /\ T \ S \subseteq Features
    BY <1>2 DEF Shows
  <2> QED BY <2>1, <2>2, <2>3, <2>4, <1>7 DEF Shows
<1>9. Shows(dst \o r, S \cup (T \ S), at, l, z)
  BY <1>8, AppendedShows
<1>10. S \cup (T \ S) = S \cup T
  OBVIOUS
<1> QED BY <1>1, <1>9, <1>10

\* A finite set of numbers that is not empty has a least and a greatest one.
LEMMA HasExtremes ==
    ASSUME NEW S \in SUBSET Int, IsFiniteSet(S), S # {}
    PROVE  (\E a \in S : \A b \in S : a <= b) /\ (\E a \in S : \A b \in S : a >= b)
<1> DEFINE N == Cardinality(S)
           f == [n \in S |-> Rank(S, n)]
           g == [n \in S |-> N - Rank(S, n)]
<1>1. /\ N \in Nat /\ \A n \in S : n \in Int /\ Rank(S, n) \in 1 .. N
      /\ \A n, k \in S : n < k => Rank(S, n) < Rank(S, k)
  BY RankGrows, FS_CardinalityType
<1> HIDE DEF N
<1>2. f \in [S -> Nat] /\ g \in [S -> Nat]
  BY <1>1
<1>3. \A n \in S : f[n] = Rank(S, n) /\ g[n] = N - Rank(S, n)
  OBVIOUS
<1> HIDE DEF f, g
<1>4. PICK a \in S : \A b \in S : f[a] <= f[b]
  BY <1>2, LeastBy
<1>5. PICK c \in S : \A b \in S : g[c] <= g[b]
  BY <1>2, LeastBy
<1>6. ASSUME NEW b \in S PROVE a <= b
  <2>1. a \in Int /\ b \in Int /\ Rank(S, a) \in Int /\ Rank(S, b) \in Int
    BY <1>1
  <2>2. Rank(S, a) <= Rank(S, b) /\ (b < a => Rank(S, b) < Rank(S, a))
    BY <1>1, <1>3, <1>4
  <2> QED BY <2>1, <2>2
<1>7. ASSUME NEW b \in S PROVE c >= b
  <2>1. c \in Int /\ b \in Int /\ Rank(S, c) \in Int /\ Rank(S, b) \in Int
    BY <1>1
  <2>2. N - Rank(S, c) <= N - Rank(S, b) /\ (c < b => Rank(S, c) < Rank(S, b))
    BY <1>1, <1>3, <1>5
  <2> QED BY <2>1, <2>2, <1>1
<1> QED BY <1>6, <1>7

\* The box of some points holds them, and each of its sides touches one.
LEMMA BoundsHold ==
    ASSUME NEW ps \in Seq(Point), ps # <<>>
    PROVE  LET b == island_bounds(ps)
           IN  /\ \A p \in Points(ps) : p.x \in b.x0 .. b.x1 /\ p.y \in b.y0 .. b.y1
               /\ {b.x0, b.x1} \subseteq {p.x : p \in Points(ps)}
               /\ {b.y0, b.y1} \subseteq {p.y : p \in Points(ps)}
<1> DEFINE Least(S) == CHOOSE a \in S : \A c \in S : a <= c
           Most(S) == CHOOSE a \in S : \A c \in S : a >= c
           xs == {ps[i].x : i \in DOMAIN ps}
           ys == {ps[i].y : i \in DOMAIN ps}
           b == island_bounds(ps)
<1>1. /\ DOMAIN ps = 1 .. Len(ps) /\ Len(ps) \in Int /\ 1 \in Int /\ 1 \in DOMAIN ps
      /\ \A i \in DOMAIN ps : ps[i] \in Point /\ ps[i].x \in Int /\ ps[i].y \in Int
  <2>1. Len(ps) \in Nat \ {0}
    BY EmptySeq
  <2>2. DOMAIN ps = 1 .. Len(ps) /\ \A i \in DOMAIN ps : ps[i] \in Point
    OBVIOUS
  <2>3. \A p \in Point : p.x \in Int /\ p.y \in Int
    BY DEF Point
  <2> QED BY <2>1, <2>2, <2>3
<1>2. IsFiniteSet(DOMAIN ps)
  BY <1>1, FS_Interval
<1>3. IsFiniteSet(xs) /\ xs \in SUBSET Int /\ xs # {}
  <2>1. [i \in DOMAIN ps |-> ps[i].x] \in Surjection(DOMAIN ps, xs)
    BY DEF Surjection
  <2>2. IsFiniteSet(xs)
    <3> HIDE DEF xs
    <3> QED BY <2>1, <1>2, FS_Surjection
  <2> QED BY <2>2, <1>1
<1>4. IsFiniteSet(ys) /\ ys \in SUBSET Int /\ ys # {}
  <2>1. [i \in DOMAIN ps |-> ps[i].y] \in Surjection(DOMAIN ps, ys)
    BY DEF Surjection
  <2>2. IsFiniteSet(ys)
    <3> HIDE DEF ys
    <3> QED BY <2>1, <1>2, FS_Surjection
  <2> QED BY <2>2, <1>1
<1>5. /\ b.x0 = Least(xs) /\ b.x1 = Most(xs) /\ b.y0 = Least(ys) /\ b.y1 = Most(ys)
  BY DEF island_bounds
<1>6. ASSUME NEW S \in SUBSET Int, IsFiniteSet(S), S # {}
      PROVE  /\ Least(S) \in S /\ Most(S) \in S
             /\ \A n \in S : n \in Least(S) .. Most(S)
  <2>1. Least(S) \in S /\ \A c \in S : Least(S) <= c
    BY <1>6, HasExtremes
  <2>2. Most(S) \in S /\ \A c \in S : Most(S) >= c
    BY <1>6, HasExtremes
  <2> HIDE DEF Least, Most
  <2> QED BY <2>1, <2>2
<1> HIDE DEF Least, Most, b
<1>7. /\ b.x0 \in xs /\ b.x1 \in xs /\ b.y0 \in ys /\ b.y1 \in ys
      /\ \A n \in xs : n \in b.x0 .. b.x1
      /\ \A n \in ys : n \in b.y0 .. b.y1
  <2> HIDE DEF xs, ys
  <2> QED BY <1>3, <1>4, <1>5, <1>6
<1>8. xs = {p.x : p \in Points(ps)} /\ ys = {p.y : p \in Points(ps)}
  BY DEF Points
<1>9. \A p \in Points(ps) : p.x \in xs /\ p.y \in ys
  BY DEF Points
<1> HIDE DEF xs, ys
<1> QED BY <1>7, <1>8, <1>9 DEF b

-----------------------------------------------------------------------------
\* Where a view is placed.

\* What the detections of n presses add up to, as long as there are stages left.
LEMMA DriftFacts ==
    /\ Slack \in Nat /\ Jitter \in Nat /\ Jitter + Jitter <= Slack
    /\ \A n \in Nat : n * Jitter \in Nat /\ (n + 1) * Jitter = n * Jitter + Jitter
    /\ \A n \in Nat \ {0} : /\ (n - 1) * Jitter = n * Jitter - Jitter
                            /\ Jitter <= n * Jitter
                            /\ Jitter * (2 * n - 1) = n * Jitter + n * Jitter - Jitter
    /\ \A n \in Nat : n < Stages => n * Jitter + Jitter <= Slack
<1>1. Jitter \in Nat /\ Stages \in Nat /\ Stages >= 2
  BY FingerAssumption, IslandAssumption
<1> DEFINE J == Jitter
<1>2. \A n \in Nat : n * J \in Nat /\ (n + 1) * J = n * J + J
  BY <1>1
<1>3. \A n \in Nat \ {0} : (n - 1) * J = n * J - J /\ J * (2 * n - 1) = n * J + n * J - J /\ (n - 1) * J \in Nat
  BY <1>1
<1>4. \A n, k \in Nat : n <= k => n * J <= k * J
  BY <1>1
<1>5. Slack = Stages * J /\ Slack \in Nat
  BY <1>1 DEF Slack
<1>6. 2 * J = J + J /\ 2 * J <= Stages * J
  BY <1>1, <1>4
<1>7. ASSUME NEW n \in Nat, n < Stages PROVE n * J + J <= Slack
  <2>1. n + 1 <= Stages /\ n + 1 \in Nat
    BY <1>1, <1>7
  <2>2. (n + 1) * J <= Stages * J
    BY <2>1, <1>1, <1>4
  <2> QED BY <2>2, <1>2, <1>5
<1>8. \A n \in Nat \ {0} : J <= n * J
  <2> SUFFICES ASSUME NEW n \in Nat \ {0} PROVE J <= n * J
    OBVIOUS
  <2>1. (n - 1) * J \in Nat /\ (n - 1) * J = n * J - J /\ n * J \in Nat
    BY <1>2, <1>3
  <2> QED BY <2>1, <1>1
<1> QED BY <1>1, <1>2, <1>3, <1>5, <1>6, <1>7, <1>8

\* Where a match places the view.
Placement(m) == [x |-> -m.t.x, y |-> -m.t.y]

\* What merging asks for, only a true pair has, so that a view is merged where it is.
LEMMA PlacingIsTrue ==
    ASSUME Legible, NEW at \in Offsets, NEW A, NEW S, NEW N \in Nat,
           Jitter <= N, N + Jitter <= Slack, NEW lo, Shows(A, S, at, lo, N), -(N - Jitter) <= lo, lo <= 0,
           NEW o \in Offsets, NEW off \in BOOLEAN,
           MatchXform(A, View(o, off)).score >= MergeMinPairs
    PROVE  LET m == MatchXform(A, View(o, off))
               t == Placement(m)
           IN  /\ m.score \in Nat /\ t \in [x : Int, y : Int]
               /\ m.score <= Cardinality(Visible(o) \cap S)
               /\ t.x - (o.x - at.x) \in -N .. N /\ t.y = o.y - at.y
               /\ \E l \in -N .. 0 :
                     Shows(Merged(A, View(o, off), t), S \cup Visible(o), at, l, N + Jitter)
<1> DEFINE v == View(o, off)
           T == Visible(o)
           J == Jitter
           m == MatchXform(A, v)
           t == Placement(m)
<1>1. /\ Slack \in Nat /\ J \in Nat /\ N \in Nat /\ N + J <= Slack /\ J <= N
  BY DriftFacts
<1>2. /\ m.score >= MergeMinPairs
      /\ MergeMinPairs \in Nat /\ MinPairs \in Nat /\ 0 < MinPairs /\ MinPairs <= MergeMinPairs
      /\ o \in [x : Int, y : Int] /\ at \in [x : Int, y : Int]
      /\ o.x \in Int /\ o.y \in Int /\ at.x \in Int /\ at.y \in Int
  BY MatchingAssumption, IslandAssumption, FingerAssumption
<1>3. Shows(v, T, o, 0, J) /\ Shows(A, S, at, lo, N) /\ -(N - J) <= lo /\ lo <= 0
  BY ViewShows
<1>4. Facing(A, S, at, lo, N, v, T, o, 0, J) /\ S \subseteq Features /\ lo \in Int
  BY <1>1, <1>3 DEF Facing, Shows
<1> HIDE DEF v, T, J, m, t
<1>5. A \in Seq(Point) /\ v \in Seq(Point)
  BY <1>3 DEF Shows
<1>6. PICK c \in Pairs(A, v) : m.score = Votes(A, v, c) /\ m.t = Vote(A, v, c)
  <2>1. MatchXform(A, v) # NoMatch
    BY <1>2 DEF NoMatch, v
  <2> QED BY <2>1, <1>5, MatchGoesByWinner DEF m
<1>7. Harmless(Confused(Features, T)) /\ Harmless(Confused(S, T))
  <2>1. Harmless(Confused(Features, T))
    BY DEF Legible, MergeSafe, Harmless, Zero, T
  <2>2. Confused(S, T) \subseteq Confused(Features, T)
    BY <1>4, ConfusedGrows
  <2> QED BY <2>1, <2>2 DEF Harmless
<1>8. TruePair(A, v, c)
  <2> SUFFICES ASSUME ~TruePair(A, v, c) PROVE FALSE
    OBVIOUS
  <2> DEFINE C == Confused(Features, T)
             d == Named(A, v, c)
  <2>1. /\ d \in C /\ Cardinality(Accomplices(C, d)) \in Nat
        /\ Votes(A, v, c) <= Cardinality(Accomplices(C, d))
    BY <1>4, <1>7, ConfusedVotes
  <2>2. Cardinality(Accomplices(C, d)) < MergeMinPairs
    BY <2>1 DEF Legible, MergeSafe, T
  <2>3. Votes(A, v, c) \in Nat
    BY <1>5, FinitePairs
  <2> QED BY <2>1, <2>2, <2>3, <1>2, <1>6
<1>9. m.score \in Nat /\ m.score <= Cardinality(S \cap T)
  <2>1. Votes(A, v, c) \in Nat
    BY <1>5, FinitePairs
  <2> QED BY <2>1, <1>4, <1>6, <1>7, <1>8, TrueVotes
<1>10. /\ m.t \in [x : Int, y : Int]
       /\ m.t.x + (o.x - at.x) \in 0 - (lo + N) .. 0 + J - lo
       /\ m.t.y = -(o.y - at.y)
  <2> DEFINE P == Apart(Named(A, v, c))
  <2>1. /\ m.t \in [x : Int, y : Int] /\ P = [x |-> 0, y |-> 0]
        /\ m.t.x - (P.x - (o.x - at.x)) \in 0 - (lo + N) .. 0 + J - lo
        /\ m.t.y = P.y - (o.y - at.y)
    BY <1>4, <1>6, <1>8, PairFacts
  <2>2. P.x = 0 /\ P.y = 0 /\ m.t.x \in Int /\ m.t.y \in Int
    BY <2>1
  <2> HIDE DEF P
  <2>3. m.t.x - (P.x - (o.x - at.x)) = m.t.x + (o.x - at.x) /\ P.y - (o.y - at.y) = -(o.y - at.y)
    BY <2>2, <1>2
  <2> QED BY <2>1, <2>3
<1>11. PICK s \in Int : s = t.x - (o.x - at.x) /\ lo - J <= s /\ s <= lo + N
  <2>1. m.t.x \in Int /\ t.x = -m.t.x
    BY <1>10 DEF t, Placement
  <2> QED BY <2>1, <1>1, <1>2, <1>4, <1>10
<1>12. t \in [x : Int, y : Int] /\ t.x = o.x - at.x + s /\ t.y = o.y - at.y
  <2>1. m.t.x \in Int /\ t.x = -m.t.x /\ m.t.y \in Int /\ t.y = -m.t.y /\ t \in [x : Int, y : Int]
    BY <1>10 DEF t, Placement
  <2> QED BY <2>1, <1>2, <1>10, <1>11
<1>13. PICK l \in Int : /\ l \in -N .. 0 /\ l <= lo /\ lo + N <= l + (N + J)
                        /\ l <= s /\ s + J <= l + (N + J) /\ -Slack <= l /\ l + (N + J) <= Slack
  <2>1. lo \in Int /\ -(N - J) <= lo /\ lo <= 0
    BY <1>1, <1>3, <1>4
  <2>2. CASE s < lo
    <3> WITNESS lo - J \in Int
    <3> QED BY <2>1, <2>2, <1>1, <1>11
  <2>3. CASE s >= lo
    <3> WITNESS lo \in Int
    <3> QED BY <2>1, <2>3, <1>1, <1>11
  <2> QED BY <2>2, <2>3, <2>1, <1>11
<1>14. Shows(A, S, at, l, N + J)
  <2>1. N + J \in Nat
    BY <1>1
  <2> QED BY <2>1, <1>3, <1>13, ShowsWider
<1>15. Shows([i \in DOMAIN v |-> Shifted(v[i], t)], T, at, l, N + J)
  <2> PICK z \in Nat : z = N + J
    BY <1>1
  <2>1. Shows(v, T, o, 0, Jitter) /\ l <= s /\ s + Jitter <= l + z /\ -Slack <= l /\ l + z <= Slack
    BY <1>3, <1>13 DEF J
  <2>2. Shows([i \in DOMAIN v |-> Shifted(v[i], t)], T, at, l, z)
    BY <2>1, <1>1, <1>12, <1>13, MovedShows
  <2> QED BY <2>2
<1>16. Shows(Merged(A, v, t), S \cup T, at, l, N + J)
  <2>1. N + J <= Slack
    BY <1>1
  <2> QED BY <2>1, <1>1, <1>14, <1>15, MergedShows
<1>17. S \cap T = T \cap S
  OBVIOUS
<1>18. t.x - (o.x - at.x) \in -N .. N
  BY <1>1, <1>3, <1>4, <1>11
<1> QED BY <1>1, <1>9, <1>12, <1>13, <1>16, <1>17, <1>18 DEF v, T, J, m, t

\* The features that the windows of sn show.
Seen(sn) == UNION {Visible(sn[i]) : i \in DOMAIN sn}

\* One more window shows its features, too.
LEMMA SeenGrows ==
    ASSUME NEW sn \in Seq(Offsets), NEW o \in Offsets
    PROVE  /\ Append(sn, o) \in Seq(Offsets) /\ Len(Append(sn, o)) = Len(sn) + 1
           /\ Append(sn, o)[Len(sn) + 1] = o
           /\ \A i \in 1 .. Len(sn) : Append(sn, o)[i] = sn[i]
           /\ Seen(Append(sn, o)) = Seen(sn) \cup Visible(o)
           /\ Seen(sn) = UNION {Visible(Append(sn, o)[i]) : i \in 1 .. Len(Append(sn, o)) - 1}
<1> DEFINE tn == Append(sn, o)
           N == Len(sn)
<1>1. /\ tn \in Seq(Offsets) /\ Len(tn) = N + 1 /\ N \in Nat /\ tn[N + 1] = o
      /\ DOMAIN sn = 1 .. N /\ DOMAIN tn = 1 .. N + 1
      /\ \A i \in 1 .. N : tn[i] = sn[i]
  OBVIOUS
<1> HIDE DEF tn, N
<1>2. {Visible(sn[i]) : i \in DOMAIN sn} = {Visible(tn[i]) : i \in 1 .. N}
  BY <1>1
<1>3. {Visible(tn[i]) : i \in DOMAIN tn} = {Visible(sn[i]) : i \in DOMAIN sn} \cup {Visible(o)}
  <2>1. DOMAIN tn = DOMAIN sn \cup {N + 1}
    BY <1>1
  <2> QED BY <2>1, <1>1
<1>4. Seen(tn) = Seen(sn) \cup Visible(o)
  BY <1>3 DEF Seen
<1>5. N = Len(tn) - 1
  BY <1>1
<1> QED BY <1>1, <1>2, <1>4, <1>5 DEF Seen, tn, N

\* The island shows the features of the windows placed, with the errors of as many
\* detections.
LEMMA IslandShows ==
    ASSUME TypeOK, Registered, IslandIsUnion, ~empty
    PROVE  /\ Len(seen) \in Nat \ {0} /\ seen[1] \in Offsets /\ seen # <<>>
           /\ \E lo \in -(Len(seen) * Jitter - Jitter) .. 0 :
                 Shows(pts, Seen(seen), seen[1], lo, Len(seen) * Jitter)
<1>1. seen \in Seq(Offsets) /\ seen # <<>> /\ pts \in Seq(Point) /\ \A p \in Points(pts) : p.desc = Desc[p.feat]
  BY DEF TypeOK
<1>2. Len(seen) \in Nat \ {0} /\ seen[1] \in Offsets
  <2>1. Len(seen) \in Nat \ {0}
    BY <1>1, EmptySeq
  <2> QED BY <2>1, <1>1
<1> DEFINE n == Len(seen)
<1>3. (n - 1) * Jitter = n * Jitter - Jitter /\ n * Jitter \in Nat /\ Jitter \in Nat
  BY <1>2, DriftFacts
<1>4. PICK lo \in -(n * Jitter - Jitter) .. 0 :
         \A p \in Points(pts) : /\ ErrorX(p) \in lo .. lo + n * Jitter
                                /\ p.y = Place[p.feat].y - seen[1].y
  BY <1>3 DEF Registered
<1>5. lo \in Int
  BY <1>3, <1>4
<1>6. \A i \in DOMAIN pts : pts[i] \in Points(pts)
  BY DEF Points
<1>7. Seen(seen) \subseteq Features
  BY VisibleFinite DEF Seen
<1>8. seen[1] \in [x : Int, y : Int]
  BY <1>2, FingerAssumption
<1>9. Shown(pts) = Seen(seen) /\ \A i, j \in DOMAIN pts : pts[i].feat = pts[j].feat => i = j
  BY DEF IslandIsUnion, Seen
<1>10. \A f \in Seen(seen) : \E i \in DOMAIN pts : pts[i].feat = f
  BY <1>9 DEF Shown, Points
<1>11. \A i \in DOMAIN pts : pts[i].feat \in Seen(seen)
  BY <1>9, <1>6 DEF Shown
<1>12. \A i \in DOMAIN pts : pts[i].x - (Place[pts[i].feat].x - seen[1].x) \in lo .. lo + n * Jitter
  BY <1>4, <1>6 DEF ErrorX
<1>13. \A i \in DOMAIN pts : /\ pts[i].desc = Desc[pts[i].feat]
                             /\ pts[i].y = Place[pts[i].feat].y - seen[1].y
  BY <1>1, <1>4, <1>6
<1> HIDE DEF n
<1>14. Shows(pts, Seen(seen), seen[1], lo, n * Jitter)
  BY <1>1, <1>3, <1>5, <1>7, <1>8, <1>9, <1>10, <1>11, <1>12, <1>13 DEF Shows
<1> QED BY <1>1, <1>2, <1>4, <1>14 DEF n

\* A view placed where it is leaves the island registered and the union of its views.
LEMMA PlacedIsUnion ==
    ASSUME NEW n \in Nat \ {0}, Len(seen') = n, seen' # <<>>, ~empty', box' = island_bounds(pts'),
           NEW lo \in -(n * Jitter - Jitter) .. 0,
           Shows(pts', Seen(seen'), seen'[1], lo, n * Jitter), Seen(seen') # {}
    PROVE  /\ Registered' /\ IslandIsUnion' /\ pts' \in Seq(Point) /\ pts' # <<>>
           /\ \A p \in Points(pts') : p.desc = Desc[p.feat]
<1>1. pts' \in Seq(Point)
  BY DEF Shows
<1>2. Shown(pts') = Seen(seen')
  BY ShownOfShows
<1>3. pts' # <<>>
  <2>1. PICK f \in Seen(seen') : TRUE
    OBVIOUS
  <2>2. PICK i \in DOMAIN pts' : pts'[i].feat = f
    BY DEF Shows
  <2>3. DOMAIN <<>> = {}
    OBVIOUS
  <2> QED BY <2>2, <2>3
<1>4. ASSUME NEW p \in Points(pts')
      PROVE  /\ p.desc = Desc[p.feat] /\ p.y = Place[p.feat].y - seen'[1].y
             /\ p.x - (Place[p.feat].x - seen'[1].x) \in lo .. lo + n * Jitter
  <2>1. PICK i \in DOMAIN pts' : p = pts'[i]
    BY DEF Points
  <2> QED BY <2>1 DEF Shows
<1>5. (n - 1) * Jitter = n * Jitter - Jitter
  BY DriftFacts
<1>6. Registered'
  BY <1>4, <1>5 DEF Registered, ErrorX
<1>7. IslandIsUnion'
  <2>1. LET b == box'
        IN  /\ \A p \in Points(pts') : p.x \in b.x0 .. b.x1 /\ p.y \in b.y0 .. b.y1
            /\ {b.x0, b.x1} \subseteq {p.x : p \in Points(pts')}
            /\ {b.y0, b.y1} \subseteq {p.y : p \in Points(pts')}
    BY <1>1, <1>3, BoundsHold
  <2>2. \A i, j \in DOMAIN pts' : pts'[i].feat = pts'[j].feat => i = j
    BY DEF Shows
  <2>3. Shown(pts') = UNION {Visible(seen'[i]) : i \in DOMAIN seen'}
    BY <1>2 DEF Seen
  <2> QED BY <2>1, <2>2, <2>3, <1>3 DEF IslandIsUnion
<1> QED BY <1>1, <1>3, <1>4, <1>6, <1>7

-----------------------------------------------------------------------------
\* The steps of an enrolment and of a verification.

\* Before the first press there is nothing to place.
LEMMA IslandInitInv == Init => IInv
<1> SUFFICES ASSUME Init PROVE IInv
  OBVIOUS
<1>1. DOMAIN <<>> = {} /\ Len(<<>>) = 0
  OBVIOUS
<1>2. TypeOK
  <2>1. views = <<>> /\ seen = <<>> /\ pts = <<>> /\ empty = TRUE
    BY DEF Init
  <2>2. views \in Seq(Views) /\ seen \in Seq(Offsets) /\ pts \in Seq(Point)
    BY <2>1, EmptySeq
  <2>3. Len(views) <= Stages /\ Len(seen) <= Len(views)
    BY <2>1, <1>1, IslandAssumption
  <2>4. Points(pts) = {}
    BY <2>1, <1>1 DEF Points
  <2>5. placed \in [ok : BOOLEAN, dx : Int, dy : Int, score : Nat] /\ ~placed.ok
    BY DEF Init
  <2> QED BY <2>1, <2>2, <2>3, <2>4, <2>5 DEF TypeOK
<1>3. Registered /\ ReportedWhereItIs /\ Scored
  BY DEF Init, Registered, ReportedWhereItIs, Scored
<1>4. IslandIsUnion
  <2>1. pts = <<>> /\ seen = <<>> /\ empty = TRUE
    BY DEF Init
  <2>2. Shown(pts) = {} /\ UNION {Visible(seen[i]) : i \in DOMAIN seen} = {}
    BY <2>1, <1>1 DEF Shown, Points
  <2> QED BY <2>1, <2>2, <1>1 DEF IslandIsUnion
<1> QED BY <1>2, <1>3, <1>4 DEF IInv

\* A usable press shows something.
LEMMA UsableShows ==
    ASSUME NEW o \in Offsets, NEW off \in BOOLEAN, Len(View(o, off)) >= MinPoints
    PROVE  Visible(o) # {}
<1>1. Cardinality(Visible(o)) >= MinPoints /\ MinPoints \in Nat \ {0} /\ Cardinality(Visible(o)) \in Nat
  BY ViewShows, VisibleFinite, IslandAssumption
<1>2. Cardinality(Visible(o)) # 0
  BY <1>1
<1> QED BY <1>2, FS_EmptySet

\* The first view is the frame of the island.
LEMMA FirstViewPlaced ==
    ASSUME Legible, IInv, NEW o \in Offsets, NEW off \in BOOLEAN, Len(View(o, off)) >= MinPoints,
           FirstView(View(o, off)), seen' = Append(seen, o)
    PROVE  /\ Registered' /\ IslandIsUnion' /\ ReportedWhereItIs'
           /\ pts' \in Seq(Point) /\ pts' # <<>> /\ \A p \in Points(pts') : p.desc = Desc[p.feat]
           /\ placed' \in [ok : BOOLEAN, dx : Int, dy : Int, score : Nat]
<1> DEFINE v == View(o, off)
           t == [x |-> 0, y |-> 0]
<1>1. empty /\ seen = <<>> /\ pts = <<>> /\ seen \in Seq(Offsets) /\ Len(seen) = 0
  <2>1. seen = <<>> /\ pts = <<>> /\ empty
    BY DEF FirstView, IInv, TypeOK
  <2> QED BY <2>1 DEF IInv, TypeOK
<1>2. /\ seen' = <<o>> /\ seen'[1] = o /\ Len(seen') = 1 /\ seen' # <<>> /\ seen' \in Seq(Offsets)
      /\ Seen(seen') = Visible(o)
  <2>1. seen' = <<o>> /\ seen'[1] = o /\ Len(seen') = 1 /\ seen' # <<>> /\ seen' \in Seq(Offsets)
    BY <1>1
  <2>2. Seen(seen) = {}
    BY <1>1 DEF Seen
  <2>3. Seen(seen') = Seen(seen) \cup Visible(o)
    BY <1>1, SeenGrows
  <2> QED BY <2>1, <2>2, <2>3
<1>3. /\ pts' = Merged(<<>>, v, t) /\ ~empty' /\ box' = island_bounds(pts')
      /\ placed' = [ok |-> TRUE, dx |-> 0, dy |-> 0, score |-> Len(v)]
  BY <1>1 DEF FirstView
<1>4. /\ Slack \in Nat /\ Jitter \in Nat /\ Jitter <= Slack /\ 1 * Jitter = Jitter
      /\ o \in [x : Int, y : Int] /\ t \in [x : Int, y : Int]
      /\ Shows(v, Visible(o), o, 0, Jitter)
  BY DriftFacts, FingerAssumption, ViewShows
<1>5. Shows(<<>>, {}, o, 0, Jitter)
  <2>1. <<>> \in Seq(Point) /\ DOMAIN <<>> = {}
    BY EmptySeq
  <2> QED BY <2>1, <1>4 DEF Shows
<1>6. Shows([i \in DOMAIN v |-> Shifted(v[i], t)], Visible(o), o, 0, Jitter)
  <2>1. PICK z \in Int : z = 0
    OBVIOUS
  <2>2. t.x = o.x - o.x + z /\ t.y = o.y - o.y
    BY <2>1, <1>4
  <2>3. z <= z /\ z + Jitter <= z + Jitter /\ -Slack <= z /\ z + Jitter <= Slack
    BY <2>1, <1>4
  <2> HIDE DEF v, t
  <2>4. Shows([i \in DOMAIN v |-> Shifted(v[i], t)], Visible(o), o, z, Jitter)
    BY <2>2, <2>3, <1>4, MovedShows
  <2> QED BY <2>1, <2>4
<1>7. Shows(pts', Visible(o), o, 0, Jitter)
  <2>1. Shows(Merged(<<>>, v, t), {} \cup Visible(o), o, 0, Jitter)
    <3> HIDE DEF v, t
    <3> QED BY <1>4, <1>5, <1>6, MergedShows
  <2>2. {} \cup Visible(o) = Visible(o)
    OBVIOUS
  <2> QED BY <2>1, <2>2, <1>3
<1>8. /\ Registered' /\ IslandIsUnion' /\ pts' \in Seq(Point) /\ pts' # <<>>
      /\ \A p \in Points(pts') : p.desc = Desc[p.feat]
  <2>1. 0 \in -(1 * Jitter - Jitter) .. 0 /\ Shows(pts', Seen(seen'), seen'[1], 0, 1 * Jitter)
    BY <1>2, <1>4, <1>7
  <2>2. Seen(seen') # {}
    BY <1>2, UsableShows
  <2> QED BY <2>1, <2>2, <1>2, <1>3, PlacedIsUnion
<1>9. ReportedWhereItIs'
  <2>1. o.x - o.x = 0 /\ o.y - o.y = 0 /\ Jitter * (2 * 1 - 1) = Jitter
    BY <1>4
  <2>2. placed'.dx = 0 /\ placed'.dy = 0 /\ seen'[Len(seen')] = o /\ seen'[1] = o /\ ~(Len(seen') > 1)
    BY <1>2, <1>3
  <2>3. Drift' = Jitter
    BY <2>1, <1>2 DEF Drift
  <2> QED BY <2>1, <2>2, <2>3, <1>4 DEF ReportedWhereItIs
<1>10. placed' \in [ok : BOOLEAN, dx : Int, dy : Int, score : Nat]
  <2>1. Len(v) \in Nat
    BY <1>4 DEF Shows
  <2> QED BY <2>1, <1>3
<1> QED BY <1>8, <1>9, <1>10

\* A view that overlaps the island enough is placed where its window is.
LEMMA NextViewPlaced ==
    ASSUME Legible, IInv, NEW o \in Offsets, NEW off \in BOOLEAN, Len(views) < Stages,
           NextView(View(o, off)), seen' = Append(seen, o)
    PROVE  /\ Registered' /\ IslandIsUnion' /\ ReportedWhereItIs'
           /\ pts' \in Seq(Point) /\ pts' # <<>> /\ \A p \in Points(pts') : p.desc = Desc[p.feat]
           /\ placed' \in [ok : BOOLEAN, dx : Int, dy : Int, score : Nat]
<1> DEFINE v == View(o, off)
           m == MatchXform(pts, v)
           t == Placement(m)
           n == Len(seen)
           at == seen[1]
           S == Seen(seen)
<1>1. /\ ~empty /\ m.score >= MergeMinPairs /\ pts' = Merged(pts, v, t) /\ empty' = empty
      /\ box' = island_bounds(pts')
      /\ placed' = [ok |-> TRUE, dx |-> -m.t.x, dy |-> -m.t.y, score |-> m.score]
  BY DEF NextView, Placement
<1>2. n \in Nat \ {0} /\ at \in Offsets /\ seen # <<>> /\ n < Stages /\ seen \in Seq(Offsets)
  <2>1. n \in Nat \ {0} /\ at \in Offsets /\ seen # <<>>
    BY <1>1, IslandShows DEF IInv
  <2>2. seen \in Seq(Offsets) /\ n <= Len(views) /\ Len(views) \in Nat /\ Stages \in Nat
    BY IslandAssumption DEF IInv, TypeOK
  <2> HIDE DEF n
  <2> QED BY <2>1, <2>2
<1>3. PICK lo \in -(n * Jitter - Jitter) .. 0 : Shows(pts, S, at, lo, n * Jitter)
  BY <1>1, IslandShows DEF IInv
<1>13. PICK N \in Nat : N = n * Jitter /\ (n + 1) * Jitter = N + Jitter /\ Jitter \in Nat
                         /\ Jitter * (2 * (n + 1) - 1) = N + N + Jitter
  <2>1. n \in Nat /\ n + 1 \in Nat \ {0} /\ Jitter \in Nat
    BY <1>2, DriftFacts
  <2> HIDE DEF n
  <2>2. n * Jitter \in Nat
    BY <2>1, DriftFacts
  <2>3. (n + 1) * Jitter = n * Jitter + Jitter
    BY <2>1, DriftFacts
  <2>4. Jitter * (2 * (n + 1) - 1) = (n + 1) * Jitter + (n + 1) * Jitter - Jitter
    BY <2>1, DriftFacts
  <2> QED BY <2>1, <2>2, <2>3, <2>4
<1>4. /\ m.score \in Nat /\ t \in [x : Int, y : Int]
      /\ m.score <= Cardinality(Visible(o) \cap S)
      /\ t.x - (o.x - at.x) \in -N .. N /\ t.y = o.y - at.y
      /\ \E l \in -N .. 0 : Shows(Merged(pts, v, t), S \cup Visible(o), at, l, N + Jitter)
  <2>2. at \in Offsets /\ m.score >= MergeMinPairs
    BY <1>1, <1>2
  <2>3. Shows(pts, S, at, lo, N) /\ -(N - Jitter) <= lo /\ lo <= 0
    BY <1>3, <1>13
  <2>4. Jitter <= N /\ N + Jitter <= Slack
    BY <1>2, <1>13, DriftFacts
  <2> HIDE DEF n, at, S
  <2> QED BY <2>2, <2>3, <2>4, PlacingIsTrue
<1>5. /\ seen' \in Seq(Offsets) /\ Len(seen') = n + 1 /\ seen' # <<>>
      /\ seen'[1] = at /\ seen'[n + 1] = o
      /\ Seen(seen') = S \cup Visible(o)
      /\ S = UNION {Visible(seen'[i]) : i \in 1 .. Len(seen') - 1}
  <2>1. 1 \in 1 .. n
    BY <1>2
  <2>2. /\ Append(seen, o) \in Seq(Offsets) /\ Len(Append(seen, o)) = n + 1
        /\ Append(seen, o)[n + 1] = o
        /\ \A i \in 1 .. n : Append(seen, o)[i] = seen[i]
        /\ Seen(Append(seen, o)) = S \cup Visible(o)
        /\ S = UNION {Visible(Append(seen, o)[i]) : i \in 1 .. Len(Append(seen, o)) - 1}
    BY <1>2, SeenGrows
  <2>3. seen' # <<>>
    BY <1>2
  <2> QED BY <2>1, <2>2, <2>3
<1> HIDE DEF m, v, t, n, at, S
<1>6. PICK l \in -N .. 0 : Shows(pts', Seen(seen'), seen'[1], l, (n + 1) * Jitter)
  BY <1>1, <1>4, <1>5, <1>13
<1>7. /\ (n + 1) * Jitter - Jitter = n * Jitter /\ n * Jitter \in Nat /\ Jitter \in Nat
      /\ Jitter * (2 * (n + 1) - 1) = n * Jitter + n * Jitter + Jitter
      /\ n + 1 \in Nat \ {0}
  BY <1>2, DriftFacts
<1>8. Seen(seen') # {}
  <2>1. S # {}
    <3>1. pts # <<>>
      BY <1>1 DEF IInv, IslandIsUnion
    <3>2. pts \in Seq(Point)
      BY DEF IInv, TypeOK
    <3>3. Len(pts) \in Nat \ {0}
      BY <3>1, <3>2, EmptySeq
    <3>4. 1 \in DOMAIN pts
      BY <3>2, <3>3
    <3> QED BY <3>4, <1>3 DEF Shows
  <2> QED BY <2>1, <1>5
<1>9. /\ Registered' /\ IslandIsUnion' /\ pts' \in Seq(Point) /\ pts' # <<>>
      /\ \A p \in Points(pts') : p.desc = Desc[p.feat]
  <2>1. l \in -((n + 1) * Jitter - Jitter) .. 0
    BY <1>7, <1>13
  <2> QED BY <2>1, <1>1, <1>5, <1>6, <1>7, <1>8, PlacedIsUnion
<1>10. placed'.dx = t.x /\ placed'.dy = t.y /\ placed'.score = m.score /\ placed'.ok
  BY <1>1 DEF t, Placement
<1>11. ReportedWhereItIs'
  <2>2. Drift' = N + N + Jitter
    BY <1>5, <1>13 DEF Drift
  <2>3. /\ placed'.dx - (o.x - at.x) \in -Drift' .. Drift'
        /\ placed'.dy - (o.y - at.y) \in -Drift' .. Drift'
    <3>1. /\ o.x \in Int /\ at.x \in Int /\ o.y \in Int /\ at.y \in Int
          /\ t.x \in Int /\ t.y \in Int
      BY <1>2, <1>4, FingerAssumption
    <3>2. t.x - (o.x - at.x) \in -N .. N /\ t.y - (o.y - at.y) = 0 /\ Jitter \in Nat
      BY <3>1, <1>4, <1>13
    <3>3. t.x - (o.x - at.x) \in -(N + N + Jitter) .. N + N + Jitter
      <4>1. \A d \in -N .. N : d \in -(N + N + Jitter) .. N + N + Jitter
        BY <3>2
      <4> QED BY <3>2, <4>1
    <3>4. t.y - (o.y - at.y) \in -(N + N + Jitter) .. N + N + Jitter
      <4>1. 0 \in -(N + N + Jitter) .. N + N + Jitter
        BY <3>2
      <4> QED BY <3>2, <4>1
    <3> QED BY <3>3, <3>4, <2>2, <1>10
  <2>4. placed'.score <= Cardinality(Visible(o) \cap UNION {Visible(seen'[i]) : i \in 1 .. Len(seen') - 1})
    BY <1>4, <1>5, <1>10
  <2> QED BY <2>3, <2>4, <1>5 DEF ReportedWhereItIs
<1>12. placed' \in [ok : BOOLEAN, dx : Int, dy : Int, score : Nat]
  <2>1. -m.t.x \in Int /\ -m.t.y \in Int
    BY <1>4 DEF t, Placement
  <2> QED BY <2>1, <1>1, <1>4
<1> QED BY <1>9, <1>11, <1>12

\* A press of the enrolment keeps the invariant, whether its view is placed or not.
LEMMA PressInv ==
    ASSUME Legible, IInv, NEW o \in Offsets, NEW off \in BOOLEAN, Press(o, off)
    PROVE  IInv'
<1> DEFINE v == View(o, off)
<1>1. /\ Len(views) < Stages /\ Len(v) >= MinPoints /\ views' = Append(views, v) /\ probe' = probe
      /\ \/ (FirstView(v) \/ NextView(v)) /\ seen' = Append(seen, o)
         \/ Disjoint(v) /\ seen' = seen
  BY DEF Press
<1>2. /\ views \in Seq(Views) /\ seen \in Seq(Offsets) /\ Len(seen) <= Len(views)
      /\ Len(views) \in Nat /\ Len(seen) \in Nat /\ Stages \in Nat
      /\ empty \in BOOLEAN /\ (empty <=> seen = <<>>) /\ (empty => pts = <<>>)
      /\ pts \in Seq(Point) /\ \A p \in Points(pts) : p.desc = Desc[p.feat]
  BY IslandAssumption DEF IInv, TypeOK
<1>3. v \in Views
  BY DEF Views
<1> HIDE DEF v
<1>4. /\ views' \in Seq(Views) /\ Len(views') = Len(views) + 1 /\ Len(views') <= Stages
  BY <1>1, <1>2, <1>3
<1>5. Scored'
  <2>1. Len(views) # Stages
    BY <1>1, <1>2
  <2> QED BY <2>1, <1>1 DEF IInv, Scored
<1>6. CASE (FirstView(v) \/ NextView(v)) /\ seen' = Append(seen, o)
  <2>1. /\ Registered' /\ IslandIsUnion' /\ ReportedWhereItIs'
        /\ pts' \in Seq(Point) /\ pts' # <<>> /\ \A p \in Points(pts') : p.desc = Desc[p.feat]
        /\ placed' \in [ok : BOOLEAN, dx : Int, dy : Int, score : Nat]
    BY <1>1, <1>6, FirstViewPlaced, NextViewPlaced DEF v
  <2>2. empty' = FALSE
    BY <1>2, <1>6 DEF FirstView, NextView
  <2>3. seen' \in Seq(Offsets) /\ Len(seen') = Len(seen) + 1 /\ seen' # <<>>
    BY <1>2, <1>6
  <2>4. Len(seen') <= Len(views')
    BY <2>3, <1>2, <1>4
  <2>5. TypeOK'
    BY <2>1, <2>2, <2>3, <2>4, <1>4 DEF TypeOK
  <2> QED BY <2>1, <2>5, <1>5 DEF IInv
<1>7. CASE Disjoint(v) /\ seen' = seen
  <2>1. /\ ~empty /\ pts' = pts /\ empty' = empty /\ box' = box /\ seen' = seen
        /\ placed' = [ok |-> FALSE, dx |-> 0, dy |-> 0, score |-> MatchXform(pts, v).score]
    BY <1>7 DEF Disjoint
  <2>2. MatchXform(pts, v).score \in Nat
    <3>1. v \in Seq(Point)
      BY ViewShows DEF v, Shows
    <3>2. CASE MatchXform(pts, v) = NoMatch
      BY <3>2 DEF NoMatch
    <3>3. CASE MatchXform(pts, v) # NoMatch
      <4>1. PICK c \in Pairs(pts, v) : MatchXform(pts, v).score = Votes(pts, v, c)
        BY <3>1, <3>3, <1>2, MatchGoesByWinner
      <4> QED BY <4>1, <3>1, <1>2, FinitePairs
    <3> QED BY <3>2, <3>3
  <2>3. Registered' /\ IslandIsUnion'
    BY <2>1 DEF IInv, Registered, ErrorX, IslandIsUnion
  <2>4. ReportedWhereItIs'
    BY <2>1 DEF ReportedWhereItIs
  <2>5. TypeOK'
    <3>1. Len(seen') <= Len(views')
      BY <2>1, <1>2, <1>4
    <3> QED BY <2>1, <2>2, <3>1, <1>2, <1>4 DEF TypeOK
  <2> QED BY <2>3, <2>4, <2>5, <1>5 DEF IInv
<1> QED BY <1>1, <1>6, <1>7

\* A verification is scored by what its press matches of the views.
LEMMA VerifyInv ==
    ASSUME IInv, NEW o \in Offsets, NEW off \in BOOLEAN, Verify(o, off)
    PROVE  IInv'
<1>1. /\ pts' = pts /\ empty' = empty /\ box' = box /\ views' = views /\ placed' = placed /\ seen' = seen
      /\ Len(views) = Stages /\ probe' = [v |-> View(o, off), score |-> Fused(views, View(o, off))]
  BY DEF Verify
<1>2. TypeOK' /\ Registered' /\ IslandIsUnion'
  BY <1>1 DEF IInv, TypeOK, Registered, ErrorX, IslandIsUnion
<1>3. ReportedWhereItIs'
  BY <1>1 DEF IInv, ReportedWhereItIs, Drift
<1>4. Scored'
  <2>1. View(o, off) \in Views
    BY DEF Views
  <2> QED BY <2>1, <1>1 DEF Scored
<1> QED BY <1>2, <1>3, <1>4 DEF IInv

\* Every press, usable or not, of an enrolment or verified, keeps the invariant.
LEMMA IslandNextInv ==
    ASSUME Legible, IInv, [Next]_vars
    PROVE  IInv'
<1>1. ASSUME UNCHANGED vars PROVE IInv'
  <2>1. /\ pts' = pts /\ empty' = empty /\ box' = box /\ views' = views /\ placed' = placed
        /\ seen' = seen /\ probe' = probe
    BY <1>1 DEF vars
  <2>2. TypeOK' /\ Registered' /\ IslandIsUnion'
    BY <2>1 DEF IInv, TypeOK, Registered, ErrorX, IslandIsUnion
  <2>3. ReportedWhereItIs' /\ Scored'
    BY <2>1 DEF IInv, ReportedWhereItIs, Drift, Scored
  <2> QED BY <2>2, <2>3 DEF IInv
<1>2. ASSUME NEW o \in Offsets, NEW off \in BOOLEAN, Press(o, off) PROVE IInv'
  BY <1>2, PressInv
<1>3. ASSUME NEW o \in Offsets, NEW off \in BOOLEAN, Unusable(o, off) PROVE IInv'
  BY <1>3, <1>1 DEF Unusable
<1>4. ASSUME NEW o \in Offsets, NEW off \in BOOLEAN, Verify(o, off) PROVE IInv'
  BY <1>4, VerifyInv
<1> QED BY <1>1, <1>2, <1>3, <1>4 DEF Next

\* As long as the finger is legible, every view that the island takes is registered where
\* its window lies: the invariant below, which gx_sift_island_add keeps, has the points in
\* place up to one detection for each view taken.
THEOREM IslandInvariance == ASSUME Legible PROVE Spec => []IInv
<1>1. Init => IInv
  BY IslandInitInv
<1>2. IInv /\ [Next]_vars => IInv'
  BY IslandNextInv
<1> QED BY <1>1, <1>2, PTL DEF Spec

\* The state of the island and of the template has its type: no more views than stages,
\* points of the finger only.
THEOREM IslandTypeCorrect == ASSUME Legible PROVE Spec => []TypeOK
<1>1. IInv => TypeOK
  BY DEF IInv
<1> QED BY <1>1, IslandInvariance, PTL

\* The deduplication of merge_points and the box of island_bounds are exact: one point for
\* each feature that a placed view shows, and none for any other.
THEOREM IslandIsTheUnion == ASSUME Legible PROVE Spec => []IslandIsUnion
<1>1. IInv => IslandIsUnion
  BY DEF IInv
<1> QED BY <1>1, IslandInvariance, PTL

\* Points whose errors span one detection for each view are in place up to the drift.
LEMMA RegisteredInPlace == IInv => WellPlaced
<1> SUFFICES ASSUME IInv, NEW p \in Points(pts)
             PROVE  LET at == Place[p.feat] IN
                    /\ p.x - (at.x - seen[1].x) \in -Drift .. Drift
                    /\ p.y - (at.y - seen[1].y) \in -Drift .. Drift
  BY DEF WellPlaced, PointsInPlace, IInv
<1> DEFINE n == Len(seen)
           at == Place[p.feat]
<1>1. ~empty
  <2> SUFFICES ASSUME empty PROVE FALSE
    OBVIOUS
  <2>1. pts = <<>>
    BY DEF IInv, TypeOK
  <2>2. DOMAIN <<>> = {}
    OBVIOUS
  <2> QED BY <2>1, <2>2 DEF Points
<1>2. n \in Nat \ {0} /\ seen[1] \in Offsets
  BY <1>1, IslandShows DEF IInv
<1>3. PICK N \in Nat : N = n * Jitter /\ (n - 1) * Jitter = N - Jitter
                       /\ Jitter <= N /\ Drift = N + N - Jitter /\ Jitter \in Nat
  <2>1. /\ Jitter \in Nat /\ n * Jitter \in Nat /\ (n - 1) * Jitter = n * Jitter - Jitter
        /\ Jitter <= n * Jitter /\ Jitter * (2 * n - 1) = n * Jitter + n * Jitter - Jitter
    <3> HIDE DEF n
    <3> QED BY <1>2, DriftFacts
  <2> QED BY <2>1 DEF Drift
<1>4. PICK lo \in -(N - Jitter) .. 0 : p.x - (at.x - seen[1].x) \in lo .. lo + N /\ p.y = at.y - seen[1].y
  <2>1. PICK lo \in -((n - 1) * Jitter) .. 0 :
           \A q \in Points(pts) : /\ ErrorX(q) \in lo .. lo + n * Jitter
                                  /\ q.y = Place[q.feat].y - seen[1].y
    BY <1>1 DEF IInv, Registered
  <2>2. lo \in -(N - Jitter) .. 0 /\ ErrorX(p) \in lo .. lo + N /\ p.y = at.y - seen[1].y
    <3> HIDE DEF n
    <3> QED BY <2>1, <1>3
  <2>3. ErrorX(p) = p.x - (at.x - seen[1].x)
    BY DEF ErrorX
  <2> QED BY <2>2, <2>3
<1>5. p.feat \in Features
  <2>1. PICK i \in DOMAIN pts : p = pts[i]
    BY DEF Points
  <2>2. pts \in Seq(Point)
    BY DEF IInv, TypeOK
  <2>3. p \in Point
    BY <2>1, <2>2
  <2> QED BY <2>3 DEF Point
<1>6. at.x \in Int /\ at.y \in Int /\ seen[1].x \in Int /\ seen[1].y \in Int
  BY <1>2, <1>5, FingerAssumption
<1> HIDE DEF at, n
<1>7. p.y - (at.y - seen[1].y) = 0
  BY <1>4, <1>6
<1>8. p.x - (at.x - seen[1].x) \in -Drift .. Drift
  BY <1>3, <1>4
<1>9. 0 \in -Drift .. Drift
  BY <1>3
<1> QED BY <1>7, <1>8, <1>9 DEF at

\* No view is misplaced in the island or reported where it is not (gx_sift_island_add),
\* whichever windows are pressed in whichever order, look-alikes and all.
THEOREM ViewsWellPlaced == ASSUME Legible PROVE Spec => []WellPlaced
BY RegisteredInPlace, IslandInvariance, PTL

-----------------------------------------------------------------------------
\* The score of a verification.

\* The features that the flagged points of a view show.
Explained(B, mask) == {B[k].feat : k \in mask}

\* What a view explains of a press: no look-alike, unless these outvote what is shared,
\* and all that is unmistakable, if it is enough for a cluster.
LEMMA MaskIsEvidence ==
    ASSUME Legible, ScoreSafe, NEW o \in Offsets, NEW off \in BOOLEAN,
           NEW on \in Offsets, NEW offn \in BOOLEAN
    PROVE  LET A == View(o, off)
               B == View(on, offn)
               S == Visible(o)
               T == Visible(on)
               mask == MatchXform(A, B).mask
           IN  /\ mask \subseteq DOMAIN B
               /\ Outvoted(S, T) => Explained(B, mask) \subseteq S \cap T
               /\ Cardinality(Sure(S, T)) >= MinPairs => Sure(S, T) \subseteq Explained(B, mask)
<1> DEFINE A == View(o, off)
           B == View(on, offn)
           S == Visible(o)
           T == Visible(on)
           J == Jitter
           M == MatchXform(A, B)
           sure == Cardinality(Sure(S, T))
<1>1. /\ Slack \in Nat /\ J \in Nat /\ J + J <= Slack /\ Slack <= GeoTol
      /\ MinPairs \in Nat \ {0} /\ GeoTol \in Nat /\ MergeDedup \in Nat
  BY DriftFacts, MatchingAssumption, IslandAssumption DEF Legible, Steady
<1>2. Shows(A, S, o, 0, J) /\ Shows(B, T, on, 0, J) /\ Len(A) = Cardinality(S) /\ Len(B) = Cardinality(T)
  BY ViewShows
<1>3. /\ S \subseteq Features /\ T \subseteq Features
      /\ IsFiniteSet(S) /\ IsFiniteSet(T) /\ Cardinality(S) \in Nat /\ Cardinality(T) \in Nat
  BY VisibleFinite
<1>4. Harmless(Confused(Features, T))
  BY DEF Legible, MergeSafe, Harmless, Zero
<1>5. \A c \in Confused(S, T) :
         LET k == Cardinality(Accomplices(Confused(S, T), c)) IN
         k < MinPairs \/ k < sure \/ (sure < MinPairs /\ ~Outvoted(S, T))
  BY DEF ScoreSafe
<1> HIDE DEF A, B, S, T, J, M
<1>6. Facing(A, S, o, 0, J, B, T, on, 0, J) /\ A \in Seq(Point) /\ B \in Seq(Point)
  BY <1>1, <1>2 DEF Facing, Shows
<1>7. Harmless(Confused(S, T))
  <2>1. Confused(S, T) \subseteq Confused(Features, T)
    BY <1>3, ConfusedGrows
  <2> QED BY <2>1, <1>4 DEF Harmless
<1>8. /\ IsFiniteSet(Pairs(A, B)) /\ Cardinality(Pairs(A, B)) \in Nat
      /\ \A c : /\ Agreeing(A, B, c) \subseteq Pairs(A, B) /\ IsFiniteSet(Agreeing(A, B, c))
                /\ Votes(A, B, c) \in Nat /\ Votes(A, B, c) <= Cardinality(Pairs(A, B))
  BY <1>6, FinitePairs
<1>9. PICK f \in [Sure(S, T) -> Pairs(A, B)] :
         \A g \in Sure(S, T) : TruePair(A, B, f[g]) /\ A[f[g][1]].feat = g
  <2> DEFINE F == [g \in Sure(S, T) |-> CHOOSE p \in Pairs(A, B) : TruePair(A, B, p) /\ A[p[1]].feat = g]
  <2>1. \A g \in Sure(S, T) : \E p \in Pairs(A, B) : TruePair(A, B, p) /\ A[p[1]].feat = g
    BY <1>6, SurePairs
  <2>2. \A g \in Sure(S, T) : F[g] \in Pairs(A, B) /\ TruePair(A, B, F[g]) /\ A[F[g][1]].feat = g
    BY <2>1
  <2> QED BY <2>2
<1>10. /\ sure \in Nat /\ sure <= Cardinality(Pairs(A, B))
       /\ sure <= Cardinality(S) /\ sure <= Cardinality(T)
  <2>1. \A a, b \in Sure(S, T) : f[a] = f[b] => a = b
    BY <1>9
  <2>2. sure \in Nat /\ sure <= Cardinality(Pairs(A, B))
    BY <2>1, <1>8, NoLarger
  <2>3. Sure(S, T) \in SUBSET S /\ Sure(S, T) \in SUBSET T
    BY DEF Sure
  <2>4. sure <= Cardinality(S) /\ sure <= Cardinality(T)
    BY <2>3, <1>3, FS_Subset
  <2> QED BY <2>2, <2>4
<1>11. ASSUME NEW c \in Pairs(A, B), TruePair(A, B, c)
       PROVE  /\ sure <= Votes(A, B, c)
              /\ \A g \in Sure(S, T) : f[g] \in Agreeing(A, B, c)
  <2>1. \A g \in Sure(S, T) : f[g] \in Agreeing(A, B, c)
    BY <1>1, <1>6, <1>9, <1>11, AgreeingPairs
  <2>2. f \in [Sure(S, T) -> Agreeing(A, B, c)] /\ \A a, b \in Sure(S, T) : f[a] = f[b] => a = b
    BY <2>1, <1>9
  <2>3. sure <= Cardinality(Agreeing(A, B, c))
    BY <2>2, <1>8, NoLarger
  <2> QED BY <2>1, <2>3 DEF Votes
<1>12. CASE M = NoMatch /\ \/ Len(A) < MinPairs \/ Len(B) < MinPairs
                           \/ Cardinality(Pairs(A, B)) < MinPairs
  <2>1. M.mask = {} /\ sure < MinPairs
    BY <1>1, <1>2, <1>3, <1>8, <1>10, <1>12 DEF NoMatch
  <2>2. ~(sure >= MinPairs)
    BY <2>1, <1>1, <1>10
  <2> QED BY <2>1, <2>2 DEF Explained, M, A, B, S, T
<1>13. ASSUME NEW c \in Pairs(A, B), Winner(A, B, c),
              M.mask = IF Votes(A, B, c) >= MinPairs THEN {p[2] : p \in Agreeing(A, B, c)} ELSE {}
       PROVE  /\ M.mask \subseteq DOMAIN B
              /\ Outvoted(S, T) => Explained(B, M.mask) \subseteq S \cap T
              /\ sure >= MinPairs => Sure(S, T) \subseteq Explained(B, M.mask)
  <2>1. M.mask \subseteq DOMAIN B
    <3>1. \A p \in Agreeing(A, B, c) : p[2] \in DOMAIN B
      BY <1>6, <1>8, PairFacts
    <3> QED BY <3>1, <1>13
  <2>2. sure > 0 => sure <= Votes(A, B, c)
    <3> SUFFICES ASSUME sure > 0 PROVE sure <= Votes(A, B, c)
      OBVIOUS
    <3>1. PICK g \in Sure(S, T) : TRUE
      BY FS_EmptySet
    <3>2. f[g] \in Pairs(A, B) /\ TruePair(A, B, f[g])
      BY <3>1, <1>9
    <3>3. sure <= Votes(A, B, f[g]) /\ Votes(A, B, f[g]) <= Votes(A, B, c)
      BY <3>2, <1>11, <1>13 DEF Winner
    <3>4. Votes(A, B, f[g]) \in Nat /\ Votes(A, B, c) \in Nat
      BY <1>8
    <3> QED BY <3>3, <3>4, <1>10
  <2>3. CASE TruePair(A, B, c)
    <3>1. \A p \in Agreeing(A, B, c) : p \in Pairs(A, B) /\ TruePair(A, B, p)
      BY <2>3, <1>6, <1>7, ClustersApart
    <3>2. \A p \in Agreeing(A, B, c) : B[p[2]].feat \in S \cap T
      BY <3>1, <1>6, PairFacts DEF TruePair
    <3>3. Explained(B, M.mask) \subseteq S \cap T
      BY <3>2, <1>13 DEF Explained
    <3>4. ASSUME sure >= MinPairs, NEW g \in Sure(S, T) PROVE g \in Explained(B, M.mask)
      <4>1. Votes(A, B, c) >= MinPairs
        BY <2>3, <3>4, <1>1, <1>8, <1>10, <1>11
      <4>2. f[g] \in Agreeing(A, B, c) /\ B[f[g][2]].feat = g
        BY <2>3, <1>9, <1>11 DEF TruePair
      <4> QED BY <4>1, <4>2, <1>13 DEF Explained
    <3> QED BY <2>1, <3>3, <3>4
  <2>4. CASE ~TruePair(A, B, c)
    <3> DEFINE d == Named(A, B, c)
               k == Cardinality(Accomplices(Confused(S, T), d))
    <3>1. d \in Confused(S, T) /\ k \in Nat /\ Votes(A, B, c) <= k /\ Votes(A, B, c) \in Nat
      BY <2>4, <1>3, <1>6, <1>7, <1>8, ConfusedVotes
    <3>2. k < MinPairs \/ k < sure \/ (sure < MinPairs /\ ~Outvoted(S, T))
      BY <3>1, <1>5
    <3> HIDE DEF k
    <3>3. CASE k < MinPairs
      <4>1. M.mask = {} /\ ~(sure >= MinPairs)
        BY <3>1, <3>3, <2>2, <1>1, <1>10, <1>13
      <4> QED BY <4>1 DEF Explained
    <3>4. ~(k < sure)
      BY <3>1, <2>2, <1>10
    <3>5. CASE sure < MinPairs /\ ~Outvoted(S, T)
      <4>1. ~(sure >= MinPairs)
        BY <3>5, <1>1, <1>10
      <4> QED BY <4>1, <3>5, <2>1
    <3> QED BY <3>2, <3>3, <3>4, <3>5
  <2> QED BY <2>3, <2>4
<1> QED
  <2>1. CASE \E c \in Pairs(A, B) :
               /\ Winner(A, B, c)
               /\ M.mask = IF Votes(A, B, c) >= MinPairs THEN {p[2] : p \in Agreeing(A, B, c)} ELSE {}
    BY <2>1, <1>13 DEF M, A, B, S, T
  <2> QED BY <2>1, <1>6, <1>12, MatchGoesByWinner DEF M

\* An empty view shows nothing.
LEMMA NothingShown == Shown(<<>>) = {} /\ \A S : Sure(S, {}) = {} /\ S \cap {} = {}
<1>1. DOMAIN <<>> = {}
  OBVIOUS
<1> QED BY <1>1 DEF Shown, Points, Sure

\* The score that Fused gives a press of the finger against views of it: the features
\* that the views explain, which are those shared at most and the sure ones at least.
LEMMA FusedIsEvidence ==
    ASSUME Legible, ScoreSafe, NEW vs \in Seq(Views), NEW v \in Views
    PROVE  LET Of(i) == Shown(vs[i])
               Now == Shown(v)
               Telling == {i \in DOMAIN vs : Cardinality(Sure(Of(i), Now)) >= MinPairs}
           IN  /\ (\A i \in DOMAIN vs : Outvoted(Of(i), Now)) =>
                     Fused(vs, v) <= Cardinality(UNION {Of(i) \cap Now : i \in DOMAIN vs})
               /\ Fused(vs, v) >= Cardinality(UNION {Sure(Of(i), Now) : i \in Telling})
<1> DEFINE Of(i) == Shown(vs[i])
           Now == Shown(v)
           Telling == {i \in DOMAIN vs : Cardinality(Sure(Of(i), Now)) >= MinPairs}
           Mask(i) == MatchXform(vs[i], v).mask
           M == UNION {Mask(i) : i \in DOMAIN vs}
           U == UNION {Of(i) \cap Now : i \in DOMAIN vs}
           L == UNION {Sure(Of(i), Now) : i \in Telling}
<1>1. PICK on \in Offsets, offn \in BOOLEAN : v = View(on, offn)
  BY DEF Views
<1>2. Shows(v, Now, on, 0, Jitter)
  <2>1. Shows(v, Visible(on), on, 0, Jitter)
    BY <1>1, ViewShows
  <2>2. Now = Visible(on)
    BY <2>1, ShownOfShows
  <2> QED BY <2>1, <2>2
<1>3. ASSUME NEW i \in DOMAIN vs
      PROVE  /\ Mask(i) \subseteq DOMAIN v
             /\ Outvoted(Of(i), Now) => Explained(v, Mask(i)) \subseteq Of(i) \cap Now
             /\ i \in Telling => Sure(Of(i), Now) \subseteq Explained(v, Mask(i))
  <2>1. PICK o \in Offsets, off \in BOOLEAN : vs[i] = View(o, off)
    BY <1>3 DEF Views
  <2>2. Shows(vs[i], Visible(o), o, 0, Jitter) /\ Shows(v, Visible(on), on, 0, Jitter)
    BY <1>1, <2>1, ViewShows
  <2>3. Of(i) = Visible(o) /\ Now = Visible(on)
    BY <2>2, ShownOfShows
  <2>4. LET mask == MatchXform(View(o, off), View(on, offn)).mask
            S == Visible(o)
            T == Visible(on)
        IN  /\ mask \subseteq DOMAIN View(on, offn)
            /\ Outvoted(S, T) => Explained(View(on, offn), mask) \subseteq S \cap T
            /\ Cardinality(Sure(S, T)) >= MinPairs => Sure(S, T) \subseteq Explained(View(on, offn), mask)
    BY MaskIsEvidence
  <2>5. i \in Telling => Cardinality(Sure(Of(i), Now)) >= MinPairs
    OBVIOUS
  <2> HIDE DEF Telling
  <2> QED BY <1>1, <2>1, <2>3, <2>4, <2>5
<1>4. /\ IsFiniteSet(M) /\ M \subseteq DOMAIN v /\ Fused(vs, v) = Cardinality(M)
      /\ \A k \in DOMAIN v : v[k].feat \in Features
      /\ \A j, k \in DOMAIN v : v[j].feat = v[k].feat => j = k
  <2>1. M \in SUBSET (DOMAIN v)
    BY <1>3
  <2>2. v \in Seq(Point) /\ Now \subseteq Features
    BY <1>2 DEF Shows
  <2>3. DOMAIN v = 1 .. Len(v) /\ Len(v) \in Int /\ 1 \in Int
    BY <2>2
  <2>4. IsFiniteSet(DOMAIN v)
    BY <2>3, FS_Interval
  <2>5. IsFiniteSet(M)
    BY <2>1, <2>4, FS_Subset
  <2>6. Fused(vs, v) = Cardinality(M)
    BY DEF Fused
  <2>7. \A k \in DOMAIN v : v[k].feat \in Features
    BY <1>2, <2>2 DEF Shows
  <2>8. \A j, k \in DOMAIN v : v[j].feat = v[k].feat => j = k
    BY <1>2 DEF Shows
  <2> QED BY <2>1, <2>5, <2>6, <2>7, <2>8
<1>5. Now \in SUBSET Features /\ IsFiniteSet(Now)
  <2>1. Now \in SUBSET Features
    BY <1>2 DEF Shows
  <2> QED BY <2>1, FingerAssumption, FS_Subset
<1> HIDE DEF M, Now
<1>6. ASSUME \A i \in DOMAIN vs : Outvoted(Of(i), Now)
      PROVE  Cardinality(M) <= Cardinality(U)
  <2> DEFINE f == [k \in M |-> v[k].feat]
  <2>1. U \in SUBSET Now
    OBVIOUS
  <2>2. IsFiniteSet(U)
    BY <2>1, <1>5, FS_Subset
  <2>3. ASSUME NEW k \in M PROVE v[k].feat \in U
    <3>1. PICK i \in DOMAIN vs : k \in Mask(i)
      BY DEF M
    <3>2. v[k].feat \in Of(i) \cap Now
      BY <3>1, <1>3, <1>6 DEF Explained
    <3> QED BY <3>2
  <2> HIDE DEF U
  <2>4. f \in [M -> U] /\ \A a, b \in M : f[a] = f[b] => a = b
    BY <2>3, <1>4
  <2> HIDE DEF f
  <2> QED BY <2>2, <2>4, NoLarger
<1>7. Cardinality(M) >= Cardinality(L)
  <2> DEFINE At(g) == CHOOSE k \in M : v[k].feat = g
             f == [g \in L |-> At(g)]
  <2>1. ASSUME NEW g \in L PROVE \E k \in M : v[k].feat = g
    <3>1. PICK i \in Telling : g \in Sure(Of(i), Now)
      OBVIOUS
    <3>2. i \in DOMAIN vs
      OBVIOUS
    <3>3. PICK k \in Mask(i) : v[k].feat = g
      BY <3>1, <3>2, <1>3 DEF Explained
    <3>4. k \in M
      BY <3>2, <3>3 DEF M
    <3> QED BY <3>3, <3>4
  <2> HIDE DEF L
  <2>2. \A g \in L : At(g) \in M /\ v[At(g)].feat = g
    BY <2>1
  <2> HIDE DEF At
  <2>3. f \in [L -> M] /\ \A a, b \in L : f[a] = f[b] => a = b
    BY <2>2
  <2> HIDE DEF f
  <2>4. Cardinality(L) <= Cardinality(M) /\ Cardinality(L) \in Nat /\ Cardinality(M) \in Nat
    <3>1. IsFiniteSet(M)
      BY <1>4
    <3> HIDE DEF Of, Telling, Mask, U
    <3> QED BY <2>3, <3>1, NoLarger
  <2> QED BY <2>4
<1> QED BY <1>4, <1>6, <1>7 DEF Now

\* The score of the press verified is evidence, and so is the zero before it.
LEMMA ScoredIsEvidence == ASSUME Legible, ScoreSafe PROVE IInv => EvidenceIsTrue
<1> SUFFICES ASSUME IInv PROVE EvidenceIsTrue
  OBVIOUS
<1>1. views \in Seq(Views)
  BY DEF IInv, TypeOK
<1>2. CASE probe.v \in Views /\ probe.score = Fused(views, probe.v)
  BY <1>1, <1>2, FusedIsEvidence DEF EvidenceIsTrue
<1>3. CASE probe = [v |-> <<>>, score |-> 0]
  <2> DEFINE Of(i) == Shown(views[i])
             Telling == {i \in DOMAIN views : Cardinality(Sure(Of(i), {})) >= MinPairs}
  <2>1. probe.score = 0 /\ Shown(probe.v) = {}
    BY <1>3, NothingShown
  <2>2. UNION {Of(i) \cap {} : i \in DOMAIN views} = {}
    OBVIOUS
  <2>3. UNION {Sure(Of(i), {}) : i \in Telling} = {}
    BY NothingShown
  <2>4. Cardinality({}) = 0
    BY FS_EmptySet
  <2> QED BY <2>1, <2>2, <2>3, <2>4 DEF EvidenceIsTrue
<1> QED BY <1>2, <1>3 DEF IInv, Scored

\* The score of a press of the enrolled finger (gx_sift_match_mask, fused in
\* gx_capture_done) counts all that any view surely shares with it, and no look-alike
\* where these are too few or outnumbered.
THEOREM ScoreIsEvidence == ASSUME Legible, ScoreSafe PROVE Spec => []EvidenceIsTrue
BY ScoredIsEvidence, IslandInvariance, PTL
=============================================================================
