--------------------------- MODULE QueueWalk_proofs ---------------------------
(***************************************************************************)
(* What AtIndices and Rotate return: sequences over the same items, of the *)
(* right length, in which every item that stays is found and, if the queue *)
(* holds no item twice, is found once.  Nothing here depends on where the  *)
(* loop of the code stops, only on Reached being a set of positions.       *)
(***************************************************************************)
EXTENDS QueueWalk, FiniteSetTheorems, SequenceTheorems, TLAPS

Positions(s) == 1 .. Len(s)

\* Sets of positions are finite, and so are their parts.
LEMMA PositionsFinite ==
    ASSUME NEW n \in Nat, NEW I \in SUBSET (1 .. n)
    PROVE  /\ IsFiniteSet(I)
           /\ Cardinality(I) \in 0 .. n
           /\ I \in SUBSET Int
  <1>1. IsFiniteSet(1 .. n) /\ Cardinality(1 .. n) = n
    BY FS_Interval
  <1>2. IsFiniteSet(I) /\ Cardinality(I) <= n
    BY <1>1, FS_Subset
  <1>3. Cardinality(I) \in Nat
    BY <1>2, FS_CardinalityType
  <1> QED
    BY <1>2, <1>3

LEMMA IntervalSize ==
    ASSUME NEW n \in Nat
    PROVE  IsFiniteSet(1 .. n) /\ Cardinality(1 .. n) = n
  BY FS_Interval

\* A set that maps one-to-one into a finite set is no larger.
LEMMA InjectionBound ==
    ASSUME NEW D, NEW E, IsFiniteSet(E), NEW f \in [D -> E],
           \A i, j \in D : f[i] = f[j] => i = j
    PROVE  Cardinality(D) <= Cardinality(E)
  <1>1. f \in Injection(D, E)
    BY DEF Injection, IsInjective
  <1> QED
    BY <1>1, FS_Injection

\* The rank of a number in a finite set counts from one to the size of the set,
\* and grows with the number.
LEMMA RankInRange ==
    ASSUME NEW I \in SUBSET Int, IsFiniteSet(I), NEW i \in I
    PROVE  Rank(I, i) \in 1 .. Cardinality(I)
  <1> DEFINE B == {j \in I : j <= i}
  <1>1. Cardinality(I) \in Nat
    BY FS_CardinalityType
  <1>2. B \in SUBSET I /\ i \in B
    OBVIOUS
  <1> HIDE DEF B
  <1>3. IsFiniteSet(B) /\ Cardinality(B) <= Cardinality(I)
    BY <1>2, FS_Subset
  <1>4. Cardinality(B) \in Nat
    BY <1>3, FS_CardinalityType
  <1>5. Cardinality(B) # 0
    BY <1>2, <1>3, FS_EmptySet
  <1>6. Cardinality(B) \in 1 .. Cardinality(I)
    BY <1>1, <1>3, <1>4, <1>5
  <1> QED
    BY <1>6 DEF Rank, B

LEMMA RankGrows ==
    ASSUME NEW I \in SUBSET Int, IsFiniteSet(I), NEW i \in I, NEW j \in I, i < j
    PROVE  Rank(I, i) < Rank(I, j)
  <1> DEFINE B == {m \in I : m <= i}
             C == {m \in I : m <= j}
  <1>0. i \in Int /\ j \in Int
    OBVIOUS
  <1>1. C \in SUBSET I /\ j \in C
    BY <1>0
  <1>2. j \notin B
    BY <1>0
  <1>3. B \in SUBSET C
    <2> SUFFICES ASSUME NEW m \in I, m <= i
                 PROVE  m <= j
      OBVIOUS
    <2>1. m \in Int
      OBVIOUS
    <2> QED
      BY <1>0, <2>1
  <1> HIDE DEF B, C
  <1>4. IsFiniteSet(C)
    BY <1>1, FS_Subset
  <1>5. IsFiniteSet(B) /\ Cardinality(B) <= Cardinality(C) /\ Cardinality(C) # Cardinality(B)
    BY <1>1, <1>2, <1>3, <1>4, FS_Subset
  <1>6. Cardinality(B) \in Nat /\ Cardinality(C) \in Nat
    BY <1>4, <1>5, FS_CardinalityType
  <1>7. Cardinality(B) < Cardinality(C)
    BY <1>5, <1>6
  <1> QED
    BY <1>7 DEF Rank, B, C

LEMMA RankInjective ==
    ASSUME NEW I \in SUBSET Int, IsFiniteSet(I), NEW i \in I, NEW j \in I,
           Rank(I, i) = Rank(I, j)
    PROVE  i = j
  <1>1. Rank(I, i) \in Int
    <2>1. Rank(I, i) \in 1 .. Cardinality(I)
      BY RankInRange
    <2> QED
      BY <2>1
  <1>2. ~(i < j)
    <2>1. SUFFICES ASSUME i < j
                   PROVE  FALSE
      OBVIOUS
    <2>2. Rank(I, i) < Rank(I, j)
      BY <2>1, RankGrows
    <2> QED
      BY <1>1, <2>2
  <1>3. ~(j < i)
    <2>1. SUFFICES ASSUME j < i
                   PROVE  FALSE
      OBVIOUS
    <2>2. Rank(I, j) < Rank(I, i)
      BY <2>1, RankGrows
    <2> QED
      BY <1>1, <2>2
  <1>4. i \in Int /\ j \in Int
    OBVIOUS
  <1> QED
    BY <1>2, <1>3, <1>4

\* Every number from one to the size of the set is the rank of a member.
LEMMA RankSurjective ==
    ASSUME NEW I \in SUBSET Int, IsFiniteSet(I), NEW m \in 1 .. Cardinality(I)
    PROVE  \E i \in I : Rank(I, i) = m
  <1> DEFINE f == [i \in I |-> Rank(I, i)]
             T == 1 .. Cardinality(I)
  <1>1. Cardinality(I) \in Nat
    BY FS_CardinalityType
  <1>2. IsFiniteSet(T) /\ Cardinality(T) = Cardinality(I)
    BY <1>1, FS_Interval
  <1>3. f \in [I -> T]
    BY RankInRange
  <1>4. \A i, j \in I : f[i] = f[j] => i = j
    BY RankInjective
  <1>5. m \in T /\ DOMAIN f = I
    OBVIOUS
  <1>6. \A i \in I : f[i] = Rank(I, i)
    OBVIOUS
  <1> HIDE DEF f, T
  <1>7. f \in Injection(I, T)
    BY <1>3, <1>4, <1>5 DEF Injection, IsInjective
  <1>8. f \in Surjection(I, T)
    BY <1>2, <1>7, FS_Injection
  <1>9. \E i \in I : f[i] = m
    BY <1>5, <1>8 DEF Surjection
  <1> QED
    BY <1>6, <1>9

\* A finite set of integers that is not empty has a least member.
LEMMA LeastMember ==
    ASSUME NEW I \in SUBSET Int, IsFiniteSet(I), I # {}
    PROVE  \E i \in I : \A j \in I : i <= j
  <1>1. Cardinality(I) \in Nat /\ Cardinality(I) # 0
    BY FS_CardinalityType, FS_EmptySet
  <1>2. 1 \in 1 .. Cardinality(I)
    BY <1>1
  <1>3. PICK i \in I : Rank(I, i) = 1
    BY <1>2, RankSurjective
  <1>4. ASSUME NEW j \in I
        PROVE  i <= j
    <2>1. i \in Int /\ j \in Int
      OBVIOUS
    <2>2. ~(j < i)
      <3>1. SUFFICES ASSUME j < i
                     PROVE  FALSE
        OBVIOUS
      <3>2. Rank(I, j) < 1
        BY <1>3, <3>1, RankGrows
      <3>3. Rank(I, j) \in 1 .. Cardinality(I)
        BY RankInRange
      <3> QED
        BY <3>2, <3>3
    <2> QED
      BY <2>1, <2>2
  <1> QED
    BY <1>4

\* The n-th item of AtIndices is the item at the position of rank n.
LEMMA AtIndicesItem ==
    ASSUME NEW S, NEW s \in Seq(S), NEW I \in SUBSET Positions(s), NEW i \in I
    PROVE  /\ Rank(I, i) \in 1 .. Cardinality(I)
           /\ AtIndices(s, I)[Rank(I, i)] = s[i]
  <1>1. I \in SUBSET Int /\ IsFiniteSet(I)
    BY PositionsFinite DEF Positions
  <1>2. Rank(I, i) \in 1 .. Cardinality(I)
    BY <1>1, RankInRange
  <1>3. (CHOOSE j \in I : Rank(I, j) = Rank(I, i)) = i
    BY <1>1, RankInjective
  <1> QED
    BY <1>2, <1>3 DEF AtIndices

LEMMA AtIndicesFrom ==
    ASSUME NEW S, NEW s \in Seq(S), NEW I \in SUBSET Positions(s),
           NEW m \in 1 .. Cardinality(I)
    PROVE  \E i \in I : Rank(I, i) = m /\ AtIndices(s, I)[m] = s[i]
  <1>1. I \in SUBSET Int /\ IsFiniteSet(I)
    BY PositionsFinite DEF Positions
  <1>2. PICK i \in I : Rank(I, i) = m
    BY <1>1, RankSurjective
  <1> QED
    BY <1>2, AtIndicesItem

LEMMA AtIndicesType ==
    ASSUME NEW S, NEW s \in Seq(S), NEW I \in SUBSET Positions(s)
    PROVE  /\ Cardinality(I) \in 0 .. Len(s)
           /\ AtIndices(s, I) \in Seq(S)
           /\ Len(AtIndices(s, I)) = Cardinality(I)
  <1>1. Cardinality(I) \in 0 .. Len(s) /\ Cardinality(I) \in Nat
    BY PositionsFinite DEF Positions
  <1>2. \A m \in 1 .. Cardinality(I) : AtIndices(s, I)[m] \in S
    BY AtIndicesFrom DEF Positions
  <1>3. AtIndices(s, I) = [m \in 1 .. Cardinality(I) |-> AtIndices(s, I)[m]]
    BY DEF AtIndices
  <1> DEFINE t == AtIndices(s, I)
  <1> HIDE DEF t
  <1>4. t \in [1 .. Cardinality(I) -> S]
    BY <1>2, <1>3 DEF t
  <1>5. t \in Seq(S) /\ Len(t) = Cardinality(I)
    BY <1>1, <1>4
  <1> QED
    BY <1>1, <1>5 DEF t

-----------------------------------------------------------------------------
(***************************************************************************)
(* Rotate.                                                                 *)
(***************************************************************************)

\* The rotated queue holds items of the queue and is no longer.
LEMMA RotateType ==
    ASSUME NEW S, NEW s \in Seq(S), NEW Leaving
    PROVE  /\ Rotate(s, Leaving) \in Seq(S)
           /\ Len(Rotate(s, Leaving)) =
                Cardinality(Positions(s) \ Reached(s, Leaving))
                  + Cardinality(Reached(s, Leaving) \ Leaving)
  <1> DEFINE Missed == Positions(s) \ Reached(s, Leaving)
             Back == Reached(s, Leaving) \ Leaving
             front == AtIndices(s, Missed)
             rear == AtIndices(s, Back)
  <1>1. Missed \in SUBSET Positions(s) /\ Back \in SUBSET Positions(s)
    BY DEF Reached, Positions
  <1>2. Rotate(s, Leaving) = front \o rear
    BY DEF Rotate, Positions
  <1> HIDE DEF Missed, Back
  <1>3. /\ front \in Seq(S) /\ rear \in Seq(S)
        /\ Len(front) = Cardinality(Missed)
        /\ Len(rear) = Cardinality(Back)
    BY <1>1, AtIndicesType
  <1> HIDE DEF front, rear
  <1>4. front \o rear \in Seq(S) /\ Len(front \o rear) = Len(front) + Len(rear)
    BY <1>3, ConcatProperties
  <1>5. /\ Rotate(s, Leaving) \in Seq(S)
        /\ Len(Rotate(s, Leaving)) = Cardinality(Missed) + Cardinality(Back)
    BY <1>2, <1>3, <1>4
  <1> QED
    BY <1>5 DEF Missed, Back

\* The sizes of two finite sets with no common member add up.
LEMMA DisjointSizes ==
    ASSUME NEW A, NEW B, IsFiniteSet(A), IsFiniteSet(B), A \cap B = {}
    PROVE  /\ IsFiniteSet(A \cup B)
           /\ Cardinality(A \cup B) = Cardinality(A) + Cardinality(B)
           /\ Cardinality(A) \in Nat /\ Cardinality(B) \in Nat
  <1>1. Cardinality(A) \in Nat /\ Cardinality(B) \in Nat
    BY FS_CardinalityType
  <1>2. Cardinality(A \cap B) = 0
    BY FS_EmptySet
  <1>3. /\ IsFiniteSet(A \cup B)
        /\ Cardinality(A \cup B)
             = Cardinality(A) + Cardinality(B) - Cardinality(A \cap B)
    BY FS_Union
  <1> QED
    BY <1>1, <1>2, <1>3

LEMMA RotateLength ==
    ASSUME NEW S, NEW s \in Seq(S), NEW Leaving
    PROVE  /\ Len(Rotate(s, Leaving))
                = Len(s) - Cardinality(Reached(s, Leaving) \cap Leaving)
           /\ Cardinality(Reached(s, Leaving) \cap Leaving) \in 0 .. Len(s)
  <1> DEFINE Missed == Positions(s) \ Reached(s, Leaving)
             Back == Reached(s, Leaving) \ Leaving
             Left == Reached(s, Leaving) \cap Leaving
  <1>0. Len(s) \in Nat
    OBVIOUS
  <1>1. Missed \in SUBSET (1 .. Len(s)) /\ Back \in SUBSET (1 .. Len(s))
          /\ Left \in SUBSET (1 .. Len(s))
    BY DEF Reached, Positions
  <1>2. Missed \cap Back = {} /\ (Missed \cup Back) \cap Left = {}
    OBVIOUS
  <1>3. (Missed \cup Back) \cup Left = 1 .. Len(s)
    BY DEF Reached, Positions
  <1>4. Len(Rotate(s, Leaving)) = Cardinality(Missed) + Cardinality(Back)
    BY RotateType
  <1> HIDE DEF Missed, Back, Left
  <1>5. IsFiniteSet(Missed) /\ IsFiniteSet(Back) /\ IsFiniteSet(Left)
    BY <1>0, <1>1, PositionsFinite
  <1>6. /\ IsFiniteSet(Missed \cup Back)
        /\ Cardinality(Missed \cup Back) = Cardinality(Missed) + Cardinality(Back)
        /\ Cardinality(Missed) \in Nat /\ Cardinality(Back) \in Nat
    BY <1>2, <1>5, DisjointSizes
  <1>7. /\ Cardinality((Missed \cup Back) \cup Left)
             = Cardinality(Missed \cup Back) + Cardinality(Left)
        /\ Cardinality(Left) \in Nat
    BY <1>2, <1>5, <1>6, DisjointSizes
  <1>8. Cardinality(1 .. Len(s)) = Len(s)
    BY <1>0, FS_Interval, SMTT(40)
  <1>9. Len(s) = (Cardinality(Missed) + Cardinality(Back)) + Cardinality(Left)
    BY <1>3, <1>6, <1>7, <1>8
  <1>10. /\ Cardinality(Missed) + Cardinality(Back) = Len(s) - Cardinality(Left)
         /\ Cardinality(Left) \in 0 .. Len(s)
    BY <1>0, <1>6, <1>7, <1>9
  <1> QED
    BY <1>4, <1>10 DEF Left

\* The positions the walk has not taken out of the queue.
Kept(s, Leaving) == Positions(s) \ (Reached(s, Leaving) \cap Leaving)

\* Whatever the rotated queue holds was kept, and whatever was kept it holds.
LEMMA RotateItems ==
    ASSUME NEW S, NEW s \in Seq(S), NEW Leaving
    PROVE  /\ \A m \in 1 .. Len(Rotate(s, Leaving)) :
                 \E i \in Kept(s, Leaving) : Rotate(s, Leaving)[m] = s[i]
           /\ \A i \in Kept(s, Leaving) :
                 \E m \in 1 .. Len(Rotate(s, Leaving)) : Rotate(s, Leaving)[m] = s[i]
  <1> DEFINE Missed == Positions(s) \ Reached(s, Leaving)
             Back == Reached(s, Leaving) \ Leaving
             front == AtIndices(s, Missed)
             rear == AtIndices(s, Back)
             K == Kept(s, Leaving)
             r == Rotate(s, Leaving)
  <1>1. Missed \in SUBSET Positions(s) /\ Back \in SUBSET Positions(s)
    BY DEF Reached, Positions
  <1>2. K = Missed \cup Back
    BY DEF Reached, Positions, Kept
  <1>3. r = front \o rear
    BY DEF Rotate, Positions
  <1> HIDE DEF Missed, Back, K
  <1>4. /\ front \in Seq(S) /\ rear \in Seq(S)
        /\ Len(front) = Cardinality(Missed) /\ Len(rear) = Cardinality(Back)
    BY <1>1, AtIndicesType
  <1>5. \A m \in 1 .. Cardinality(Missed) : \E i \in Missed : front[m] = s[i]
    BY <1>1, AtIndicesFrom
  <1>6. \A m \in 1 .. Cardinality(Back) : \E i \in Back : rear[m] = s[i]
    BY <1>1, AtIndicesFrom
  <1>7. \A i \in Missed : \E m \in 1 .. Cardinality(Missed) : front[m] = s[i]
    BY <1>1, AtIndicesItem
  <1>8. \A i \in Back : \E m \in 1 .. Cardinality(Back) : rear[m] = s[i]
    BY <1>1, AtIndicesItem
  <1> HIDE DEF front, rear, r
  <1>9. /\ Len(r) = Len(front) + Len(rear)
        /\ \A m \in 1 .. Len(r) : r[m] = IF m <= Len(front) THEN front[m]
                                                        ELSE rear[m - Len(front)]
    BY <1>3, <1>4, ConcatProperties
  <1>10. Len(front) \in Nat /\ Len(rear) \in Nat
    BY <1>4
  <1>11. ASSUME NEW m \in 1 .. Len(r)
         PROVE  \E i \in K : r[m] = s[i]
    <2>1. CASE m <= Len(front)
      <3>1. m \in 1 .. Len(front)
        BY <1>9, <1>10, <2>1
      <3> QED
        BY <1>2, <1>4, <1>5, <1>9, <2>1, <3>1
    <2>2. CASE ~(m <= Len(front))
      <3>1. m - Len(front) \in 1 .. Len(rear)
        BY <1>9, <1>10, <2>2
      <3> QED
        BY <1>2, <1>4, <1>6, <1>9, <2>2, <3>1
    <2> QED
      BY <2>1, <2>2
  <1>12. ASSUME NEW i \in K
         PROVE  \E m \in 1 .. Len(r) : r[m] = s[i]
    <2>1. CASE i \in Missed
      <3>1. PICK m \in 1 .. Len(front) : front[m] = s[i]
        BY <1>4, <1>7, <2>1
      <3>2. m \in 1 .. Len(r) /\ m <= Len(front)
        BY <1>9, <1>10
      <3> QED
        BY <1>9, <3>1, <3>2
    <2>2. CASE i \in Back
      <3>1. PICK m \in 1 .. Len(rear) : rear[m] = s[i]
        BY <1>4, <1>8, <2>2
      <3>2. /\ m + Len(front) \in 1 .. Len(r) /\ ~(m + Len(front) <= Len(front))
            /\ (m + Len(front)) - Len(front) = m
        BY <1>9, <1>10
      <3> QED
        BY <1>9, <3>1, <3>2
    <2> QED
      BY <1>2, <2>1, <2>2
  <1>13. /\ \A m \in 1 .. Len(r) : \E i \in K : r[m] = s[i]
         /\ \A i \in K : \E m \in 1 .. Len(r) : r[m] = s[i]
    BY <1>11, <1>12
  <1> QED
    BY <1>13 DEF r, K

\* No item is in the sequence twice.
NoItemTwice(s) == \A i, j \in 1 .. Len(s) : s[i] = s[j] => i = j

LEMMA AtIndicesOnce ==
    ASSUME NEW S, NEW s \in Seq(S), NEW I \in SUBSET Positions(s), NoItemTwice(s),
           NEW m \in 1 .. Cardinality(I), NEW n \in 1 .. Cardinality(I),
           AtIndices(s, I)[m] = AtIndices(s, I)[n]
    PROVE  m = n
  <1>1. PICK i \in I : Rank(I, i) = m /\ AtIndices(s, I)[m] = s[i]
    BY AtIndicesFrom
  <1>2. PICK j \in I : Rank(I, j) = n /\ AtIndices(s, I)[n] = s[j]
    BY AtIndicesFrom
  <1>3. i = j
    BY <1>1, <1>2 DEF NoItemTwice, Positions
  <1> QED
    BY <1>1, <1>2, <1>3

\* The walk queues nothing twice.
LEMMA RotateOnce ==
    ASSUME NEW S, NEW s \in Seq(S), NEW Leaving, NoItemTwice(s)
    PROVE  NoItemTwice(Rotate(s, Leaving))
  <1> DEFINE Missed == Positions(s) \ Reached(s, Leaving)
             Back == Reached(s, Leaving) \ Leaving
             front == AtIndices(s, Missed)
             rear == AtIndices(s, Back)
             r == Rotate(s, Leaving)
  <1>1. Missed \in SUBSET Positions(s) /\ Back \in SUBSET Positions(s)
    BY DEF Reached, Positions
  <1>2. Missed \cap Back = {}
    OBVIOUS
  <1>3. r = front \o rear
    BY DEF Rotate, Positions
  <1> HIDE DEF Missed, Back
  <1>4. /\ front \in Seq(S) /\ rear \in Seq(S)
        /\ Len(front) = Cardinality(Missed) /\ Len(rear) = Cardinality(Back)
    BY <1>1, AtIndicesType
  <1>5. \A m \in 1 .. Cardinality(Missed) : \E i \in Missed : front[m] = s[i]
    BY <1>1, AtIndicesFrom
  <1>6. \A m \in 1 .. Cardinality(Back) : \E i \in Back : rear[m] = s[i]
    BY <1>1, AtIndicesFrom
  <1>7. \A m, n \in 1 .. Cardinality(Missed) : front[m] = front[n] => m = n
    BY <1>1, AtIndicesOnce
  <1>8. \A m, n \in 1 .. Cardinality(Back) : rear[m] = rear[n] => m = n
    BY <1>1, AtIndicesOnce
  <1> HIDE DEF front, rear, r
  <1>9. /\ Len(r) = Len(front) + Len(rear)
        /\ \A m \in 1 .. Len(r) : r[m] = IF m <= Len(front) THEN front[m]
                                                        ELSE rear[m - Len(front)]
    BY <1>3, <1>4, ConcatProperties
  <1>10. Len(front) \in Nat /\ Len(rear) \in Nat
    BY <1>4
  <1>11. \A m \in 1 .. Len(r) :
            \/ m <= Len(front) /\ m \in 1 .. Len(front)
            \/ ~(m <= Len(front)) /\ m - Len(front) \in 1 .. Len(rear)
    BY <1>9, <1>10
  <1>12. ASSUME NEW m \in 1 .. Len(front), NEW n \in 1 .. Len(rear)
         PROVE  front[m] # rear[n]
    <2>1. PICK i \in Missed : front[m] = s[i]
      BY <1>4, <1>5
    <2>2. PICK j \in Back : rear[n] = s[j]
      BY <1>4, <1>6
    <2>3. i # j
      BY <1>2
    <2> QED
      BY <1>1, <2>1, <2>2, <2>3 DEF NoItemTwice, Positions
  <1>13. ASSUME NEW m \in 1 .. Len(r), NEW n \in 1 .. Len(r), r[m] = r[n]
         PROVE  m = n
    <2>1. CASE m <= Len(front) /\ n <= Len(front)
      BY <1>4, <1>7, <1>9, <1>11, <1>13, <2>1
    <2>2. CASE m <= Len(front) /\ ~(n <= Len(front))
      BY <1>9, <1>11, <1>12, <1>13, <2>2
    <2>3. CASE ~(m <= Len(front)) /\ n <= Len(front)
      BY <1>9, <1>11, <1>12, <1>13, <2>3
    <2>4. CASE ~(m <= Len(front)) /\ ~(n <= Len(front))
      <3>1. m - Len(front) = n - Len(front)
        BY <1>4, <1>8, <1>9, <1>11, <1>13, <2>4
      <3> QED
        BY <1>10, <3>1
    <2> QED
      BY <2>1, <2>2, <2>3, <2>4
  <1>14. \A m, n \in 1 .. Len(r) : r[m] = r[n] => m = n
    BY <1>13
  <1> QED
    BY <1>14 DEF NoItemTwice, r

\* A walk that takes nothing out leaves the queue as it was.
LEMMA RotateNothing ==
    ASSUME NEW S, NEW s \in Seq(S)
    PROVE  Rotate(s, {}) = s
  <1> DEFINE I == 1 .. Len(s)
             front == AtIndices(s, {})
             rear == AtIndices(s, I)
  <1>0. Len(s) \in Nat
    OBVIOUS
  <1>1. Cardinality({}) = 0
    BY FS_EmptySet
  <1>2. \A i \in I : LeftBefore({}, i) = 0
    <2> TAKE i \in I
    <2>1. {j \in {} : j < i} = {}
      OBVIOUS
    <2> QED
      BY <1>1, <2>1 DEF LeftBefore
  <1>3. Reached(s, {}) = I
    BY <1>0, <1>2 DEF Reached
  <1>4. front \in Seq(S) /\ Len(front) = 0
    <2>1. {} \in SUBSET Positions(s)
      OBVIOUS
    <2> QED
      BY <1>1, <2>1, AtIndicesType
  <1>5. IsFiniteSet(I) /\ Cardinality(I) = Len(s) /\ I \in SUBSET Positions(s)
    BY <1>0, IntervalSize DEF Positions
  <1>6. rear \in Seq(S) /\ Len(rear) = Len(s)
    BY <1>5, AtIndicesType
  <1>7. \A i \in I : Rank(I, i) = i
    <2> TAKE i \in I
    <2>1. {j \in I : j <= i} = 1 .. i /\ i \in Nat
      BY <1>0
    <2> QED
      BY <2>1, IntervalSize DEF Rank
  <1>8. \A i \in I : rear[i] = s[i]
    BY <1>5, <1>7, AtIndicesItem
  <1>9. Rotate(s, {}) = front \o rear
    <2>1. (1 .. Len(s)) \ Reached(s, {}) = {} /\ Reached(s, {}) \ {} = I
      BY <1>3
    <2> QED
      BY <2>1 DEF Rotate
  <1> HIDE DEF front, rear, I
  <1>10. rear = s
    BY <1>0, <1>6, <1>8 DEF I
  <1>11. front = <<>>
    BY <1>4
  <1> QED
    BY <1>9, <1>10, <1>11

-----------------------------------------------------------------------------
(***************************************************************************)
(* The loop, item by item: what the queue holds when the first c items     *)
(* have been taken out and the ones that stay have been put back.          *)
(***************************************************************************)

\* One more position, behind all the others, appends its item.
LEMMA AtIndicesAppends ==
    ASSUME NEW S, NEW s \in Seq(S), NEW I \in SUBSET Positions(s), NEW i \in Positions(s),
           \A j \in I : j < i
    PROVE  AtIndices(s, I \cup {i}) = Append(AtIndices(s, I), s[i])
  <1> DEFINE J == I \cup {i}
             n == Cardinality(I)
             a == AtIndices(s, I)
             b == AtIndices(s, J)
  <1>1. Len(s) \in Nat /\ J \in SUBSET Positions(s) /\ I \subseteq Int /\ i \in Int /\ i \notin I
    BY DEF Positions
  <1>2. IsFiniteSet(I) /\ n \in Nat
    BY <1>1, PositionsFinite DEF Positions
  <1>3. Cardinality(J) = n + 1
    BY <1>1, <1>2, FS_AddElement
  <1>4. ASSUME NEW j \in I PROVE Rank(J, j) = Rank(I, j)
    <2>1. {m \in J : m <= j} = {m \in I : m <= j}
      BY <1>1
    <2> QED
      BY <2>1 DEF Rank
  <1>5. Rank(J, i) = n + 1
    <2>1. ASSUME NEW m \in J PROVE m <= i
      <3>1. CASE m \in I
        <4>1. m < i /\ m \in Int
          BY <1>1, <3>1
        <4> QED
          BY <1>1, <4>1
      <3>2. CASE m = i
        BY <1>1, <3>2
      <3> QED
        BY <3>1, <3>2
    <2>2. {m \in J : m <= i} = J
      BY <2>1
    <2> QED
      BY <1>3, <2>2 DEF Rank
  <1>6. a \in Seq(S) /\ Len(a) = n
    BY AtIndicesType
  <1>7. b \in Seq(S) /\ Len(b) = n + 1
    BY <1>1, <1>3, AtIndicesType
  <1>8. b[n + 1] = s[i]
    <2>1. i \in J
      OBVIOUS
    <2> HIDE DEF J
    <2>2. AtIndices(s, J)[Rank(J, i)] = s[i]
      BY <1>1, <2>1, AtIndicesItem
    <2> QED
      BY <1>5, <2>2
  <1>9. ASSUME NEW m \in 1 .. n PROVE b[m] = a[m]
    <2>1. PICK j \in I : Rank(I, j) = m /\ a[m] = s[j]
      BY <1>9, AtIndicesFrom
    <2>2. j \in J
      OBVIOUS
    <2>3. Rank(J, j) = m
      BY <1>4, <2>1
    <2> HIDE DEF J
    <2>4. AtIndices(s, J)[Rank(J, j)] = s[j]
      BY <1>1, <2>2, AtIndicesItem
    <2> QED
      BY <2>1, <2>3, <2>4
  <1> HIDE DEF J, n, a, b
  <1>10. s[i] \in S
    BY <1>1 DEF Positions
  <1>11. b = Append(a, s[i])
    BY <1>2, <1>6, <1>7, <1>8, <1>9, <1>10
  <1> QED
    BY <1>11 DEF a, b, J

\* The first of the positions is the head, the others are the tail.
LEMMA AtIndicesHead ==
    ASSUME NEW S, NEW s \in Seq(S), NEW I \in SUBSET Positions(s), NEW i \in Positions(s),
           \A j \in I : i < j
    PROVE  /\ AtIndices(s, I \cup {i}) # <<>>
           /\ Head(AtIndices(s, I \cup {i})) = s[i]
           /\ Tail(AtIndices(s, I \cup {i})) = AtIndices(s, I)
  <1> DEFINE J == I \cup {i}
             n == Cardinality(I)
             a == AtIndices(s, I)
             b == AtIndices(s, J)
  <1>1. Len(s) \in Nat /\ J \in SUBSET Positions(s) /\ I \subseteq Int /\ i \in Int /\ i \notin I
    BY DEF Positions
  <1>2. IsFiniteSet(I) /\ n \in Nat
    BY <1>1, PositionsFinite DEF Positions
  <1>3. Cardinality(J) = n + 1
    BY <1>1, <1>2, FS_AddElement
  <1>4. ASSUME NEW j \in I PROVE Rank(J, j) = Rank(I, j) + 1
    <2> DEFINE B == {m \in I : m <= j}
    <2>1. {m \in J : m <= j} = B \cup {i}
      BY <1>1
    <2>2. i \notin B /\ B \subseteq I
      BY <1>1
    <2>3. IsFiniteSet(B)
      BY <1>2, <2>2, FS_Subset
    <2>4. Cardinality(B \cup {i}) = Cardinality(B) + 1
      BY <2>2, <2>3, FS_AddElement
    <2> QED
      BY <2>1, <2>4 DEF Rank
  <1>5. Rank(J, i) = 1
    <2>1. ASSUME NEW m \in J, m <= i PROVE m = i
      <3>1. CASE m \in I
        <4>1. i < m /\ m \in Int
          BY <1>1, <3>1
        <4> QED
          BY <1>1, <2>1, <4>1
      <3> QED
        BY <3>1
    <2>2. i \in J /\ i <= i
      BY <1>1
    <2>3. {m \in J : m <= i} = {i}
      BY <2>1, <2>2
    <2> QED
      BY <2>3, FS_Singleton DEF Rank
  <1>6. a \in Seq(S) /\ Len(a) = n
    BY AtIndicesType
  <1>7. b \in Seq(S) /\ Len(b) = n + 1
    BY <1>1, <1>3, AtIndicesType
  <1>8. b[1] = s[i]
    <2>1. i \in J
      OBVIOUS
    <2> HIDE DEF J
    <2>2. AtIndices(s, J)[Rank(J, i)] = s[i]
      BY <1>1, <2>1, AtIndicesItem
    <2> QED
      BY <1>5, <2>2
  <1>9. ASSUME NEW m \in 1 .. n PROVE b[m + 1] = a[m]
    <2>1. PICK j \in I : Rank(I, j) = m /\ a[m] = s[j]
      BY <1>9, AtIndicesFrom
    <2>2. j \in J
      OBVIOUS
    <2>3. Rank(J, j) = m + 1
      BY <1>4, <2>1
    <2> HIDE DEF J
    <2>4. AtIndices(s, J)[Rank(J, j)] = s[j]
      BY <1>1, <2>2, AtIndicesItem
    <2> QED
      BY <2>1, <2>3, <2>4
  <1> HIDE DEF J, n, a, b
  <1>10. b # <<>> /\ Head(b) = s[i] /\ Tail(b) = a
    BY <1>2, <1>6, <1>7, <1>8, <1>9
  <1> QED
    BY <1>10 DEF a, b, J

LEMMA AtIndicesNone ==
    ASSUME NEW S, NEW s \in Seq(S)
    PROVE  AtIndices(s, {}) = <<>>
  <1>1. {} \in SUBSET Positions(s) /\ Cardinality({}) = 0
    BY FS_EmptySet
  <1>2. AtIndices(s, {}) \in Seq(S) /\ Len(AtIndices(s, {})) = 0
    BY <1>1, AtIndicesType
  <1> QED
    BY <1>2

Turned(s, Leaving, c) ==
    AtIndices(s, (c + 1) .. Len(s)) \o AtIndices(s, (1 .. c) \ Leaving)

\* The size of the queue shrinks by one for every item that leaves.
LEMMA TurnedType ==
    ASSUME NEW S, NEW s \in Seq(S), NEW Leaving \in SUBSET Positions(s), NEW c \in 0 .. Len(s)
    PROVE  /\ AtIndices(s, (c + 1) .. Len(s)) \in Seq(S)
           /\ AtIndices(s, (1 .. c) \ Leaving) \in Seq(S)
           /\ Turned(s, Leaving, c) \in Seq(S)
           /\ LeftBefore(Leaving, c + 1) \in 0 .. c
           /\ Len(Turned(s, Leaving, c)) = Len(s) - LeftBefore(Leaving, c + 1)
  <1> DEFINE R == (c + 1) .. Len(s)
             B == (1 .. c) \ Leaving
             L == {j \in Leaving : j < c + 1}
  <1>1. Len(s) \in Nat /\ R \in SUBSET Positions(s) /\ B \in SUBSET Positions(s)
    BY DEF Positions
  <1>0. c \in Nat /\ \A j \in Leaving : j \in 1 .. Len(s)
    BY <1>1 DEF Positions
  <1>2. L \in SUBSET (1 .. c) /\ B \in SUBSET (1 .. c) /\ c \in Nat
    <2>1. ASSUME NEW j \in L PROVE j \in 1 .. c
      <3>1. j \in 1 .. Len(s) /\ j < c + 1
        BY <1>0
      <3> QED
        BY <1>0, <1>1, <3>1
    <2> QED
      BY <1>0, <2>1
  <1>3. B \cup L = 1 .. c /\ B \cap L = {}
    <2>1. ASSUME NEW j \in 1 .. c, j \in Leaving PROVE j \in L
      BY <1>0, <2>1
    <2> QED
      BY <1>2, <2>1
  <1>4. R \cup (1 .. c) = 1 .. Len(s) /\ R \cap (1 .. c) = {}
    BY <1>1
  <1> HIDE DEF R, B, L
  <1>5. IsFiniteSet(B) /\ IsFiniteSet(L) /\ Cardinality(L) \in 0 .. c
    BY <1>2, PositionsFinite
  <1>6. IsFiniteSet(R)
    BY <1>1, PositionsFinite DEF Positions
  <1>7. IsFiniteSet(1 .. c) /\ Cardinality(1 .. c) = c /\ Cardinality(1 .. Len(s)) = Len(s)
    BY <1>1, <1>2, IntervalSize
  <1>8. Cardinality(B) + Cardinality(L) = c /\ Cardinality(B) \in Nat
    BY <1>3, <1>5, <1>7, DisjointSizes
  <1>9. Cardinality(R) + c = Len(s) /\ Cardinality(R) \in Nat
    BY <1>4, <1>6, <1>7, DisjointSizes
  <1>10. AtIndices(s, R) \in Seq(S) /\ Len(AtIndices(s, R)) = Cardinality(R)
    BY <1>1, AtIndicesType
  <1>11. AtIndices(s, B) \in Seq(S) /\ Len(AtIndices(s, B)) = Cardinality(B)
    BY <1>1, AtIndicesType
  <1>12. LeftBefore(Leaving, c + 1) = Cardinality(L)
    BY DEF LeftBefore, L
  <1>13. Turned(s, Leaving, c) = AtIndices(s, R) \o AtIndices(s, B)
    BY DEF Turned, R, B
  <1>14. /\ AtIndices(s, R) \o AtIndices(s, B) \in Seq(S)
         /\ Len(AtIndices(s, R) \o AtIndices(s, B)) = Cardinality(R) + Cardinality(B)
    BY <1>10, <1>11
  <1> QED
    BY <1>1, <1>5, <1>8, <1>9, <1>10, <1>11, <1>12, <1>13, <1>14, SMTT(40) DEF R, B

LEMMA TurnedNone ==
    ASSUME NEW S, NEW s \in Seq(S), NEW Leaving
    PROVE  Turned(s, Leaving, 0) = s
  <1>1. Reached(s, {}) = 1 .. Len(s) /\ AtIndices(s, {}) = <<>>
    <2>1. \A i \in 1 .. Len(s) : LeftBefore({}, i) = 0
      <3> TAKE i \in 1 .. Len(s)
      <3>1. {j \in {} : j < i} = {}
        OBVIOUS
      <3> QED
        BY <3>1, FS_EmptySet DEF LeftBefore
    <2>2. Len(s) \in Nat
      OBVIOUS
    <2> QED
      BY <2>1, <2>2, AtIndicesNone DEF Reached
  <1>2. s = AtIndices(s, {}) \o AtIndices(s, 1 .. Len(s))
    <2>1. (1 .. Len(s)) \ Reached(s, {}) = {} /\ Reached(s, {}) \ {} = 1 .. Len(s)
      BY <1>1
    <2> QED
      BY <2>1, RotateNothing DEF Rotate
  <1>3. AtIndices(s, 1 .. Len(s)) \in Seq(S)
    <2>1. (1 .. Len(s)) \in SUBSET Positions(s)
      BY DEF Positions
    <2> QED
      BY <2>1, AtIndicesType
  <1>4. 0 + 1 = 1 /\ (1 .. 0) \ Leaving = {}
    OBVIOUS
  <1>5. Turned(s, Leaving, 0) = AtIndices(s, 1 .. Len(s)) \o AtIndices(s, {})
    BY <1>4 DEF Turned
  <1> DEFINE a == AtIndices(s, 1 .. Len(s))
  <1> HIDE DEF a
  <1>6. a \in Seq(S) /\ s = <<>> \o a /\ Turned(s, Leaving, 0) = a \o <<>>
    BY <1>1, <1>2, <1>3, <1>5 DEF a
  <1> QED
    BY <1>6

LEMMA TailOfConcat ==
    ASSUME NEW S, NEW t \in Seq(S), NEW b \in Seq(S), t # <<>>
    PROVE  Head(t \o b) = Head(t) /\ Tail(t \o b) = Tail(t) \o b
  <1> DEFINE m == Len(t)
             c == t \o b
             d == Tail(t) \o b
  <1>1. m \in Nat /\ Len(b) \in Nat /\ m # 0
    OBVIOUS
  <1>2. c \in Seq(S) /\ Len(c) = m + Len(b)
    BY ConcatProperties
  <1>3. \A k \in 1 .. (m + Len(b)) : c[k] = IF k <= m THEN t[k] ELSE b[k - m]
    BY ConcatProperties
  <1>4. /\ Tail(t) \in Seq(S) /\ Len(Tail(t)) = m - 1 /\ Head(t) = t[1]
        /\ \A k \in 1 .. (m - 1) : Tail(t)[k] = t[k + 1]
    BY HeadTailProperties
  <1>5. d \in Seq(S) /\ Len(d) = m - 1 + Len(b)
    BY <1>4, ConcatProperties
  <1>6. \A k \in 1 .. (m - 1 + Len(b)) : d[k] = IF k <= m - 1 THEN Tail(t)[k] ELSE b[k - (m - 1)]
    BY <1>4, ConcatProperties
  <1> HIDE DEF c, d, m
  <1>7. c # <<>>
    BY <1>1, <1>2
  <1>8. Tail(c) \in Seq(S) /\ Len(Tail(c)) = m - 1 + Len(b)
    BY <1>1, <1>2, <1>7, HeadTailProperties
  <1>9. \A k \in 1 .. (m - 1 + Len(b)) : Tail(c)[k] = c[k + 1]
    BY <1>2, <1>7, <1>8, HeadTailProperties
  <1>10. Head(c) = Head(t)
    <2>1. Head(c) = c[1]
      BY <1>2, <1>7
    <2>2. c[1] = t[1]
      BY <1>1, <1>3
    <2> QED
      BY <1>4, <2>1, <2>2
  <1>11. ASSUME NEW k \in 1 .. (m - 1 + Len(b))
         PROVE  Tail(c)[k] = d[k]
    <2> DEFINE j == k + 1
    <2>1. j \in 1 .. (m + Len(b)) /\ k \in Int /\ Tail(c)[k] = c[j]
      <3>1. Tail(c)[k] = c[k + 1]
        BY <1>9
      <3>2. j \in 1 .. (m + Len(b)) /\ k \in Int
        BY <1>1
      <3> QED
        BY <3>1, <3>2
    <2>2. k <= m - 1 <=> j <= m
      BY <1>1, <2>1
    <2>3. k <= m - 1 => k \in 1 .. (m - 1) /\ Tail(t)[k] = t[j]
      BY <1>1, <1>4, <2>1
    <2>4. k - (m - 1) = j - m
      BY <1>1, <2>1
    <2> HIDE DEF j
    <2>5. c[j] = IF j <= m THEN t[j] ELSE b[j - m]
      BY <1>3, <2>1
    <2>6. d[k] = IF k <= m - 1 THEN Tail(t)[k] ELSE b[j - m]
      BY <1>6, <2>4
    <2> QED
      BY <2>1, <2>2, <2>3, <2>5, <2>6
  <1>12. Tail(c) = d
    BY <1>5, <1>8, <1>11, SeqEqual
  <1> QED
    BY <1>10, <1>12 DEF c, d

\* One iteration takes out the head and puts it back unless it leaves.
LEMMA TurnedNext ==
    ASSUME NEW S, NEW s \in Seq(S), NEW Leaving \in SUBSET Positions(s),
           NEW c \in 0 .. (Len(s) - 1)
    PROVE  /\ Head(Turned(s, Leaving, c)) = s[c + 1]
           /\ c + 1 \in Leaving => Turned(s, Leaving, c + 1) = Tail(Turned(s, Leaving, c))
           /\ c + 1 \notin Leaving => Turned(s, Leaving, c + 1)
                                        = Append(Tail(Turned(s, Leaving, c)), s[c + 1])
  <1> DEFINE i == c + 1
             R == (c + 2) .. Len(s)
             B == (1 .. c) \ Leaving
             r == AtIndices(s, R)
             b == AtIndices(s, B)
             t == AtIndices(s, (c + 1) .. Len(s))
  <1>1. /\ Len(s) \in Nat /\ i \in Positions(s)
        /\ R \in SUBSET Positions(s) /\ B \in SUBSET Positions(s)
        /\ \A j \in R : i < j
        /\ \A j \in B : j < i
    BY DEF Positions
  <1>2. (c + 1) .. Len(s) = R \cup {i} /\ i + 1 = c + 2
    OBVIOUS
  <1>3. /\ i \in Leaving => (1 .. i) \ Leaving = B
        /\ i \notin Leaving => (1 .. i) \ Leaving = B \cup {i}
    OBVIOUS
  <1>4. Turned(s, Leaving, c) = t \o b
    BY DEF Turned
  <1>5. Turned(s, Leaving, i) = r \o AtIndices(s, (1 .. i) \ Leaving)
    BY <1>2 DEF Turned
  <1> HIDE DEF R, B, i
  <1>6. t # <<>> /\ Head(t) = s[i] /\ Tail(t) = r
    <2>1. /\ AtIndices(s, R \cup {i}) # <<>>
          /\ Head(AtIndices(s, R \cup {i})) = s[i]
          /\ Tail(AtIndices(s, R \cup {i})) = AtIndices(s, R)
      BY ONLY s \in Seq(S), <1>1, AtIndicesHead
    <2> QED
      BY <1>2, <2>1
  <1>7. AtIndices(s, B \cup {i}) = Append(b, s[i])
    BY <1>1, AtIndicesAppends
  <1>8. r \in Seq(S) /\ b \in Seq(S)
    BY <1>1, AtIndicesType
  <1>9. t \in Seq(S)
    <2>1. R \cup {i} \in SUBSET Positions(s)
      BY <1>1
    <2> QED
      BY <1>2, <2>1, AtIndicesType
  <1>10. s[i] \in S
    BY <1>1 DEF Positions
  <1> HIDE DEF r, b, t
  <1>11. Head(t \o b) = s[i] /\ Tail(t \o b) = r \o b
    <2>1. Head(t \o b) = Head(t) /\ Tail(t \o b) = Tail(t) \o b
      BY <1>6, <1>8, <1>9, TailOfConcat
    <2> QED
      BY <1>6, <2>1
  <1>12. Append(r \o b, s[i]) = r \o Append(b, s[i])
    BY <1>8, <1>10, SMTT(40)
  <1>13. CASE i \in Leaving
    BY <1>3, <1>4, <1>5, <1>11, <1>13 DEF i, b
  <1>14. CASE i \notin Leaving
    BY <1>3, <1>4, <1>5, <1>7, <1>11, <1>12, <1>14 DEF i
  <1> QED
    BY <1>13, <1>14 DEF i

\* The loop condition says whether the next position is reached.
LEMMA ReachedNext ==
    ASSUME NEW S, NEW s \in Seq(S), NEW Leaving \in SUBSET Positions(s), NEW c \in 0 .. Len(s),
           c < Len(Turned(s, Leaving, c))
    PROVE  c < Len(s) /\ c + 1 \in Reached(s, Leaving)
  <1>1. /\ LeftBefore(Leaving, c + 1) \in 0 .. c
        /\ c < Len(s) - LeftBefore(Leaving, c + 1) /\ Len(s) \in Nat
    <2>1. /\ LeftBefore(Leaving, c + 1) \in 0 .. c
          /\ Len(Turned(s, Leaving, c)) = Len(s) - LeftBefore(Leaving, c + 1)
      BY TurnedType
    <2> QED
      BY <2>1
  <1>2. c + 1 \in 1 .. Len(s) /\ (c + 1 - 1) + LeftBefore(Leaving, c + 1) < Len(s)
    BY <1>1
  <1> QED
    BY <1>1, <1>2 DEF Reached

LEMMA TurnedAll ==
    ASSUME NEW S, NEW s \in Seq(S), NEW Leaving \in SUBSET Positions(s), NEW c \in 0 .. Len(s),
           1 .. c \subseteq Reached(s, Leaving), ~(c < Len(Turned(s, Leaving, c)))
    PROVE  Reached(s, Leaving) = 1 .. c /\ Rotate(s, Leaving) = Turned(s, Leaving, c)
  <1> DEFINE L(i) == {j \in Leaving : j < i}
  <1>1. /\ LeftBefore(Leaving, c + 1) \in 0 .. c
        /\ c + LeftBefore(Leaving, c + 1) >= Len(s) /\ Len(s) \in Nat
    <2>1. /\ LeftBefore(Leaving, c + 1) \in 0 .. c
          /\ Len(Turned(s, Leaving, c)) = Len(s) - LeftBefore(Leaving, c + 1)
      BY TurnedType
    <2> QED
      BY <2>1
  <1>2. ASSUME NEW i \in Reached(s, Leaving) PROVE i \in 1 .. c
    <2>1. i \in 1 .. Len(s) /\ (i - 1) + LeftBefore(Leaving, i) < Len(s)
      BY DEF Reached
    <2>2. SUFFICES ASSUME i > c PROVE FALSE
      BY <2>1
    <2>a. \A j \in Leaving : j \in 1 .. Len(s)
      BY DEF Positions
    <2>b. ASSUME NEW j \in Leaving, j < c + 1 PROVE j < i
      <3>1. j \in Int /\ i \in Int
        BY <2>1, <2>a
      <3> QED
        BY <2>2, <2>b, <3>1
    <2>3. L(c + 1) \subseteq L(i) /\ L(i) \in SUBSET (1 .. Len(s))
      BY <2>a, <2>b
    <2>4. IsFiniteSet(L(i)) /\ Cardinality(L(i)) \in Nat
      BY <1>1, <2>3, PositionsFinite
    <2> HIDE DEF L
    <2>5. Cardinality(L(c + 1)) <= Cardinality(L(i))
      BY <2>3, <2>4, FS_Subset
    <2>6. LeftBefore(Leaving, c + 1) <= LeftBefore(Leaving, i) /\ LeftBefore(Leaving, i) \in Nat
      BY <2>4, <2>5 DEF L, LeftBefore
    <2> QED
      BY <1>1, <2>1, <2>2, <2>6
  <1>3. Reached(s, Leaving) = 1 .. c
    BY <1>2
  <1>4. (1 .. Len(s)) \ (1 .. c) = (c + 1) .. Len(s)
    BY <1>1
  <1> QED
    BY <1>3, <1>4 DEF Rotate, Turned
-----------------------------------------------------------------------------
(***************************************************************************)
(* What the loop does not reach.                                           *)
(***************************************************************************)

\* A function that is one-to-one and onto maps between sets of one size.
LEMMA SameSize ==
    ASSUME NEW D, IsFiniteSet(D), NEW E, NEW f \in [D -> E],
           \A i, j \in D : f[i] = f[j] => i = j,
           \A y \in E : \E i \in D : f[i] = y
    PROVE  IsFiniteSet(E) /\ Cardinality(E) = Cardinality(D)
  <1>1. f \in Surjection(D, E)
    BY DEF Surjection
  <1>2. f \in Injection(D, E)
    BY DEF Injection, IsInjective
  <1> QED
    BY <1>1, <1>2, FS_Surjection

\* The loop misses no more positions than it takes items out: the counter stops
\* short of the end by one for each of them.
LEMMA MissedAreFew ==
    ASSUME NEW S, NEW s \in Seq(S), NEW Leaving \in SUBSET Positions(s)
    PROVE  Cardinality(Positions(s) \ Reached(s, Leaving))
             <= Cardinality(Reached(s, Leaving) \cap Leaving)
  <1> DEFINE n == Len(s)
             M == Positions(s) \ Reached(s, Leaving)
             V == Reached(s, Leaving) \cap Leaving
  <1>1. n \in Nat /\ M \in SUBSET (1 .. n) /\ V \in SUBSET (1 .. n)
    <2>1. n \in Nat
      OBVIOUS
    <2>2. M \in SUBSET (1 .. n) /\ V \in SUBSET (1 .. n)
      BY Zenon DEF Positions
    <2> QED
      BY <2>1, <2>2
  <1>2. /\ IsFiniteSet(M) /\ Cardinality(M) \in Nat /\ M \in SUBSET Int
        /\ IsFiniteSet(V) /\ Cardinality(V) \in Nat
    BY <1>1, PositionsFinite
  <1>3. CASE M = {}
    BY <1>2, <1>3, FS_EmptySet
  <1>4. CASE M # {}
    <2>1. PICK m \in M : \A j \in M : m <= j
      <3> HIDE DEF M
      <3> QED
        BY <1>2, <1>4, LeastMember
    <2> DEFINE L == {j \in Leaving : j < m}
               I == m .. n
               H == 1 .. (m - 1)
    <2>2. m \in 1 .. n /\ (m - 1) + LeftBefore(Leaving, m) >= n
      <3>1. m \in 1 .. n /\ m \notin Reached(s, Leaving)
        BY <1>1, <2>1
      <3>2. ~((m - 1) + LeftBefore(Leaving, m) < n)
        BY <3>1 DEF Reached
      <3>3. L \in SUBSET (1 .. n)
        BY DEF Positions
      <3>4. LeftBefore(Leaving, m) \in Nat
        BY <1>1, <3>3, PositionsFinite DEF LeftBefore
      <3> QED
        BY <1>1, <3>1, <3>2, <3>4
    <2>3. L \subseteq V
      <3> SUFFICES ASSUME NEW j \in Leaving, j < m PROVE j \in Reached(s, Leaving)
        OBVIOUS
      <3>1. j \in 1 .. n /\ ~(m <= j)
        BY <2>2 DEF Positions
      <3>2. j \notin M
        BY <2>1, <3>1
      <3> QED
        BY <3>1, <3>2 DEF Positions
    <2>4. LeftBefore(Leaving, m) <= Cardinality(V)
      <3>1. LeftBefore(Leaving, m) = Cardinality(L)
        BY DEF LeftBefore
      <3> HIDE DEF L, V
      <3> QED
        BY <1>2, <2>3, <3>1, FS_Subset
    <2>5. IsFiniteSet(I) /\ Cardinality(I) = n - m + 1
      BY <1>1, <2>2, FS_Interval
    <2>6. M \subseteq I
      BY <1>1, <2>1, <2>2
    <2>7. Cardinality(M) <= n - m + 1
      <3> HIDE DEF M, I
      <3> QED
        BY <2>5, <2>6, FS_Subset
    <2>8. LeftBefore(Leaving, m) \in Int
      <3>1. IsFiniteSet(L)
        <4> HIDE DEF L, V
        <4> QED
          BY <1>2, <2>3, FS_Subset
      <3> QED
        BY <3>1, FS_CardinalityType DEF LeftBefore
    <2> HIDE DEF M, V, n
    <2>9. Cardinality(M) <= Cardinality(V)
      BY <1>1, <1>2, <2>2, <2>4, <2>7, <2>8
    <2> QED
      BY <2>9 DEF M, V
  <1> QED
    BY <1>3, <1>4

\* The first n items of r are those of s at the positions in M.
FrontIs(r, n, s, M) == {r[m] : m \in 1 .. n} = {s[i] : i \in M}

\* What the loop misses comes first in the rotated queue.
LEMMA MissedFirst ==
    ASSUME NEW S, NEW s \in Seq(S), NEW Leaving,
           NEW M, M = Positions(s) \ Reached(s, Leaving)
    PROVE  FrontIs(Rotate(s, Leaving), Cardinality(M), s, M)
  <1> DEFINE Back == Reached(s, Leaving) \ Leaving
             front == AtIndices(s, M)
             rear == AtIndices(s, Back)
             r == Rotate(s, Leaving)
  <1>1. M \in SUBSET Positions(s) /\ Back \in SUBSET Positions(s)
    BY DEF Reached, Positions
  <1>2. r = front \o rear
    BY DEF Rotate, Positions
  <1>3. \A m \in 1 .. Cardinality(M) : \E i \in M : front[m] = s[i]
    BY <1>1, AtIndicesFrom
  <1>4. \A i \in M : \E m \in 1 .. Cardinality(M) : front[m] = s[i]
    BY <1>1, AtIndicesItem
  <1> HIDE DEF Back
  <1>5. /\ front \in Seq(S) /\ rear \in Seq(S)
        /\ Len(front) = Cardinality(M) /\ Cardinality(M) \in Nat
    BY <1>1, AtIndicesType
  <1> HIDE DEF front, rear, r
  <1>6. \A m \in 1 .. Cardinality(M) : r[m] = front[m]
    <2> TAKE m \in 1 .. Cardinality(M)
    <2>1. m \in 1 .. (Len(front) + Len(rear)) /\ m <= Len(front)
      BY <1>5
    <2> QED
      BY <1>2, <1>5, <2>1, ConcatProperties
  <1>7. {r[m] : m \in 1 .. Cardinality(M)} = {s[i] : i \in M}
    <2>1. \A m \in 1 .. Cardinality(M) : \E i \in M : r[m] = s[i]
      BY <1>3, <1>6
    <2>2. \A i \in M : \E m \in 1 .. Cardinality(M) : r[m] = s[i]
      BY <1>4, <1>6
    <2> DEFINE A == {r[m] : m \in 1 .. Cardinality(M)}
               B == {s[i] : i \in M}
    <2>3. ASSUME NEW y \in A PROVE y \in B
      <3>1. PICK m \in 1 .. Cardinality(M) : y = r[m]
        OBVIOUS
      <3>2. PICK i \in M : r[m] = s[i]
        BY <2>1
      <3> QED
        BY <3>1, <3>2
    <2>4. ASSUME NEW y \in B PROVE y \in A
      <3>1. PICK i \in M : y = s[i]
        OBVIOUS
      <3>2. PICK m \in 1 .. Cardinality(M) : r[m] = s[i]
        BY <2>2
      <3> QED
        BY <3>1, <3>2
    <2> QED
      BY <2>3, <2>4, Zenon
  <1> QED
    BY <1>7 DEF r, FrontIs
=============================================================================
