--------------------------- MODULE PlacesProofs ---------------------------
(***************************************************************************)
(* What picking some of the elements of a sequence keeps: each of them     *)
(* once, and their order.                                                  *)
(***************************************************************************)
EXTENDS Places, Sequences, FiniteSetTheorems, TLAPS

(* The places kept of a sequence are numbered in their order.               *)
LEMMA RankType ==
  ASSUME NEW n \in Nat, NEW P \in SUBSET (1 .. n)
  PROVE  /\ IsFiniteSet(P) /\ Cardinality(P) \in Nat
         /\ \A i \in P : Rank(P, i) \in 1 .. Cardinality(P)
         /\ \A i, j \in P : i < j => Rank(P, i) < Rank(P, j)
<1>0. P \subseteq Int /\ 1 \in Int /\ n \in Int
  OBVIOUS
<1>1. IsFiniteSet(P)
  <2>1. IsFiniteSet(1 .. n)
    BY <1>0, FS_Interval
  <2> QED
    BY <2>1, FS_Subset
<1>2. Cardinality(P) \in Nat
  BY <1>1, FS_CardinalityType
<1>3. ASSUME NEW i \in P
      PROVE  /\ IsFiniteSet({j \in P : j <= i})
             /\ Rank(P, i) \in Nat
             /\ Rank(P, i) <= Cardinality(P)
  <2>1. {j \in P : j <= i} \in SUBSET P
    OBVIOUS
  <2>2. IsFiniteSet({j \in P : j <= i}) /\ Cardinality({j \in P : j <= i}) <= Cardinality(P)
    BY <1>1, <2>1, FS_Subset
  <2> QED
    BY <2>2, FS_CardinalityType DEF Rank
<1>4. ASSUME NEW i \in P
      PROVE  Rank(P, i) \in 1 .. Cardinality(P)
  <2>1. {j \in P : j <= i} # {}
    OBVIOUS
  <2>2. Rank(P, i) # 0
    BY <1>3, <2>1, FS_EmptySet DEF Rank
  <2>3. Rank(P, i) \in Nat /\ Rank(P, i) <= Cardinality(P)
    BY <1>3
  <2> QED
    BY <1>2, <2>2, <2>3
<1>5. ASSUME NEW i \in P, NEW j \in P, i < j
      PROVE  Rank(P, i) < Rank(P, j)
  <2> DEFINE I == {k \in P : k <= i}
             J == {k \in P : k <= j}
  <2>1. I \in SUBSET J /\ j \in J /\ j \notin I
    <3>1. i \in Int /\ j \in Int /\ \A k \in P : k \in Int
      BY <1>0
    <3>2. j <= j /\ ~(j <= i) /\ \A k \in P : k <= i => k <= j
      BY <1>5, <3>1
    <3> QED
      BY <3>2
  <2>2. IsFiniteSet(J) /\ Rank(P, j) = Cardinality(J) /\ Rank(P, i) = Cardinality(I)
    BY <1>3 DEF Rank
  <2> HIDE DEF I, J
  <2>3. Cardinality(I) <= Cardinality(J) /\ (Cardinality(J) = Cardinality(I) => J = I)
    BY <2>1, <2>2, FS_Subset
  <2>4. Rank(P, i) \in Nat /\ Rank(P, j) \in Nat
    BY <1>3
  <2> QED
    BY <2>1, <2>2, <2>3, <2>4
<1> QED
  BY <1>1, <1>2, <1>4, <1>5

(* ... so each number is that of exactly one place.                         *)
LEMMA PlaceOfRank ==
  ASSUME NEW n \in Nat, NEW P \in SUBSET (1 .. n)
  PROVE  /\ \A k \in 1 .. Cardinality(P) : Place(P, k) \in P /\ Rank(P, Place(P, k)) = k
         /\ \A i \in P : Place(P, Rank(P, i)) = i
         /\ \A k, l \in 1 .. Cardinality(P) : k < l => Place(P, k) < Place(P, l)
<1> DEFINE c == Cardinality(P)
           r == [i \in P |-> Rank(P, i)]
<1>1. /\ IsFiniteSet(P) /\ c \in Nat
      /\ \A i \in P : Rank(P, i) \in 1 .. c
      /\ \A i, j \in P : i < j => Rank(P, i) < Rank(P, j)
  BY RankType
<1>2. \A i, j \in P : Rank(P, i) = Rank(P, j) => i = j
  <2>1. P \subseteq Int /\ \A i \in P : Rank(P, i) \in Int
    BY <1>1
  <2> QED
    BY <1>1, <2>1
<1>3. r \in Injection(P, 1 .. c)
  BY <1>1, <1>2 DEF Injection, IsInjective
<1>4. IsFiniteSet(1 .. c) /\ Cardinality(1 .. c) = c
  BY <1>1, FS_Interval
<1>5. r \in Surjection(P, 1 .. c)
  BY <1>3, <1>4, FS_Injection
<1>6. \A k \in 1 .. c : \E i \in P : Rank(P, i) = k
  BY <1>5 DEF Surjection
<1>7. \A k \in 1 .. c : Place(P, k) \in P /\ Rank(P, Place(P, k)) = k
  BY <1>6 DEF Place
<1>8. \A i \in P : Place(P, Rank(P, i)) = i
  BY <1>1, <1>2, <1>7
<1>9. ASSUME NEW k \in 1 .. c, NEW l \in 1 .. c, k < l
      PROVE  Place(P, k) < Place(P, l)
  <2>0. P \subseteq Int /\ k \in Int /\ l \in Int
    OBVIOUS
  <2>a. Place(P, k) \in P /\ Place(P, l) \in P
    BY <1>7
  <2>1. Place(P, k) \in Int /\ Place(P, l) \in Int
    BY <2>0, <2>a
  <2>b. Rank(P, Place(P, k)) = k /\ Rank(P, Place(P, l)) = l
    BY <1>7
  <2>2. Place(P, l) # Place(P, k)
    BY <1>9, <2>0, <2>b
  <2>3. ~(Place(P, l) < Place(P, k))
    <3>1. SUFFICES ASSUME Place(P, l) < Place(P, k)
                   PROVE  FALSE
      OBVIOUS
    <3>2. Rank(P, Place(P, l)) < Rank(P, Place(P, k))
      BY <1>1, <2>a, <3>1
    <3>3. l < k
      BY <2>b, <3>2
    <3> QED
      BY <1>9, <2>0, <3>3
  <2> QED
    BY <2>1, <2>2, <2>3
<1> QED
  BY <1>7, <1>8, <1>9

(* The elements picked are those at the places, in the order of the places. *)
LEMMA Picked ==
  ASSUME NEW S, NEW s \in Seq(S), NEW P \in SUBSET (1 .. Len(s))
  PROVE  LET t == ElementsAt(s, P)
         IN /\ t \in Seq(S) /\ DOMAIN t = 1 .. Len(t) /\ Len(t) \in Nat
            /\ \A k \in 1 .. Len(t) :
                 Place(P, k) \in P /\ Rank(P, Place(P, k)) = k /\ t[k] = s[Place(P, k)]
            /\ \A k, l \in 1 .. Len(t) : k < l => Place(P, k) < Place(P, l)
            /\ \A i \in P : Rank(P, i) \in 1 .. Len(t) /\ Place(P, Rank(P, i)) = i
<1> DEFINE c == Cardinality(P)
           t == ElementsAt(s, P)
<1>1. Len(s) \in Nat /\ \A i \in 1 .. Len(s) : s[i] \in S
  OBVIOUS
<1>2. c \in Nat /\ \A i \in P : Rank(P, i) \in 1 .. c
  BY <1>1, RankType
<1>3. /\ \A k \in 1 .. c : Place(P, k) \in P /\ Rank(P, Place(P, k)) = k
      /\ \A i \in P : Place(P, Rank(P, i)) = i
      /\ \A k, l \in 1 .. c : k < l => Place(P, k) < Place(P, l)
  BY <1>1, PlaceOfRank
<1> HIDE DEF c
<1>4. t = [k \in 1 .. c |-> s[Place(P, k)]]
  BY DEF ElementsAt, c
<1>5. t \in [1 .. c -> S]
  BY <1>1, <1>3, <1>4
<1>6. t \in Seq(S) /\ Len(t) = c /\ DOMAIN t = 1 .. Len(t)
  BY <1>2, <1>5
<1> QED
  BY <1>2, <1>3, <1>4, <1>6
=============================================================================
