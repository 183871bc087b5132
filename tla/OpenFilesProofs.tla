-------------------------- MODULE OpenFilesProofs --------------------------
(***************************************************************************)
(* The open files of an agent, for every set of files, number of requests  *)
(* at once, limits and folders: types, the limit, and that a transaction   *)
(* that runs alone closes the files accessed longest ago.                  *)
(*                                                                         *)
(* The invariant says what a transaction that nothing has disturbed knows: *)
(* the limit it read is the agent's, and what it read of the open files    *)
(* still holds when it writes.                                             *)
(***************************************************************************)
EXTENDS OpenFiles, PlacesProofs

-----------------------------------------------------------------------------
(* Sequences without repetitions, and what is left of one.                  *)

(* What is left after some elements are taken out: the others, each once    *)
(* and in the order they had.                                               *)
Ordered(s, t) ==
  \A a, b \in 1 .. Len(t) : a < b =>
    \E i, j \in 1 .. Len(s) : i < j /\ s[i] = t[a] /\ s[j] = t[b]

LEMMA WithoutSome ==
  ASSUME NEW S, NEW s \in Seq(S), IsInjective(s), NEW X
  PROVE  /\ Without(s, X) \in Seq(S) /\ IsInjective(Without(s, X))
         /\ Range(Without(s, X)) = Range(s) \ X
         /\ Ordered(s, Without(s, X))
<1> DEFINE P == {i \in DOMAIN s : s[i] \notin X}
           t == ElementsAt(s, P)
           c == Len(t)
<1>1. DOMAIN s = 1 .. Len(s) /\ Len(s) \in Nat /\ \A i \in 1 .. Len(s) : s[i] \in S
  OBVIOUS
<1>2. P \in SUBSET (1 .. Len(s))
  BY <1>1
<1>3. Without(s, X) = t
  BY DEF Without
<1>a. \A i \in 1 .. Len(s) : i \in P <=> s[i] \notin X
  BY <1>1
<1> HIDE DEF P
<1>4. \A i \in P : Rank(P, i) \in 1 .. c /\ Place(P, Rank(P, i)) = i
  BY <1>2, Picked
<1>5. /\ \A k \in 1 .. c : Place(P, k) \in P /\ Rank(P, Place(P, k)) = k
      /\ \A k, l \in 1 .. c : k < l => Place(P, k) < Place(P, l)
  BY <1>2, Picked
<1>6. \A k \in 1 .. c : t[k] = s[Place(P, k)] /\ Place(P, k) \in 1 .. Len(s)
  BY <1>2, <1>5, Picked
<1>7. t \in Seq(S) /\ Len(t) = c /\ DOMAIN t = 1 .. c
  BY <1>2, Picked
<1> HIDE DEF c, t
<1>8. IsInjective(t)
  <2>1. ASSUME NEW a \in 1 .. c, NEW b \in 1 .. c, t[a] = t[b]
        PROVE  a = b
    <3>1. Place(P, a) = Place(P, b)
      BY <1>1, <1>6, <2>1 DEF IsInjective
    <3> QED
      BY <1>5, <3>1
  <2> QED
    BY <1>7, <2>1 DEF IsInjective
<1>9. Range(t) = Range(s) \ X
  <2>1. ASSUME NEW x \in Range(t)
        PROVE  x \in Range(s) \ X
    <3>1. PICK k \in 1 .. c : x = t[k]
      BY <1>7 DEF Range
    <3> QED
      BY <1>1, <1>a, <1>5, <1>6, <3>1 DEF Range
  <2>2. ASSUME NEW x \in Range(s) \ X
        PROVE  x \in Range(t)
    <3>1. PICK i \in 1 .. Len(s) : x = s[i]
      BY <1>1 DEF Range
    <3>2. i \in P
      BY <1>a, <2>2, <3>1
    <3>3. Rank(P, i) \in 1 .. c /\ t[Rank(P, i)] = x
      BY <1>4, <1>5, <1>6, <3>1, <3>2
    <3> QED
      BY <1>7, <3>3 DEF Range
  <2> QED
    BY <2>1, <2>2
<1>10. Ordered(s, t)
  BY <1>5, <1>6, <1>7 DEF Ordered
<1> QED
  BY <1>3, <1>7, <1>8, <1>9, <1>10

(* The elements of a sequence are at most its length, and exactly that many *)
(* where none is repeated.                                                  *)
LEMMA SizeOfRange ==
  ASSUME NEW S, NEW s \in Seq(S)
  PROVE  /\ Range(s) \subseteq S /\ IsFiniteSet(Range(s))
         /\ Cardinality(Range(s)) <= Len(s)
         /\ IsInjective(s) => Cardinality(Range(s)) = Len(s)
<1> DEFINE D == 1 .. Len(s)
<1>1. DOMAIN s = D /\ Len(s) \in Nat /\ s \in [D -> S]
  OBVIOUS
<1>2. Range(s) \subseteq S
  BY <1>1 DEF Range
<1>3. IsFiniteSet(D) /\ Cardinality(D) = Len(s)
  <2>1. 1 \in Int /\ Len(s) \in Int /\ Len(s) >= 0
    BY <1>1
  <2>2. IsFiniteSet(D) /\ Cardinality(D) = IF 1 > Len(s) THEN 0 ELSE Len(s) - 1 + 1
    BY <2>1, FS_Interval
  <2> QED
    BY <2>1, <2>2
<1> HIDE DEF D
<1>4. s \in Surjection(D, Range(s))
  <2>1. s \in [D -> Range(s)]
    BY <1>1 DEF Range
  <2>2. \A x \in Range(s) : \E i \in D : s[i] = x
    BY <1>1 DEF Range
  <2> QED
    BY <2>1, <2>2 DEF Surjection
<1>5. /\ IsFiniteSet(Range(s)) /\ Cardinality(Range(s)) <= Cardinality(D)
      /\ Cardinality(Range(s)) = Cardinality(D) <=> s \in Injection(D, Range(s))
  BY <1>3, <1>4, FS_Surjection
<1>6. IsInjective(s) => s \in Injection(D, Range(s))
  BY <1>4 DEF Injection, Surjection
<1> QED
  BY <1>2, <1>3, <1>5, <1>6

(* The first k elements and the last k.                                     *)
LEMMA PartsOf ==
  ASSUME NEW S, NEW s \in Seq(S), NEW k \in Nat, k <= Len(s)
  PROVE  /\ Range(SubSeq(s, 1, k)) = {s[i] : i \in 1 .. k}
         /\ Range(SubSeq(s, Len(s) - k + 1, Len(s))) = {s[i] : i \in Len(s) - k + 1 .. Len(s)}
         /\ Range(SubSeq(s, 1, k)) \subseteq Range(s)
         /\ Range(SubSeq(s, Len(s) - k + 1, Len(s))) \subseteq Range(s)
         /\ IsFiniteSet(Range(SubSeq(s, 1, k)))
         /\ IsFiniteSet(Range(SubSeq(s, Len(s) - k + 1, Len(s))))
         /\ Cardinality(Range(SubSeq(s, 1, k))) <= k
         /\ Cardinality(Range(SubSeq(s, Len(s) - k + 1, Len(s)))) <= k
<1> DEFINE n == Len(s)
           a == SubSeq(s, 1, k)
           b == SubSeq(s, n - k + 1, n)
<1>1. n \in Nat /\ DOMAIN s = 1 .. n
  OBVIOUS
<1>2. a \in Seq(S) /\ Len(a) = k /\ DOMAIN a = 1 .. k /\ \A i \in 1 .. k : a[i] = s[i]
  OBVIOUS
<1>3. b \in Seq(S) /\ Len(b) = k /\ DOMAIN b = 1 .. k /\ \A i \in 1 .. k : b[i] = s[n - k + i]
  OBVIOUS
<1> HIDE DEF n, a, b
<1>4. Range(a) = {s[i] : i \in 1 .. k}
  BY <1>2 DEF Range
<1>5. Range(b) = {s[i] : i \in n - k + 1 .. n}
  <2>1. ASSUME NEW x \in Range(b)
        PROVE  x \in {s[i] : i \in n - k + 1 .. n}
    <3>1. PICK i \in 1 .. k : x = b[i]
      BY <1>3 DEF Range
    <3>2. n - k + i \in n - k + 1 .. n
      BY <1>1
    <3> QED
      BY <1>3, <3>1, <3>2
  <2>2. ASSUME NEW i \in n - k + 1 .. n
        PROVE  s[i] \in Range(b)
    <3>1. i - (n - k) \in 1 .. k /\ n - k + (i - (n - k)) = i
      BY <1>1
    <3>2. b[i - (n - k)] = s[i]
      BY <1>3, <3>1
    <3> QED
      BY <1>3, <3>1, <3>2 DEF Range
  <2> QED
    BY <2>1, <2>2
<1>6. Range(a) \subseteq Range(s) /\ Range(b) \subseteq Range(s)
  <2>1. k <= n
    BY DEF n
  <2>2. 1 .. k \subseteq 1 .. n /\ n - k + 1 .. n \subseteq 1 .. n
    BY <1>1, <2>1
  <2> QED
    BY <1>1, <1>4, <1>5, <2>2 DEF Range
<1>7. /\ IsFiniteSet(Range(a)) /\ Cardinality(Range(a)) <= k
      /\ IsFiniteSet(Range(b)) /\ Cardinality(Range(b)) <= k
  BY <1>2, <1>3, SizeOfRange
<1> QED
  BY <1>4, <1>5, <1>6, <1>7 DEF n, a, b

LEMMA ConcatApart ==
  ASSUME NEW S, NEW s \in Seq(S), NEW t \in Seq(S), IsInjective(s), IsInjective(t),
         Range(s) \cap Range(t) = {}
  PROVE  s \o t \in Seq(S) /\ IsInjective(s \o t) /\ Range(s \o t) = Range(s) \cup Range(t)
<1> DEFINE m == Len(s)
           n == Len(t)
           u == s \o t
<1>1. m \in Nat /\ n \in Nat /\ DOMAIN s = 1 .. m /\ DOMAIN t = 1 .. n
  OBVIOUS
<1>2. u \in Seq(S) /\ DOMAIN u = 1 .. m + n
  OBVIOUS
<1>3. \A i \in 1 .. m : u[i] = s[i]
  OBVIOUS
<1>4. \A i \in m + 1 .. m + n : u[i] = t[i - m]
  OBVIOUS
<1>5. \A i \in 1 .. n : u[m + i] = t[i]
  OBVIOUS
<1> HIDE DEF m, n, u
<1>6. ASSUME NEW i \in 1 .. m + n
      PROVE  \/ i \in 1 .. m /\ u[i] = s[i] /\ u[i] \in Range(s)
             \/ i - m \in 1 .. n /\ u[i] = t[i - m] /\ u[i] \in Range(t)
  <2>1. CASE i <= m
    <3>1. i \in 1 .. m
      BY <1>1, <2>1
    <3> QED
      BY <1>1, <1>3, <3>1 DEF Range
  <2>2. CASE i > m
    <3>1. i - m \in 1 .. n /\ i \in m + 1 .. m + n
      BY <1>1, <2>2
    <3> QED
      BY <1>1, <1>4, <3>1 DEF Range
  <2> QED
    BY <1>1, <2>1, <2>2
<1>7. ASSUME NEW i \in 1 .. m + n, NEW j \in 1 .. m + n, u[i] = u[j]
      PROVE  i = j
  <2>1. CASE i \in 1 .. m /\ u[i] = s[i] /\ u[i] \in Range(s)
    <3>1. j \in 1 .. m /\ u[j] = s[j]
      BY <1>6, <1>7, <2>1
    <3> QED
      BY <1>1, <1>7, <2>1, <3>1 DEF IsInjective
  <2>2. CASE i - m \in 1 .. n /\ u[i] = t[i - m] /\ u[i] \in Range(t)
    <3>1. j - m \in 1 .. n /\ u[j] = t[j - m]
      BY <1>6, <1>7, <2>2
    <3>2. i - m = j - m
      BY <1>1, <1>7, <2>2, <3>1 DEF IsInjective
    <3> QED
      BY <1>1, <3>2
  <2> QED
    BY <1>6, <2>1, <2>2
<1>8. Range(u) = Range(s) \cup Range(t)
  <2>1. Range(u) \subseteq Range(s) \cup Range(t)
    BY <1>2, <1>6 DEF Range
  <2>2. ASSUME NEW x \in Range(s)
        PROVE  x \in Range(u)
    <3>1. PICK i \in 1 .. m : x = s[i]
      BY <1>1 DEF Range
    <3>2. i \in 1 .. m + n
      BY <1>1
    <3> QED
      BY <1>2, <1>3, <3>1, <3>2 DEF Range
  <2>3. ASSUME NEW x \in Range(t)
        PROVE  x \in Range(u)
    <3>1. PICK i \in 1 .. n : x = t[i]
      BY <1>1 DEF Range
    <3>2. m + i \in 1 .. m + n
      BY <1>1
    <3> QED
      BY <1>2, <1>5, <3>1, <3>2 DEF Range
  <2> QED
    BY <2>1, <2>2, <2>3
<1> QED
  BY <1>2, <1>7, <1>8 DEF u, IsInjective

LEMMA AnyOrder ==
  ASSUME NEW S, NEW T, T \subseteq S, IsFiniteSet(T), NEW s \in SetToSeqs(T)
  PROVE  s \in Seq(S) /\ IsInjective(s) /\ Range(s) = T
<1> DEFINE n == Cardinality(T)
           D == 1 .. n
<1>1. n \in Nat /\ IsFiniteSet(D) /\ Cardinality(D) = n
  <2>1. n \in Nat
    BY FS_CardinalityType
  <2>2. IsFiniteSet(D) /\ Cardinality(D) = IF 1 > n THEN 0 ELSE n - 1 + 1
    BY <2>1, FS_Interval
  <2> QED
    BY <2>1, <2>2
<1>2. s \in [D -> T] /\ \A i, j \in D : i # j => s[i] # s[j]
  BY DEF SetToSeqs
<1> HIDE DEF D
<1>3. DOMAIN s = D
  BY <1>2
<1>4. IsInjective(s)
  BY <1>2, <1>3 DEF IsInjective
<1>5. s \in Injection(D, T)
  BY <1>2, <1>4 DEF Injection
<1>6. s \in Surjection(D, T)
  BY <1>1, <1>5, FS_Injection
<1>7. Range(s) = T
  BY <1>2, <1>3, <1>6 DEF Range, Surjection
<1>8. s \in Seq(S)
  BY <1>1, <1>2 DEF D
<1> QED
  BY <1>4, <1>7, <1>8

(* f comes before g in s.                                                   *)
Before(s, f, g) == \E i, j \in 1 .. Len(s) : i < j /\ s[i] = f /\ s[j] = g

(* The first k come before the others, and the others before the last k.    *)
LEMMA PartsInOrder ==
  ASSUME NEW S, NEW s \in Seq(S), IsInjective(s), NEW k \in Nat, k <= Len(s)
  PROVE  /\ \A f \in Range(SubSeq(s, 1, k)), g \in Range(s) \ Range(SubSeq(s, 1, k)) :
              Before(s, f, g)
         /\ \A f \in Range(s) \ Range(SubSeq(s, Len(s) - k + 1, Len(s))),
               g \in Range(SubSeq(s, Len(s) - k + 1, Len(s))) : Before(s, f, g)
<1> DEFINE n == Len(s)
           a == Range(SubSeq(s, 1, k))
           b == Range(SubSeq(s, n - k + 1, n))
<1>1. n \in Nat /\ k <= n /\ DOMAIN s = 1 .. n
  OBVIOUS
<1>2. a = {s[i] : i \in 1 .. k} /\ b = {s[i] : i \in n - k + 1 .. n}
  BY PartsOf
<1> HIDE DEF a, b, n
<1>3. ASSUME NEW f \in a, NEW g \in Range(s) \ a
      PROVE  Before(s, f, g)
  <2>1. PICK i \in 1 .. k : f = s[i]
    BY <1>2
  <2>2. PICK j \in 1 .. n : g = s[j]
    BY <1>1 DEF Range
  <2>3. j \notin 1 .. k
    BY <1>2, <1>3, <2>2
  <2>4. i < j /\ i \in 1 .. n
    BY <1>1, <2>3
  <2> QED
    BY <2>1, <2>2, <2>4 DEF Before, n
<1>4. ASSUME NEW f \in Range(s) \ b, NEW g \in b
      PROVE  Before(s, f, g)
  <2>1. PICK j \in n - k + 1 .. n : g = s[j]
    BY <1>2
  <2>2. PICK i \in 1 .. n : f = s[i]
    BY <1>1 DEF Range
  <2>3. i \notin n - k + 1 .. n
    BY <1>2, <1>4, <2>2
  <2>4. i < j /\ j \in 1 .. n
    BY <1>1, <2>3
  <2> QED
    BY <2>1, <2>2, <2>4 DEF Before, n
<1> QED
  BY <1>3, <1>4 DEF a, b, n

(* Without its first k, a sequence is k shorter.                            *)
LEMMA SizeOfRest ==
  ASSUME NEW S, NEW s \in Seq(S), IsInjective(s), NEW k \in Nat, k <= Len(s)
  PROVE  /\ IsFiniteSet(Range(s) \ Range(SubSeq(s, 1, k)))
         /\ Cardinality(Range(s) \ Range(SubSeq(s, 1, k))) = Len(s) - k
<1> DEFINE t == SubSeq(s, 1, k)
<1>1. t \in Seq(S) /\ Len(t) = k /\ DOMAIN t = 1 .. k /\ \A i \in 1 .. k : t[i] = s[i]
  OBVIOUS
<1>2. DOMAIN s = 1 .. Len(s) /\ 1 .. k \subseteq 1 .. Len(s)
  OBVIOUS
<1> HIDE DEF t
<1>3. IsInjective(t)
  BY <1>1, <1>2 DEF IsInjective
<1>4. Cardinality(Range(t)) = k
  BY <1>1, <1>3, SizeOfRange
<1>5. Range(s) \cap Range(t) = Range(t)
  BY <1>1, <1>2 DEF Range
<1>6. IsFiniteSet(Range(s)) /\ Cardinality(Range(s)) = Len(s)
  BY SizeOfRange
<1>7. /\ IsFiniteSet(Range(s) \ Range(t))
      /\ Cardinality(Range(s) \ Range(t)) = Cardinality(Range(s)) - Cardinality(Range(s) \cap Range(t))
  BY <1>6, FS_Difference
<1> QED
  BY <1>4, <1>5, <1>6, <1>7 DEF t

LEMMA BeforeWithin ==
  ASSUME NEW S, NEW s \in Seq(S), NEW t \in Seq(S), Ordered(s, t), NEW f, NEW g, Before(t, f, g)
  PROVE  Before(s, f, g)
BY DEF Ordered, Before

(* A union of two finite sets is no larger than their bounds together.      *)
LEMMA SizeOfUnion ==
  ASSUME NEW U, NEW S, NEW T, IsFiniteSet(S), IsFiniteSet(T), U \subseteq S \cup T,
         NEW m \in Nat, NEW n \in Nat, Cardinality(S) <= m, Cardinality(T) <= n
  PROVE  IsFiniteSet(U) /\ Cardinality(U) <= m + n
<1>1. /\ IsFiniteSet(S \cup T)
      /\ Cardinality(S \cup T) = Cardinality(S) + Cardinality(T) - Cardinality(S \cap T)
  BY FS_Union
<1>2. IsFiniteSet(S \cap T)
  BY FS_Intersection
<1>3. U \in SUBSET (S \cup T)
  OBVIOUS
<1>4. IsFiniteSet(U) /\ Cardinality(U) <= Cardinality(S \cup T)
  BY <1>1, <1>3, FS_Subset
<1>5. /\ Cardinality(S) \in Nat /\ Cardinality(T) \in Nat /\ Cardinality(S \cap T) \in Nat
      /\ Cardinality(U) \in Nat
  BY <1>2, <1>4, FS_CardinalityType
<1> QED
  BY <1>1, <1>4, <1>5

-----------------------------------------------------------------------------
(* What a transaction knows. *)

OpRec ==
  [pc : {"none", "list", "row", "write"}, files : Seq(File), max : Nat, bulk : BOOLEAN,
   closing : SUBSET File, rows : SUBSET File, opened : SUBSET File,
   stale : BOOLEAN, refused : BOOLEAN]

OpTypes == op \in [Proc -> OpRec]

Asked(o) ==
  o.pc # "none" => o.max \in Limits /\ (~o.bulk => Len(o.files) = 1)

(* Undisturbed, it knows the agent's limit and which files are open.        *)
Snapshot(o) ==
  ~o.stale =>
    /\ o.pc # "none" => o.max = limit
    /\ o.pc \in {"row", "write"} /\ ~o.bulk => o.closing = Evicted(o)
    /\ o.pc \in {"list", "write"} /\ o.bulk => Range(o.files) \cap Range(open) \subseteq o.opened
    /\ o.pc = "write" /\ o.bulk => o.closing = Range(open) \ FinalOpen(o)

Snapshots == \A p \in Proc, o \in OpRec : o = op[p] => Asked(o) /\ Snapshot(o)

OpenInv == TypeOK /\ OpTypes /\ Snapshots /\ WithinLimit

LEMMA NoneType == None \in OpRec /\ None.pc = "none" /\ None.opened = {} /\ ~None.stale
BY DEF None, OpRec

LEMMA DisturbedType ==
  ASSUME NEW o \in OpRec
  PROVE  /\ Disturbed(o) \in OpRec
         /\ Disturbed(o).pc = o.pc
         /\ Disturbed(o).files = o.files
         /\ Disturbed(o).opened = o.opened
         /\ Disturbed(o).max = o.max
         /\ Disturbed(o).bulk = o.bulk
         /\ HasRead(o) => Disturbed(o).stale = TRUE
         /\ ~HasRead(o) => Disturbed(o) = o
BY DEF Disturbed, OpRec

(* What another commit does not disturb has read nothing but the limit.     *)
LEMMA UnreadSnapshot ==
  ASSUME NEW o \in OpRec, ~HasRead(o), o.pc # "none" /\ ~o.stale => o.max = limit'
  PROVE  Snapshot(o)'
BY DEF HasRead, Snapshot

LEMMA SameSnapshot ==
  ASSUME NEW o \in OpRec, Snapshot(o), UNCHANGED <<open, limit>>
  PROVE  Snapshot(o)'
BY DEF Snapshot, Evicted, FinalOpen, Opening

-----------------------------------------------------------------------------
(* What is closed for one file, and what many leave open. *)

LEMMA OpeningSize ==
  ASSUME NEW o \in OpRec
  PROVE  /\ Opening(o) \subseteq Range(o.files) /\ IsFiniteSet(Opening(o))
         /\ Cardinality(Opening(o)) <= o.max
         /\ Cardinality(Opening(o)) <= Len(o.files)
<1>1. o.files \in Seq(File) /\ o.max \in Nat /\ Len(o.files) \in Nat
  BY DEF OpRec
<1> DEFINE k == IF Len(o.files) < o.max THEN Len(o.files) ELSE o.max
<1>2. k \in Nat /\ k <= Len(o.files) /\ k <= o.max
  BY <1>1
<1>3. Opening(o) = Range(SubSeq(o.files, 1, k))
  BY DEF Opening
<1> HIDE DEF k
<1>4. /\ Opening(o) \subseteq Range(o.files) /\ IsFiniteSet(Opening(o))
      /\ Cardinality(Opening(o)) <= k
  BY <1>1, <1>2, <1>3, PartsOf
<1>5. Cardinality(Opening(o)) \in Nat
  BY <1>4, FS_CardinalityType
<1> QED
  BY <1>1, <1>2, <1>4, <1>5

LEMMA EvictedFacts ==
  ASSUME NEW o \in OpRec, open \in Seq(File), IsInjective(open), o.max # 0
  PROVE  /\ Evicted(o) \subseteq Range(open) \ Range(o.files)
         /\ IsFiniteSet((Range(open) \ Range(o.files)) \ Evicted(o))
         /\ Cardinality((Range(open) \ Range(o.files)) \ Evicted(o)) <= o.max - 1
         /\ \A f \in Evicted(o), g \in (Range(open) \ Range(o.files)) \ Evicted(o) :
              Before(open, f, g)
<1> DEFINE others == Without(open, Range(o.files))
           spare == Len(others) - (o.max - 1)
<1>1. /\ others \in Seq(File) /\ IsInjective(others)
      /\ Range(others) = Range(open) \ Range(o.files)
      /\ Ordered(open, others)
  BY WithoutSome
<1>2. Evicted(o) = IF spare > 0 THEN Range(SubSeq(others, 1, spare)) ELSE {}
  BY DEF Evicted
<1> HIDE DEF others
<1>3. o.max \in Nat /\ o.max - 1 \in Nat /\ Len(others) \in Nat
  BY <1>1 DEF OpRec
<1>4. CASE spare > 0
  <2>1. spare \in Nat /\ spare <= Len(others) /\ Len(others) - spare = o.max - 1
    BY <1>3, <1>4
  <2>2. Evicted(o) = Range(SubSeq(others, 1, spare))
    BY <1>2, <1>4
  <2> HIDE DEF spare
  <2>3. Evicted(o) \subseteq Range(others)
    BY <1>1, <2>1, <2>2, PartsOf
  <2>4. /\ IsFiniteSet(Range(others) \ Evicted(o))
        /\ Cardinality(Range(others) \ Evicted(o)) = o.max - 1
    BY <1>1, <2>1, <2>2, SizeOfRest
  <2>5. \A f \in Evicted(o), g \in Range(others) \ Evicted(o) : Before(others, f, g)
    BY <1>1, <2>1, <2>2, PartsInOrder
  <2>6. \A f \in Evicted(o), g \in Range(others) \ Evicted(o) : Before(open, f, g)
    BY <1>1, <2>5, BeforeWithin
  <2> QED
    BY <1>1, <1>3, <2>3, <2>4, <2>6
<1>5. CASE ~(spare > 0)
  <2>1. Evicted(o) = {} /\ Len(others) <= o.max - 1
    BY <1>2, <1>3, <1>5
  <2>2. IsFiniteSet(Range(others)) /\ Cardinality(Range(others)) = Len(others)
    BY <1>1, SizeOfRange
  <2> QED
    BY <1>1, <1>3, <2>1, <2>2
<1> QED
  BY <1>4, <1>5

LEMMA FinalOpenFacts ==
  ASSUME NEW o \in OpRec, open \in Seq(File), IsInjective(open)
  PROVE  \E n \in Nat :
           /\ n + Cardinality(Opening(o)) <= o.max
           /\ IsFiniteSet(FinalOpen(o) \ Range(o.files))
           /\ Cardinality(FinalOpen(o) \ Range(o.files)) <= n
           /\ \A f \in Range(open) \ (FinalOpen(o) \cup Range(o.files)),
                 g \in FinalOpen(o) \ Range(o.files) : Before(open, f, g)
<1> DEFINE others == Without(open, Range(o.files))
           room == IF Len(o.files) < o.max THEN o.max - Len(o.files) ELSE 0
           keep == IF Len(others) < room THEN Len(others) ELSE room
           last == Range(SubSeq(others, Len(others) - keep + 1, Len(others)))
<1>1. /\ others \in Seq(File) /\ IsInjective(others)
      /\ Range(others) = Range(open) \ Range(o.files)
      /\ Ordered(open, others)
  BY WithoutSome
<1>2. FinalOpen(o) = Opening(o) \cup last
  BY DEF FinalOpen
<1> HIDE DEF others
<1>3. o.max \in Nat /\ Len(o.files) \in Nat /\ Len(others) \in Nat
  BY <1>1 DEF OpRec
<1>4. room \in Nat /\ keep \in Nat /\ keep <= Len(others) /\ keep <= room
  BY <1>3
<1>5. /\ Opening(o) \subseteq Range(o.files) /\ IsFiniteSet(Opening(o))
      /\ Cardinality(Opening(o)) <= o.max
      /\ Cardinality(Opening(o)) <= Len(o.files)
  BY OpeningSize
<1>6. Cardinality(Opening(o)) \in Nat
  BY <1>5, FS_CardinalityType
<1>7. keep + Cardinality(Opening(o)) <= o.max
  <2>1. room + Cardinality(Opening(o)) <= o.max
    BY <1>3, <1>5, <1>6
  <2> HIDE DEF room, keep
  <2> QED
    BY <1>3, <1>4, <1>6, <2>1
<1> HIDE DEF keep, room
<1>8. last \subseteq Range(others) /\ IsFiniteSet(last) /\ Cardinality(last) <= keep
  BY <1>1, <1>4, PartsOf
<1>9. \A f \in Range(others) \ last, g \in last : Before(others, f, g)
  BY <1>1, <1>4, PartsInOrder
<1>10. \A f \in Range(others) \ last, g \in last : Before(open, f, g)
  BY <1>1, <1>9, BeforeWithin
<1> HIDE DEF last
<1>11. FinalOpen(o) \ Range(o.files) = last
  BY <1>1, <1>2, <1>5, <1>8
<1>12. Range(open) \ (FinalOpen(o) \cup Range(o.files)) \subseteq Range(others) \ last
  BY <1>1, <1>2
<1> QED
  BY <1>4, <1>7, <1>8, <1>10, <1>11, <1>12

-----------------------------------------------------------------------------
(* What a write leaves open. *)

LEMMA NowOpenFacts ==
  ASSUME NEW o \in OpRec, o.opened \subseteq Range(o.files)
  PROVE  /\ NowOpen(o) \subseteq Range(o.files) /\ NowOpen(o) \subseteq File
         /\ IsFiniteSet(NowOpen(o))
         /\ Range(o.files) \subseteq File /\ IsFiniteSet(Range(o.files))
<1>1. o.files \in Seq(File)
  BY DEF OpRec
<1>2. Range(o.files) \subseteq File /\ IsFiniteSet(Range(o.files))
  BY <1>1, SizeOfRange
<1>3. Opening(o) \subseteq Range(o.files)
  BY OpeningSize
<1>4. NowOpen(o) \subseteq Range(o.files)
  BY <1>3 DEF NowOpen
<1>5. NowOpen(o) \in SUBSET Range(o.files)
  BY <1>4
<1> QED
  BY <1>2, <1>4, <1>5, FS_Subset

LEMMA WriteOpens ==
  ASSUME OpenInv, NEW p \in Proc, Write(p), NEW o \in OpRec, o = op[p]
  PROVE  /\ open' \in Seq(File) /\ IsInjective(open')
         /\ Range(open') = (Range(open) \ (NowClosed(o) \cup Range(o.files))) \cup NowOpen(o)
<1>1. open \in Seq(File) /\ IsInjective(open) /\ o.opened \subseteq Range(o.files)
  BY DEF OpenInv, TypeOK
<1> DEFINE rest == Without(open, NowClosed(o) \cup Range(o.files))
<1>2. /\ rest \in Seq(File) /\ IsInjective(rest)
      /\ Range(rest) = Range(open) \ (NowClosed(o) \cup Range(o.files))
  BY <1>1, WithoutSome
<1>3. PICK latest \in SetToSeqs(NowOpen(o)) : open' = rest \o latest
  BY DEF Write
<1>4. /\ NowOpen(o) \subseteq Range(o.files) /\ NowOpen(o) \subseteq File
      /\ IsFiniteSet(NowOpen(o))
  BY <1>1, NowOpenFacts
<1>5. latest \in Seq(File) /\ IsInjective(latest) /\ Range(latest) = NowOpen(o)
  BY <1>4, AnyOrder
<1> HIDE DEF rest
<1>6. Range(rest) \cap Range(latest) = {}
  BY <1>2, <1>4, <1>5
<1>7. /\ rest \o latest \in Seq(File) /\ IsInjective(rest \o latest)
      /\ Range(rest \o latest) = Range(rest) \cup Range(latest)
  BY <1>2, <1>5, <1>6, ConcatApart
<1> QED
  BY <1>2, <1>3, <1>5, <1>7

(* Undisturbed, it leaves no more than the limit.                           *)
LEMMA WriteFits ==
  ASSUME FilesAssumption, OpenInv, NEW p \in Proc, Write(p),
         NEW o \in OpRec, o = op[p], ~o.stale
  PROVE  Len(open') <= limit
<1>1. /\ open \in Seq(File) /\ IsInjective(open) /\ o.opened \subseteq Range(o.files)
      /\ o.pc = "write" /\ o.max = limit /\ Asked(o) /\ Snapshot(o)
  BY DEF OpenInv, TypeOK, Snapshots, Snapshot, Write
<1>2. o.max \in Nat /\ o.max # 0 /\ limit \in Nat /\ o.files \in Seq(File) /\ o.bulk \in BOOLEAN
  BY <1>1 DEF Asked, FilesAssumption, OpRec
<1>3. /\ open' \in Seq(File) /\ IsInjective(open')
      /\ Range(open') = (Range(open) \ (NowClosed(o) \cup Range(o.files))) \cup NowOpen(o)
  BY WriteOpens
<1>4. Cardinality(Range(open')) = Len(open')
  BY <1>3, SizeOfRange
<1>5. CASE ~o.bulk
  <2> DEFINE others == Range(open) \ Range(o.files)
  <2>1. o.closing = Evicted(o) /\ Len(o.files) = 1
    BY <1>1, <1>5 DEF Asked, Snapshot
  <2>2. IsFiniteSet(others \ Evicted(o)) /\ Cardinality(others \ Evicted(o)) <= o.max - 1
    BY <1>1, <1>2, EvictedFacts
  <2>3. IsFiniteSet(Range(o.files)) /\ Cardinality(Range(o.files)) <= 1
    <3>1. IsFiniteSet(Range(o.files)) /\ Cardinality(Range(o.files)) <= Len(o.files)
      BY <1>2, SizeOfRange
    <3> QED
      BY <2>1, <3>1
  <2>4. NowOpen(o) \subseteq Range(o.files) /\ Evicted(o) \subseteq NowClosed(o)
    BY <1>1, <2>1, NowOpenFacts DEF NowClosed
  <2>5. Range(open') \subseteq (others \ Evicted(o)) \cup Range(o.files)
    BY <1>3, <2>4
  <2> HIDE DEF others
  <2>6. o.max - 1 \in Nat /\ 1 \in Nat
    BY <1>2
  <2>7. Cardinality(Range(open')) <= (o.max - 1) + 1
    BY <2>2, <2>3, <2>5, <2>6, SizeOfUnion
  <2>8. o.max - 1 + 1 = o.max
    BY <1>2
  <2> QED
    BY <1>1, <1>4, <2>7, <2>8
<1>6. CASE o.bulk
  <2>1. /\ o.closing = Range(open) \ FinalOpen(o)
        /\ Range(o.files) \cap Range(open) \subseteq o.opened
    BY <1>1, <1>6 DEF Snapshot
  <2>2. PICK n \in Nat :
          /\ n + Cardinality(Opening(o)) <= o.max
          /\ IsFiniteSet(FinalOpen(o) \ Range(o.files))
          /\ Cardinality(FinalOpen(o) \ Range(o.files)) <= n
    BY <1>1, FinalOpenFacts
  <2>3. IsFiniteSet(Opening(o)) /\ Cardinality(Opening(o)) \in Nat
    BY OpeningSize, FS_CardinalityType
  <2>4. NowOpen(o) \subseteq Opening(o)
    BY <2>1 DEF NowOpen
  <2>5. Range(open) \ (NowClosed(o) \cup Range(o.files)) \subseteq FinalOpen(o) \ Range(o.files)
    BY <2>1 DEF NowClosed
  <2>6. Range(open') \subseteq (FinalOpen(o) \ Range(o.files)) \cup Opening(o)
    BY <1>3, <2>4, <2>5
  <2>7. Cardinality(Opening(o)) <= Cardinality(Opening(o))
    BY <2>3
  <2>8. Cardinality(Range(open')) <= n + Cardinality(Opening(o))
    BY <2>2, <2>3, <2>6, <2>7, SizeOfUnion
  <2>9. IsFiniteSet(Range(open'))
    BY <1>3, SizeOfRange
  <2>10. Cardinality(Range(open')) \in Nat
    BY <2>9, FS_CardinalityType
  <2> QED
    BY <1>1, <1>2, <1>4, <2>2, <2>3, <2>8, <2>10
<1> QED
  BY <1>2, <1>5, <1>6

-----------------------------------------------------------------------------
(* Each action keeps the invariant. *)

LEMMA InitInv ==
  ASSUME FilesAssumption, Init
  PROVE  OpenInv
<1>1. open = << >> /\ DOMAIN open = {} /\ Len(open) = 0
  BY DEF Init
<1>2. IsInjective(open) /\ Range(open) = {}
  BY <1>1 DEF IsInjective, Range
<1>3. op \in [Proc -> OpRec] /\ \A p \in Proc : op[p] = None
  BY NoneType DEF Init
<1>4. TypeOK
  <2>1. \A p \in Proc : op[p].pc = "none" /\ op[p].opened = {}
    BY <1>3, NoneType
  <2>2. open \in Seq(File)
    BY <1>1
  <2> QED
    BY <1>1, <1>2, <2>1, <2>2 DEF TypeOK, Init
<1>5. Snapshots
  BY <1>3, NoneType DEF Snapshots, Asked, Snapshot
<1>6. WithinLimit
  <2>1. limit \in Nat
    BY DEF Init, FilesAssumption
  <2> QED
    BY <1>1, <2>1 DEF WithinLimit
<1> QED
  BY <1>3, <1>4, <1>5, <1>6 DEF OpenInv, OpTypes

(* A read or a refusal changes one transaction only.                        *)
LEMMA ReadKeeps ==
  ASSUME OpenInv, NEW p \in Proc, NEW o \in OpRec, op' = [op EXCEPT ![p] = o],
         UNCHANGED <<row, open, limit, excused>>,
         o.opened \subseteq Range(o.files), Asked(o), Snapshot(o)'
  PROVE  OpenInv'
<1>1. op \in [Proc -> OpRec]
  BY DEF OpenInv, OpTypes
<1>2. op' \in [Proc -> OpRec] /\ op'[p] = o /\ \A q \in Proc : q # p => op'[q] = op[q]
  BY <1>1
<1>3. TypeOK'
  <2>1. \A q \in Proc : /\ op'[q].pc \in {"none", "list", "row", "write"}
                        /\ op'[q].opened \subseteq Range(op'[q].files)
    <3>1. o.pc \in {"none", "list", "row", "write"}
      BY DEF OpRec
    <3> QED
      BY <1>2, <3>1 DEF OpenInv, TypeOK
  <2> QED
    BY <2>1 DEF OpenInv, TypeOK
<1>4. Snapshots'
  <2>1. ASSUME NEW q \in Proc, NEW r \in OpRec, r = op'[q]
        PROVE  Asked(r) /\ Snapshot(r)'
    <3>1. CASE q = p
      BY <1>2, <2>1, <3>1
    <3>2. CASE q # p
      <4>1. r = op[q]
        BY <1>2, <2>1, <3>2
      <4>2. Asked(r) /\ Snapshot(r)
        BY <4>1 DEF OpenInv, Snapshots
      <4> QED
        BY <4>2, SameSnapshot
    <3> QED
      BY <3>1, <3>2
  <2> QED
    BY <2>1 DEF Snapshots
<1>5. WithinLimit'
  BY DEF OpenInv, WithinLimit
<1> QED
  BY <1>2, <1>3, <1>4, <1>5 DEF OpenInv, OpTypes

(* A commit ends its own transaction and disturbs the others.               *)
Committed == \A q \in Proc : op'[q] = None \/ op'[q] = Disturbed(op[q])

LEMMA CommitKeeps ==
  ASSUME OpenInv, op' \in [Proc -> OpRec], Committed, limit' = limit
  PROVE  Snapshots'
<1>1. op \in [Proc -> OpRec]
  BY DEF OpenInv, OpTypes
<1>2. ASSUME NEW q \in Proc, NEW r \in OpRec, r = op'[q]
      PROVE  Asked(r) /\ Snapshot(r)'
  <2>1. CASE r = None
    BY <2>1, NoneType DEF Asked, Snapshot
  <2>2. ASSUME NEW o \in OpRec, o = op[q], r = Disturbed(o)
        PROVE  Asked(r) /\ Snapshot(r)'
    <3>1. Asked(o) /\ Snapshot(o)
      BY <2>2 DEF OpenInv, Snapshots
    <3>2. /\ r.pc = o.pc /\ r.files = o.files /\ r.max = o.max /\ r.bulk = o.bulk
          /\ HasRead(o) => r.stale = TRUE
          /\ ~HasRead(o) => r = o
      BY <2>2, DisturbedType
    <3>3. Asked(r)
      BY <3>1, <3>2 DEF Asked
    <3>4. CASE HasRead(o)
      <4>1. r.stale
        BY <3>2, <3>4
      <4> QED
        BY <3>3, <4>1 DEF Snapshot
    <3>5. CASE ~HasRead(o)
      <4>1. ~HasRead(r) /\ (r.pc # "none" /\ ~r.stale => r.max = limit')
        BY <3>1, <3>2, <3>5 DEF Snapshot
      <4>2. Snapshot(r)'
        BY <4>1, UnreadSnapshot
      <4> QED
        BY <3>3, <4>2
    <3> QED
      BY <3>3, <3>4, <3>5
  <2> QED
    BY <1>1, <1>2, <2>1, <2>2 DEF Committed
<1> QED
  BY <1>2 DEF Snapshots

LEMMA CommitTypes ==
  ASSUME OpenInv, DisturbsAll \/ \E p \in Proc : Disturbs(p)
  PROVE  /\ op' \in [Proc -> OpRec] /\ Committed
         /\ \A q \in Proc : /\ op'[q].pc \in {"none", "list", "row", "write"}
                            /\ op'[q].opened \subseteq Range(op'[q].files)
<1>1. op \in [Proc -> OpRec]
  BY DEF OpenInv, OpTypes
<1>2. \A q \in Proc : Disturbed(op[q]) \in OpRec
  BY <1>1, DisturbedType
<1>3. op' \in [Proc -> OpRec] /\ Committed
  <2>1. CASE \E p \in Proc : Disturbs(p)
    BY <1>2, <2>1, NoneType DEF Disturbs, Committed
  <2>2. CASE DisturbsAll
    BY <1>2, <2>2 DEF DisturbsAll, Committed
  <2> QED
    BY <2>1, <2>2
<1>4. ASSUME NEW q \in Proc
      PROVE  /\ op'[q].pc \in {"none", "list", "row", "write"}
             /\ op'[q].opened \subseteq Range(op'[q].files)
  <2>1. CASE op'[q] = None
    BY <2>1, NoneType
  <2>2. CASE op'[q] = Disturbed(op[q])
    <3>1. /\ op[q].pc \in {"none", "list", "row", "write"}
          /\ op[q].opened \subseteq Range(op[q].files)
      BY DEF OpenInv, TypeOK
    <3>2. op'[q].pc = op[q].pc /\ op'[q].opened = op[q].opened /\ op'[q].files = op[q].files
      BY <1>1, <2>2, DisturbedType
    <3> QED
      BY <3>1, <3>2
  <2> QED
    BY <1>3, <2>1, <2>2 DEF Committed
<1> QED
  BY <1>3, <1>4

LEMMA BeginInv ==
  ASSUME OpenInv, NEW p \in Proc, NEW files \in Seq(File), NEW bulk \in BOOLEAN,
         bulk \/ Len(files) = 1, Begin(p, files, bulk)
  PROVE  OpenInv'
<1> DEFINE begun == [None EXCEPT !.pc = IF bulk THEN "row" ELSE "list",
                                 !.files = files, !.max = limit, !.bulk = bulk]
<1>1. limit \in Limits /\ Limits \subseteq Nat
  BY FilesAssumption DEF OpenInv, TypeOK
<1>2. begun \in OpRec
  BY <1>1 DEF None, OpRec
<1>3. PICK o \in OpRec : o = begun
  BY <1>2
<1>4. /\ o.pc = (IF bulk THEN "row" ELSE "list") /\ o.files = files /\ o.max = limit
      /\ o.bulk = bulk /\ o.opened = {}
  BY <1>3 DEF None
<1>5. op' = [op EXCEPT ![p] = o] /\ UNCHANGED <<row, open, limit, excused>>
  BY <1>3 DEF Begin
<1> HIDE DEF begun
<1>6. Asked(o)
  BY <1>1, <1>4 DEF Asked
<1>7. Snapshot(o)'
  <2>1. /\ o.max = limit'
        /\ o.pc = (IF o.bulk THEN "row" ELSE "list")
    BY <1>4, <1>5
  <2> QED
    BY <2>1 DEF Snapshot
<1>8. o.opened \subseteq Range(o.files)
  BY <1>4
<1> QED
  BY <1>5, <1>6, <1>7, <1>8, ReadKeeps

(* Two transactions that asked for the same close the same.                 *)
LEMMA SameRequest ==
  ASSUME NEW o, NEW r, o.files = r.files, o.max = r.max
  PROVE  Evicted(o) = Evicted(r) /\ FinalOpen(o) = FinalOpen(r)
BY DEF Evicted, FinalOpen, Opening

LEMMA ReadOpenInv ==
  ASSUME OpenInv, NEW p \in Proc, ReadOpen(p)
  PROVE  OpenInv'
<1> DEFINE o == op[p]
           one_read == [o EXCEPT !.pc = "row", !.closing = Evicted(o),
                                 !.opened = Range(open) \cap Range(o.files)]
           all_read == [o EXCEPT !.pc = "write", !.closing = Range(open) \ FinalOpen(o)]
<1>1. /\ op' = [op EXCEPT ![p] = IF o.bulk THEN all_read ELSE one_read] /\ o.pc = "list"
      /\ UNCHANGED <<row, open, limit, excused>>
  BY DEF ReadOpen
<1>2. o \in OpRec /\ open \in Seq(File) /\ IsInjective(open) /\ o.opened \subseteq Range(o.files)
  BY DEF OpenInv, OpTypes, TypeOK
<1>3. Asked(o) /\ Snapshot(o)
  BY <1>2 DEF OpenInv, Snapshots
<1>4. Range(open) \subseteq File
  BY <1>2, SizeOfRange
<1>5. Evicted(o) \subseteq File
  <2>1. o.max # 0
    BY <1>1, <1>3, FilesAssumption DEF Asked
  <2> QED
    BY <1>2, <1>4, <2>1, EvictedFacts
<1>6. CASE o.bulk
  <2>0. PICK all \in OpRec : all = all_read
    <3>1. all_read \in OpRec
      BY <1>2, <1>4 DEF OpRec
    <3> QED
      BY <3>1
  <2>1. /\ all.pc = "write" /\ all.files = o.files /\ all.max = o.max
        /\ all.bulk /\ all.opened = o.opened /\ all.closing = Range(open) \ FinalOpen(o)
        /\ all.stale = o.stale
    BY <1>2, <1>6, <2>0 DEF OpRec
  <2>2. op' = [op EXCEPT ![p] = all] /\ UNCHANGED <<row, open, limit, excused>>
    BY <1>1, <1>6, <2>0
  <2> HIDE DEF all_read
  <2>3. FinalOpen(all) = FinalOpen(o)
    BY <2>1, SameRequest
  <2>4. Asked(all)
    BY <1>1, <1>3, <2>1 DEF Asked
  <2>5. Snapshot(all)
    <3>1. ~o.stale => o.max = limit /\ Range(o.files) \cap Range(open) \subseteq o.opened
      BY <1>1, <1>3, <1>6 DEF Snapshot
    <3> HIDE DEF o
    <3> QED
      BY <2>1, <2>3, <3>1 DEF Snapshot
  <2>6. all.opened \subseteq Range(all.files)
    BY <1>2, <2>1
  <2>7. Snapshot(all)'
    BY <2>2, <2>5, SameSnapshot
  <2> QED
    BY <2>2, <2>4, <2>6, <2>7, ReadKeeps
<1>7. CASE ~o.bulk
  <2>0. PICK one \in OpRec : one = one_read
    <3>1. one_read \in OpRec
      BY <1>2, <1>4, <1>5 DEF OpRec
    <3> QED
      BY <3>1
  <2>1. /\ one.pc = "row" /\ one.files = o.files /\ one.max = o.max
        /\ ~one.bulk /\ one.opened = Range(open) \cap Range(o.files)
        /\ one.closing = Evicted(o) /\ one.stale = o.stale
    BY <1>2, <1>7, <2>0 DEF OpRec
  <2>2. op' = [op EXCEPT ![p] = one] /\ UNCHANGED <<row, open, limit, excused>>
    BY <1>1, <1>7, <2>0
  <2> HIDE DEF one_read
  <2>3. Evicted(one) = Evicted(o)
    BY <2>1, SameRequest
  <2>4. Asked(one)
    BY <1>1, <1>3, <1>7, <2>1 DEF Asked
  <2>5. Snapshot(one)
    <3>1. ~o.stale => o.max = limit
      BY <1>1, <1>3 DEF Snapshot
    <3> HIDE DEF o
    <3> QED
      BY <2>1, <2>3, <3>1 DEF Snapshot
  <2>6. one.opened \subseteq Range(one.files)
    BY <2>1
  <2>7. Snapshot(one)'
    BY <2>2, <2>5, SameSnapshot
  <2> QED
    BY <2>2, <2>4, <2>6, <2>7, ReadKeeps
<1> QED
  BY <1>6, <1>7

LEMMA ReadRowsInv ==
  ASSUME OpenInv, NEW p \in Proc, ReadRows(p)
  PROVE  OpenInv'
<1> DEFINE o == op[p]
           rows == Range(o.files) \cap Attached
           read == [o EXCEPT !.pc = IF o.bulk THEN "list" ELSE "write", !.rows = rows,
                             !.opened = rows \cap (o.opened \cup Range(open))]
<1>1. /\ o \in OpRec /\ open \in Seq(File) /\ o.opened \subseteq Range(o.files)
      /\ op \in [Proc -> OpRec]
  BY DEF OpenInv, OpTypes, TypeOK
<1>2. /\ op' = [op EXCEPT ![p] = read] /\ o.pc = "row"
      /\ UNCHANGED <<row, open, limit, excused>>
  BY <1>1 DEF ReadRows, OpRec
<1>3. Asked(o) /\ Snapshot(o)
  BY <1>1 DEF OpenInv, Snapshots
<1>4. Range(open) \subseteq Attached
  BY <1>1, SizeOfRange DEF OpenInv, TypeOK, Attached
<1>5. rows \subseteq File
  BY DEF Attached
<1>6. rows \subseteq Range(o.files) /\ Range(o.files) \cap Range(open) \subseteq rows
  BY <1>4
<1> HIDE DEF rows
<1>13. PICK r \in OpRec : r = read
  <2>1. read \in OpRec
    BY <1>1, <1>5 DEF OpRec
  <2> QED
    BY <2>1
<1>7. /\ r.pc = (IF o.bulk THEN "list" ELSE "write") /\ r.files = o.files
      /\ r.max = o.max /\ r.bulk = o.bulk /\ r.opened = rows \cap (o.opened \cup Range(open))
      /\ r.closing = o.closing /\ r.stale = o.stale
  BY <1>1, <1>13 DEF OpRec
<1>14. op' = [op EXCEPT ![p] = r] /\ UNCHANGED <<row, open, limit, excused>>
  BY <1>2, <1>13
<1> HIDE DEF read
<1>8. Evicted(r) = Evicted(o)
  BY <1>7, SameRequest
<1>9. Asked(r)
  BY <1>2, <1>3, <1>7 DEF Asked
<1>10. Snapshot(r)
  <2>1. ~o.stale => o.max = limit /\ (~o.bulk => o.closing = Evicted(o))
    BY <1>2, <1>3 DEF Snapshot
  <2>2. Range(r.files) \cap Range(open) \subseteq r.opened
    BY <1>6, <1>7
  <2>3. /\ r.pc # "row" /\ (r.pc = "write" => ~r.bulk)
        /\ ~r.stale => r.max = limit
        /\ ~r.stale /\ ~r.bulk => r.closing = Evicted(r)
    BY <1>7, <1>8, <2>1
  <2> QED
    BY <2>2, <2>3 DEF Snapshot
<1>11. r.opened \subseteq Range(r.files)
  BY <1>6, <1>7
<1>12. Snapshot(r)'
  BY <1>14, <1>10, SameSnapshot
<1> QED
  BY <1>14, <1>9, <1>11, <1>12, ReadKeeps

LEMMA RefusedInv ==
  ASSUME OpenInv, NEW p \in Proc, Refused(p)
  PROVE  OpenInv'
<1>1. PICK b \in BOOLEAN : b = ~op[p].stale
  OBVIOUS
<1>2. PICK o \in OpRec : o = [None EXCEPT !.refused = b]
  BY NoneType DEF OpRec
<1>3. o.pc = "none" /\ o.opened = {}
  BY <1>2, NoneType DEF None
<1>4. op' = [op EXCEPT ![p] = o] /\ UNCHANGED <<row, open, limit, excused>>
  BY <1>1, <1>2 DEF Refused
<1>5. Asked(o) /\ o.opened \subseteq Range(o.files)
  BY <1>3 DEF Asked
<1>6. Snapshot(o)'
  BY <1>3 DEF Snapshot
<1> QED
  BY <1>4, <1>5, <1>6, ReadKeeps

LEMMA CommitInv ==
  ASSUME OpenInv, DisturbsAll \/ \E p \in Proc : Disturbs(p), limit' = limit,
         row' \in [File -> {"none", "attached", "detached"}],
         open' \in Seq(File), IsInjective(open'),
         \A f \in Range(open') : row'[f] = "attached",
         excused' \in BOOLEAN, excused' \/ Len(open') <= limit
  PROVE  OpenInv'
<1>1. /\ op' \in [Proc -> OpRec] /\ Committed
      /\ \A q \in Proc : /\ op'[q].pc \in {"none", "list", "row", "write"}
                         /\ op'[q].opened \subseteq Range(op'[q].files)
  BY CommitTypes
<1>2. Snapshots'
  BY <1>1, CommitKeeps
<1>3. TypeOK'
  <2>1. limit' \in Limits
    BY DEF OpenInv, TypeOK
  <2> QED
    BY <1>1, <2>1 DEF TypeOK
<1>4. WithinLimit'
  BY DEF WithinLimit
<1> QED
  BY <1>1, <1>2, <1>3, <1>4 DEF OpenInv, OpTypes

LEMMA WriteInv ==
  ASSUME OpenInv, NEW p \in Proc, Write(p)
  PROVE  OpenInv'
<1> DEFINE o == op[p]
<1>1. /\ o \in OpRec /\ o.opened \subseteq Range(o.files)
      /\ row \in [File -> {"none", "attached", "detached"}]
      /\ \A f \in Range(open) : row[f] = "attached"
  BY DEF OpenInv, OpTypes, TypeOK
<1>2. /\ row' = [f \in File |-> IF f \in Range(o.files) \ o.rows THEN "attached" ELSE row[f]]
      /\ Disturbs(p) /\ excused' = o.stale /\ limit' = limit
  BY DEF Write
<1>3. /\ open' \in Seq(File) /\ IsInjective(open')
      /\ Range(open') = (Range(open) \ (NowClosed(o) \cup Range(o.files))) \cup NowOpen(o)
  BY <1>1, WriteOpens
<1>4. row' \in [File -> {"none", "attached", "detached"}]
  BY <1>1, <1>2
<1>5. ASSUME NEW f \in Range(open')
      PROVE  row'[f] = "attached"
  <2>1. f \in File
    BY <1>3, SizeOfRange
  <2>2. CASE f \in Range(open)
    BY <1>1, <1>2, <2>1, <2>2
  <2>3. CASE f \notin Range(open)
    <3>1. f \in NowOpen(o)
      BY <1>3, <2>3
    <3>2. f \in Opening(o) /\ (f \notin o.rows \/ row[f] = "attached")
      BY <2>3, <3>1 DEF NowOpen, Reopened
    <3>3. f \in Range(o.files)
      BY <1>1, <3>2, OpeningSize
    <3> QED
      BY <1>2, <2>1, <3>2, <3>3
  <2> QED
    BY <2>2, <2>3
<1>6. excused' \in BOOLEAN
  BY <1>1, <1>2 DEF OpRec
<1>7. excused' \/ Len(open') <= limit
  BY <1>1, <1>2, WriteFits, FilesAssumption
<1> QED
  BY <1>2, <1>3, <1>4, <1>5, <1>6, <1>7, CommitInv

(* A statement that closes files, and one that does not open any.           *)
LEMMA SmallerInv ==
  ASSUME OpenInv, DisturbsAll, UNCHANGED <<limit, excused>>,
         row' \in [File -> {"none", "attached", "detached"}],
         open' \in Seq(File), IsInjective(open'), Range(open') \subseteq Range(open),
         \A f \in Range(open') : row'[f] = "attached"
  PROVE  OpenInv'
<1>1. open \in Seq(File) /\ IsInjective(open) /\ excused \in BOOLEAN
  BY DEF OpenInv, TypeOK
<1>2. /\ IsFiniteSet(Range(open)) /\ Cardinality(Range(open)) = Len(open)
      /\ IsFiniteSet(Range(open')) /\ Cardinality(Range(open')) = Len(open')
  BY <1>1, SizeOfRange
<1>3. Len(open') <= Len(open)
  <2>1. Range(open') \in SUBSET Range(open)
    OBVIOUS
  <2>2. Cardinality(Range(open')) <= Cardinality(Range(open))
    BY <1>2, <2>1, FS_Subset
  <2> QED
    BY <1>2, <2>2
<1>4. excused \/ Len(open) <= limit
  BY DEF OpenInv, WithinLimit
<1>5. excused' \/ Len(open') <= limit
  <2>1. Len(open') \in Nat /\ Len(open) \in Nat /\ limit \in Nat
    BY <1>1, FilesAssumption DEF OpenInv, TypeOK
  <2> DEFINE m == Len(open')
             n == Len(open)
  <2> HIDE DEF m, n
  <2>2. m <= n /\ m \in Nat /\ n \in Nat /\ limit \in Nat /\ (excused \/ n <= limit)
    BY <1>3, <1>4, <2>1 DEF m, n
  <2>3. excused \/ m <= limit
    BY <2>2
  <2> QED
    BY <2>3 DEF m
<1> QED
  BY <1>1, <1>5, CommitInv

LEMMA CloseInv ==
  ASSUME OpenInv, NEW X, open' = Without(open, X), DisturbsAll,
         UNCHANGED <<limit, excused>>,
         row' \in [File -> {"none", "attached", "detached"}],
         \A f \in Range(open) \ X : row'[f] = row[f]
  PROVE  OpenInv'
<1>1. /\ open \in Seq(File) /\ IsInjective(open)
      /\ \A f \in Range(open) : row[f] = "attached"
  BY DEF OpenInv, TypeOK
<1>2. /\ open' \in Seq(File) /\ IsInjective(open') /\ Range(open') = Range(open) \ X
  BY <1>1, WithoutSome
<1> QED
  BY <1>1, <1>2, SmallerInv

LEMMA MarkAccessInv ==
  ASSUME OpenInv, NEW f \in File, MarkAccess(f)
  PROVE  OpenInv'
<1> DEFINE rest == Without(open, {f})
<1>1. /\ open \in Seq(File) /\ IsInjective(open)
      /\ \A g \in Range(open) : row[g] = "attached"
      /\ row \in [File -> {"none", "attached", "detached"}]
  BY DEF OpenInv, TypeOK
<1>2. rest \in Seq(File) /\ IsInjective(rest) /\ Range(rest) = Range(open) \ {f}
  BY <1>1, WithoutSome
<1>3. /\ open' = Append(rest, f) /\ f \in Range(open) /\ DisturbsAll
      /\ UNCHANGED <<row, limit, excused>>
  BY DEF MarkAccess
<1> HIDE DEF rest
<1>4. PICK t \in Seq(File) : t = <<f>>
  <2>1. <<f>> \in Seq(File)
    OBVIOUS
  <2> QED
    BY <2>1
<1>5. IsInjective(t) /\ Range(t) = {f}
  <2>1. DOMAIN t = {1} /\ t[1] = f
    BY <1>4
  <2> QED
    BY <2>1 DEF IsInjective, Range
<1>6. Append(rest, f) = rest \o t
  BY <1>2, <1>4
<1>7. Range(rest) \cap Range(t) = {}
  BY <1>2, <1>5
<1>8. /\ rest \o t \in Seq(File) /\ IsInjective(rest \o t)
      /\ Range(rest \o t) = Range(rest) \cup Range(t)
  BY <1>2, <1>5, <1>7, ConcatApart
<1>9. /\ open' \in Seq(File) /\ IsInjective(open') /\ Range(open') \subseteq Range(open)
  BY <1>2, <1>3, <1>5, <1>6, <1>8
<1> QED
  BY <1>1, <1>3, <1>9, SmallerInv

LEMMA SetLimitInv ==
  ASSUME OpenInv, NEW n \in Limits, SetLimit(n)
  PROVE  OpenInv'
<1>1. /\ op \in [Proc -> OpRec] /\ open \in Seq(File) /\ n \in Nat /\ excused \in BOOLEAN
      /\ \A p \in Proc : /\ op[p].pc \in {"none", "list", "row", "write"}
                         /\ op[p].opened \subseteq Range(op[p].files)
  BY FilesAssumption DEF OpenInv, OpTypes, TypeOK
<1>2. ASSUME NEW p \in Proc
      PROVE  /\ op'[p] \in OpRec /\ op'[p].pc = op[p].pc /\ op'[p].files = op[p].files
             /\ op'[p].max = op[p].max /\ op'[p].bulk = op[p].bulk
             /\ op'[p].opened = op[p].opened
             /\ op[p].pc # "none" => op'[p].stale = TRUE
  <2>1. op'[p] = IF op[p].pc = "none" THEN op[p] ELSE [op[p] EXCEPT !.stale = TRUE]
    BY DEF SetLimit
  <2>2. op[p] \in OpRec
    BY <1>1
  <2> QED
    BY <2>1, <2>2 DEF OpRec
<1>3. op' \in [Proc -> OpRec]
  <2>1. op' = [p \in Proc |-> IF op[p].pc = "none" THEN op[p] ELSE [op[p] EXCEPT !.stale = TRUE]]
    BY DEF SetLimit
  <2> QED
    BY <1>2, <2>1
<1>4. TypeOK'
  BY <1>1, <1>2 DEF OpenInv, TypeOK, SetLimit
<1>5. Snapshots'
  <2>1. ASSUME NEW q \in Proc, NEW r \in OpRec, r = op'[q]
        PROVE  Asked(r) /\ Snapshot(r)'
    <3>1. PICK o \in OpRec : o = op[q]
      BY <1>1
    <3>2. Asked(o)
      BY <3>1 DEF OpenInv, Snapshots
    <3>3. /\ r.pc = o.pc /\ r.files = o.files /\ r.max = o.max /\ r.bulk = o.bulk
          /\ r.pc = "none" \/ r.stale
      BY <1>2, <2>1, <3>1
    <3> QED
      BY <3>2, <3>3 DEF Asked, Snapshot
  <2> QED
    BY <2>1 DEF Snapshots
<1>6. WithinLimit'
  <2>1. (Len(open) > n) = ~(Len(open) <= n)
    BY <1>1
  <2>2. limit' = n /\ open' = open /\ excused' = (excused \/ Len(open) > n)
    BY DEF SetLimit
  <2> QED
    BY <2>1, <2>2 DEF WithinLimit
<1> QED
  BY <1>3, <1>4, <1>5, <1>6 DEF OpenInv, OpTypes

LEMMA StepInv ==
  ASSUME OpenInv, [Next]_vars
  PROVE  OpenInv'
<1>1. ASSUME NEW p \in Proc, NEW f \in File, OpenFile(p, f)
      PROVE  OpenInv'
  <2>1. PICK files \in Seq(File) : files = <<f>>
    <3>1. <<f>> \in Seq(File)
      OBVIOUS
    <3> QED
      BY <3>1
  <2>2. Len(files) = 1 /\ Begin(p, files, FALSE) /\ FALSE \in BOOLEAN
    BY <1>1, <2>1 DEF OpenFile
  <2> QED
    BY <2>2, BeginInv
<1>2. ASSUME NEW p \in Proc, NEW files \in Folders, AttachFolder(p, files)
      PROVE  OpenInv'
  <2>1. files \in Seq(File) /\ Begin(p, files, TRUE) /\ TRUE \in BOOLEAN
    BY <1>2, FilesAssumption DEF AttachFolder
  <2> QED
    BY <2>1, BeginInv
<1>3. ASSUME NEW p \in Proc, ReadOpen(p) \/ ReadRows(p) \/ Write(p) \/ Refused(p)
      PROVE  OpenInv'
  BY <1>3, ReadOpenInv, ReadRowsInv, WriteInv, RefusedInv
<1>4. /\ row \in [File -> {"none", "attached", "detached"}]
      /\ \A f \in Range(open) : f \in File
  <2>1. open \in Seq(File)
    BY DEF OpenInv, TypeOK
  <2> QED
    BY <2>1, SizeOfRange DEF OpenInv, TypeOK
<1>5. ASSUME NEW f \in File, CloseFile(f)
      PROVE  OpenInv'
  <2>1. open' = Without(open, {f}) /\ DisturbsAll /\ UNCHANGED <<limit, excused>> /\ row' = row
    BY <1>5 DEF CloseFile
  <2> QED
    BY <1>4, <2>1, CloseInv
<1>6. ASSUME NEW f \in File, CloseOthers({f})
      PROVE  OpenInv'
  <2>1. /\ open' = Without(open, Range(open) \ {f}) /\ DisturbsAll
        /\ UNCHANGED <<limit, excused>> /\ row' = row
    BY <1>6 DEF CloseOthers
  <2> QED
    BY <1>4, <2>1, CloseInv
<1>7. ASSUME NEW f \in File, Detach(f)
      PROVE  OpenInv'
  <2>1. /\ open' = Without(open, {f}) /\ DisturbsAll /\ UNCHANGED <<limit, excused>>
        /\ row' = [row EXCEPT ![f] = "detached"]
    BY <1>7 DEF Detach
  <2>2. row' \in [File -> {"none", "attached", "detached"}]
    BY <1>4, <2>1
  <2>3. \A g \in Range(open) \ {f} : row'[g] = row[g]
    BY <1>4, <2>1
  <2> QED
    BY <2>1, <2>2, <2>3, CloseInv
<1>8. ASSUME UNCHANGED vars
      PROVE  OpenInv'
  <2>1. UNCHANGED <<row, open, limit, op, excused>>
    BY <1>8 DEF vars
  <2>2. TypeOK' /\ OpTypes' /\ WithinLimit'
    BY <2>1 DEF OpenInv, TypeOK, OpTypes, WithinLimit
  <2>3. Snapshots'
    <3>1. ASSUME NEW p \in Proc, NEW o \in OpRec, o = op'[p]
          PROVE  Asked(o) /\ Snapshot(o)'
      <4>1. Asked(o) /\ Snapshot(o)
        BY <2>1, <3>1 DEF OpenInv, Snapshots
      <4> QED
        BY <2>1, <4>1, SameSnapshot
    <3> QED
      BY <3>1 DEF Snapshots
  <2> QED
    BY <2>2, <2>3 DEF OpenInv
<1>9. ASSUME NEW n \in Limits, SetLimit(n)
      PROVE  OpenInv'
  BY <1>9, SetLimitInv
<1> QED
  BY <1>1, <1>2, <1>3, <1>5, <1>6, <1>7, <1>8, <1>9, MarkAccessInv DEF Next

-----------------------------------------------------------------------------
LEMMA InvHolds == Spec => []OpenInv
<1>1. Init => OpenInv
  BY InitInv, FilesAssumption
<1>2. OpenInv /\ [Next]_vars => OpenInv'
  BY StepInv
<1> QED
  BY <1>1, <1>2, PTL DEF Spec

(* Types; among them that no file is open twice, and none that is not       *)
(* attached (enforce_max_open_files_and_open, attach_files_bulk, detach).   *)
THEOREM FilesTypesCorrect == Spec => []TypeOK
<1>1. OpenInv => TypeOK
  BY DEF OpenInv
<1> QED
  BY <1>1, InvHolds, PTL

(* At most max_files_open files are open unless transactions overlapped or  *)
(* the limit was lowered (enforce_max_open_files_and_open,                  *)
(* attach_files_bulk).                                                      *)
THEOREM FilesWithinLimit == Spec => []WithinLimit
<1>1. OpenInv => WithinLimit
  BY DEF OpenInv
<1> QED
  BY <1>1, InvHolds, PTL

-----------------------------------------------------------------------------
(* What a transaction closes was accessed before what it leaves open. *)

LEMMA PositionOf ==
  ASSUME open \in Seq(File), IsInjective(open), NEW f, NEW g, Before(open, f, g)
  PROVE  Position(f) < Position(g)
<1>1. PICK i \in 1 .. Len(open), j \in 1 .. Len(open) : i < j /\ open[i] = f /\ open[j] = g
  BY DEF Before
<1>2. DOMAIN open = 1 .. Len(open)
  OBVIOUS
<1>3. Position(f) = i
  <2>1. Position(f) \in 1 .. Len(open) /\ open[Position(f)] = f
    BY <1>1 DEF Position
  <2> QED
    BY <1>1, <1>2, <2>1 DEF IsInjective
<1>4. Position(g) = j
  <2>1. Position(g) \in 1 .. Len(open) /\ open[Position(g)] = g
    BY <1>1 DEF Position
  <2> QED
    BY <1>1, <1>2, <2>1 DEF IsInjective
<1> QED
  BY <1>1, <1>3, <1>4

LEMMA ClosesOldest ==
  ASSUME OpenInv, NEW o \in OpRec, NEW p \in Proc, o = op[p], o.pc = "write", ~o.stale,
         NEW f \in Range(open) \cap o.closing, f \notin Range(o.files),
         NEW g \in Range(open) \ o.closing, g \notin Range(o.files)
  PROVE  Position(f) < Position(g)
<1>1. open \in Seq(File) /\ IsInjective(open) /\ Asked(o) /\ Snapshot(o)
  BY DEF OpenInv, TypeOK, Snapshots
<1>2. Before(open, f, g)
  <2>1. CASE ~o.bulk
    <3>1. o.closing = Evicted(o)
      BY <1>1, <2>1 DEF Snapshot
    <3>2. o.max # 0
      BY <1>1, FilesAssumption DEF Asked
    <3>3. \A e \in Evicted(o), h \in (Range(open) \ Range(o.files)) \ Evicted(o) :
            Before(open, e, h)
      BY <1>1, <3>2, EvictedFacts
    <3> QED
      BY <3>1, <3>3
  <2>2. CASE o.bulk
    <3>1. o.closing = Range(open) \ FinalOpen(o)
      BY <1>1, <2>2 DEF Snapshot
    <3>2. \A e \in Range(open) \ (FinalOpen(o) \cup Range(o.files)),
             h \in FinalOpen(o) \ Range(o.files) : Before(open, e, h)
      BY <1>1, FinalOpenFacts
    <3> QED
      BY <3>1, <3>2
  <2> QED
    BY <2>1, <2>2
<1> QED
  BY <1>1, <1>2, PositionOf

(* A transaction leaves its write only by writing, or because it is refused *)
(* what another one has inserted meanwhile.                                 *)
Writing(p) == op[p].pc = "write" /\ op'[p] = None /\ ~op[p].stale

LEMMA OnlyWriteEnds ==
  ASSUME OpenInv, [Next]_vars, NEW p \in Proc, Writing(p)
  PROVE  Write(p)
<1>1. op \in [Proc -> OpRec] /\ op[p] \in OpRec
  BY DEF OpenInv, OpTypes
<1>2. op'[p] # op[p] /\ op'[p] # Disturbed(op[p])
  <2>1. op[p].pc = "write" /\ Disturbed(op[p]).pc = "write" /\ op'[p].pc = "none"
    BY <1>1, DisturbedType, NoneType DEF Writing
  <2> QED
    BY <2>1
<1>3. ASSUME NEW q \in Proc, NEW f \in File, OpenFile(q, f)
      PROVE  FALSE
  <2>1. op[q].pc = "none" /\ \A r \in Proc : r # q => op'[r] = op[r]
    BY <1>1, <1>3 DEF OpenFile, Begin
  <2> QED
    BY <1>2, <2>1 DEF Writing
<1>4. ASSUME NEW q \in Proc, NEW files \in Folders, AttachFolder(q, files)
      PROVE  FALSE
  <2>1. op[q].pc = "none" /\ \A r \in Proc : r # q => op'[r] = op[r]
    BY <1>1, <1>4 DEF AttachFolder, Begin
  <2> QED
    BY <1>2, <2>1 DEF Writing
<1>5. ASSUME NEW q \in Proc, ReadOpen(q) \/ ReadRows(q)
      PROVE  FALSE
  <2>1. op[q].pc # "write" /\ \A r \in Proc : r # q => op'[r] = op[r]
    BY <1>1, <1>5 DEF ReadOpen, ReadRows
  <2> QED
    BY <1>2, <2>1 DEF Writing
<1>6. ASSUME NEW q \in Proc, Refused(q)
      PROVE  FALSE
  <2>1. op'[q] = [None EXCEPT !.refused = ~op[q].stale] /\ \A r \in Proc : r # q => op'[r] = op[r]
    BY <1>1, <1>6 DEF Refused
  <2>2. q = p
    BY <1>2, <2>1
  <2>3. None.refused = ~op[p].stale
    BY <2>1, <2>2 DEF Writing, None
  <2> QED
    BY <2>3 DEF Writing, None
<1>7. ASSUME NEW q \in Proc, Write(q), q # p
      PROVE  FALSE
  BY <1>2, <1>7 DEF Write, Disturbs
<1>8. ASSUME DisturbsAll
      PROVE  FALSE
  BY <1>2, <1>8 DEF DisturbsAll
<1>9. ASSUME NEW n \in Limits, SetLimit(n)
      PROVE  FALSE
  <2>1. op'[p] = [op[p] EXCEPT !.stale = TRUE]
    BY <1>9 DEF SetLimit, Writing
  <2>2. op'[p].pc = "write"
    BY <1>1, <2>1 DEF Writing, OpRec
  <2> QED
    BY <2>2, NoneType DEF Writing
<1>10. ASSUME UNCHANGED vars
       PROVE  FALSE
  BY <1>2, <1>10 DEF vars
<1> QED
  BY <1>3, <1>4, <1>5, <1>6, <1>7, <1>8, <1>9, <1>10
     DEF Next, CloseFile, MarkAccess, Detach, CloseOthers

(* A transaction that runs alone closes the files accessed longest ago      *)
(* (enforce_max_open_files_and_open, attach_files_bulk).                    *)
THEOREM EvictionOrder == Spec => EvictsOldest
<1> DEFINE Oldest(p) ==
             \A f \in Range(open) \ Range(open'), g \in Range(open) \cap Range(open') :
               g \in Range(op[p].files) \/ f \in Range(op[p].files) \/ Position(f) < Position(g)
<1>1. ASSUME OpenInv, [Next]_vars, NEW p \in Proc, Writing(p)
      PROVE  Oldest(p)
  <2>1. Write(p)
    BY <1>1, OnlyWriteEnds
  <2>2. PICK o \in OpRec : o = op[p]
    BY <1>1 DEF OpenInv, OpTypes
  <2>3. o.opened \subseteq Range(o.files) /\ o.pc = "write" /\ ~o.stale
    BY <1>1, <2>2 DEF OpenInv, TypeOK, Writing
  <2>4. Range(open') = (Range(open) \ (NowClosed(o) \cup Range(o.files))) \cup NowOpen(o)
    BY <1>1, <2>1, <2>2, WriteOpens
  <2>5. NowOpen(o) \subseteq Range(o.files)
    BY <2>3, NowOpenFacts
  <2>6. ASSUME NEW f \in Range(open) \ Range(open'), NEW g \in Range(open) \cap Range(open'),
               f \notin Range(o.files), g \notin Range(o.files)
        PROVE  Position(f) < Position(g)
    <3>1. f \in o.closing /\ g \notin o.closing
      BY <2>3, <2>4, <2>5, <2>6 DEF NowClosed
    <3> QED
      BY <1>1, <2>2, <2>3, <2>6, <3>1, ClosesOldest
  <2> QED
    BY <2>2, <2>6
<1>2. OpenInv /\ [Next]_vars =>
        [\A p \in Proc : op[p].pc = "write" /\ op'[p] = None /\ ~op[p].stale => Oldest(p)]_vars
  BY <1>1 DEF Writing
<1> QED
  BY <1>2, InvHolds, PTL DEF Spec, EvictsOldest
=============================================================================
