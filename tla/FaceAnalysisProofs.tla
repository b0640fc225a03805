------------------------- MODULE FaceAnalysisProofs -------------------------
(***************************************************************************)
(* Proofs about FaceAnalysis, for every value of its constants that meets  *)
(* AnalysisAssumption: any number of poses, any length of an embedding,    *)
(* any set of samples and any frames.                                      *)
(*                                                                         *)
(* Sums, products of vectors, concatenations and loops over faces are      *)
(* folds. A fold is unrolled once, in FoldExists: there is a function that *)
(* satisfies its recursion, so the function CHOOSE takes does too. From    *)
(* there each kind of fold gets a lemma that says what it computes, by     *)
(* induction on the set or the segment it runs over.                       *)
(*                                                                         *)
(*   the file     LaidOut says where each field stands; a profile is       *)
(*                written to it (SerializedIsLaidOut), read from it        *)
(*                (WrittenIsRead), and determines it (LaidOutOnce)         *)
(*   centroids    dot products are linear and normalizing divides by a     *)
(*                common factor, so signs and orders carry over            *)
(*   scores       Below is an order of fractions that scaling keeps        *)
(*   frames       the gates are passed one by one, the faces kept one by   *)
(*                one                                                      *)
(*                                                                         *)
(* Three invariants follow: FileInv of the file and its profile, ScoreInv  *)
(* of the result, FrameIsSeen of the frame.                                *)
(***************************************************************************)
EXTENDS FaceAnalysis, TLAPS, FiniteSetTheorems, SequenceTheorems,
  WellFoundedInduction
----------------------------------------------------------------------------
(* Folds over a finite set, as the community modules compute them: one     *)
(* element after the other, in the order of pick. The function of all      *)
(* partial folds is known by its recursion, IsFold.                        *)

Pick(s) == CHOOSE x \in s : TRUE

Picks(pick, S) == \A s \in SUBSET S : s # {} => pick[s] \in s

IsFold(g, step, base, pick, S) ==
  g = [s \in SUBSET S |->
         IF s = {} THEN base ELSE step[<<pick[s], g[s \ {pick[s]}]>>]]

LEMMA PickFromIt == ASSUME NEW s, s # {} PROVE Pick(s) \in s
  BY DEF Pick

\* Induction on the natural numbers for a set of them, from the least number
\* that is not in it.
LEMMA NatSetInduction ==
  ASSUME NEW T, 0 \in T, \A n \in Nat : n \in T => n + 1 \in T
  PROVE  Nat \subseteq T
  <1> DEFINE R == OpToRel(<, Nat)
             B == Nat \ T
  <1> SUFFICES ASSUME B # {} PROVE FALSE
    OBVIOUS
  <1>1. \E x \in B : \A y \in B : ~(<<y, x>> \in R)
    <2>1. IsWellFoundedOn(R, Nat)
      BY NatLessThanWellFounded
    <2>2. B \subseteq Nat
      OBVIOUS
    <2> HIDE DEF B, R
    <2> QED
      BY <2>1, <2>2, WFMin
  <1>2. PICK x \in B : \A y \in B : ~(<<y, x>> \in R)
    BY <1>1
  <1>3. x # 0 /\ x \in Nat
    OBVIOUS
  <1>4. x - 1 \in B
    BY <1>3
  <1>5. <<x - 1, x>> \in R
    BY <1>3 DEF OpToRel
  <1> QED
    BY <1>2, <1>4, <1>5

\* What holds of the empty set, and of a set when it holds without the element
\* picked from it, holds of every finite set.
LEMMA PickInduction ==
  ASSUME NEW S, IsFiniteSet(S), NEW pick, Picks(pick, S), NEW T, {} \in T,
         \A s \in SUBSET S : s # {} /\ s \ {pick[s]} \in T => s \in T
  PROVE  SUBSET S \subseteq T
  <1> DEFINE N == {n \in Nat : \A s \in SUBSET S : Cardinality(s) = n => s \in T}
  <1>1. \A s \in SUBSET S : IsFiniteSet(s) /\ Cardinality(s) \in Nat
    BY FS_Subset, FS_CardinalityType
  <1>2. 0 \in N
    <2>1. ASSUME NEW s \in SUBSET S, Cardinality(s) = 0 PROVE s = {}
      BY <1>1, <2>1, FS_EmptySet
    <2> QED
      BY <2>1
  <1>3. \A n \in Nat : n \in N => n + 1 \in N
    <2> SUFFICES ASSUME NEW n \in Nat, n \in N, NEW s \in SUBSET S,
                        Cardinality(s) = n + 1
                 PROVE  s \in T
      OBVIOUS
    <2>1. s # {}
      <3>1. Cardinality({}) = 0 /\ n + 1 # 0
        BY FS_EmptySet
      <3> QED
        BY <3>1
    <2>2. pick[s] \in s
      BY <2>1 DEF Picks
    <2>3. Cardinality(s \ {pick[s]}) = Cardinality(s) - 1
      BY <1>1, <2>2, FS_RemoveElement
    <2>4. Cardinality(s \ {pick[s]}) = n
      BY <2>3
    <2>5. s \ {pick[s]} \in T
      BY <2>4
    <2> QED
      BY <2>1, <2>5
  <1>4. Nat \subseteq N
    <2> HIDE DEF N
    <2> QED
      BY <1>2, <1>3, NatSetInduction
  <1> QED
    BY <1>1, <1>4

\* The recursion has a solution, found for one cardinality after the other.
LEMMA FoldExists ==
  ASSUME NEW S, IsFiniteSet(S), NEW pick, Picks(pick, S), NEW B, NEW base \in B,
         NEW step \in [S \X B -> B]
  PROVE  \E g \in [SUBSET S -> B] : IsFold(g, step, base, pick, S)
  <1> DEFINE Once(g) == [s \in SUBSET S |->
               IF s = {} THEN base ELSE step[<<pick[s], g[s \ {pick[s]}]>>]]
             Solves(g, n) == \A s \in SUBSET S :
               Cardinality(s) <= n => g[s] = Once(g)[s]
             N == {n \in Nat : \E g \in [SUBSET S -> B] : Solves(g, n)}
  <1>1. \A s \in SUBSET S : IsFiniteSet(s) /\ Cardinality(s) \in Nat
    BY FS_Subset, FS_CardinalityType
  <1>2. 0 \in N
    <2> DEFINE g == [s \in SUBSET S |-> base]
    <2>1. g \in [SUBSET S -> B]
      OBVIOUS
    <2>2. Solves(g, 0)
      <3> SUFFICES ASSUME NEW s \in SUBSET S, Cardinality(s) <= 0
                   PROVE  g[s] = Once(g)[s]
        OBVIOUS
      <3>1. s = {}
        BY <1>1, FS_EmptySet
      <3> QED
        BY <3>1
    <2> HIDE DEF g, Solves
    <2> QED
      BY <2>1, <2>2
  <1>3. \A n \in Nat : n \in N => n + 1 \in N
    <2> SUFFICES ASSUME NEW n \in Nat, n \in N PROVE n + 1 \in N
      OBVIOUS
    <2>0. PICK g \in [SUBSET S -> B] : Solves(g, n)
      OBVIOUS
    <2> DEFINE h == Once(g)
    <2>1. h \in [SUBSET S -> B]
      <3> SUFFICES ASSUME NEW s \in SUBSET S, s # {}
                   PROVE  step[<<pick[s], g[s \ {pick[s]}]>>] \in B
        OBVIOUS
      <3>1. pick[s] \in S /\ s \ {pick[s]} \in SUBSET S
        BY DEF Picks
      <3> QED
        BY <3>1
    <2>2. Solves(h, n + 1)
      <3> SUFFICES ASSUME NEW s \in SUBSET S, Cardinality(s) <= n + 1
                   PROVE  h[s] = Once(h)[s]
        OBVIOUS
      <3>1. CASE s = {}
        BY <3>1
      <3>2. CASE s # {}
        <4> DEFINE r == s \ {pick[s]}
        <4>1. r \in SUBSET S /\ Cardinality(r) <= n
          <5>1. Cardinality(r) = Cardinality(s) - 1
            BY <1>1, <3>2, FS_RemoveElement DEF Picks
          <5> QED
            BY <1>1, <5>1
        <4>2. g[r] = h[r]
          BY <2>0, <4>1
        <4> QED
          BY <3>2, <4>1, <4>2
      <3> QED
        BY <3>1, <3>2
    <2> HIDE DEF h, Solves
    <2> QED
      BY <2>1, <2>2
  <1>4. Cardinality(S) \in N
    <2> HIDE DEF N
    <2> QED
      BY <1>1, <1>2, <1>3, NatSetInduction
  <1>5. PICK g \in [SUBSET S -> B] : Solves(g, Cardinality(S))
    BY <1>4
  <1>6. \A s \in SUBSET S : Cardinality(s) <= Cardinality(S)
    BY FS_Subset
  <1>7. \A s \in SUBSET S : g[s] = Once(g)[s]
    BY <1>5, <1>6
  <1>8. g = Once(g)
    <2> HIDE DEF Solves
    <2> QED
      BY <1>7
  <1> QED
    BY <1>8 DEF IsFold

----------------------------------------------------------------------------
(* Sums of numbers and of vectors. Sums and VectorSums say what the        *)
(* functions of all partial sums are.                                      *)

Vectors(T) == [T -> Int]

Chosen(S) == [s \in SUBSET S |-> Pick(s)]

LEMMA ChosenPicks == ASSUME NEW S PROVE Picks(Chosen(S), S)
  BY PickFromIt DEF Chosen, Picks

Sums(g, f, S) ==
  /\ g \in [SUBSET S -> Int]
  /\ g[{}] = 0
  /\ \A s \in SUBSET S : s # {} =>
       /\ Pick(s) \in s
       /\ g[s] = f[Pick(s)] + g[s \ {Pick(s)}]

VectorSums(g, v, S, T) ==
  /\ g \in [SUBSET S -> Vectors(T)]
  /\ g[{}] = [i \in T |-> 0]
  /\ \A s \in SUBSET S : s # {} =>
       /\ Pick(s) \in s
       /\ g[s] = Sum(v[Pick(s)], g[s \ {Pick(s)}])

\* PickInduction for the order in which sums are computed.
LEMMA ChosenInduction ==
  ASSUME NEW S, IsFiniteSet(S), NEW T, {} \in T,
         \A s \in SUBSET S : s # {} /\ s \ {Pick(s)} \in T => s \in T
  PROVE  SUBSET S \subseteq T
  <1>1. \A s \in SUBSET S : Chosen(S)[s] = Pick(s)
    BY DEF Chosen
  <1> QED
    BY <1>1, ChosenPicks, PickInduction

LEMMA SumOf ==
  ASSUME NEW S, IsFiniteSet(S), NEW f \in [S -> Int]
  PROVE  \E g : Sums(g, f, S) /\ FoldFunction(+, 0, f) = g[S]
  <1> DEFINE Q(g) == g = [s \in SUBSET S |->
               IF s = {} THEN 0 ELSE f[Pick(s)] + g[s \ {Pick(s)}]]
             step == [p \in S \X Int |-> f[p[1]] + p[2]]
             h == CHOOSE g : Q(g)
  <1>1. PICK k \in [SUBSET S -> Int] : IsFold(k, step, 0, Chosen(S), S)
    <2> DEFINE B == Int
    <2>1. step \in [S \X B -> B] /\ 0 \in B
      OBVIOUS
    <2>2. \E k \in [SUBSET S -> B] : IsFold(k, step, 0, Chosen(S), S)
      <3> HIDE DEF step, B
      <3> QED
        BY <2>1, ChosenPicks, FoldExists
    <2> QED
      BY <2>2
  <1>2. Q(k)
    <2>1. \A s \in SUBSET S : s # {} =>
            step[<<Chosen(S)[s], k[s \ {Chosen(S)[s]}]>>]
              = f[Pick(s)] + k[s \ {Pick(s)}]
      <3> SUFFICES ASSUME NEW s \in SUBSET S, s # {}
                   PROVE  step[<<Chosen(S)[s], k[s \ {Chosen(S)[s]}]>>]
                            = f[Pick(s)] + k[s \ {Pick(s)}]
        OBVIOUS
      <3>1. Chosen(S)[s] = Pick(s) /\ Pick(s) \in S
        BY PickFromIt DEF Chosen
      <3> QED
        BY <3>1
    <2> HIDE DEF step
    <2> QED
      BY <1>1, <2>1 DEF IsFold
  <1>3. Q(h)
    <2> HIDE DEF Q
    <2> QED
      BY <1>2
  <1>4. /\ h[{}] = 0
        /\ \A s \in SUBSET S : s # {} =>
             Pick(s) \in s /\ h[s] = f[Pick(s)] + h[s \ {Pick(s)}]
    <2> HIDE DEF h
    <2> QED
      BY <1>3, PickFromIt
  <1>5. h \in [SUBSET S -> Int]
    <2> DEFINE T == {s \in SUBSET S : h[s] \in Int}
    <2> HIDE DEF h
    <2>1. {} \in T
      BY <1>4
    <2>2. \A s \in SUBSET S : s # {} /\ s \ {Pick(s)} \in T => s \in T
      BY <1>4
    <2>3. SUBSET S \subseteq T
      <3> HIDE DEF T
      <3> QED
        BY <2>1, <2>2, ChosenInduction
    <2> QED
      BY <1>3, <2>3
  <1>6. FoldFunction(+, 0, f) = h[S]
    <2>1. DOMAIN f = S
      OBVIOUS
    <2>2. FoldFunction(+, 0, f) = FoldFunctionOnSet(+, 0, f, S)
      BY <2>1, Zenon DEF FoldFunction
    <2>3. FoldFunctionOnSet(+, 0, f, S) = h[S]
      BY Zenon DEF FoldFunctionOnSet, MapThenFoldSet, Pick
    <2> QED
      BY <2>2, <2>3, Zenon
  <1> QED
    <2> HIDE DEF h
    <2> QED
      BY <1>4, <1>5, <1>6 DEF Sums

LEMMA VectorSumOf ==
  ASSUME NEW S, IsFiniteSet(S), NEW T, NEW v, \A i \in S : v[i] \in Vectors(T)
  PROVE  \E g : /\ VectorSums(g, v, S, T)
                /\ FoldFunctionOnSet(Sum, [i \in T |-> 0], v, S) = g[S]
  <1> DEFINE zero == [i \in T |-> 0]
             B == Vectors(T)
             Q(g) == g = [s \in SUBSET S |->
               IF s = {} THEN zero ELSE Sum(v[Pick(s)], g[s \ {Pick(s)}])]
             step == [p \in S \X B |-> Sum(v[p[1]], p[2])]
             h == CHOOSE g : Q(g)
  <1>0. zero \in B /\ \A a, b \in B : Sum(a, b) \in B
    BY DEF Sum, Vectors
  <1>1. PICK k \in [SUBSET S -> B] : IsFold(k, step, zero, Chosen(S), S)
    <2>1. step \in [S \X B -> B]
      <3> HIDE DEF B
      <3>1. \A i \in S : v[i] \in B
        BY DEF B
      <3>2. \A i \in S, b \in B : Sum(v[i], b) \in B
        BY <1>0, <3>1
      <3> QED
        BY <3>2
    <2> HIDE DEF step, zero, B
    <2> QED
      BY <1>0, <2>1, ChosenPicks, FoldExists
  <1>2. Q(k)
    <2>1. \A s \in SUBSET S : s # {} =>
            step[<<Chosen(S)[s], k[s \ {Chosen(S)[s]}]>>]
              = Sum(v[Pick(s)], k[s \ {Pick(s)}])
      <3> SUFFICES ASSUME NEW s \in SUBSET S, s # {}
                   PROVE  step[<<Chosen(S)[s], k[s \ {Chosen(S)[s]}]>>]
                            = Sum(v[Pick(s)], k[s \ {Pick(s)}])
        OBVIOUS
      <3>1. Chosen(S)[s] = Pick(s) /\ Pick(s) \in S
        BY PickFromIt DEF Chosen
      <3> HIDE DEF B
      <3> QED
        BY <3>1
    <2> HIDE DEF step, B, zero
    <2> QED
      BY <1>1, <2>1 DEF IsFold
  <1>3. Q(h)
    <2> HIDE DEF Q
    <2> QED
      BY <1>2
  <1>4. /\ h[{}] = zero
        /\ \A s \in SUBSET S : s # {} =>
             Pick(s) \in s /\ h[s] = Sum(v[Pick(s)], h[s \ {Pick(s)}])
    <2> HIDE DEF h, zero
    <2> QED
      BY <1>3, PickFromIt
  <1>5. h \in [SUBSET S -> B]
    <2> DEFINE U == {s \in SUBSET S : h[s] \in B}
    <2> HIDE DEF h
    <2>1. {} \in U
      <3> HIDE DEF zero, B
      <3> QED
        BY <1>0, <1>4
    <2>2. \A s \in SUBSET S : s # {} /\ s \ {Pick(s)} \in U => s \in U
      <3> HIDE DEF B, zero
      <3>1. \A i \in S : v[i] \in B
        BY DEF B
      <3> QED
        BY <1>0, <1>4, <3>1
    <2>3. SUBSET S \subseteq U
      <3> HIDE DEF U
      <3> QED
        BY <2>1, <2>2, ChosenInduction
    <2> HIDE DEF B, zero
    <2> QED
      BY <1>3, <2>3
  <1>6. FoldFunctionOnSet(Sum, zero, v, S) = h[S]
    BY Zenon DEF FoldFunctionOnSet, MapThenFoldSet, Pick
  <1> QED
    <2> HIDE DEF h
    <2> QED
      BY <1>4, <1>5, <1>6 DEF VectorSums
----------------------------------------------------------------------------
(* The inner product of vectors over a finite set T. *)

\* What the function of the inner product's partial sums is.
DotSums(g, a, b, T) ==
  /\ g \in [SUBSET T -> Int]
  /\ Dot(a, b) = g[T]
  /\ g[{}] = 0
  /\ \A s \in SUBSET T : s # {} =>
       /\ Pick(s) \in s
       /\ g[s] = a[Pick(s)] * b[Pick(s)] + g[s \ {Pick(s)}]

LEMMA DotIsSum ==
  ASSUME NEW T, IsFiniteSet(T), NEW a \in Vectors(T), NEW b \in Vectors(T)
  PROVE  \E g : DotSums(g, a, b, T)
  <1> DEFINE f == [i \in T |-> a[i] * b[i]]
  <1>0. DOMAIN a = T /\ f \in [T -> Int]
    BY DEF Vectors
  <1>1. Dot(a, b) = FoldFunction(+, 0, f)
    BY <1>0, Zenon DEF Dot
  <1>2. PICK g : Sums(g, f, T) /\ FoldFunction(+, 0, f) = g[T]
    <2> HIDE DEF f
    <2> QED
      BY <1>0, SumOf
  <1>3. \A s \in SUBSET T : s # {} =>
          /\ Pick(s) \in s
          /\ g[s] = a[Pick(s)] * b[Pick(s)] + g[s \ {Pick(s)}]
    BY <1>2 DEF Sums
  <1> QED
    <2> HIDE DEF f
    <2> QED
      BY <1>1, <1>2, <1>3 DEF Sums, DotSums

LEMMA DotIsInt ==
  ASSUME NEW T, IsFiniteSet(T), NEW a \in Vectors(T), NEW b \in Vectors(T)
  PROVE  Dot(a, b) \in Int
  <1>1. PICK g : DotSums(g, a, b, T)
    BY DotIsSum
  <1> QED
    BY <1>1 DEF DotSums

LEMMA DotCommutes ==
  ASSUME NEW T, NEW a \in Vectors(T), NEW b \in Vectors(T)
  PROVE  Dot(a, b) = Dot(b, a)
  <1>1. [i \in DOMAIN a |-> a[i] * b[i]] = [i \in DOMAIN b |-> b[i] * a[i]]
    BY DEF Vectors
  <1> QED
    BY <1>1, Zenon DEF Dot

LEMMA DotOfSum ==
  ASSUME NEW T, IsFiniteSet(T), NEW a \in Vectors(T), NEW b \in Vectors(T),
         NEW c \in Vectors(T)
  PROVE  Dot(Sum(a, b), c) = Dot(a, c) + Dot(b, c)
  <1>0. Sum(a, b) \in Vectors(T) /\ \A i \in T : Sum(a, b)[i] = a[i] + b[i]
    BY DEF Sum, Vectors
  <1>1. PICK g : DotSums(g, Sum(a, b), c, T)
    BY <1>0, DotIsSum
  <1>2. PICK h : DotSums(h, a, c, T)
    BY DotIsSum
  <1>3. PICK k : DotSums(k, b, c, T)
    BY DotIsSum
  <1> USE DEF DotSums, Vectors
  <1> DEFINE U == {s \in SUBSET T : g[s] = h[s] + k[s]}
  <1>4. {} \in U
    BY <1>1, <1>2, <1>3
  <1>5. \A s \in SUBSET T : s # {} /\ s \ {Pick(s)} \in U => s \in U
    <2> SUFFICES ASSUME NEW s \in SUBSET T, s # {}, s \ {Pick(s)} \in U
                 PROVE  g[s] = h[s] + k[s]
      OBVIOUS
    <2> DEFINE p == Pick(s)
               r == s \ {Pick(s)}
    <2>1. p \in T /\ r \in SUBSET T
      BY <1>1
    <2>2. /\ g[s] = Sum(a, b)[p] * c[p] + g[r]
          /\ h[s] = a[p] * c[p] + h[r] /\ k[s] = b[p] * c[p] + k[r]
      BY <1>1, <1>2, <1>3
    <2>3. g[r] = h[r] + k[r]
      OBVIOUS
    <2>4. /\ a[p] \in Int /\ b[p] \in Int /\ c[p] \in Int
          /\ h[r] \in Int /\ k[r] \in Int
      BY <1>2, <1>3, <2>1
    <2>5. Sum(a, b)[p] = a[p] + b[p]
      BY <1>0, <2>1
    <2> HIDE DEF p, r
    <2>6. (a[p] + b[p]) * c[p] = a[p] * c[p] + b[p] * c[p]
      BY <2>4
    <2> QED
      BY <2>2, <2>3, <2>4, <2>5, <2>6
  <1>6. T \in U
    <2> HIDE DEF U
    <2> QED
      BY <1>4, <1>5, ChosenInduction
  <1> QED
    BY <1>1, <1>2, <1>3, <1>6

LEMMA DotOfMultiple ==
  ASSUME NEW T, IsFiniteSet(T), NEW a \in Vectors(T), NEW b \in Vectors(T),
         NEW c \in Vectors(T), NEW d \in Int, \A i \in T : b[i] = d * a[i]
  PROVE  Dot(b, c) = d * Dot(a, c)
  <1>1. PICK g : DotSums(g, b, c, T)
    BY DotIsSum
  <1>2. PICK h : DotSums(h, a, c, T)
    BY DotIsSum
  <1> USE DEF DotSums, Vectors
  <1> DEFINE U == {s \in SUBSET T : g[s] = d * h[s]}
  <1>3. {} \in U
    BY <1>1, <1>2
  <1>4. \A s \in SUBSET T : s # {} /\ s \ {Pick(s)} \in U => s \in U
    <2> SUFFICES ASSUME NEW s \in SUBSET T, s # {}, s \ {Pick(s)} \in U
                 PROVE  g[s] = d * h[s]
      OBVIOUS
    <2> DEFINE p == Pick(s)
               r == s \ {Pick(s)}
    <2>1. p \in T /\ r \in SUBSET T
      BY <1>1
    <2>2. g[s] = b[p] * c[p] + g[r] /\ h[s] = a[p] * c[p] + h[r]
      BY <1>1, <1>2
    <2>3. g[r] = d * h[r] /\ b[p] = d * a[p]
      BY <2>1
    <2>4. a[p] \in Int /\ c[p] \in Int /\ h[r] \in Int
      BY <1>2, <2>1
    <2> HIDE DEF p, r
    <2>5. (d * a[p]) * c[p] + d * h[r] = d * (a[p] * c[p] + h[r])
      BY <2>4
    <2> QED
      BY <2>2, <2>3, <2>5
  <1>5. T \in U
    <2> HIDE DEF U
    <2> QED
      BY <1>3, <1>4, ChosenInduction
  <1> QED
    BY <1>1, <1>2, <1>5

LEMMA DotOfZero ==
  ASSUME NEW T, IsFiniteSet(T), NEW c \in Vectors(T)
  PROVE  Dot([i \in T |-> 0], c) = 0
  <1> DEFINE zero == [i \in T |-> 0]
  <1>1. zero \in Vectors(T) /\ \A i \in T : zero[i] = 0 * c[i]
    BY DEF Vectors
  <1>2. Dot(zero, c) = 0 * Dot(c, c)
    <2> HIDE DEF zero
    <2> QED
      BY <1>1, DotOfMultiple
  <1>3. Dot(c, c) \in Int
    BY DotIsInt
  <1> QED
    BY <1>2, <1>3

LEMMA DotWithItself ==
  ASSUME NEW T, IsFiniteSet(T), NEW a \in Vectors(T)
  PROVE  /\ Dot(a, a) \in Nat
         /\ (\E i \in T : a[i] # 0) => Dot(a, a) > 0
  <1>1. PICK g : DotSums(g, a, a, T)
    BY DotIsSum
  <1> USE DEF DotSums, Vectors
  <1> DEFINE U == {s \in SUBSET T :
               g[s] >= 0 /\ ((\E i \in s : a[i] # 0) => g[s] > 0)}
  <1>2. {} \in U
    BY <1>1
  <1>3. \A s \in SUBSET T : s # {} /\ s \ {Pick(s)} \in U => s \in U
    <2> SUFFICES ASSUME NEW s \in SUBSET T, s # {}, s \ {Pick(s)} \in U
                 PROVE  s \in U
      OBVIOUS
    <2> DEFINE p == Pick(s)
               r == s \ {Pick(s)}
    <2>1. p \in T /\ p \in s /\ r \in SUBSET T /\ g[s] = a[p] * a[p] + g[r]
      BY <1>1
    <2>2. a[p] \in Int /\ g[r] \in Int
      BY <1>1, <2>1
    <2>3. a[p] * a[p] >= 0 /\ (a[p] # 0 => a[p] * a[p] > 0)
      <3> HIDE DEF p
      <3> QED
        BY <2>2
    <2>4. \A i \in s : i = p \/ i \in r
      OBVIOUS
    <2>5. g[r] >= 0 /\ ((\E i \in r : a[i] # 0) => g[r] > 0)
      OBVIOUS
    <2>6. g[s] >= 0 /\ ((\E i \in s : a[i] # 0) => g[s] > 0)
      <3> DEFINE q == a[p] * a[p]
      <3>1. q \in Int /\ q >= 0 /\ (a[p] # 0 => q > 0) /\ g[s] = q + g[r]
        BY <2>1, <2>2, <2>3
      <3> HIDE DEF p, r, q
      <3> QED
        BY <2>2, <3>1, <2>4, <2>5
    <2> QED
      BY <2>6
  <1>4. T \in U
    <2> HIDE DEF U
    <2> QED
      BY <1>2, <1>3, ChosenInduction
  <1> QED
    BY <1>1, <1>4
----------------------------------------------------------------------------
(* Division, and what it makes of a vector. *)

LEMMA MultipleIsDivisible ==
  ASSUME NEW d \in Nat, d > 0, NEW q \in Int
  PROVE  (d * q) % d = 0 /\ (d * q) \div d = q
  OBVIOUS

LEMMA DivisibleIsMultiple ==
  ASSUME NEW d \in Nat, d > 0, NEW n \in Int, n % d = 0
  PROVE  n \div d \in Int /\ n = d * (n \div d)
  OBVIOUS

LEMMA MultipleIsLarger ==
  ASSUME NEW d \in Nat, d > 0, NEW q \in Int, q # 0
  PROVE  d * q # 0 /\ d <= Abs(d * q) /\ Abs(q) <= Abs(d * q)
  <1>1. CASE q > 0
    <2>1. d * q >= d /\ d * q >= q
      BY <1>1
    <2> QED
      BY <1>1, <2>1 DEF Abs
  <1>2. CASE q < 0
    <2>1. d * (-q) >= d /\ d * (-q) >= -q /\ d * (-q) = -(d * q)
      BY <1>2
    <2> QED
      BY <1>2, <2>1 DEF Abs
  <1> QED
    BY <1>1, <1>2

\* A set of numbers that is bounded has a greatest.
LEMMA GreatestExists ==
  ASSUME NEW top \in Nat, NEW S \in SUBSET (0..top), S # {}
  PROVE  \E n \in S : \A m \in S : m <= n
  <1> DEFINE T == {n \in Nat : \A R \in SUBSET (0..n) :
                     R # {} => \E x \in R : \A y \in R : y <= x}
  <1>1. 0 \in T
    <2> SUFFICES ASSUME NEW R \in SUBSET (0..0), R # {}
                 PROVE  \E x \in R : \A y \in R : y <= x
      OBVIOUS
    <2>1. PICK x \in R : TRUE
      OBVIOUS
    <2>2. \A y \in R : y <= x
      OBVIOUS
    <2> QED
      BY <2>2
  <1>2. \A n \in Nat : n \in T => n + 1 \in T
    <2> SUFFICES ASSUME NEW n \in Nat, n \in T, NEW R \in SUBSET (0..(n + 1)),
                        R # {}
                 PROVE  \E x \in R : \A y \in R : y <= x
      OBVIOUS
    <2>1. CASE n + 1 \in R
      BY <2>1
    <2>2. CASE n + 1 \notin R
      <3>1. R \in SUBSET (0..n)
        BY <2>2
      <3> QED
        BY <3>1
    <2> QED
      BY <2>1, <2>2
  <1>3. Nat \subseteq T
    <2> HIDE DEF T
    <2> QED
      BY <1>1, <1>2, NatSetInduction
  <1> QED
    BY <1>3

NonZero(v) == \E i \in DOMAIN v : v[i] # 0

\* A vector is divided by the greatest of its common divisors.
LEMMA NormalizedDivides ==
  ASSUME NEW T, NEW v \in Vectors(T), NonZero(v)
  PROVE  \E d \in Nat :
           /\ d > 0
           /\ Normalized(v) \in Vectors(T)
           /\ \A i \in T : v[i] = d * Normalized(v)[i]
           /\ \A e \in Nat : e > 0 /\ (\A i \in T : v[i] % e = 0) => e <= d
  <1> DEFINE top == CHOOSE n \in {Abs(v[i]) : i \in DOMAIN v} \ {0} : TRUE
             P(n) == /\ n \in 1..top
                     /\ Divides(n, v) /\ \A m \in (n + 1)..top : ~Divides(m, v)
             d == CHOOSE n \in 1..top :
                    Divides(n, v) /\ \A m \in (n + 1)..top : ~Divides(m, v)
  <1>1. DOMAIN v = T /\ \A i \in T : v[i] \in Int
    BY DEF Vectors
  <1>2. Normalized(v) = [i \in T |-> v[i] \div d]
    BY <1>1, Zenon DEF Normalized
  <1>3. top \in {Abs(v[i]) : i \in DOMAIN v} \ {0}
    <2>1. {Abs(v[i]) : i \in DOMAIN v} \ {0} # {}
      BY <1>1 DEF NonZero, Abs
    <2> QED
      BY <2>1
  <1>4. PICK k \in T : top = Abs(v[k]) /\ v[k] # 0 /\ v[k] \in Int
    <2> HIDE DEF top
    <2> QED
      BY <1>1, <1>3 DEF Abs
  <1>5. top \in Nat /\ top > 0
    <2> HIDE DEF top
    <2> QED
      BY <1>4 DEF Abs
  <1>6. \E n : P(n)
    <2> HIDE DEF top
    <2> DEFINE S == {n \in 1..top : Divides(n, v)}
    <2>1. 1 \in S
      BY <1>1, <1>5 DEF Divides
    <2>2. S \in SUBSET (0..top)
      BY <1>5
    <2>3. PICK n \in S : \A m \in S : m <= n
      <3> HIDE DEF S
      <3> QED
        BY <1>5, <2>1, <2>2, GreatestExists
    <2>4. \A m \in (n + 1)..top : ~Divides(m, v)
      BY <1>5, <2>3
    <2> QED
      BY <2>3, <2>4
  <1>7. P(d)
    <2> HIDE DEF top
    <2> QED
      BY <1>6
  <1> HIDE DEF top, d
  <1>8. d \in Nat /\ d > 0
    BY <1>5, <1>7
  <1>9. \A i \in T : v[i] \div d \in Int /\ v[i] = d * (v[i] \div d)
    BY <1>1, <1>7, <1>8, DivisibleIsMultiple DEF Divides
  <1>10. ASSUME NEW e \in Nat, e > 0, \A i \in T : v[i] % e = 0
         PROVE  e <= d
    <2>1. v[k] \div e \in Int /\ v[k] = e * (v[k] \div e)
      BY <1>4, <1>10, DivisibleIsMultiple
    <2>2. v[k] \div e # 0
      BY <1>4, <1>10, <2>1
    <2>3. e <= top
      BY <1>4, <1>10, <2>1, <2>2, MultipleIsLarger
    <2>4. Divides(e, v)
      BY <1>1, <1>10 DEF Divides
    <2> QED
      BY <1>5, <1>7, <1>8, <2>3, <2>4
  <1> QED
    BY <1>2, <1>8, <1>9, <1>10 DEF Vectors

\* To normalize again changes nothing.
LEMMA NormalizedOnce ==
  ASSUME NEW T, NEW v \in Vectors(T), NonZero(v)
  PROVE  NonZero(Normalized(v)) /\ Normalized(Normalized(v)) = Normalized(v)
  <1> DEFINE w == Normalized(v)
             u == Normalized(w)
  <1>1. PICK d \in Nat :
          /\ d > 0 /\ w \in Vectors(T) /\ \A i \in T : v[i] = d * w[i]
          /\ \A e \in Nat : e > 0 /\ (\A i \in T : v[i] % e = 0) => e <= d
    BY NormalizedDivides
  <1>2. NonZero(w)
    <2> HIDE DEF w
    <2> QED
      BY <1>1 DEF NonZero, Vectors
  <1>3. PICK f \in Nat :
          f > 0 /\ u \in Vectors(T) /\ \A i \in T : w[i] = f * u[i]
    <2> HIDE DEF w
    <2> QED
      BY <1>1, <1>2, NormalizedDivides
  <1> HIDE DEF w, u
  <1>4. d * f \in Nat /\ d * f > 0
    BY <1>1, <1>3
  <1>5. \A i \in T : v[i] % (d * f) = 0
    <2> SUFFICES ASSUME NEW i \in T PROVE v[i] % (d * f) = 0
      OBVIOUS
    <2>1. u[i] \in Int /\ v[i] = d * (f * u[i])
      BY <1>1, <1>3 DEF Vectors
    <2>2. d * (f * u[i]) = (d * f) * u[i]
      BY <2>1
    <2>3. ((d * f) * u[i]) % (d * f) = 0
      <3> DEFINE e == d * f
      <3>1. e \in Nat /\ e > 0
        BY <1>4
      <3> HIDE DEF e
      <3>2. (e * u[i]) % e = 0
        BY <2>1, <3>1, MultipleIsDivisible
      <3> QED
        BY <3>2 DEF e
    <2> QED
      BY <2>1, <2>2, <2>3
  <1>6. d * f <= d
    BY <1>1, <1>4, <1>5
  <1>7. f = 1
    <2>1. f >= 2 => d * f >= d + d
      BY <1>1, <1>3
    <2> QED
      BY <1>1, <1>3, <1>6, <2>1
  <1>8. u = w
    BY <1>1, <1>3, <1>7 DEF Vectors
  <1> QED
    BY <1>2, <1>8 DEF u, w

LEMMA NormalizedIsUsable ==
  ASSUME NEW T, NEW v \in Vectors(T), NonZero(v),
         \A i \in T : Abs(v[i]) < NonFinite
  PROVE  Usable(Normalized(v))
  <1> DEFINE w == Normalized(v)
  <1>1. PICK d \in Nat :
          d > 0 /\ w \in Vectors(T) /\ \A i \in T : v[i] = d * w[i]
    BY NormalizedDivides
  <1>2. NonZero(w)
    BY NormalizedOnce
  <1> HIDE DEF w
  <1>3. DOMAIN w = T /\ \A i \in T : w[i] \in Int
    BY <1>1 DEF Vectors
  <1>4. \A i \in T : w[i] # NonFinite
    <2> SUFFICES ASSUME NEW i \in T, w[i] = NonFinite PROVE FALSE
      OBVIOUS
    <2>1. Abs(w[i]) <= Abs(d * w[i])
      BY <1>1, <1>3, MultipleIsLarger DEF NonFinite
    <2>2. Abs(v[i]) = Abs(d * w[i])
      BY <1>1
    <2>3. Abs(w[i]) = NonFinite /\ Abs(v[i]) < NonFinite
      BY DEF Abs, NonFinite
    <2>4. Abs(v[i]) \in Int
      BY DEF Abs, Vectors
    <2> QED
      BY <2>1, <2>2, <2>3, <2>4 DEF NonFinite
  <1>5. w # <<>>
    BY <1>2 DEF NonZero
  <1>6. Usable(w)
    BY <1>2, <1>3, <1>4, <1>5 DEF Usable, NonZero
  <1> QED
    BY <1>6 DEF w
----------------------------------------------------------------------------
(* Folds from the left, over the numbers up to n. *)

LEMMA MaxOfSegment == ASSUME NEW k \in Nat, k > 0 PROVE Max(1..k) = k
  BY DEF Max

Latest(n) == [s \in SUBSET (1..n) |-> Max(s)]

LEMMA LatestPicks == ASSUME NEW n \in Nat PROVE Picks(Latest(n), 1..n)
  <1> SUFFICES ASSUME NEW s \in SUBSET (1..n), s # {} PROVE Max(s) \in s
    BY DEF Picks, Latest
  <1>1. s \in SUBSET (0..n)
    OBVIOUS
  <1>2. PICK x \in s : \A y \in s : y <= x
    BY <1>1, GreatestExists
  <1>3. \A y \in s : x >= y
    BY <1>2
  <1> QED
    BY <1>3 DEF Max

\* The function of all folds from the left: that of k elements is known from
\* that of those before the last.
LeftFold(g, step, base, n) ==
  g[0] = base /\ \A k \in 1..n : g[k] = step[<<k, g[k - 1]>>]

Segments(g, n) == [k \in 0..n |-> g[1..k]]

LEMMA FoldOfSegments ==
  ASSUME NEW n \in Nat, NEW step, NEW base, NEW g,
         IsFold(g, step, base, Latest(n), 1..n)
  PROVE  LeftFold(Segments(g, n), step, base, n)
  <1> DEFINE h == [k \in 0..n |-> g[1..k]]
  <1>1. h[0] = base
    <2>1. 1..0 = {}
      OBVIOUS
    <2>2. g[{}] = base
      BY DEF IsFold
    <2> QED
      BY <2>1, <2>2
  <1>2. ASSUME NEW k \in 1..n PROVE h[k] = step[<<k, h[k - 1]>>]
    <2>1. 1..k \in SUBSET (1..n) /\ 1..k # {}
      <3>1. 1 \in 1..k
        OBVIOUS
      <3>2. 1..k \in SUBSET (1..n)
        OBVIOUS
      <3> QED
        BY <3>1, <3>2
    <2>2. Latest(n)[1..k] = k
      BY <2>1, MaxOfSegment DEF Latest
    <2>3. (1..k) \ {k} = 1..(k - 1)
      OBVIOUS
    <2>4. g[1..k] = step[<<k, g[1..(k - 1)]>>]
      BY <2>1, <2>2, <2>3 DEF IsFold
    <2>5. k \in 0..n /\ k - 1 \in 0..n
      OBVIOUS
    <2>6. h[k] = g[1..k] /\ h[k - 1] = g[1..(k - 1)]
      BY <2>5
    <2> HIDE DEF h
    <2> QED
      BY <2>4, <2>6
  <1> QED
    BY <1>1, <1>2 DEF LeftFold, Segments
----------------------------------------------------------------------------
(* Sequences of blocks of one length. *)

\* The place of the m-th element of the j-th block of length L.
At(j, m, L) == (j - 1) * L + m

LEMMA BlocksBefore ==
  ASSUME NEW L \in Nat, NEW k \in Nat, NEW j \in 1..k, NEW m \in 1..L
  PROVE  At(j, m, L) \in 1..(k * L)
  <1>1. (k - j) * L >= 0 /\ (j - 1) * L >= 0
    OBVIOUS
  <1>2. k * L = (j - 1) * L + L + (k - j) * L
    OBVIOUS
  <1> QED
    BY <1>1, <1>2 DEF At

LEMMA NextBlock ==
  ASSUME NEW L \in Nat, NEW k \in Nat
  PROVE  (k + 1) * L = k * L + L /\ \A m \in 1..L : At(k + 1, m, L) = k * L + m
  BY DEF At

LEMMA EveryPlace ==
  ASSUME NEW L \in Nat, NEW n \in Nat, NEW q \in 1..(n * L)
  PROVE  \E j \in 1..n, m \in 1..L : q = At(j, m, L)
  <1> DEFINE Covers(k) == \A p \in 1..(k * L) :
               \E j \in 1..k, m \in 1..L : p = At(j, m, L)
             T == {k \in Nat : Covers(k)}
  <1>1. 0 \in T
    <2>1. 1..(0 * L) = {}
      OBVIOUS
    <2> QED
      BY <2>1
  <1>2. \A k \in Nat : k \in T => k + 1 \in T
    <2> SUFFICES ASSUME NEW k \in Nat, Covers(k) PROVE Covers(k + 1)
      <3> HIDE DEF Covers
      <3> QED
        OBVIOUS
    <2> SUFFICES ASSUME NEW p \in 1..((k + 1) * L)
                 PROVE  \E j \in 1..(k + 1), m \in 1..L : p = At(j, m, L)
      BY Zenon
    <2>1. CASE p <= k * L
      <3>1. p \in 1..(k * L)
        BY <2>1
      <3>2. PICK j \in 1..k, m \in 1..L : p = At(j, m, L)
        BY <3>1
      <3>3. j \in 1..(k + 1)
        OBVIOUS
      <3> QED
        BY <3>2, <3>3
    <2>2. CASE p > k * L
      <3>1. k * L \in Nat
        OBVIOUS
      <3>2. p - k * L \in 1..L
        BY <2>2, <3>1, NextBlock
      <3>3. p = At(k + 1, p - k * L, L)
        BY <3>1, <3>2, NextBlock
      <3> QED
        BY <3>2, <3>3
    <2> QED
      BY <2>1, <2>2
  <1>3. n \in T
    <2> HIDE DEF T
    <2> QED
      BY <1>1, <1>2, NatSetInduction
  <1> QED
    BY <1>3

\* What the function of all partial concatenations is.
Concats(h, seqs, n, B) ==
  /\ h \in [0..n -> Seq(B)] /\ h[0] = <<>>
  /\ \A k \in 1..n : h[k] = h[k - 1] \o seqs[k]
  /\ FlattenSeq(seqs) = h[n]

LEMMA Flattened ==
  ASSUME NEW B, NEW n \in Nat, n > 0, NEW seqs \in [1..n -> Seq(B)]
  PROVE  \E h : Concats(h, seqs, n, B)
  <1> DEFINE S == 1..n
             W == Seq(B)
             last == Latest(n)
             Q(g) == g = [i \in 1..Len(seqs) |->
                            IF i = 1 THEN seqs[i] ELSE g[i - 1] \o seqs[i]]
             step == [p \in S \X W |-> p[2] \o seqs[p[1]]]
             none == <<>>
             g == CHOOSE g : Q(g)
  <1>0. IsFiniteSet(S) /\ Len(seqs) = n /\ none \in W
    BY FS_Interval
  <1>1. step \in [S \X W -> W]
    <2>1. \A i \in S, b \in W : b \o seqs[i] \in W
      OBVIOUS
    <2> HIDE DEF W
    <2> QED
      BY <2>1
  <1>2. PICK k \in [SUBSET S -> W] : IsFold(k, step, none, last, S)
    <2> HIDE DEF step, W, S, last, none
    <2>1. Picks(last, S)
      BY LatestPicks DEF last, S
    <2> QED
      BY <1>0, <1>1, <2>1, FoldExists
  <1> DEFINE h == Segments(k, n)
  <1>3. LeftFold(h, step, none, n)
    <2>1. IsFold(k, step, none, Latest(n), 1..n)
      BY <1>2
    <2> HIDE DEF step, none
    <2> QED
      BY <2>1, FoldOfSegments
  <1>4. h \in [0..n -> W]
    <2> HIDE DEF W
    <2> QED
      BY DEF Segments
  <1>5. \A i \in 1..n : h[i] = h[i - 1] \o seqs[i]
    <2> SUFFICES ASSUME NEW i \in 1..n PROVE h[i] = h[i - 1] \o seqs[i]
      OBVIOUS
    <2>1. h[i] = step[<<i, h[i - 1]>>]
      <3> HIDE DEF h, step
      <3> QED
        BY <1>3 DEF LeftFold
    <2>2. h[i - 1] \in W
      <3> HIDE DEF h, W
      <3> QED
        BY <1>4
    <2> HIDE DEF h, W
    <2> QED
      BY <2>1, <2>2
  <1>6. h[0] = <<>>
    BY <1>3 DEF LeftFold
  <1>7a. h[1] = seqs[1]
    <2>1. h[1] = <<>> \o seqs[1]
      <3> HIDE DEF h
      <3>1. 1 \in 1..n /\ 1 - 1 = 0
        OBVIOUS
      <3> QED
        BY <1>5, <1>6, <3>1
    <2>2. seqs[1] \in Seq(B)
      OBVIOUS
    <2> HIDE DEF h
    <2> QED
      BY <2>1, <2>2
  <1>7. Q([i \in 1..n |-> h[i]])
    <2> DEFINE w == [i \in 1..n |-> h[i]]
    <2>2. \A i \in 1..n : h[i] = IF i = 1 THEN seqs[i] ELSE w[i - 1] \o seqs[i]
      <3> SUFFICES ASSUME NEW i \in 1..n, i # 1 PROVE h[i] = w[i - 1] \o seqs[i]
        <4> HIDE DEF h, w
        <4> QED
          BY <1>7a
      <3>1. i - 1 \in 1..n
        OBVIOUS
      <3>2. w[i - 1] = h[i - 1]
        BY <3>1
      <3> HIDE DEF h, w
      <3> QED
        BY <1>5, <3>2
    <2> HIDE DEF h
    <2> QED
      BY <1>0, <2>2
  <1>8. Q(g)
    <2> HIDE DEF Q, h
    <2> QED
      BY <1>7
  <1>8a. \A i \in 1..n : g[i] = IF i = 1 THEN seqs[i] ELSE g[i - 1] \o seqs[i]
    <2> HIDE DEF g
    <2> QED
      BY <1>0, <1>8, Zenon
  <1>9. \A i \in 1..n : g[i] = h[i]
    <2> DEFINE T == {i \in Nat : i \in 1..n => g[i] = h[i]}
    <2> HIDE DEF g, h
    <2>1. 0 \in T
      OBVIOUS
    <2>2. \A i \in Nat : i \in T => i + 1 \in T
      <3> SUFFICES ASSUME NEW i \in Nat, i \in T, i + 1 \in 1..n
                   PROVE  g[i + 1] = h[i + 1]
        OBVIOUS
      <3>1. CASE i = 0
        <4>1. g[1] = seqs[1]
          BY <1>8a
        <4>2. h[1] = seqs[1]
          BY <1>7a
        <4> QED
          BY <3>1, <4>1, <4>2
      <3>2. CASE i # 0
        <4>1. i \in 1..n /\ g[i] = h[i]
          BY <3>2
        <4>2. g[i + 1] = g[(i + 1) - 1] \o seqs[i + 1]
          <5>1. i + 1 # 1
            BY <3>2
          <5> QED
            BY <1>8a, <5>1, Zenon
        <4>3. h[i + 1] = h[(i + 1) - 1] \o seqs[i + 1]
          BY <1>5, Zenon
        <4>4. (i + 1) - 1 = i
          OBVIOUS
        <4> QED
          BY <4>1, <4>2, <4>3, <4>4
      <3> QED
        BY <3>1, <3>2
    <2>3. Nat \subseteq T
      <3> HIDE DEF T
      <3> QED
        BY <2>1, <2>2, NatSetInduction
    <2> QED
      BY <2>3
  <1>10. FlattenSeq(seqs) = g[Len(seqs)]
    <2>1. Len(seqs) # 0
      BY <1>0
    <2> QED
      BY <2>1, Zenon DEF FlattenSeq
  <1> QED
    <2>1. FlattenSeq(seqs) = h[n]
      <3> HIDE DEF g, h
      <3> QED
        BY <1>0, <1>9, <1>10
    <2> HIDE DEF h
    <2> QED
      BY <1>4, <1>5, <1>6, <2>1, Zenon DEF Concats

\* The sequence w of elements of B is that of the n blocks.
BlockByBlock(w, seqs, n, L, B) ==
  /\ w \in Seq(B) /\ Len(w) = n * L
  /\ \A j \in 1..n, m \in 1..L : w[At(j, m, L)] = seqs[j][m]

LEMMA FlattenedBlocks ==
  ASSUME NEW B, NEW n \in Nat, n > 0, NEW L \in Nat,
         NEW seqs \in [1..n -> Seq(B)], \A i \in 1..n : Len(seqs[i]) = L
  PROVE  BlockByBlock(FlattenSeq(seqs), seqs, n, L, B)
  <1>1. PICK h : /\ h \in [0..n -> Seq(B)] /\ h[0] = <<>>
                 /\ \A k \in 1..n : h[k] = h[k - 1] \o seqs[k]
                 /\ FlattenSeq(seqs) = h[n]
    <2>1. \E h : Concats(h, seqs, n, B)
      BY Flattened
    <2> QED
      BY <2>1, Zenon DEF Concats
  <1> DEFINE Laid(k) == /\ Len(h[k]) = k * L
                        /\ \A j \in 1..k, m \in 1..L :
                             h[k][At(j, m, L)] = seqs[j][m]
             T == {k \in Nat : k <= n => Laid(k)}
  <1>2. 0 \in T
    BY <1>1
  <1>3. \A k \in Nat : k \in T => k + 1 \in T
    <2> SUFFICES ASSUME NEW k \in Nat, k + 1 <= n, Laid(k) PROVE Laid(k + 1)
      <3> HIDE DEF Laid
      <3> QED
        OBVIOUS
    <2>1. h[k + 1] = h[k] \o seqs[k + 1]
      <3>1. k + 1 \in 1..n /\ (k + 1) - 1 = k
        <4> HIDE DEF Laid
        <4> QED
          OBVIOUS
      <3> QED
        BY <1>1, <3>1
    <2>2. h[k] \in Seq(B) /\ seqs[k + 1] \in Seq(B) /\ Len(seqs[k + 1]) = L
      <3> DEFINE W == Seq(B)
      <3>1. h \in [0..n -> W] /\ seqs \in [1..n -> W]
        BY <1>1
      <3>2. k \in 0..n /\ k + 1 \in 1..n
        OBVIOUS
      <3> HIDE DEF W
      <3>3. h[k] \in W /\ seqs[k + 1] \in W /\ Len(seqs[k + 1]) = L
        BY <3>1, <3>2
      <3> QED
        BY <3>3 DEF W
    <2>2a. /\ Len(h[k + 1]) = Len(h[k]) + L
           /\ \A q \in 1..(Len(h[k]) + L) :
                h[k + 1][q] = IF q <= Len(h[k]) THEN h[k][q]
                              ELSE seqs[k + 1][q - Len(h[k])]
      <3>1. /\ Len(h[k] \o seqs[k + 1]) = Len(h[k]) + Len(seqs[k + 1])
            /\ \A q \in 1..(Len(h[k]) + Len(seqs[k + 1])) :
                 (h[k] \o seqs[k + 1])[q] = IF q <= Len(h[k]) THEN h[k][q]
                                            ELSE seqs[k + 1][q - Len(h[k])]
        <4> DEFINE t == h[k]
                   v == seqs[k + 1]
        <4>1. t \in Seq(B) /\ v \in Seq(B)
          BY <2>2
        <4> HIDE DEF t, v
        <4>2. /\ Len(t \o v) = Len(t) + Len(v)
              /\ \A q \in 1..(Len(t) + Len(v)) :
                   (t \o v)[q] = IF q <= Len(t) THEN t[q] ELSE v[q - Len(t)]
          BY <4>1, ConcatProperties, Zenon
        <4> QED
          BY <4>2, Zenon DEF t, v
      <3> QED
        BY <2>1, <2>2, <3>1, Zenon
    <2>3. Len(h[k]) = k * L /\ k * L \in Nat
      OBVIOUS
    <2>4. Len(h[k + 1]) = (k + 1) * L
      BY <2>2a, <2>3, NextBlock
    <2>5. ASSUME NEW j \in 1..(k + 1), NEW m \in 1..L
          PROVE  h[k + 1][At(j, m, L)] = seqs[j][m]
      <3>1. CASE j = k + 1
        <4>1. At(j, m, L) = Len(h[k]) + m
          <5> HIDE DEF Laid
          <5>1. At(k + 1, m, L) = k * L + m
            BY NextBlock
          <5> QED
            BY <2>3, <3>1, <5>1
        <4>2. Len(h[k]) \in Nat
          BY <2>3
        <4> HIDE DEF Laid
        <4>3. h[k + 1][Len(h[k]) + m] = seqs[k + 1][m]
          <5> DEFINE len == Len(h[k])
                     q == len + m
          <5>1. q \in 1..(len + L) /\ ~(q <= len) /\ q - len = m
            <6> HIDE DEF len
            <6>1. len \in Nat
              BY <4>2 DEF len
            <6> QED
              BY <6>1
          <5> HIDE DEF q
          <5>2. h[k + 1][q] = seqs[k + 1][q - len]
            BY <2>2a, <5>1
          <5> QED
            BY <5>1, <5>2 DEF q
        <4> QED
          BY <3>1, <4>1, <4>3
      <3>2. CASE j # k + 1
        <4>1. j \in 1..k
          BY <3>2
        <4>2. At(j, m, L) \in 1..Len(h[k]) /\ Len(h[k]) \in Nat
          <5>1. At(j, m, L) \in 1..(k * L)
            BY <4>1, BlocksBefore
          <5> QED
            BY <2>3, <5>1
        <4>3. h[k + 1][At(j, m, L)] = h[k][At(j, m, L)]
          <5> DEFINE len == Len(h[k])
                     q == At(j, m, L)
          <5> HIDE DEF Laid, q
          <5>1. q \in 1..(len + L) /\ q <= len
            <6> HIDE DEF len
            <6>1. len \in Nat /\ q \in 1..len
              BY <4>2 DEF len, q
            <6> QED
              BY <6>1
          <5>2. h[k + 1][q] = h[k][q]
            BY <2>2a, <5>1
          <5> QED
            BY <5>2 DEF q
        <4> QED
          BY <4>1, <4>3
      <3> QED
        BY <3>1, <3>2
    <2> QED
      BY <2>4, <2>5
  <1>4. n \in T
    <2> HIDE DEF T
    <2> QED
      BY <1>2, <1>3, NatSetInduction
  <1> QED
    BY <1>1, <1>4 DEF BlockByBlock
----------------------------------------------------------------------------
(* The profile's file. *)

\* The sequence w of elements of S is s, of length n, and t, of length k.
Joins(w, s, t, n, k, S) ==
  /\ w \in Seq(S) /\ Len(w) = n + k
  /\ \A i \in 1..n : w[i] = s[i]
  /\ \A i \in 1..k : w[n + i] = t[i]

LEMMA Joined ==
  ASSUME NEW S, NEW s \in Seq(S), NEW t \in Seq(S), NEW n \in Nat, Len(s) = n,
         NEW k \in Nat, Len(t) = k
  PROVE  Joins(s \o t, s, t, n, k, S)
  <1>1. /\ s \o t \in Seq(S) /\ Len(s \o t) = n + k
        /\ \A i \in 1..(n + k) : (s \o t)[i] = IF i <= n THEN s[i] ELSE t[i - n]
    BY ConcatProperties
  <1> DEFINE w == s \o t
  <1> HIDE DEF w
  <1>2. \A i \in 1..(n + k) : w[i] = IF i <= n THEN s[i] ELSE t[i - n]
    BY <1>1 DEF w
  <1>3. ASSUME NEW i \in 1..n PROVE w[i] = s[i]
    <2>1. i \in 1..(n + k) /\ i <= n
      OBVIOUS
    <2> QED
      BY <1>2, <2>1
  <1>4. ASSUME NEW i \in 1..k PROVE w[n + i] = t[i]
    <2>1. n + i \in 1..(n + k) /\ ~(n + i <= n) /\ (n + i) - n = i
      OBVIOUS
    <2> QED
      BY <1>2, <2>1
  <1> QED
    BY <1>1, <1>3, <1>4, Zenon DEF w, Joins

Numbers(s, n) == s \in Seq(Int) /\ Len(s) = n

LEMMA NumbersJoined ==
  ASSUME NEW n \in Nat, NEW k \in Nat, NEW s, NEW t, Numbers(s, n), Numbers(t, k)
  PROVE  Joins(s \o t, s, t, n, k, Int)
  <1> DEFINE B == Int
  <1>1. s \in Seq(B) /\ t \in Seq(B) /\ Len(s) = n /\ Len(t) = k
    BY DEF Numbers
  <1> HIDE DEF B
  <1>2. Joins(s \o t, s, t, n, k, B)
    BY <1>1, Joined
  <1> QED
    BY <1>2, Zenon DEF B

LEMMA NumbersFlattened ==
  ASSUME NEW n \in Nat, n > 0, NEW L \in Nat, NEW seqs,
         seqs = [i \in 1..n |-> seqs[i]], \A i \in 1..n : Numbers(seqs[i], L)
  PROVE  BlockByBlock(FlattenSeq(seqs), seqs, n, L, Int)
  <1> DEFINE B == Int
             W == Seq(B)
  <1>1. \A i \in 1..n : seqs[i] \in W /\ Len(seqs[i]) = L
    BY DEF Numbers
  <1> HIDE DEF W
  <1>2. seqs \in [1..n -> W]
    BY <1>1
  <1>3. seqs \in [1..n -> Seq(B)]
    BY <1>2 DEF W
  <1> HIDE DEF B
  <1>4. BlockByBlock(FlattenSeq(seqs), seqs, n, L, B)
    BY <1>1, <1>3, FlattenedBlocks
  <1> QED
    BY <1>4, Zenon DEF B

LEMMA SameSequence ==
  ASSUME NEW S, NEW s \in Seq(S), NEW t \in Seq(S), Len(s) = Len(t),
         \A i \in 1..Len(s) : s[i] = t[i]
  PROVE  s = t
  OBVIOUS

\* What is written of a pose.
Block(e) == <<e.pose, 0, 0, 0, e.count>> \o e.centroid

PoseShaped(e, dim) ==
  /\ e.pose \in Int /\ e.count \in Int
  /\ e.centroid \in Seq(Int) /\ Len(e.centroid) = dim

Shaped(p) ==
  /\ p.model \in Seq(Int) /\ p.dim \in Nat /\ Len(p.poses) = PoseCount
  /\ \A i \in 1..PoseCount : PoseShaped(p.poses[i], p.dim)

LaidOut(b, p) ==
  /\ b \in Seq(Int)
  /\ Len(b) = 6 + Len(p.model) + PoseCount * (5 + p.dim)
  /\ b[1] = Magic /\ b[2] = FormatVersion /\ b[3] = 0
  /\ b[4] = Len(p.model) /\ b[5] = PoseCount /\ b[6] = p.dim
  /\ \A q \in 1..Len(p.model) : b[6 + q] = p.model[q]
  /\ \A i \in 1..PoseCount, m \in 1..(5 + p.dim) :
       b[6 + Len(p.model) + At(i, m, 5 + p.dim)] = Block(p.poses[i])[m]

LEMMA Counts ==
  /\ PoseCount \in Nat /\ PoseCount > 0
  /\ MaximumModelId \in Nat /\ MaximumDimension \in Nat /\ MaximumSamples \in Nat
  BY AnalysisAssumption

LEMMA BlockOf ==
  ASSUME NEW dim \in Nat, NEW e, PoseShaped(e, dim)
  PROVE  /\ Block(e) \in Seq(Int) /\ Len(Block(e)) = 5 + dim
         /\ Block(e)[1] = e.pose /\ Block(e)[2] = 0 /\ Block(e)[3] = 0
         /\ Block(e)[4] = 0 /\ Block(e)[5] = e.count
         /\ \A q \in 1..dim : Block(e)[5 + q] = e.centroid[q]
  <1> DEFINE first == <<e.pose, 0, 0, 0, e.count>>
             last == e.centroid
  <1>1. first \in Seq(Int) /\ Len(first) = 5
    BY DEF PoseShaped
  <1>2. last \in Seq(Int) /\ Len(last) = dim
    BY DEF PoseShaped
  <1>3. /\ first[1] = e.pose /\ first[2] = 0 /\ first[3] = 0 /\ first[4] = 0
        /\ first[5] = e.count
    OBVIOUS
  <1> DEFINE w == Block(e)
  <1>4. w = first \o last
    BY DEF Block
  <1>5. last = e.centroid
    OBVIOUS
  <1> HIDE DEF first, last
  <1>6. Joins(w, first, last, 5, dim, Int)
    <2>1. Numbers(first, 5) /\ Numbers(last, dim) /\ 5 \in Nat
      BY <1>1, <1>2 DEF Numbers
    <2> HIDE DEF w
    <2> QED
      BY <1>4, <2>1, NumbersJoined
  <1> HIDE DEF w
  <1>7. /\ w \in Seq(Int) /\ Len(w) = 5 + dim
        /\ \A i \in 1..5 : w[i] = first[i]
        /\ \A i \in 1..dim : w[5 + i] = last[i]
    BY <1>6, Zenon DEF Joins
  <1>8. /\ w[1] = e.pose /\ w[2] = 0 /\ w[3] = 0 /\ w[4] = 0 /\ w[5] = e.count
    <2>1. 1 \in 1..5 /\ 2 \in 1..5 /\ 3 \in 1..5 /\ 4 \in 1..5 /\ 5 \in 1..5
      OBVIOUS
    <2>2. \A i \in 1..5 : w[i] = first[i]
      BY <1>7
    <2>3. w[1] = first[1] /\ w[2] = first[2] /\ w[3] = first[3]
      BY <2>1, <2>2, Zenon
    <2>4. w[4] = first[4] /\ w[5] = first[5]
      BY <2>1, <2>2, Zenon
    <2> QED
      BY <1>3, <2>3, <2>4
  <1>9. \A q \in 1..dim : w[5 + q] = e.centroid[q]
    BY <1>5, <1>7, Zenon
  <1> QED
    BY <1>7, <1>8, <1>9, Zenon DEF w

LEMMA SerializedIsLaidOut ==
  ASSUME NEW p, Shaped(p)
  PROVE  LaidOut(Serialize(p), p)
  <1> DEFINE head == <<Magic, FormatVersion, 0, Len(p.model), Len(p.poses), p.dim>>
             blocks == [i \in 1..PoseCount |-> Block(p.poses[i])]
             flat == FlattenSeq(blocks)
             first == head \o p.model
             L == 5 + p.dim
             b == Serialize(p)
  <1>0. /\ p.model \in Seq(Int) /\ p.dim \in Nat /\ Len(p.poses) = PoseCount
        /\ Len(p.model) \in Nat
    BY DEF Shaped
  <1>1. b = first \o flat
    BY Zenon DEF Serialize, Block
  <1>2. /\ head \in Seq(Int) /\ Len(head) = 6
        /\ head[1] = Magic /\ head[2] = FormatVersion /\ head[3] = 0
        /\ head[4] = Len(p.model) /\ head[5] = PoseCount /\ head[6] = p.dim
    BY <1>0, Counts DEF Magic, FormatVersion
  <1>3. /\ flat \in Seq(Int) /\ Len(flat) = PoseCount * L
        /\ \A j \in 1..PoseCount, m \in 1..L :
             flat[At(j, m, L)] = Block(p.poses[j])[m]
    <2>1. \A i \in 1..PoseCount : Numbers(Block(p.poses[i]), L)
      BY BlockOf DEF Shaped, Numbers
    <2>2. L \in Nat /\ flat = FlattenSeq(blocks)
      BY <1>0
    <2>3. /\ blocks = [i \in 1..PoseCount |-> blocks[i]]
          /\ \A i \in 1..PoseCount : blocks[i] = Block(p.poses[i])
      OBVIOUS
    <2> HIDE DEF blocks, L, flat
    <2>4. \A i \in 1..PoseCount : Numbers(blocks[i], L)
      BY <2>1, <2>3
    <2>5. BlockByBlock(FlattenSeq(blocks), blocks, PoseCount, L, Int)
      BY <2>2, <2>3, <2>4, Counts, NumbersFlattened
    <2> QED
      BY <2>2, <2>3, <2>5, Zenon DEF BlockByBlock
  <1> HIDE DEF head, flat
  <1>4. /\ first \in Seq(Int) /\ Len(first) = 6 + Len(p.model)
        /\ \A q \in 1..6 : first[q] = head[q]
        /\ \A q \in 1..Len(p.model) : first[6 + q] = p.model[q]
    <2>1. /\ head \o p.model \in Seq(Int)
          /\ Len(head \o p.model) = 6 + Len(p.model)
          /\ \A i \in 1..6 : (head \o p.model)[i] = head[i]
          /\ \A i \in 1..Len(p.model) : (head \o p.model)[6 + i] = p.model[i]
      <3>1. /\ Numbers(head, 6) /\ Numbers(p.model, Len(p.model))
            /\ 6 \in Nat /\ Len(p.model) \in Nat
        BY <1>0, <1>2 DEF Numbers
      <3>2. Joins(head \o p.model, head, p.model, 6, Len(p.model), Int)
        BY <3>1, NumbersJoined
      <3> QED
        BY <3>2, Zenon DEF Joins
    <2> QED
      BY <2>1
  <1> HIDE DEF first
  <1> DEFINE n == 6 + Len(p.model)
  <1>5. n \in Nat /\ PoseCount * L \in Nat
    BY <1>0, Counts
  <1>6. /\ first \o flat \in Seq(Int) /\ Len(first \o flat) = n + PoseCount * L
        /\ \A i \in 1..n : (first \o flat)[i] = first[i]
        /\ \A i \in 1..(PoseCount * L) : (first \o flat)[n + i] = flat[i]
    <2> HIDE DEF L
    <2>1. Numbers(first, n) /\ Numbers(flat, PoseCount * L)
      BY <1>3, <1>4 DEF Numbers
    <2>2. Joins(first \o flat, first, flat, n, PoseCount * L, Int)
      BY <1>5, <2>1, NumbersJoined, Zenon
    <2> QED
      BY <2>2, Zenon DEF Joins
  <1> HIDE DEF b
  <1>7. /\ b \in Seq(Int) /\ Len(b) = n + PoseCount * L
        /\ \A i \in 1..n : b[i] = first[i]
        /\ \A i \in 1..(PoseCount * L) : b[n + i] = flat[i]
    BY <1>1, <1>6, Zenon
  <1>8. \A q \in 1..6 : b[q] = head[q]
    <2> SUFFICES ASSUME NEW q \in 1..6 PROVE b[q] = head[q]
      OBVIOUS
    <2>1. q \in 1..n
      BY <1>0
    <2> QED
      BY <1>4, <1>7, <2>1
  <1>9. \A q \in 1..Len(p.model) : b[6 + q] = p.model[q]
    <2> SUFFICES ASSUME NEW q \in 1..Len(p.model) PROVE b[6 + q] = p.model[q]
      OBVIOUS
    <2>1. 6 + q \in 1..n
      BY <1>0
    <2> QED
      BY <1>4, <1>7, <2>1
  <1>10. \A j \in 1..PoseCount, m \in 1..L :
           b[n + At(j, m, L)] = Block(p.poses[j])[m]
    <2> SUFFICES ASSUME NEW j \in 1..PoseCount, NEW m \in 1..L
                 PROVE  b[n + At(j, m, L)] = Block(p.poses[j])[m]
      OBVIOUS
    <2>1. L \in Nat
      BY <1>0
    <2> HIDE DEF L
    <2>2. At(j, m, L) \in 1..(PoseCount * L)
      BY <2>1, Counts, BlocksBefore
    <2> QED
      BY <1>3, <1>7, <2>2, Zenon
  <1>11. Len(b) = 6 + Len(p.model) + PoseCount * (5 + p.dim)
    BY <1>7
  <1>12. /\ b[1] = Magic /\ b[2] = FormatVersion /\ b[3] = 0
         /\ b[4] = Len(p.model) /\ b[5] = PoseCount /\ b[6] = p.dim
    BY <1>2, <1>8
  <1>13. \A i \in 1..PoseCount, m \in 1..(5 + p.dim) :
           b[6 + Len(p.model) + At(i, m, 5 + p.dim)] = Block(p.poses[i])[m]
    BY <1>10, Zenon
  <1> QED
    BY <1>7, <1>9, <1>11, <1>12, <1>13 DEF LaidOut, b

LEMMA LaidOutOnce ==
  ASSUME NEW p, Shaped(p), NEW a, NEW b, LaidOut(a, p), LaidOut(b, p)
  PROVE  a = b
  <1> DEFINE L == 5 + p.dim
             n == Len(p.model)
  <1>1. n \in Nat /\ L \in Nat /\ PoseCount * L \in Nat
    BY Counts DEF Shaped
  <1>2. /\ a \in Seq(Int) /\ b \in Seq(Int) /\ Len(a) = Len(b)
        /\ Len(a) = 6 + n + PoseCount * L
    BY DEF LaidOut
  <1>3. ASSUME NEW q \in 1..(6 + n + PoseCount * L) PROVE a[q] = b[q]
    <2>1. CASE q <= 6
      <3>1. q \in {1, 2, 3, 4, 5, 6}
        BY <1>1, <2>1
      <3> QED
        BY <3>1 DEF LaidOut
    <2>2. CASE q > 6 /\ q <= 6 + n
      <3> DEFINE r == q - 6
      <3>1. r \in 1..n /\ q = 6 + r
        BY <1>1, <2>2
      <3> HIDE DEF r
      <3> QED
        BY <3>1 DEF LaidOut
    <2>3. CASE q > 6 + n
      <3> DEFINE r == q - (6 + n)
      <3>1. r \in 1..(PoseCount * L) /\ q = 6 + n + r
        <4> DEFINE all == PoseCount * L
        <4>1. all \in Nat /\ q \in 1..(6 + n + all)
          BY <1>1
        <4> HIDE DEF all, n
        <4>2. r \in 1..all /\ q = 6 + n + r
          BY <1>1, <2>3, <4>1
        <4> QED
          BY <4>2 DEF all
      <3> HIDE DEF r, L, n
      <3>2. PICK j \in 1..PoseCount, m \in 1..L : r = At(j, m, L)
        BY <1>1, <3>1, Counts, EveryPlace
      <3>3. q = 6 + n + At(j, m, L)
        BY <3>1, <3>2
      <3>4. /\ a[6 + n + At(j, m, L)] = Block(p.poses[j])[m]
            /\ b[6 + n + At(j, m, L)] = Block(p.poses[j])[m]
        BY DEF LaidOut, L, n
      <3> QED
        BY <3>3, <3>4
    <2> QED
      BY <1>1, <2>1, <2>2, <2>3
  <1> HIDE DEF L, n
  <1>4. \A q \in 1..Len(a) : a[q] = b[q]
    BY <1>2, <1>3
  <1> DEFINE B == Int
  <1>5. a \in Seq(B) /\ b \in Seq(B) /\ Len(a) = Len(b)
    BY <1>2
  <1> HIDE DEF B
  <1> QED
    BY <1>4, <1>5, SameSequence

LEMMA ProductIsNatural ==
  ASSUME NEW a \in Nat, NEW b \in Nat PROVE a * b \in Nat
  OBVIOUS

LEMMA PlaceInFile ==
  ASSUME NEW b, b[4] \in Nat, b[6] \in Nat, NEW i \in Nat, NEW k \in Nat
  PROVE  PoseStart(b, i) + k = 6 + b[4] + At(i, k + 1, 5 + b[6])
  <1> DEFINE x == (i - 1) * (5 + b[6])
  <1>1. x \in Int
    OBVIOUS
  <1>2. PoseStart(b, i) = 7 + b[4] + x /\ At(i, k + 1, 5 + b[6]) = x + (k + 1)
    BY DEF PoseStart, At
  <1> HIDE DEF x
  <1> QED
    BY <1>1, <1>2

\* The i-th pose begins within the file, and ends there.
LEMMA PoseIsInFile ==
  ASSUME NEW ml \in Nat, NEW dim \in Nat, NEW i \in 1..PoseCount,
         NEW m \in 1..(5 + dim)
  PROVE  6 + ml + At(i, m, 5 + dim) \in 1..(6 + ml + PoseCount * (5 + dim))
  <1> DEFINE all == PoseCount * (5 + dim)
             q == At(i, m, 5 + dim)
  <1>1. q \in 1..all /\ all \in Nat
    <2> DEFINE L == 5 + dim
    <2>1. L \in Nat /\ PoseCount \in Nat /\ m \in 1..L
      BY Counts
    <2> HIDE DEF L
    <2>2. At(i, m, L) \in 1..(PoseCount * L) /\ PoseCount * L \in Nat
      BY <2>1, BlocksBefore, ProductIsNatural
    <2> QED
      BY <2>2 DEF L
  <1> HIDE DEF all, q
  <1>2. 6 + ml + q \in 1..(6 + ml + all)
    BY <1>1
  <1> QED
    BY <1>2 DEF all, q

LEMMA Cut ==
  ASSUME NEW b, NEW s \in Nat, NEW k \in Nat
  PROVE  /\ SubSeq(b, s + 1, s + k) = [q \in 1..k |-> b[s + q]]
         /\ Len(SubSeq(b, s + 1, s + k)) = k
         /\ \A q \in 1..k : SubSeq(b, s + 1, s + k)[q] = b[s + q]
  <1>1. SubSeq(b, s + 1, s + k) = [q \in 1..(1 + (s + k) - (s + 1)) |-> b[q + (s + 1) - 1]]
    OBVIOUS
  <1>2. 1 + (s + k) - (s + 1) = k /\ \A q \in 1..k : q + (s + 1) - 1 = s + q
    OBVIOUS
  <1> DEFINE w == SubSeq(b, s + 1, s + k)
  <1>3. w = [q \in 1..k |-> b[s + q]]
    BY <1>1, <1>2
  <1> HIDE DEF w
  <1>4. Len(w) = k /\ \A q \in 1..k : w[q] = b[s + q]
    BY <1>3
  <1> QED
    BY <1>3, <1>4 DEF w

IsProfile(p) ==
  p = [model |-> p.model, dim |-> p.dim,
       poses |-> [i \in 1..PoseCount |->
         [pose |-> p.poses[i].pose, count |-> p.poses[i].count,
          centroid |-> p.poses[i].centroid]]]

\* What was written of a profile that is valid is read back as that profile.
LEMMA WrittenIsRead ==
  ASSUME NEW p, Shaped(p), IsProfile(p), ValidProfile(p), NEW b, LaidOut(b, p)
  PROVE  Deserializes(b) /\ Fields(b) = p
  <1> DEFINE ml == Len(p.model)
             dim == p.dim
             L == 5 + dim
  <1>1. /\ ml \in Nat /\ dim \in Nat /\ p.model \in Seq(Int)
        /\ ml \in 1..MaximumModelId /\ dim \in 1..MaximumDimension
    BY DEF Shaped, ValidProfile, ValidModelId
  <1>2. /\ b \in Seq(Int) /\ Len(b) = 6 + ml + PoseCount * L
        /\ b[1] = Magic /\ b[2] = FormatVersion /\ b[3] = 0
        /\ b[4] = ml /\ b[5] = PoseCount /\ b[6] = dim
        /\ \A q \in 1..ml : b[6 + q] = p.model[q]
    BY DEF LaidOut
  <1>3. ASSUME NEW i \in 1..PoseCount, NEW k \in 0..(4 + dim)
        PROVE  b[PoseStart(b, i) + k] = Block(p.poses[i])[k + 1]
    <2>1. k + 1 \in 1..L /\ k \in Nat /\ i \in Nat
      BY <1>1
    <2>2. PoseStart(b, i) + k = 6 + ml + At(i, k + 1, L)
      <3>1. b[4] \in Nat /\ b[6] \in Nat
        BY <1>1, <1>2
      <3>2. PoseStart(b, i) + k = 6 + b[4] + At(i, k + 1, 5 + b[6])
        BY <2>1, <3>1, PlaceInFile
      <3> QED
        BY <1>2, <3>2, Zenon
    <2>3. b[6 + ml + At(i, k + 1, L)] = Block(p.poses[i])[k + 1]
      BY <2>1 DEF LaidOut
    <2> QED
      BY <2>2, <2>3, Zenon
  <1>4. ASSUME NEW i \in 1..PoseCount
        PROVE  /\ PoseStart(b, i) \in Nat
               /\ b[PoseStart(b, i)] = p.poses[i].pose
               /\ b[PoseStart(b, i) + 1] = 0 /\ b[PoseStart(b, i) + 2] = 0
               /\ b[PoseStart(b, i) + 3] = 0
               /\ b[PoseStart(b, i) + 4] = p.poses[i].count
               /\ \A q \in 1..dim :
                    b[PoseStart(b, i) + 4 + q] = p.poses[i].centroid[q]
    <2> DEFINE e == p.poses[i]
               s == PoseStart(b, i)
    <2>1. /\ Block(e)[1] = e.pose /\ Block(e)[2] = 0 /\ Block(e)[3] = 0
          /\ Block(e)[4] = 0 /\ Block(e)[5] = e.count
          /\ \A q \in 1..dim : Block(e)[5 + q] = e.centroid[q]
      <3>1. dim \in Nat /\ PoseShaped(e, dim)
        BY <1>1 DEF Shaped
      <3> HIDE DEF e, dim
      <3> QED
        BY <3>1, BlockOf
    <2>2. s \in Nat
      <3>1. i - 1 \in Nat /\ 5 + dim \in Nat
        BY <1>1
      <3> DEFINE x == (i - 1) * (5 + dim)
      <3>2. x \in Nat
        BY <3>1, ProductIsNatural
      <3>3. s = 7 + ml + x
        BY <1>2 DEF PoseStart
      <3> HIDE DEF x
      <3> QED
        BY <1>1, <3>2, <3>3
    <2>3. \A k \in 0..(4 + dim) : b[s + k] = Block(e)[k + 1]
      BY <1>3
    <2> HIDE DEF s, e
    <2>4. /\ b[s + 0] = Block(e)[0 + 1] /\ b[s + 1] = Block(e)[1 + 1]
          /\ b[s + 2] = Block(e)[2 + 1] /\ b[s + 3] = Block(e)[3 + 1]
          /\ b[s + 4] = Block(e)[4 + 1]
      <3>1. /\ 0 \in 0..(4 + dim) /\ 1 \in 0..(4 + dim) /\ 2 \in 0..(4 + dim)
            /\ 3 \in 0..(4 + dim) /\ 4 \in 0..(4 + dim)
        BY <1>1
      <3> QED
        BY <2>3, <3>1, Zenon
    <2>5. ASSUME NEW q \in 1..dim PROVE b[s + 4 + q] = e.centroid[q]
      <3>1. 4 + q \in 0..(4 + dim) /\ s + 4 + q = s + (4 + q) /\ (4 + q) + 1 = 5 + q
        BY <1>1, <2>2
      <3>2. b[s + (4 + q)] = Block(e)[(4 + q) + 1]
        BY <2>3, <3>1
      <3> QED
        BY <2>1, <3>1, <3>2
    <2>6. s + 0 = s /\ 0 + 1 = 1 /\ 1 + 1 = 2 /\ 2 + 1 = 3 /\ 3 + 1 = 4 /\ 4 + 1 = 5
      BY <2>2
    <2> QED
      BY <2>1, <2>2, <2>4, <2>5, <2>6 DEF s, e
  <1>5. Parses(b)
    <2>1. b[4] \in Nat /\ b[6] \in Nat /\ PoseCount + 1 \in Nat
      BY <1>1, <1>2, Counts
    <2>2. PoseStart(b, PoseCount + 1) - 1 = 6 + ml + PoseCount * L
      <3> DEFINE x == PoseCount * L
      <3>1. x \in Int
        BY <1>1, Counts
      <3>2. PoseStart(b, PoseCount + 1) = 7 + ml + ((PoseCount + 1) - 1) * L
        BY <1>2 DEF PoseStart
      <3>3. (PoseCount + 1) - 1 = PoseCount
        BY Counts
      <3>4. PoseStart(b, PoseCount + 1) = 7 + ml + x
        BY <3>2, <3>3
      <3> HIDE DEF x
      <3>5. PoseStart(b, PoseCount + 1) - 1 = 6 + ml + x
        BY <1>1, <3>1, <3>4
      <3> QED
        BY <3>5 DEF x
    <2>3. Len(b) >= 6
      <3> DEFINE x == PoseCount * L
      <3>1. PoseCount \in Nat /\ L \in Nat
        BY <1>1, Counts
      <3>2. x \in Nat
        BY <3>1, ProductIsNatural
      <3>3. Len(b) = 6 + ml + x
        BY <1>2
      <3> HIDE DEF x
      <3> QED
        BY <1>1, <3>2, <3>3
    <2>4. \A i \in 1..PoseCount, k \in 1..3 : b[PoseStart(b, i) + k] = 0
      BY <1>4
    <2> QED
      BY <1>1, <1>2, <2>2, <2>3, <2>4, Zenon DEF Parses
  <1>6. SubSeq(b, 7, 6 + b[4]) = p.model
    <2>1. SubSeq(b, 6 + 1, 6 + ml) = [q \in 1..ml |-> b[6 + q]]
      BY <1>1, Cut
    <2>2. p.model = [q \in 1..ml |-> p.model[q]]
      BY <1>1
    <2>3. 6 + 1 = 7 /\ b[4] = ml
      BY <1>2
    <2> QED
      BY <1>2, <2>1, <2>2, <2>3
  <1>7. ASSUME NEW i \in 1..PoseCount
        PROVE  SubSeq(b, PoseStart(b, i) + 5, PoseStart(b, i) + 4 + b[6])
                 = p.poses[i].centroid
    <2> DEFINE s == PoseStart(b, i) + 4
               c == p.poses[i].centroid
    <2>1. s \in Nat /\ PoseStart(b, i) + 5 = s + 1 /\ PoseStart(b, i) \in Nat
      BY <1>4
    <2>2. c = [q \in 1..dim |-> c[q]]
      BY DEF Shaped, PoseShaped
    <2>3. \A q \in 1..dim : b[s + q] = c[q]
      BY <1>4
    <2> HIDE DEF s, c
    <2>4. SubSeq(b, s + 1, s + dim) = [q \in 1..dim |-> b[s + q]]
      BY <1>1, <2>1, Cut
    <2>5. SubSeq(b, s + 1, s + dim) = c
      BY <2>2, <2>3, <2>4
    <2> QED
      BY <1>2, <2>1, <2>5 DEF s, c
  <1>8. Fields(b) = p
    <2>1. \A i \in 1..PoseCount :
            [pose |-> b[PoseStart(b, i)], count |-> b[PoseStart(b, i) + 4],
             centroid |-> SubSeq(b, PoseStart(b, i) + 5, PoseStart(b, i) + 4 + b[6])]
              = [pose |-> p.poses[i].pose, count |-> p.poses[i].count,
                 centroid |-> p.poses[i].centroid]
      BY <1>4, <1>7
    <2>2. Fields(b) = [model |-> p.model, dim |-> p.dim,
                       poses |-> [i \in 1..PoseCount |->
                         [pose |-> p.poses[i].pose, count |-> p.poses[i].count,
                          centroid |-> p.poses[i].centroid]]]
      BY <1>2, <1>6, <2>1 DEF Fields
    <2> QED
      BY <2>2, Zenon DEF IsProfile
  <1> QED
    BY <1>5, <1>8, Zenon DEF Deserializes

LEMMA ParsedFields ==
  ASSUME NEW b \in Seq(Int), Parses(b)
  PROVE  /\ b[4] \in 1..MaximumModelId /\ b[6] \in 1..MaximumDimension
         /\ b[4] \in Nat /\ b[6] \in Nat /\ b[5] = PoseCount
         /\ b[1] = Magic /\ b[2] = FormatVersion /\ b[3] = 0
         /\ Len(b) = 6 + b[4] + PoseCount * (5 + b[6])
         /\ \A i \in 1..PoseCount, k \in 1..3 : b[PoseStart(b, i) + k] = 0
  <1>1. /\ b[4] \in 1..MaximumModelId /\ b[6] \in 1..MaximumDimension
        /\ b[1] = Magic /\ b[2] = FormatVersion /\ b[3] = 0 /\ b[5] = PoseCount
        /\ Len(b) = PoseStart(b, PoseCount + 1) - 1
        /\ \A i \in 1..PoseCount, k \in 1..3 : b[PoseStart(b, i) + k] = 0
    BY Zenon DEF Parses
  <1>2. b[4] \in Nat /\ b[6] \in Nat
    <2>1. b[4] \in 1..MaximumModelId /\ b[6] \in 1..MaximumDimension
      BY <1>1
    <2> QED
      BY <2>1, Counts
  <1>3. Len(b) = 6 + b[4] + PoseCount * (5 + b[6])
    <2> DEFINE L == 5 + b[6]
               x == PoseCount * L
    <2>1. PoseCount \in Nat /\ L \in Nat /\ (PoseCount + 1) - 1 = PoseCount
      BY <1>2, Counts
    <2>2. x \in Nat
      BY <2>1, ProductIsNatural
    <2>3. PoseStart(b, PoseCount + 1) = 7 + b[4] + x
      BY <2>1 DEF PoseStart
    <2> HIDE DEF x
    <2>4. PoseStart(b, PoseCount + 1) - 1 = 6 + b[4] + x
      BY <1>2, <2>2, <2>3
    <2> QED
      BY <1>1, <2>4 DEF x
  <1> QED
    BY <1>1, <1>2, <1>3, Zenon

LEMMA NumberSequence ==
  ASSUME NEW n \in Nat, NEW w, w = [q \in 1..n |-> w[q]], \A q \in 1..n : w[q] \in Int
  PROVE  w \in Seq(Int) /\ Len(w) = n
  <1> DEFINE B == Int
  <1>1. \A q \in 1..n : w[q] \in B
    OBVIOUS
  <1> HIDE DEF B
  <1>2. w \in Seq(B) /\ Len(w) = n
    BY <1>1
  <1> QED
    BY <1>2 DEF B

\* What parses is laid out as the profile that is read from it.
LEMMA ReadIsLaidOut ==
  ASSUME NEW b \in Seq(Int), Parses(b)
  PROVE  Shaped(Fields(b)) /\ LaidOut(b, Fields(b))
  <1> DEFINE p == Fields(b)
             ml == b[4]
             dim == b[6]
             L == 5 + dim
             s(i) == PoseStart(b, i)
  <1>1. /\ ml \in Nat /\ dim \in Nat /\ b[5] = PoseCount
        /\ b[1] = Magic /\ b[2] = FormatVersion /\ b[3] = 0
        /\ Len(b) = 6 + ml + PoseCount * L
        /\ \A i \in 1..PoseCount, k \in 1..3 : b[s(i) + k] = 0
    BY ParsedFields
  <1>0. ml \in Nat /\ dim \in Nat /\ L \in Nat
    <2>1. ml \in Nat /\ dim \in Nat
      BY <1>1
    <2> HIDE DEF ml, dim
    <2> QED
      BY <2>1
  <1>2. \A q \in 1..(6 + ml + PoseCount * L) : b[q] \in Int
    BY <1>1
  <1>3. /\ p.model = SubSeq(b, 7, 6 + b[4]) /\ p.dim = dim
        /\ p.poses = [i \in 1..PoseCount |->
             [pose |-> b[s(i)], count |-> b[s(i) + 4],
              centroid |-> SubSeq(b, s(i) + 5, s(i) + 4 + b[6])]]
    BY DEF Fields
  <1>4. p.model = [q \in 1..ml |-> b[6 + q]]
    <2>1. SubSeq(b, 6 + 1, 6 + ml) = [q \in 1..ml |-> b[6 + q]]
      BY <1>0, Cut
    <2>2. 6 + 1 = 7
      OBVIOUS
    <2> QED
      BY <1>3, <2>1, <2>2
  <1>5. ASSUME NEW i \in 1..PoseCount, NEW k \in 0..(4 + dim)
        PROVE  /\ s(i) + k = 6 + ml + At(i, k + 1, L)
               /\ b[s(i) + k] \in Int
    <2>1. k + 1 \in 1..L /\ k \in Nat /\ i \in Nat
      BY <1>0
    <2>2. s(i) + k = 6 + ml + At(i, k + 1, L)
      BY <1>0, <2>1, PlaceInFile
    <2>3. 6 + ml + At(i, k + 1, L) \in 1..(6 + ml + PoseCount * L)
      BY <1>0, <2>1, PoseIsInFile
    <2> QED
      BY <1>2, <2>2, <2>3
  <1>6. ASSUME NEW i \in 1..PoseCount
        PROVE  /\ s(i) \in Nat
               /\ p.poses[i].pose = b[s(i) + 0] /\ p.poses[i].count = b[s(i) + 4]
               /\ p.poses[i].centroid = [q \in 1..dim |-> b[s(i) + (4 + q)]]
    <2>1. s(i) \in Nat
      <3>1. i - 1 \in Nat /\ L \in Nat
        BY <1>0
      <3> DEFINE x == (i - 1) * L
      <3>2. x \in Nat
        BY <3>1, ProductIsNatural
      <3>3. s(i) = 7 + ml + x
        BY DEF PoseStart
      <3>4. s(i) \in Nat
        <4>1. ml \in Nat
          BY <1>0
        <4> HIDE DEF x, s, ml
        <4> QED
          BY <3>2, <3>3, <4>1
      <3> QED
        BY <3>4 DEF s
    <2> DEFINE o == s(i) + 4
    <2>2. o \in Nat /\ s(i) + 5 = o + 1 /\ s(i) + 0 = s(i)
      BY <2>1
    <2>3. SubSeq(b, o + 1, o + dim) = [q \in 1..dim |-> b[o + q]]
      <3> HIDE DEF o, dim
      <3>1. dim \in Nat
        BY <1>0 DEF dim
      <3> QED
        BY <2>2, <3>1, Cut
    <2>4. \A q \in 1..dim : o + q = s(i) + (4 + q)
      BY <1>0, <2>1
    <2>5. [q \in 1..dim |-> b[o + q]] = [q \in 1..dim |-> b[s(i) + (4 + q)]]
      BY <2>4
    <2>6. p.poses[i] = [pose |-> b[s(i)], count |-> b[s(i) + 4],
                        centroid |-> SubSeq(b, s(i) + 5, s(i) + 4 + b[6])]
      BY <1>3
    <2> HIDE DEF p
    <2>7. /\ p.poses[i].pose = b[s(i)] /\ p.poses[i].count = b[s(i) + 4]
          /\ p.poses[i].centroid
               = SubSeq(b, s(i) + 5, s(i) + 4 + b[6])
      <3> DEFINE e == p.poses[i]
                 x == b[s(i)]
                 y == b[s(i) + 4]
                 c == SubSeq(b, s(i) + 5, s(i) + 4 + b[6])
      <3>1. e = [pose |-> x, count |-> y, centroid |-> c]
        BY <2>6
      <3> HIDE DEF e, x, y, c
      <3>2. e.pose = x /\ e.count = y /\ e.centroid = c
        BY <3>1
      <3> QED
        BY <3>2 DEF e, x, y, c
    <2> HIDE DEF s
    <2> QED
      BY <2>1, <2>2, <2>3, <2>5, <2>7, Zenon
  <1> HIDE DEF p
  <1>7. p.model \in Seq(Int) /\ Len(p.model) = ml
    <2>1. \A q \in 1..ml : b[6 + q] \in Int
      <3> DEFINE x == PoseCount * L
      <3>1. PoseCount \in Nat /\ L \in Nat
        BY <1>0, Counts
      <3>2. x \in Nat
        BY <3>1, ProductIsNatural
      <3>3. \A q \in 1..(6 + ml + x) : b[q] \in Int
        BY <1>2
      <3> HIDE DEF x
      <3>4. \A q \in 1..ml : 6 + q \in 1..(6 + ml + x)
        BY <1>0, <3>2
      <3> QED
        BY <3>3, <3>4
    <2>2. /\ p.model = [q \in 1..ml |-> p.model[q]]
          /\ \A q \in 1..ml : p.model[q] \in Int
      BY <1>4, <2>1
    <2> HIDE DEF ml
    <2>3. ml \in Nat
      BY <1>0 DEF ml
    <2> QED
      BY <2>2, <2>3, NumberSequence
  <1>8. ASSUME NEW i \in 1..PoseCount PROVE PoseShaped(p.poses[i], dim)
    <2>1. 0 \in 0..(4 + dim) /\ 4 \in 0..(4 + dim)
      BY <1>0
    <2>2. b[s(i) + 0] \in Int /\ b[s(i) + 4] \in Int
      BY <1>5, <2>1
    <2>3. \A q \in 1..dim : b[s(i) + (4 + q)] \in Int
      <3>1. \A q \in 1..dim : 4 + q \in 0..(4 + dim)
        BY <1>0
      <3> QED
        BY <1>5, <3>1
    <2>4. p.poses[i].centroid \in Seq(Int) /\ Len(p.poses[i].centroid) = dim
      <3> DEFINE c == p.poses[i].centroid
      <3>1. c = [q \in 1..dim |-> c[q]] /\ \A q \in 1..dim : c[q] \in Int
        BY <1>6, <2>3
      <3>2. dim \in Nat
        BY <1>0
      <3> HIDE DEF c, dim
      <3>3. c \in Seq(Int) /\ Len(c) = dim
        BY <3>1, <3>2, NumberSequence
      <3> QED
        BY <3>3 DEF c
    <2> QED
      BY <1>6, <2>2, <2>4 DEF PoseShaped
  <1>9. Shaped(p)
    <2>1. Len(p.poses) = PoseCount
      BY <1>3, Counts
    <2> QED
      BY <1>0, <1>3, <1>7, <1>8, <2>1 DEF Shaped
  <1>10. ASSUME NEW i \in 1..PoseCount, NEW m \in 1..L
         PROVE  b[6 + ml + At(i, m, L)] = Block(p.poses[i])[m]
    <2> DEFINE e == p.poses[i]
               k == m - 1
    <2>1. /\ Block(e)[1] = e.pose /\ Block(e)[2] = 0 /\ Block(e)[3] = 0
          /\ Block(e)[4] = 0 /\ Block(e)[5] = e.count
          /\ \A q \in 1..dim : Block(e)[5 + q] = e.centroid[q]
      <3>1. dim \in Nat /\ PoseShaped(e, dim)
        BY <1>0, <1>8
      <3> HIDE DEF e, dim
      <3> QED
        BY <3>1, BlockOf
    <2>2. k \in 0..(4 + dim) /\ k + 1 = m
      BY <1>0
    <2>3. 6 + ml + At(i, m, L) = s(i) + k
      BY <1>5, <2>2
    <2>4. b[s(i) + k] = Block(e)[m]
      <3>1. CASE m = 1
        <4>1. k = 0
          BY <3>1
        <4>2. e.pose = b[s(i) + 0]
          BY <1>6
        <4> HIDE DEF e, s, k
        <4> QED
          BY <2>1, <3>1, <4>1, <4>2
      <3>2. CASE m \in {2, 3, 4}
        <4>1. k \in 1..3 /\ Block(e)[m] = 0
          BY <2>1, <3>2
        <4> QED
          BY <1>1, <4>1
      <3>3. CASE m = 5
        <4>1. k = 4
          BY <3>3
        <4>2. e.count = b[s(i) + 4]
          BY <1>6
        <4> HIDE DEF e, s, k
        <4> QED
          BY <2>1, <3>3, <4>1, <4>2
      <3>4. CASE m > 5
        <4> DEFINE q == m - 5
        <4>1. q \in 1..dim /\ m = 5 + q /\ k = 4 + q
          BY <1>0, <3>4
        <4>2. Block(e)[5 + q] = e.centroid[q]
          BY <2>1, <4>1
        <4>3. e.centroid[q] = b[s(i) + (4 + q)]
          BY <1>6, <4>1
        <4> HIDE DEF q, e, s, k
        <4> QED
          BY <4>1, <4>2, <4>3
      <3> QED
        <4>1. m \in Nat /\ m >= 1
          BY <1>0
        <4> HIDE DEF e, s, k
        <4>2. m = 1 \/ m \in {2, 3, 4} \/ m = 5 \/ m > 5
          BY <4>1
        <4> QED
          BY <3>1, <3>2, <3>3, <3>4, <4>2, Zenon
    <2> QED
      BY <2>3, <2>4
  <1>11. \A q \in 1..ml : b[6 + q] = p.model[q]
    BY <1>4
  <1>12. LaidOut(b, p)
    <2>1. p.dim = dim
      BY <1>3
    <2>2. \A i \in 1..PoseCount, m \in 1..(5 + p.dim) :
            b[6 + Len(p.model) + At(i, m, 5 + p.dim)] = Block(p.poses[i])[m]
      <3>1. Len(p.model) = ml /\ 5 + p.dim = L
        BY <1>7, <2>1
      <3> HIDE DEF p, ml, L
      <3> QED
        BY <1>10, <3>1
    <2>3. Len(b) = 6 + Len(p.model) + PoseCount * (5 + p.dim)
      BY <1>1, <1>7, <2>1, Zenon
    <2> QED
      BY <1>1, <1>7, <1>11, <2>1, <2>2, <2>3, Zenon DEF LaidOut
  <1> QED
    BY <1>9, <1>12 DEF p

\* What is read as a profile is what is written of that profile.
LEMMA ReadIsWritten ==
  ASSUME NEW b \in Seq(Int), Parses(b)
  PROVE  Serialize(Fields(b)) = b
  BY ReadIsLaidOut, SerializedIsLaidOut, LaidOutOnce
----------------------------------------------------------------------------
(* What finalize() makes of samples. *)

\* Sums of samples stay below what is not finite.
LEMMA AbsOfSum ==
  ASSUME NEW a \in Int, NEW b \in Int
  PROVE  /\ Abs(a) \in Nat /\ Abs(b) \in Nat /\ Abs(a + b) \in Nat
         /\ Abs(a + b) <= Abs(a) + Abs(b)
  BY DEF Abs

LEMMA ProductIsMonotone ==
  ASSUME NEW m \in Nat, NEW a \in Int, NEW b \in Int, a <= b
  PROVE  m * a <= m * b
  OBVIOUS

LEMMA BoundOfSum ==
  ASSUME NEW m \in Nat, NEW a \in Int, NEW b \in Int, NEW c \in Nat,
         m * Abs(a) < NonFinite, m * Abs(b) <= c * 9998
  PROVE  m * Abs(a + b) <= (c + 1) * 9998
  <1> DEFINE x == Abs(a)
             y == Abs(b)
             z == Abs(a + b)
  <1>1. x \in Nat /\ y \in Nat /\ z \in Nat /\ z <= x + y
    BY AbsOfSum
  <1>2. m * x <= 9998 /\ m * y <= c * 9998
    <2>1. m * x < 9999 /\ m * y <= c * 9998
      BY DEF NonFinite
    <2> HIDE DEF x, y
    <2>2. m * x \in Nat
      BY <1>1, ProductIsNatural
    <2> QED
      BY <2>1, <2>2
  <1> HIDE DEF x, y, z
  <1>3. m * z <= m * (x + y)
    BY <1>1, ProductIsMonotone
  <1>4. m * (x + y) = m * x + m * y
    BY <1>1
  <1>5. m * z \in Int /\ m * x \in Int /\ m * y \in Int
    BY <1>1
  <1>6. m * z <= (c + 1) * 9998
    BY <1>2, <1>3, <1>4, <1>5
  <1> QED
    BY <1>6 DEF z

LEMMA BoundOfFactor ==
  ASSUME NEW m \in Nat, m > 0, NEW c \in Nat, c <= m, NEW a \in Int,
         m * Abs(a) <= c * 9998
  PROVE  Abs(a) < NonFinite
  <1> DEFINE x == Abs(a)
  <1>1. x \in Nat
    BY AbsOfSum
  <1>2. m * x <= c * 9998
    OBVIOUS
  <1> HIDE DEF x
  <1> SUFFICES ASSUME x >= 9999 PROVE FALSE
    BY <1>1 DEF x, NonFinite
  <1>3. m * x >= m * 9999
    BY <1>1, ProductIsMonotone
  <1> QED
    BY <1>1, <1>2, <1>3

\* The samples of a pose: as many as may be, of directions of one length.
SamplesOf(samples, dim) ==
  /\ samples \in Seq(Directions)
  /\ Len(samples) \in 1..MaximumSamples
  /\ \A v \in Directions : v \in Vectors(1..dim)

LEMMA SegmentIsFinite ==
  ASSUME NEW n \in Nat
  PROVE  IsFiniteSet(1..n) /\ Cardinality(1..n) = n
  <1>1. 1 \in Int /\ n \in Int /\ (1 <= n => n - 1 + 1 = n) /\ (1 > n => n = 0)
    OBVIOUS
  <1> QED
    BY <1>1, FS_Interval

LEMMA TotalOf ==
  ASSUME NEW dim \in Nat, NEW samples, SamplesOf(samples, dim),
         NEW some \in SUBSET (DOMAIN samples)
  PROVE  \E g : /\ VectorSums(g, samples, some, 1..dim)
                /\ Total(samples, some) = g[some]
                /\ IsFiniteSet(some)
  <1>1. /\ samples \in Seq(Directions) /\ Len(samples) \in Nat /\ Len(samples) > 0
        /\ DOMAIN samples = 1..Len(samples)
    BY Counts DEF SamplesOf
  <1>2. IsFiniteSet(some)
    <2>1. IsFiniteSet(DOMAIN samples)
      BY <1>1, SegmentIsFinite
    <2> QED
      BY <2>1, FS_Subset
  <1>3. \A i \in some : samples[i] \in Vectors(1..dim)
    BY <1>1 DEF SamplesOf
  <1>4. DOMAIN Head(samples) = 1..dim
    <2>1. Head(samples) \in Directions
      BY <1>1
    <2> QED
      BY <2>1 DEF SamplesOf, Vectors
  <1>5. PICK g : /\ VectorSums(g, samples, some, 1..dim)
                 /\ FoldFunctionOnSet(Sum, [i \in 1..dim |-> 0], samples, some)
                      = g[some]
    BY <1>2, <1>3, VectorSumOf
  <1>6. Total(samples, some) = g[some]
    BY <1>4, <1>5, Zenon DEF Total
  <1> QED
    BY <1>2, <1>5, <1>6

LEMMA TotalIsBounded ==
  ASSUME NEW dim \in Nat, NEW samples, SamplesOf(samples, dim),
         NEW some \in SUBSET (DOMAIN samples)
  PROVE  /\ Total(samples, some) \in Vectors(1..dim)
         /\ \A i \in 1..dim : Abs(Total(samples, some)[i]) < NonFinite
  <1>1. PICK g : /\ VectorSums(g, samples, some, 1..dim)
                 /\ Total(samples, some) = g[some]
                 /\ IsFiniteSet(some)
    BY TotalOf
  <1>2. \A s \in SUBSET some : g[s] \in Vectors(1..dim)
    BY <1>1 DEF VectorSums
  <1> SUFFICES ASSUME NEW i \in 1..dim PROVE Abs(g[some][i]) < NonFinite
    BY <1>1, <1>2
  <1> DEFINE m == MaximumSamples
             Bounded(s) == m * Abs(g[s][i]) <= Cardinality(s) * 9998
             T == {s \in SUBSET some : Bounded(s)}
  <1>3. m \in Nat /\ m > 0
    BY AnalysisAssumption
  <1>4. \A s \in SUBSET some : g[s][i] \in Int
    BY <1>2 DEF Vectors
  <1>5. \A s \in SUBSET some : IsFiniteSet(s) /\ Cardinality(s) \in Nat
    BY <1>1, FS_Subset, FS_CardinalityType
  <1>6. {} \in T
    <2>1. g[{}][i] = 0 /\ Cardinality({}) = 0
      BY <1>1, FS_EmptySet DEF VectorSums
    <2>2. Abs(0) = 0
      BY DEF Abs
    <2> HIDE DEF m
    <2> QED
      BY <1>3, <2>1, <2>2
  <1>7. ASSUME NEW s \in SUBSET some, s # {}, s \ {Pick(s)} \in T PROVE s \in T
    <2> DEFINE j == Pick(s)
               r == s \ {Pick(s)}
               a == samples[j][i]
               b == g[r][i]
    <2>1. j \in s /\ g[s] = Sum(samples[j], g[r])
      BY <1>1, <1>7 DEF VectorSums
    <2>2. samples[j] \in Directions
      BY <2>1 DEF SamplesOf
    <2>3. samples[j] \in Vectors(1..dim)
      BY <2>2 DEF SamplesOf
    <2>4. a \in Int /\ b \in Int
      BY <1>4, <2>3 DEF Vectors
    <2>5. g[s][i] = a + b
      BY <2>1, <2>3 DEF Sum, Vectors
    <2>6. m * Abs(a) < NonFinite
      <3>1. i \in DOMAIN samples[j]
        BY <2>3 DEF Vectors
      <3> QED
        BY <2>2, <3>1, AnalysisAssumption
    <2>7. Cardinality(s) = Cardinality(r) + 1 /\ Cardinality(r) \in Nat
      <3>1. Cardinality(r) = Cardinality(s) - 1
        BY <1>5, <2>1, FS_RemoveElement
      <3> QED
        BY <1>5, <3>1
    <2>8. m * Abs(b) <= Cardinality(r) * 9998
      BY <1>7
    <2> HIDE DEF a, b, m, r, j
    <2>9. m * Abs(a + b) <= (Cardinality(r) + 1) * 9998
      <3> DEFINE c == Cardinality(r)
      <3>1. c \in Nat /\ m * Abs(b) <= c * 9998 /\ m \in Nat
        BY <1>3, <2>7, <2>8
      <3> HIDE DEF c
      <3>2. m * Abs(a + b) <= (c + 1) * 9998
        BY <2>4, <2>6, <3>1, BoundOfSum
      <3> QED
        BY <3>2 DEF c
    <2>10. Bounded(s)
      BY <2>5, <2>7, <2>9
    <2> QED
      BY <2>10
  <1>8. some \in T
    <2> HIDE DEF T
    <2> QED
      BY <1>1, <1>6, <1>7, ChosenInduction
  <1>9. Cardinality(some) <= m
    <2>1. /\ DOMAIN samples = 1..Len(samples) /\ Len(samples) \in Nat
          /\ Len(samples) <= m
      BY Counts DEF SamplesOf
    <2>2. IsFiniteSet(1..Len(samples)) /\ Cardinality(1..Len(samples)) = Len(samples)
      BY <2>1, SegmentIsFinite
    <2>3. Cardinality(some) <= Len(samples)
      BY <2>1, <2>2, FS_Subset
    <2> QED
      BY <1>3, <1>5, <2>1, <2>3
  <1> HIDE DEF m
  <1> QED
    BY <1>3, <1>4, <1>5, <1>8, <1>9, BoundOfFactor

\* A centroid is a usable vector that is normalized already.
LEMMA CentroidIsValid ==
  ASSUME NEW dim \in Nat, NEW samples, SamplesOf(samples, dim), HasCentroid(samples)
  PROVE  /\ Centroid(samples) \in Vectors(1..dim) /\ Usable(Centroid(samples))
         /\ Normalized(Centroid(samples)) = Centroid(samples)
  <1> DEFINE some == Retained(samples)
             v == Total(samples, some)
  <1>1. some \in SUBSET (DOMAIN samples)
    BY DEF Retained
  <1>2. v \in Vectors(1..dim) /\ \A i \in 1..dim : Abs(v[i]) < NonFinite
    <2> HIDE DEF some
    <2> QED
      BY <1>1, TotalIsBounded
  <1>3. NonZero(v)
    BY Zenon DEF HasCentroid, Usable, NonZero
  <1> HIDE DEF v
  <1>4. Usable(Normalized(v)) /\ Normalized(Normalized(v)) = Normalized(v)
    BY <1>2, <1>3, NormalizedIsUsable, NormalizedOnce
  <1>5. Normalized(v) \in Vectors(1..dim)
    BY <1>2, <1>3, NormalizedDivides
  <1>6. Centroid(samples) = Normalized(v)
    BY Zenon DEF Centroid, v
  <1> QED
    BY <1>4, <1>5, <1>6

SameLength(dim) ==
  dim \in 1..MaximumDimension /\ \A v \in Directions : v \in Vectors(1..dim)

LEMMA DirectionsHaveOneLength == \E dim : SameLength(dim)
  BY AnalysisAssumption DEF SameLength, Vectors

LEMMA SequenceOfSet ==
  ASSUME NEW S, IsFiniteSet(S)
  PROVE  SetToSeq(S) \in [1..Cardinality(S) -> S]
  <1> DEFINE n == Cardinality(S)
  <1>1. PICK f : f \in Bijection(1..n, S)
    <2>1. ExistsBijection(1..n, S)
      BY FS_CardinalityType
    <2> QED
      BY <2>1, Zenon DEF ExistsBijection
  <1>2. f \in [1..n -> S] /\ IsInjective(f)
    BY <1>1, Zenon DEF Bijection, Injection
  <1>3. \E h \in [1..n -> S] : IsInjective(h)
    BY <1>2
  <1> QED
    BY <1>3, Zenon DEF SetToSeq

LEMMA SamplingIsSamples ==
  ASSUME NEW dim, SameLength(dim), NEW samples \in Samplings
  PROVE  \A i \in 1..PoseCount : SamplesOf(samples[i], dim)
  <1>1. PICK S \in SUBSET Directions :
          /\ Cardinality(S) \in SampleSizes
          /\ samples = <<SetToSeq(S)>> \o
               [i \in 1..(PoseCount - 1) |-> <<CHOOSE v \in Directions : TRUE>>]
    BY Zenon DEF Samplings
  <1> DEFINE n == Cardinality(S)
             one == CHOOSE v \in Directions : TRUE
             rest == [i \in 1..(PoseCount - 1) |-> <<one>>]
             D == Seq(Directions)
  <1>2. IsFiniteSet(S) /\ n \in 1..MaximumSamples /\ n \in Nat /\ n > 0
    <2>1. IsFiniteSet(S)
      BY AnalysisAssumption, FS_Subset
    <2>2. n \in 1..MaximumSamples
      BY <1>1, AnalysisAssumption
    <2> HIDE DEF n
    <2> QED
      BY <2>1, <2>2, Counts
  <1>3. S # {}
    BY <1>2, FS_EmptySet
  <1>4. one \in Directions
    BY <1>3
  <1>5. SetToSeq(S) \in D /\ Len(SetToSeq(S)) = n
    <2>1. SetToSeq(S) \in [1..n -> S]
      BY <1>2, SequenceOfSet
    <2>2. SetToSeq(S) \in [1..n -> Directions]
      BY <2>1
    <2> HIDE DEF n
    <2> QED
      BY <1>2, <2>2
  <1>6. <<one>> \in D /\ Len(<<one>>) = 1
    <2> HIDE DEF one
    <2> QED
      BY <1>4
  <1> HIDE DEF D, one, n
  <1>7. /\ <<SetToSeq(S)>> \in Seq(D) /\ Len(<<SetToSeq(S)>>) = 1
        /\ <<SetToSeq(S)>>[1] = SetToSeq(S)
    BY <1>5
  <1>8. PoseCount - 1 \in Nat /\ 1 \in Nat
    BY Counts
  <1>9. rest \in Seq(D) /\ Len(rest) = PoseCount - 1
    BY <1>6, <1>8
  <1>10. /\ \A i \in 1..1 : samples[i] = <<SetToSeq(S)>>[i]
         /\ \A i \in 1..(PoseCount - 1) : samples[1 + i] = rest[i]
    <2> DEFINE s == <<SetToSeq(S)>>
    <2>1. /\ \A i \in 1..1 : (s \o rest)[i] = s[i]
          /\ \A i \in 1..(PoseCount - 1) : (s \o rest)[1 + i] = rest[i]
      <3> DEFINE k == PoseCount - 1
      <3>1. /\ s \in Seq(D) /\ Len(s) = 1 /\ 1 \in Nat
            /\ rest \in Seq(D) /\ Len(rest) = k /\ k \in Nat
        BY <1>7, <1>8, <1>9
      <3> HIDE DEF s, rest, k
      <3>2. Joins(s \o rest, s, rest, 1, k, D)
        BY <3>1, Joined
      <3> QED
        BY <3>2, Zenon DEF Joins, k
    <2>2. samples = s \o rest
      BY <1>1 DEF one
    <2> HIDE DEF s, rest
    <2>3. /\ \A i \in 1..1 : samples[i] = s[i]
          /\ \A i \in 1..(PoseCount - 1) : samples[1 + i] = rest[i]
      BY <2>1, <2>2, Zenon
    <2> QED
      BY <2>3 DEF s
  <1> SUFFICES ASSUME NEW i \in 1..PoseCount PROVE SamplesOf(samples[i], dim)
    OBVIOUS
  <1>11. samples[i] \in D /\ Len(samples[i]) \in 1..MaximumSamples
    <2>1. CASE i = 1
      <3>1. samples[1] = SetToSeq(S)
        BY <1>7, <1>10
      <3> QED
        BY <1>2, <1>5, <2>1, <3>1
    <2>2. CASE i # 1
      <3>1. i - 1 \in 1..(PoseCount - 1) /\ 1 + (i - 1) = i
        BY <2>2, Counts
      <3>2. samples[1 + (i - 1)] = rest[i - 1]
        BY <1>10, <3>1
      <3>3. samples[i] = <<one>>
        BY <3>1, <3>2
      <3>4. 1 \in 1..MaximumSamples
        BY AnalysisAssumption
      <3> QED
        BY <1>6, <3>3, <3>4
    <2> QED
      BY <2>1, <2>2
  <1> QED
    BY <1>11 DEF SamplesOf, SameLength, D

LEMMA FinalizedIsValid ==
  ASSUME NEW model \in Models, NEW samples \in Samplings,
         \A i \in 1..PoseCount : HasCentroid(samples[i])
  PROVE  LET p == Finalize(model, samples)
         IN  Shaped(p) /\ IsProfile(p) /\ ValidProfile(p)
  <1> DEFINE p == Finalize(model, samples)
             c(i) == Centroid(samples[i])
  <1>1. PICK dim : SameLength(dim)
    BY DirectionsHaveOneLength
  <1>2. dim \in Nat /\ dim \in 1..MaximumDimension
    BY <1>1, Counts DEF SameLength
  <1>3. \A i \in 1..PoseCount : SamplesOf(samples[i], dim)
    BY <1>1, SamplingIsSamples
  <1>4. ASSUME NEW i \in 1..PoseCount
        PROVE  /\ c(i) \in Vectors(1..dim) /\ Usable(c(i))
               /\ Normalized(c(i)) = c(i)
    BY <1>2, <1>3, CentroidIsValid
  <1>5. \A i \in 1..PoseCount : c(i) \in Seq(Int) /\ Len(c(i)) = dim
    <2> SUFFICES ASSUME NEW i \in 1..PoseCount
                 PROVE  c(i) \in Seq(Int) /\ Len(c(i)) = dim
      OBVIOUS
    <2> DEFINE w == c(i)
    <2>1. w = [q \in 1..dim |-> w[q]] /\ \A q \in 1..dim : w[q] \in Int
      BY <1>4 DEF Vectors
    <2> HIDE DEF w
    <2>2. w \in Seq(Int) /\ Len(w) = dim
      BY <1>2, <2>1, NumberSequence
    <2> QED
      BY <2>2 DEF w
  <1>6. Len(Head(samples[1])) = dim
    <2>1. samples[1] \in Seq(Directions) /\ Len(samples[1]) > 0
      BY <1>3, Counts DEF SamplesOf
    <2>2. Head(samples[1]) \in Directions
      BY <2>1
    <2> DEFINE w == Head(samples[1])
    <2>3. w \in Vectors(1..dim)
      BY <1>1, <2>2 DEF SameLength
    <2> HIDE DEF w
    <2>4. w = [q \in 1..dim |-> w[q]] /\ \A q \in 1..dim : w[q] \in Int
      BY <2>3 DEF Vectors
    <2>5. Len(w) = dim
      BY <1>2, <2>4, NumberSequence
    <2> QED
      BY <2>5 DEF w
  <1>7. /\ p.model = model /\ p.dim = dim
        /\ p.poses = [i \in 1..PoseCount |->
             [pose |-> i - 1, count |-> Len(samples[i]), centroid |-> c(i)]]
    BY <1>6 DEF Finalize
  <1>8. IsProfile(p)
    BY <1>7 DEF IsProfile, Finalize
  <1> HIDE DEF p
  <1>9. \A i \in 1..PoseCount :
          /\ p.poses[i].pose = i - 1 /\ p.poses[i].count = Len(samples[i])
          /\ p.poses[i].centroid = c(i)
    BY <1>7
  <1>10. Len(p.poses) = PoseCount
    BY <1>7, Counts
  <1>11. \A i \in 1..PoseCount :
           Len(samples[i]) \in 1..MaximumSamples /\ Len(samples[i]) \in Int
    BY <1>3, Counts DEF SamplesOf
  <1>12. model \in Seq(Int) /\ ValidModelId(model)
    <2>1. model \in Seq(Letters) /\ ValidModelId(model)
      BY AnalysisAssumption
    <2>2. model = [q \in 1..Len(model) |-> model[q]] /\ Len(model) \in Nat
      BY <2>1
    <2>3. \A q \in 1..Len(model) : model[q] \in Letters
      BY <2>1
    <2>4. \A q \in 1..Len(model) : model[q] \in Int
      BY <2>3 DEF Letters
    <2> QED
      BY <2>1, <2>2, <2>4, NumberSequence
  <1>13. Shaped(p)
    <2>1. \A i \in 1..PoseCount : PoseShaped(p.poses[i], p.dim)
      <3> HIDE DEF c
      <3> QED
        BY <1>5, <1>7, <1>9, <1>11 DEF PoseShaped
    <2> QED
      BY <1>2, <1>7, <1>10, <1>12, <2>1, Zenon DEF Shaped
  <1>14. ValidProfile(p)
    <2>1. /\ ValidModelId(p.model) /\ p.dim \in 1..MaximumDimension
          /\ Len(p.poses) = PoseCount
      BY <1>2, <1>7, <1>10, <1>12
    <2>2. ASSUME NEW i \in 1..PoseCount
          PROVE  /\ p.poses[i].pose = i - 1
                 /\ p.poses[i].count \in 1..MaximumSamples
                 /\ Len(p.poses[i].centroid) = p.dim
                 /\ Usable(p.poses[i].centroid)
                 /\ Normalized(p.poses[i].centroid) = p.poses[i].centroid
      <3> HIDE DEF c
      <3>1. /\ p.poses[i].pose = i - 1 /\ p.poses[i].count = Len(samples[i])
            /\ p.poses[i].centroid = c(i)
        BY <1>9
      <3>2. Len(c(i)) = p.dim /\ Usable(c(i)) /\ Normalized(c(i)) = c(i)
        BY <1>4, <1>5, <1>7
      <3>3. Len(samples[i]) \in 1..MaximumSamples
        BY <1>11
      <3> QED
        BY <3>1, <3>2, <3>3
    <2> QED
      BY <2>1, <2>2, Zenon DEF ValidProfile
  <1> QED
    BY <1>8, <1>13, <1>14 DEF p
----------------------------------------------------------------------------
(* Gates. *)

LEMMA ApprovedByAll ==
  ASSUME NEW f, NEW faces, Quality(f, faces) = "approved"
  PROVE  \A i \in 1..11 : ~Refuses(GateOrder[i], f, faces)
  <1> DEFINE R(i) == Refuses(GateOrder[i], f, faces)
             firsts == {i \in DOMAIN GateOrder :
                          (\A j \in 1..(i - 1) : ~R(j)) /\ R(i)}
             T == {n \in Nat : \A i \in 1..11 : i <= n => ~R(i)}
  <1>1. DOMAIN GateOrder = 1..11
    BY DEF GateOrder
  <1>2. firsts = {}
    <2>1. Quality(f, faces) = IF firsts = {} THEN "approved"
                              ELSE GateOrder[CHOOSE i \in firsts : TRUE]
      BY Zenon DEF Quality
    <2>2. \A i \in 1..11 : GateOrder[i] # "approved"
      BY DEF GateOrder
    <2>3. ASSUME firsts # {} PROVE (CHOOSE i \in firsts : TRUE) \in 1..11
      <3>1. (CHOOSE i \in firsts : TRUE) \in firsts
        <4> HIDE DEF firsts
        <4> QED
          BY <2>3
      <3> QED
        BY <1>1, <3>1
    <2> HIDE DEF firsts
    <2> QED
      BY <2>1, <2>2, <2>3
  <1>3. \A i \in 1..11 : (\A j \in 1..(i - 1) : ~R(j)) => ~R(i)
    BY <1>1, <1>2
  <1> HIDE DEF R
  <1>4. 0 \in T
    OBVIOUS
  <1>5. \A n \in Nat : n \in T => n + 1 \in T
    BY <1>3
  <1>6. 11 \in T
    <2> HIDE DEF T
    <2> QED
      BY <1>4, <1>5, NatSetInduction
  <1> QED
    BY <1>6 DEF R

LEMMA Approval ==
  ASSUME NEW f, NEW faces, Quality(f, faces) = "approved"
  PROVE  /\ f.channels \in {1, 3} /\ faces # NoFaces /\ Len(faces) = 1
         /\ ~(Head(faces).score < 80) /\ BoxInside(f, Head(faces))
         /\ ValidLandmarks(f, Head(faces))
         /\ ~(100 * Head(faces).w * Head(faces).h < 4 * f.cols * f.rows_)
         /\ ~(100 * Head(faces).w * Head(faces).h > 70 * f.cols * f.rows_)
         /\ ~(f.luma < 35) /\ ~(f.luma > 225) /\ ~(f.sharpness < 20)
  <1>1. \A i \in 1..11 : ~Refuses(GateOrder[i], f, faces)
    BY ApprovedByAll
  <1>2. /\ ~Refuses("invalid_frame", f, faces)
        /\ ~Refuses("face_missing", f, faces)
        /\ ~Refuses("multiple_faces", f, faces)
        /\ ~Refuses("detection_confidence_low", f, faces)
        /\ ~Refuses("face_box_invalid", f, faces)
        /\ ~Refuses("landmarks_invalid", f, faces)
        /\ ~Refuses("face_too_small", f, faces)
        /\ ~Refuses("face_too_large", f, faces)
        /\ ~Refuses("low_light", f, faces)
        /\ ~Refuses("overexposed", f, faces)
        /\ ~Refuses("blurred", f, faces)
    BY <1>1 DEF GateOrder
  <1> QED
    BY <1>2 DEF Refuses, Minimum, Maximum
----------------------------------------------------------------------------
(* The theorem of the file. *)

\* The profile that was written, from the samples it was built from.
WrittenFrom(b, samples) ==
  \E model \in Models :
    /\ samples \in Samplings
    /\ \A i \in 1..PoseCount : HasCentroid(samples[i])
    /\ b = Serialize(Finalize(model, samples))

LEMMA WrittenIsReadBack ==
  ASSUME NEW b, NEW samples, WrittenFrom(b, samples)
  PROVE  /\ b \in Seq(Int) /\ Deserializes(b)
         /\ \E model \in Models : Fields(b) = Finalize(model, samples)
  <1>1. PICK model \in Models :
          /\ samples \in Samplings
          /\ \A i \in 1..PoseCount : HasCentroid(samples[i])
          /\ b = Serialize(Finalize(model, samples))
    BY DEF WrittenFrom
  <1> DEFINE p == Finalize(model, samples)
  <1>2. Shaped(p) /\ IsProfile(p) /\ ValidProfile(p)
    BY <1>1, FinalizedIsValid
  <1> HIDE DEF p
  <1>3. LaidOut(b, p)
    <2>1. b = Serialize(p)
      BY <1>1 DEF p
    <2> QED
      BY <1>2, <2>1, SerializedIsLaidOut
  <1>4. Deserializes(b) /\ Fields(b) = p
    BY <1>2, <1>3, WrittenIsRead
  <1>5. b \in Seq(Int)
    BY <1>3 DEF LaidOut
  <1> QED
    BY <1>4, <1>5 DEF p

\* The parts of FileInv: what the file and the profile read from it are.
FileHasNumbers == bytes \in Seq(Int)

FileIsWritten == ~damaged /\ bytes # <<>> => WrittenFrom(bytes, sampled)

ProfileIsRead ==
  profile # NoProfile => Deserializes(bytes) /\ profile = Fields(bytes)

NoErrorUnseen == ~damaged => result.status # "error" \/ frame # NoFrame

FileInv == FileHasNumbers /\ FileIsWritten /\ ProfileIsRead /\ NoErrorUnseen

LEMMA EmptyFileIsNoProfile == ~Deserializes(<<>>)
  BY DEF Deserializes, Parses

\* What the pipeline makes of no frame is not an error: a frame is refused as
\* invalid first of all.
LEMMA ErrorHasFrame ==
  ASSUME NEW f, NEW v, Verdict(f, v).status = "error" PROVE f # NoFrame
  <1> SUFFICES ASSUME f = NoFrame PROVE FALSE
    OBVIOUS
  <1>1. f.channels = 0
    BY DEF NoFrame
  <1>2. ~DetectThrows(backend, f)
    BY <1>1 DEF DetectThrows
  <1>3. Quality(f, Detect(backend, f)) # "approved"
    BY <1>1, Approval
  <1>4. Verdict(f, v) = Result("rejected", Quality(f, Detect(backend, f)))
    BY <1>2, <1>3, Zenon DEF Verdict
  <1> QED
    BY <1>4 DEF Result, NoResult

LEMMA SampleIsNoError ==
  ASSUME NEW f, NEW v PROVE Sample(f, v).status \in {"rejected", "sample"}
  <1> DEFINE q == Quality(f, Detect(backend, f))
             p == Pose(Head(Detect(backend, f)).marks)
  <1>1. \/ Sample(f, v) = Result("rejected", "detector_inference_failed")
        \/ Sample(f, v) = Result("rejected", q)
        \/ Sample(f, v) = Result("rejected", "embedding_inference_failed")
        \/ Sample(f, v) = [Result("sample", "none") EXCEPT !.pose = p]
    BY Zenon DEF Sample
  <1> HIDE DEF q, p
  <1> QED
    BY <1>1 DEF Result, NoResult

LEMMA DamagedHasNumbers ==
  ASSUME bytes \in Seq(Int), NEW b \in Damaged PROVE b \in Seq(Int)
  <1>1. CASE \E n \in 0..(Len(bytes) - 1) : b = SubSeq(bytes, 1, n)
    BY <1>1
  <1>2. CASE b = Append(bytes, 0)
    BY <1>2
  <1>3. CASE \E i \in DOMAIN bytes, n \in {0, 1, 2, NonFinite} :
               b = [bytes EXCEPT ![i] = n]
    BY <1>3 DEF NonFinite
  <1> DEFINE cut == {SubSeq(bytes, 1, n) : n \in 0..(Len(bytes) - 1)}
             longer == {Append(bytes, 0)}
             changed == {[bytes EXCEPT ![i] = n] :
                           i \in DOMAIN bytes, n \in {0, 1, 2, NonFinite}}
  <1>4. Damaged = cut \cup longer \cup changed
    BY DEF Damaged
  <1>5. CASE b \in cut
    BY <1>1, <1>5, Zenon
  <1>6. CASE b \in longer
    BY <1>2, <1>6, Zenon
  <1>7. CASE b \in changed
    <2>1. PICK i \in DOMAIN bytes, n \in {0, 1, 2, NonFinite} :
            b = [bytes EXCEPT ![i] = n]
      BY <1>7
    <2> QED
      BY <1>3, <2>1
  <1> HIDE DEF cut, longer, changed
  <1> QED
    BY <1>4, <1>5, <1>6, <1>7

LEMMA WritesKeepsFile ==
  ASSUME FileInv, NEW model \in Models, NEW samples \in Samplings,
         Writes(model, samples)
  PROVE  FileInv'
  <1>1. /\ bytes = <<>> /\ sampled' = samples
        /\ bytes' = Serialize(Finalize(model, samples))
        /\ \A i \in 1..PoseCount : HasCentroid(samples[i])
        /\ UNCHANGED <<damaged, profile, frame, result>>
    BY DEF Writes
  <1>2. WrittenFrom(bytes', sampled')
    BY <1>1 DEF WrittenFrom
  <1>3. bytes' \in Seq(Int)
    BY <1>2, WrittenIsReadBack
  <1>4. profile = NoProfile
    BY <1>1, EmptyFileIsNoProfile DEF FileInv, ProfileIsRead
  <1> QED
    BY <1>1, <1>2, <1>3, <1>4
    DEF FileInv, FileHasNumbers, FileIsWritten, ProfileIsRead, NoErrorUnseen

LEMMA LoadsKeepsFile ==
  ASSUME FileInv, Loads PROVE FileInv'
  <1>1. /\ bytes # <<>>
        /\ profile' = IF Deserializes(bytes) THEN Fields(bytes) ELSE NoProfile
        /\ result' = Result(IF Deserializes(bytes) THEN "loaded" ELSE "error", "none")
        /\ UNCHANGED <<sampled, bytes, damaged, frame>>
    BY DEF Loads
  <1>2. ~damaged => Deserializes(bytes)
    BY <1>1, WrittenIsReadBack DEF FileInv, FileIsWritten
  <1>3. Deserializes(bytes) => result'.status = "loaded"
    BY <1>1 DEF Result, NoResult
  <1>4. FileHasNumbers' /\ FileIsWritten'
    BY <1>1 DEF FileInv, FileHasNumbers, FileIsWritten
  <1>5. ProfileIsRead'
    BY <1>1 DEF ProfileIsRead, Deserializes, Parses, Fields, PoseStart
  <1>6. NoErrorUnseen'
    BY <1>1, <1>2, <1>3 DEF NoErrorUnseen
  <1> QED
    BY <1>4, <1>5, <1>6 DEF FileInv

\* FileInv: a file that nothing damaged is what serialize_face_profile() wrote of
\* a profile finalize() made, and the profile loaded is what
\* deserialize_face_profile() reads in the file (face_profile.cpp:296-451).
THEOREM FileIsAlwaysRead == Spec => []FileInv
  <1>1. Init => FileInv
    BY DEF Init, FileInv, FileHasNumbers, FileIsWritten, ProfileIsRead,
           NoErrorUnseen, NoResult
  <1>2. FileInv /\ [Next]_vars => FileInv'
    <2> SUFFICES ASSUME FileInv, [Next]_vars PROVE FileInv'
      OBVIOUS
    <2> USE DEF FileInv
    <2>1. ASSUME NEW model \in Models, NEW samples \in Samplings,
                 Writes(model, samples)
          PROVE  FileInv'
      BY <2>1, WritesKeepsFile
    <2>2. CASE Damages
      <3>1. /\ profile = NoProfile /\ damaged' /\ bytes' \in Damaged
            /\ profile' = profile
        BY <2>2 DEF Damages
      <3>2. bytes' \in Seq(Int)
        BY <3>1, DamagedHasNumbers DEF FileHasNumbers
      <3> QED
        BY <3>1, <3>2
        DEF FileHasNumbers, FileIsWritten, ProfileIsRead, NoErrorUnseen
    <2>3. CASE Loads
      BY <2>3, LoadsKeepsFile
    <2>4. ASSUME NEW look \in Looks, Evaluates(look[1], look[2]) PROVE FileInv'
      <3>1. /\ UNCHANGED <<sampled, bytes, damaged, profile>>
            /\ frame' = look[1] /\ result' = Verdict(look[1], look[2])
        BY <2>4 DEF Evaluates
      <3>2. result'.status = "error" => frame' # NoFrame
        BY <3>1, ErrorHasFrame
      <3>3. FileHasNumbers' /\ FileIsWritten' /\ NoErrorUnseen'
        BY <3>1, <3>2 DEF FileHasNumbers, FileIsWritten, NoErrorUnseen
      <3>4. ProfileIsRead'
        BY <3>1 DEF ProfileIsRead, Deserializes, Parses, Fields, PoseStart
      <3> QED
        BY <3>3, <3>4
    <2>5. ASSUME NEW look \in Looks, Examines(look[1], look[2]) PROVE FileInv'
      <3>1. /\ UNCHANGED <<sampled, bytes, damaged, profile>>
            /\ result' = Sample(look[1], look[2])
        BY <2>5 DEF Examines
      <3>2. result'.status # "error"
        BY <3>1, SampleIsNoError
      <3>3. FileHasNumbers' /\ FileIsWritten' /\ NoErrorUnseen'
        BY <3>1, <3>2 DEF FileHasNumbers, FileIsWritten, NoErrorUnseen
      <3>4. ProfileIsRead'
        BY <3>1 DEF ProfileIsRead, Deserializes, Parses, Fields, PoseStart
      <3> QED
        BY <3>3, <3>4
    <2>6. CASE UNCHANGED vars
      <3>1. UNCHANGED <<sampled, bytes, damaged, profile, frame, result>>
        BY <2>6 DEF vars
      <3>2. FileHasNumbers' /\ FileIsWritten' /\ NoErrorUnseen'
        BY <3>1 DEF FileHasNumbers, FileIsWritten, NoErrorUnseen
      <3>3. ProfileIsRead'
        BY <3>1 DEF ProfileIsRead, Deserializes, Parses, Fields, PoseStart
      <3> QED
        BY <3>2, <3>3
    <2> QED
      BY <2>1, <2>2, <2>3, <2>4, <2>5, <2>6 DEF Next
  <1> QED
    BY <1>1, <1>2, PTL DEF Spec

\* ReadsWhatIsWritten holds of every file: deserialize_face_profile() takes
\* nothing but what serialize_face_profile() writes of the profile it returns,
\* and takes back every profile that finalize() makes
\* (face_profile.cpp:296-451, 586-607).
THEOREM WrittenIsAlwaysRead == Spec => []ReadsWhatIsWritten
  <1>1. FileInv => ReadsWhatIsWritten
    <2> SUFFICES ASSUME FileInv PROVE ReadsWhatIsWritten
      OBVIOUS
    <2>1. ASSUME profile # NoProfile PROVE Serialize(profile) = bytes
      <3>1. bytes \in Seq(Int) /\ Parses(bytes) /\ profile = Fields(bytes)
        BY <2>1 DEF FileInv, FileHasNumbers, ProfileIsRead, Deserializes
      <3> QED
        BY <3>1, ReadIsWritten
    <2> QED
      BY <2>1 DEF ReadsWhatIsWritten, FileInv, NoErrorUnseen
  <1> QED
    BY <1>1, FileIsAlwaysRead, PTL

----------------------------------------------------------------------------
(* Poses. *)

LEMMA MaxOfTwo ==
  ASSUME NEW a \in Int, NEW b \in Int
  PROVE  Max({a, b}) = IF a >= b THEN a ELSE b
  BY DEF Max

\* The landmarks of a mirrored face: left and right change places.
Flip(cols, p) == <<cols - 1 - p[1], p[2]>>
Mirrored(cols, m) ==
  <<Flip(cols, m[2]), Flip(cols, m[1]), Flip(cols, m[3]), Flip(cols, m[5]),
    Flip(cols, m[4])>>

Opposite(pose) == CASE pose = "left" -> "right"
                    [] pose = "right" -> "left"
                    [] OTHER -> pose

\* What Pose measures and how it decides, by the coordinates.
Span(x1, x2) == 2 * Max({Abs(x2 - x1), 1})
Height(y1, y2, y4, y5) == Max({y4 + y5 - y1 - y2, 2})
Middle(z1, z2, z3) == 2 * z3 - z1 - z2
Decide(span, height, yaw, pitch) ==
  IF 100 * yaw <= -16 * span THEN "left"
  ELSE IF 100 * yaw >= 16 * span THEN "right"
  ELSE IF 100 * pitch <= 40 * height THEN "up"
  ELSE IF 100 * pitch >= 62 * height THEN "down" ELSE "center"

LEMMA PoseDecides ==
  ASSUME NEW m
  PROVE  Pose(m) = Decide(Span(m[1][1], m[2][1]),
                          Height(m[1][2], m[2][2], m[4][2], m[5][2]),
                          Middle(m[1][1], m[2][1], m[3][1]),
                          Middle(m[1][2], m[2][2], m[3][2]))
  BY DEF Pose, Decide, Span, Height, Middle

LEMMA SpanIsPositive ==
  ASSUME NEW a \in Int, NEW b \in Int PROVE Span(a, b) \in Int /\ Span(a, b) > 0
  <1>1. Abs(b - a) \in Int
    BY DEF Abs
  <1> QED
    BY <1>1, MaxOfTwo DEF Span

LEMMA DecidesOpposite ==
  ASSUME NEW span \in Int, span > 0, NEW height, NEW yaw \in Int, NEW pitch
  PROVE  Decide(span, height, -yaw, pitch)
           = Opposite(Decide(span, height, yaw, pitch))
  <1>1. /\ 100 * (-yaw) <= -16 * span <=> 100 * yaw >= 16 * span
        /\ 100 * (-yaw) >= 16 * span <=> 100 * yaw <= -16 * span
        /\ ~(100 * yaw <= -16 * span /\ 100 * yaw >= 16 * span)
    OBVIOUS
  <1> QED
    BY <1>1 DEF Decide, Opposite

LEMMA SpanOfDistance ==
  ASSUME NEW a \in Int, NEW b \in Int, NEW p \in Int, NEW q \in Int,
         q - p = b - a
  PROVE  Span(p, q) = Span(a, b)
  BY DEF Span

\* A mirrored face has the opposite pose, whatever its landmarks.
LEMMA MirroredPose ==
  ASSUME NEW cols \in Int, NEW m, \A i \in 1..5 : m[i] \in Int \X Int
  PROVE  Pose(Mirrored(cols, m)) = Opposite(Pose(m))
  <1>1. PICK x1 \in Int, y1 \in Int : m[1] = <<x1, y1>>
    OBVIOUS
  <1>2. PICK x2 \in Int, y2 \in Int : m[2] = <<x2, y2>>
    OBVIOUS
  <1>3. PICK x3 \in Int, y3 \in Int : m[3] = <<x3, y3>>
    OBVIOUS
  <1>4. PICK x4 \in Int, y4 \in Int : m[4] = <<x4, y4>>
    OBVIOUS
  <1>5. PICK x5 \in Int, y5 \in Int : m[5] = <<x5, y5>>
    OBVIOUS
  <1> DEFINE z1 == cols - 1 - x2
             z2 == cols - 1 - x1
             z3 == cols - 1 - x3
             w == Mirrored(cols, m)
  <1>6. Pose(m) = Decide(Span(x1, x2), Height(y1, y2, y4, y5),
                         Middle(x1, x2, x3), Middle(y1, y2, y3))
    BY <1>1, <1>2, <1>3, <1>4, <1>5, PoseDecides
  <1>7. /\ w[1] = <<z1, y2>> /\ w[2] = <<z2, y1>> /\ w[3] = <<z3, y3>>
        /\ w[4][2] = y5 /\ w[5][2] = y4
    BY <1>1, <1>2, <1>3, <1>4, <1>5 DEF Mirrored, Flip
  <1>8. Pose(w) = Decide(Span(z1, z2), Height(y2, y1, y5, y4),
                         Middle(z1, z2, z3), Middle(y2, y1, y3))
    <2> HIDE DEF w, z1, z2, z3
    <2> QED
      BY <1>7, PoseDecides
  <1>9. Span(z1, z2) = Span(x1, x2)
    <2>1. /\ z1 \in Int /\ z2 \in Int
          /\ z2 - z1 = x2 - x1
      OBVIOUS
    <2> HIDE DEF z1, z2
    <2> QED
      BY <2>1, SpanOfDistance
  <1>10. Height(y2, y1, y5, y4) = Height(y1, y2, y4, y5)
    <2>1. y5 + y4 - y2 - y1 = y4 + y5 - y1 - y2
      OBVIOUS
    <2> QED
      BY <2>1 DEF Height
  <1>11. /\ Middle(z1, z2, z3) = -Middle(x1, x2, x3)
         /\ Middle(y2, y1, y3) = Middle(y1, y2, y3)
         /\ Middle(x1, x2, x3) \in Int
    BY DEF Middle
  <1> DEFINE span == Span(x1, x2)
             height == Height(y1, y2, y4, y5)
             yaw == Middle(x1, x2, x3)
             pitch == Middle(y1, y2, y3)
  <1>12. span \in Int /\ span > 0
    BY SpanIsPositive
  <1>13. Decide(span, height, -yaw, pitch)
           = Opposite(Decide(span, height, yaw, pitch))
    <2> HIDE DEF span, height, yaw, pitch
    <2>1. yaw \in Int
      BY <1>11 DEF yaw
    <2> QED
      BY <1>12, <2>1, DecidesOpposite
  <1>14. Pose(w) = Opposite(Pose(m))
    <2> HIDE DEF w, z1, z2, z3
    <2> QED
      BY <1>6, <1>8, <1>9, <1>10, <1>11, <1>13
  <1> QED
    BY <1>14

----------------------------------------------------------------------------
(* The theorem of the poses. *)

Rows ==
  [finite : BOOLEAN, x : Int, y : Int, w : Int, h : Int, score : Int,
   marks : Seq(Int \X Int)]

LEMMA ImageHasRows ==
  ASSUME NEW f \in Images
  PROVE  /\ f.channels \in Nat /\ f.cols \in Int /\ f.rows_ \in Int
         /\ f.luma \in Int /\ f.sharpness \in Int /\ f.rows \in Seq(Rows)
  BY DEF Images, Rows

FrameIsSeen == frame = NoFrame \/ frame \in Images

\* FrameIsSeen: the frame is one that the camera may deliver, with what the face
\* network returns for it (detector.cpp:181-207).
THEOREM FramesAreSeen == Spec => []FrameIsSeen
  <1>1. Init => FrameIsSeen
    BY DEF Init, FrameIsSeen
  <1>2. FrameIsSeen /\ [Next]_vars => FrameIsSeen'
    <2> SUFFICES ASSUME FrameIsSeen, [Next]_vars PROVE FrameIsSeen'
      OBVIOUS
    <2>1. CASE UNCHANGED frame
      BY <2>1 DEF FrameIsSeen
    <2>2. CASE \E look \in Looks : frame' = look[1]
      BY <2>2, AnalysisAssumption DEF FrameIsSeen
    <2> QED
      BY <2>1, <2>2 DEF Next, vars, Writes, Damages, Loads, Evaluates, Examines
  <1> QED
    BY <1>1, <1>2, PTL DEF Spec

LEMMA NoFrameIsEmpty == NoFrame.rows = <<>>
  BY DEF NoFrame

\* PoseIsMirrored holds of every frame: a mirrored face is classified by
\* classify_pose() as the mirrored pose, also on its thresholds
\* (face_profile.cpp:277-293).
THEOREM PoseIsAlwaysMirrored == Spec => []PoseIsMirrored
  <1>1. FrameIsSeen => PoseIsMirrored
    <2> SUFFICES ASSUME FrameIsSeen, NEW i \in DOMAIN frame.rows,
                        Len(frame.rows[i].marks) = 5
                 PROVE  LET m == frame.rows[i].marks
                            flip(p) == <<frame.cols - 1 - p[1], p[2]>>
                            mirrored == <<flip(m[2]), flip(m[1]), flip(m[3]),
                                          flip(m[5]), flip(m[4])>>
                        IN  Pose(mirrored) = CASE Pose(m) = "left" -> "right"
                                               [] Pose(m) = "right" -> "left"
                                               [] OTHER -> Pose(m)
      BY Zenon DEF PoseIsMirrored
    <2> DEFINE m == frame.rows[i].marks
    <2>1. frame \in Images
      BY NoFrameIsEmpty DEF FrameIsSeen
    <2>2. frame.cols \in Int /\ m \in Seq(Int \X Int)
      <3>1. frame.cols \in Int /\ frame.rows \in Seq(Rows)
        BY <2>1, ImageHasRows
      <3>2. frame.rows[i] \in Rows
        BY <3>1
      <3> QED
        BY <3>1, <3>2 DEF Rows
    <2>3. \A j \in 1..5 : m[j] \in Int \X Int
      BY <2>2
    <2>4. Pose(Mirrored(frame.cols, m)) = Opposite(Pose(m))
      BY <2>2, <2>3, MirroredPose
    <2> QED
      BY <2>4, Zenon DEF Mirrored, Flip, Opposite
  <1> QED
    BY <1>1, FramesAreSeen, PTL
----------------------------------------------------------------------------
(* The most similar pose. *)

LEMMA ProductIsStrictlyMonotone ==
  ASSUME NEW m \in Int, m > 0, NEW a \in Int, NEW b \in Int
  PROVE  m * a < m * b <=> a < b
  <1>1. ASSUME a < b PROVE m * a < m * b
    <2>1. m * (b - a) > 0
      BY <1>1
    <2> QED
      BY <2>1
  <1>2. ASSUME ~(a < b) PROVE ~(m * a < m * b)
    <2>1. m * (a - b) >= 0
      BY <1>2
    <2> QED
      BY <2>1
  <1> QED
    BY <1>1, <1>2

Fraction(r) == r.num \in Int /\ r.den \in Int /\ r.den > 0

LEMMA BelowIsAsymmetric ==
  ASSUME NEW r, NEW s, Fraction(r), Fraction(s), Below(r, s)
  PROVE  ~Below(s, r)
  <1>1. r.num * s.den \in Int /\ s.num * r.den \in Int
    BY DEF Fraction
  <1> QED
    BY <1>1 DEF Below

\* What is not above a fraction is below what that fraction is below.
LEMMA BelowTransfers ==
  ASSUME NEW r, NEW s, NEW t, Fraction(r), Fraction(s), Fraction(t),
         ~Below(s, r), Below(s, t)
  PROVE  Below(r, t)
  <1> DEFINE a == r.num
             b == r.den
             c == s.num
             d == s.den
             e == t.num
             f == t.den
  <1>1. /\ a \in Int /\ b \in Int /\ c \in Int /\ d \in Int /\ e \in Int /\ f \in Int
        /\ b > 0 /\ d > 0 /\ f > 0
    BY DEF Fraction
  <1>2. ~(c * b < a * d) /\ c * f < e * d
    BY DEF Below
  <1>3. SUFFICES a * f < e * b
    BY DEF Below
  <1> HIDE DEF a, b, c, d, e, f
  <1>4. a * d <= c * b
    <2>1. a * d \in Int /\ c * b \in Int
      BY <1>1
    <2> QED
      BY <1>2, <2>1
  <1>5. f * (a * d) <= f * (c * b)
    <2>1. a * d \in Int /\ c * b \in Int /\ f \in Nat
      BY <1>1
    <2> QED
      BY <1>4, <2>1, ProductIsMonotone
  <1>6. b * (c * f) < b * (e * d)
    <2>1. c * f \in Int /\ e * d \in Int
      BY <1>1
    <2> QED
      BY <1>1, <1>2, <2>1, ProductIsStrictlyMonotone
  <1>7. /\ f * (a * d) = d * (a * f) /\ f * (c * b) = b * (c * f)
        /\ b * (e * d) = d * (e * b)
    BY <1>1
  <1>8. d * (a * f) < d * (e * b)
    <2> DEFINE x == d * (a * f)
               y == b * (c * f)
               z == d * (e * b)
    <2>1. x \in Int /\ y \in Int /\ z \in Int
      BY <1>1
    <2>2. x <= y /\ y < z
      BY <1>5, <1>6, <1>7
    <2> HIDE DEF x, y, z
    <2>3. x < z
      BY <2>1, <2>2
    <2> QED
      BY <2>3 DEF x, z
  <1> QED
    <2>1. a * f \in Int /\ e * b \in Int
      BY <1>1
    <2> QED
      BY <1>1, <1>8, <2>1, ProductIsStrictlyMonotone

LEMMA CosineIsFraction ==
  ASSUME NEW T, IsFiniteSet(T), NEW v \in Vectors(T), NEW w \in Vectors(T),
         NonZero(v), NonZero(w)
  PROVE  Fraction(Cosine(v, w))
  <1>1. (\E i \in T : v[i] # 0) /\ (\E i \in T : w[i] # 0)
    BY DEF NonZero, Vectors
  <1> DEFINE x == Dot(v, w)
             n == Dot(v, v)
             m == Dot(w, w)
  <1>2. x \in Int /\ n \in Int /\ m \in Int /\ n > 0 /\ m > 0
    <2>1. x \in Int
      BY DotIsInt
    <2>2. n \in Nat /\ n > 0
      BY <1>1, DotWithItself
    <2>3. m \in Nat /\ m > 0
      BY <1>1, DotWithItself
    <2> QED
      BY <2>1, <2>2, <2>3
  <1>3. Cosine(v, w).num = x * Abs(x) /\ Cosine(v, w).den = n * m
    BY DEF Cosine
  <1> HIDE DEF x, n, m
  <1>4. x * Abs(x) \in Int
    BY <1>2, AbsOfSum
  <1>5. n * m \in Int /\ n * m > 0
    BY <1>2
  <1> QED
    BY <1>3, <1>4, <1>5 DEF Fraction

\* A fraction both of whose terms are multiplied is the same to Below.
LEMMA BelowScaled ==
  ASSUME NEW r, NEW s, NEW t, NEW u, Fraction(t), Fraction(u),
         NEW e \in Int, e > 0, r.num = e * t.num, r.den = e * t.den,
         s.num = e * u.num, s.den = e * u.den
  PROVE  Below(r, s) <=> Below(t, u)
  <1> DEFINE a == t.num
             b == t.den
             c == u.num
             d == u.den
  <1>1. a \in Int /\ b \in Int /\ c \in Int /\ d \in Int
    BY DEF Fraction
  <1>2. Below(r, s) <=> (e * a) * (e * d) < (e * c) * (e * b)
    BY DEF Below
  <1>3. Below(t, u) <=> a * d < c * b
    BY DEF Below
  <1> HIDE DEF a, b, c, d
  <1>4. (e * a) * (e * d) = (e * e) * (a * d) /\ (e * c) * (e * b) = (e * e) * (c * b)
    BY <1>1
  <1>5. e * e \in Int /\ e * e > 0 /\ a * d \in Int /\ c * b \in Int
    BY <1>1
  <1>6. (e * e) * (a * d) < (e * e) * (c * b) <=> a * d < c * b
    BY <1>5, ProductIsStrictlyMonotone
  <1> QED
    BY <1>2, <1>3, <1>4, <1>6

\* The cosines of a vector compare as those of the vector normalized.
LEMMA CosineScaled ==
  ASSUME NEW T, IsFiniteSet(T), NEW v \in Vectors(T), NonZero(v),
         NEW a \in Vectors(T), NonZero(a)
  PROVE  \E e \in Int : /\ e > 0
           /\ \A b \in Vectors(T) :
                /\ Cosine(v, b).num = e * Cosine(Normalized(v), b).num
                /\ Cosine(v, b).den = e * Cosine(Normalized(v), b).den
  <1> DEFINE w == Normalized(v)
  <1>1. PICK d \in Nat :
          d > 0 /\ w \in Vectors(T) /\ \A i \in T : v[i] = d * w[i]
    BY NormalizedDivides
  <1> HIDE DEF w
  <1> DEFINE e == d * d
  <1>2. e \in Int /\ e > 0
    BY <1>1
  <1>3. ASSUME NEW b \in Vectors(T)
        PROVE  /\ Cosine(v, b).num = e * Cosine(w, b).num
               /\ Cosine(v, b).den = e * Cosine(w, b).den
    <2> DEFINE x == Dot(w, b)
               n == Dot(w, w)
               m == Dot(b, b)
    <2>1. x \in Int /\ n \in Int /\ m \in Int /\ d \in Int
      BY <1>1, DotIsInt
    <2>2. Dot(v, b) = d * x
      BY <1>1, DotOfMultiple
    <2>3. Dot(v, v) = d * (d * n)
      <3>1. Dot(v, v) = d * Dot(w, v)
        BY <1>1, DotOfMultiple
      <3>2. Dot(w, v) = Dot(v, w)
        BY <1>1, DotCommutes
      <3>3. Dot(v, w) = d * n
        BY <1>1, DotOfMultiple
      <3> QED
        BY <3>1, <3>2, <3>3
    <2>4. /\ Cosine(v, b).num = (d * x) * Abs(d * x)
          /\ Cosine(v, b).den = (d * (d * n)) * m
      BY <2>2, <2>3 DEF Cosine
    <2>5. Cosine(w, b).num = x * Abs(x) /\ Cosine(w, b).den = n * m
      BY DEF Cosine
    <2> HIDE DEF x, n, m
    <2>6. Abs(d * x) = d * Abs(x)
      <3>1. CASE x < 0
        <4>1. d * x < 0 /\ -(d * x) = d * (-x)
          BY <1>1, <2>1, <3>1
        <4> QED
          BY <3>1, <4>1 DEF Abs
      <3>2. CASE ~(x < 0)
        <4>1. ~(d * x < 0)
          BY <1>1, <2>1, <3>2
        <4> QED
          BY <3>2, <4>1 DEF Abs
      <3> QED
        BY <3>1, <3>2
    <2>7. Abs(x) \in Int
      BY <2>1, AbsOfSum
    <2>8. (d * x) * (d * Abs(x)) = (d * d) * (x * Abs(x))
      <3> DEFINE y == Abs(x)
      <3>1. y \in Int
        BY <2>7
      <3> HIDE DEF y
      <3>2. (d * x) * (d * y) = (d * d) * (x * y)
        BY <2>1, <3>1
      <3> QED
        BY <3>2 DEF y
    <2>9. (d * (d * n)) * m = (d * d) * (n * m)
      BY <2>1
    <2> QED
      BY <2>4, <2>5, <2>6, <2>8, <2>9
  <1> HIDE DEF e
  <1> QED
    BY <1>2, <1>3 DEF w

\* FaceProfile::score() goes over the poses, one after the other.
LEMMA MatchOneByOne ==
  ASSUME NEW p, NEW v
  PROVE  \E h \in [0..PoseCount -> 1..PoseCount] :
           /\ h[0] = 1
           /\ \A k \in 1..PoseCount :
                h[k] = IF Below(Cosine(v, p.poses[h[k - 1]].centroid),
                                Cosine(v, p.poses[k].centroid))
                       THEN k ELSE h[k - 1]
           /\ Match(p, v) = h[PoseCount]
  <1> DEFINE n == PoseCount
             S == 1..n
             last == Latest(n)
             seq == [i \in 1..PoseCount |-> i]
             similarity(i) == Cosine(v, p.poses[i].centroid)
             better(best, i) ==
               IF Below(similarity(best), similarity(i)) THEN i ELSE best
             Q(g) == g = [s \in SUBSET S |->
               IF s = {} THEN 1 ELSE better(g[s \ {Max(s)}], seq[Max(s)])]
             step == [x \in S \X S |-> better(x[2], x[1])]
             g == CHOOSE g : Q(g)
  <1>0. /\ n \in Nat /\ n > 0 /\ IsFiniteSet(S) /\ DOMAIN seq = S /\ 1 \in S
        /\ Len(seq) = n
    BY Counts, SegmentIsFinite
  <1>1. Picks(last, S)
    BY <1>0, LatestPicks
  <1>2. \A s \in SUBSET S : last[s] = Max(s)
    BY DEF Latest
  <1>3. step \in [S \X S -> S]
    <2>1. \A i \in S, b \in S : better(b, i) \in S
      <3> HIDE DEF S, similarity
      <3> QED
        OBVIOUS
    <2> HIDE DEF S, better
    <2> QED
      BY <2>1
  <1>4. PICK k \in [SUBSET S -> S] : IsFold(k, step, 1, last, S)
    <2> HIDE DEF step, S, last
    <2> QED
      BY <1>0, <1>1, <1>3, FoldExists
  <1>5. Q(k)
    <2>1. \A s \in SUBSET S : s # {} =>
            step[<<last[s], k[s \ {last[s]}]>>]
              = better(k[s \ {Max(s)}], seq[Max(s)])
      <3> SUFFICES ASSUME NEW s \in SUBSET S, s # {}
                   PROVE  step[<<last[s], k[s \ {last[s]}]>>]
                            = better(k[s \ {Max(s)}], seq[Max(s)])
        OBVIOUS
      <3>1. last[s] = Max(s) /\ Max(s) \in S
        BY <1>1, <1>2 DEF Picks
      <3>2. k[s \ {Max(s)}] \in S
        <4> HIDE DEF S
        <4> QED
          OBVIOUS
      <3>3. seq[Max(s)] = Max(s)
        BY <3>1
      <3> HIDE DEF S, last, better, seq
      <3> QED
        BY <3>1, <3>2, <3>3
    <2> HIDE DEF step, last, S, better, seq
    <2> QED
      BY <1>4, <2>1 DEF IsFold
  <1>6. Q(g)
    <2> HIDE DEF Q
    <2> QED
      BY <1>5
  <1>7. \A s \in SUBSET S : g[s] = k[s]
    <2> DEFINE U == {s \in SUBSET S : g[s] = k[s]}
    <2> HIDE DEF g
    <2>1. {} \in U
      BY <1>5, <1>6
    <2>2. \A s \in SUBSET S : s # {} /\ s \ {last[s]} \in U => s \in U
      <3> SUFFICES ASSUME NEW s \in SUBSET S, s # {}, s \ {last[s]} \in U
                   PROVE  g[s] = k[s]
        OBVIOUS
      <3>1. g[s \ {Max(s)}] = k[s \ {Max(s)}]
        BY <1>2
      <3> HIDE DEF better, seq, S
      <3>2. /\ g[s] = better(g[s \ {Max(s)}], seq[Max(s)])
            /\ k[s] = better(k[s \ {Max(s)}], seq[Max(s)])
        BY <1>5, <1>6
      <3> QED
        BY <3>1, <3>2
    <2>3. SUBSET S \subseteq U
      <3> HIDE DEF U, S, last
      <3> QED
        BY <1>0, <1>1, <2>1, <2>2, PickInduction
    <2> QED
      BY <2>3
  <1> DEFINE h == Segments(k, n)
  <1>8. LeftFold(h, step, 1, n)
    <2>1. IsFold(k, step, 1, Latest(n), 1..n) /\ n \in Nat
      BY <1>0, <1>4
    <2> HIDE DEF step, n
    <2> QED
      BY <2>1, FoldOfSegments
  <1>9. h \in [0..n -> S]
    <2> HIDE DEF S
    <2>1. \A i \in 0..n : 1..i \in SUBSET S
      BY <1>0 DEF S
    <2> QED
      BY <1>0, <2>1 DEF Segments
  <1>10. \A i \in 1..n : h[i] = better(h[i - 1], i)
    <2> SUFFICES ASSUME NEW i \in 1..n PROVE h[i] = better(h[i - 1], i)
      OBVIOUS
    <2>1. h[i] = step[<<i, h[i - 1]>>]
      <3> HIDE DEF h, step
      <3> QED
        BY <1>8 DEF LeftFold
    <2>2. h[i - 1] \in S
      <3> HIDE DEF h, S
      <3> QED
        BY <1>0, <1>9
    <2> HIDE DEF h, better
    <2> QED
      BY <1>0, <2>1, <2>2
  <1>11. Match(p, v) = g[S]
    <2>1. Match(p, v) = g[DOMAIN seq]
      BY Zenon DEF Match, FoldLeft, MapThenFoldSet
    <2> HIDE DEF g, S, seq
    <2> QED
      BY <1>0, <2>1
  <1>12. h[n] = k[S]
    BY <1>0 DEF Segments
  <1>13. h[0] = 1
    BY <1>8 DEF LeftFold
  <1>14. g[S] = k[S]
    <2> HIDE DEF g, S
    <2> QED
      BY <1>7
  <1> HIDE DEF h, g
  <1> QED
    BY <1>9, <1>10, <1>11, <1>12, <1>13, <1>14

\* It returns the first of the most similar poses.
LEMMA MatchIsFirstOfBest ==
  ASSUME NEW p, NEW v,
         \A i \in 1..PoseCount : Fraction(Cosine(v, p.poses[i].centroid))
  PROVE  LET m == Match(p, v)
             s(i) == Cosine(v, p.poses[i].centroid)
         IN  /\ m \in 1..PoseCount
             /\ \A i \in 1..PoseCount :
                  ~Below(s(m), s(i)) /\ (i < m => Below(s(i), s(m)))
  <1> DEFINE n == PoseCount
             s(i) == Cosine(v, p.poses[i].centroid)
  <1>1. PICK h \in [0..n -> 1..n] :
          /\ h[0] = 1
          /\ \A k \in 1..n : h[k] = IF Below(s(h[k - 1]), s(k)) THEN k ELSE h[k - 1]
          /\ Match(p, v) = h[n]
    BY MatchOneByOne
  <1>2. \A i \in 1..n : Fraction(s(i))
    OBVIOUS
  <1> HIDE DEF s
  <1> DEFINE Best(k) == \A i \in 1..k :
               ~Below(s(h[k]), s(i)) /\ (i < h[k] => Below(s(i), s(h[k])))
             T == {k \in Nat : k <= n => Best(k) /\ (h[k] <= k \/ h[k] = 1)}
  <1>3. n \in Nat /\ n > 0
    BY Counts
  <1>4. 0 \in T
    BY <1>1
  <1>5. \A k \in Nat : k \in T => k + 1 \in T
    <2> SUFFICES ASSUME NEW k \in Nat, k + 1 <= n, Best(k), h[k] <= k \/ h[k] = 1
                 PROVE  Best(k + 1) /\ (h[k + 1] <= k + 1 \/ h[k + 1] = 1)
      <3> HIDE DEF Best
      <3> QED
        BY <1>3
    <2>1. h[k + 1] = IF Below(s(h[k]), s(k + 1)) THEN k + 1 ELSE h[k]
      <3>1. k + 1 \in 1..n /\ (k + 1) - 1 = k
        BY <1>3
      <3> QED
        BY <1>1, <3>1
    <2>2. h[k] \in 1..n /\ k + 1 \in 1..n
      <3>1. k \in 0..n /\ k + 1 \in 1..n
        BY <1>3
      <3> HIDE DEF n, Best
      <3>2. h \in [0..n -> 1..n]
        BY <1>1
      <3> QED
        BY <3>1, <3>2
    <2> DEFINE b == h[k]
    <2>3. b <= k \/ b = 1
      OBVIOUS
    <2>4. CASE Below(s(b), s(k + 1))
      <3>1. h[k + 1] = k + 1
        BY <2>1, <2>4
      <3>2. ASSUME NEW i \in 1..k PROVE Below(s(i), s(k + 1)) /\ ~Below(s(k + 1), s(i))
        <4>1. ~Below(s(b), s(i))
          OBVIOUS
        <4>2. i \in 1..n
          BY <1>3
        <4>3. Fraction(s(i)) /\ Fraction(s(b)) /\ Fraction(s(k + 1))
          BY <1>2, <2>2, <4>2
        <4>4. Below(s(i), s(k + 1))
          BY <2>4, <4>1, <4>3, BelowTransfers
        <4> QED
          BY <4>3, <4>4, BelowIsAsymmetric
      <3>3. ~Below(s(k + 1), s(k + 1))
        BY <1>2, <2>2, BelowIsAsymmetric
      <3>4. \A i \in 1..(k + 1) : i \in 1..k \/ i = k + 1
        OBVIOUS
      <3> HIDE DEF b
      <3>5. Best(k + 1)
        BY <3>1, <3>2, <3>3, <3>4
      <3> QED
        BY <3>1, <3>5
    <2>5. CASE ~Below(s(b), s(k + 1))
      <3>1. h[k + 1] = b
        BY <2>1, <2>5
      <3>2. \A i \in 1..(k + 1) : i \in 1..k \/ i = k + 1
        OBVIOUS
      <3>3. \A i \in 1..k : ~Below(s(b), s(i)) /\ (i < b => Below(s(i), s(b)))
        OBVIOUS
      <3>4. ~(k + 1 < b)
        BY <2>2, <2>3
      <3> HIDE DEF b
      <3>5. Best(k + 1)
        BY <2>5, <3>1, <3>2, <3>3, <3>4
      <3> QED
        BY <2>2, <2>3, <3>1, <3>5 DEF b
    <2> QED
      BY <2>4, <2>5
  <1>6. n \in T
    <2> HIDE DEF T, n
    <2> QED
      BY <1>3, <1>4, <1>5, NatSetInduction
  <1>7. Best(n) /\ h[n] \in 1..n
    <2>1. n \in 0..n
      BY <1>3
    <2>2. h[n] \in 1..n
      <3> HIDE DEF n
      <3>1. h \in [0..n -> 1..n]
        BY <1>1
      <3> QED
        BY <2>1, <3>1
    <2> HIDE DEF Best
    <2> QED
      BY <1>3, <1>6, <2>2
  <1> QED
    BY <1>1, <1>7 DEF s
----------------------------------------------------------------------------
(* The sample that is unlike the others. *)

\* The sample i disagrees with all others, which agree with one another.
Outlier(samples, i) ==
  /\ i \in DOMAIN samples
  /\ \A j \in DOMAIN samples \ {i} :
       /\ Dot(samples[i], samples[j]) <= 0
       /\ \A k \in DOMAIN samples \ {i} : Dot(samples[j], samples[k]) > 0

LEMMA SamplesAreVectors ==
  ASSUME NEW dim \in Nat, NEW samples, SamplesOf(samples, dim)
  PROVE  /\ DOMAIN samples = 1..Len(samples) /\ Len(samples) \in Nat
         /\ IsFiniteSet(1..dim) /\ IsFiniteSet(DOMAIN samples)
         /\ \A i \in DOMAIN samples :
              samples[i] \in Vectors(1..dim) /\ samples[i] \in Directions
  <1>1. /\ DOMAIN samples = 1..Len(samples) /\ Len(samples) \in Nat
        /\ \A i \in DOMAIN samples : samples[i] \in Directions
    BY Counts DEF SamplesOf
  <1>2. IsFiniteSet(1..dim) /\ IsFiniteSet(1..Len(samples))
    BY <1>1, SegmentIsFinite
  <1> QED
    BY <1>1, <1>2 DEF SamplesOf

\* One more sample in a sum adds its inner product.
OneMore(g, samples, s, x) ==
  /\ Pick(s) \in s
  /\ Dot(g[s], x) = Dot(samples[Pick(s)], x) + Dot(g[s \ {Pick(s)}], x)
  /\ Dot(samples[Pick(s)], x) \in Int /\ Dot(g[s \ {Pick(s)}], x) \in Int

LEMMA DotOfNext ==
  ASSUME NEW T, IsFiniteSet(T), NEW samples, NEW S, NEW g,
         VectorSums(g, samples, S, T), \A i \in S : samples[i] \in Vectors(T),
         NEW x \in Vectors(T), NEW s \in SUBSET S, s # {}
  PROVE  OneMore(g, samples, s, x)
  <1>1. /\ Pick(s) \in s /\ g[s] = Sum(samples[Pick(s)], g[s \ {Pick(s)}])
        /\ g[s \ {Pick(s)}] \in Vectors(T)
    BY DEF VectorSums
  <1>2. samples[Pick(s)] \in Vectors(T)
    BY <1>1
  <1> QED
    BY <1>1, <1>2, DotOfSum, DotIsInt DEF OneMore

\* Without the outlier, the sum agrees with each of the others and not with it.
LEMMA SumTakesSide ==
  ASSUME NEW dim \in Nat, NEW samples, SamplesOf(samples, dim),
         NEW i, Outlier(samples, i), NEW some \in SUBSET (DOMAIN samples \ {i}),
         some # {}, NEW j \in DOMAIN samples \ {i}
  PROVE  /\ Dot(Total(samples, some), samples[j]) > 0
         /\ Dot(Total(samples, some), samples[i]) <= 0
  <1> DEFINE V == 1..dim
             x == samples[j]
             y == samples[i]
  <1>1. PICK g : /\ VectorSums(g, samples, some, V)
                 /\ Total(samples, some) = g[some] /\ IsFiniteSet(some)
    BY TotalOf
  <1>2. /\ IsFiniteSet(V) /\ x \in Vectors(V) /\ y \in Vectors(V)
        /\ \A k \in some : samples[k] \in Vectors(V)
    BY SamplesAreVectors DEF Outlier
  <1>3. \A k \in some : Dot(samples[k], x) > 0 /\ Dot(samples[k], y) <= 0
    <2> SUFFICES ASSUME NEW k \in some
                 PROVE  Dot(samples[k], x) > 0 /\ Dot(samples[k], y) <= 0
      OBVIOUS
    <2>1. Dot(samples[k], x) > 0 /\ Dot(y, samples[k]) <= 0
      BY DEF Outlier
    <2>2. Dot(y, samples[k]) = Dot(samples[k], y)
      BY <1>2, DotCommutes
    <2> QED
      BY <2>1, <2>2
  <1> HIDE DEF x, y, V
  <1>7. ASSUME NEW s \in SUBSET some, s # {}
        PROVE  OneMore(g, samples, s, x) /\ OneMore(g, samples, s, y)
    BY <1>1, <1>2, <1>7, DotOfNext
  <1> DEFINE T == {s \in SUBSET some :
               /\ Dot(g[s], x) \in Int /\ Dot(g[s], y) \in Int
               /\ Dot(g[s], x) >= 0 /\ Dot(g[s], y) <= 0
               /\ s # {} => Dot(g[s], x) > 0}
  <1>4. {} \in T
    <2>1. g[{}] = [k \in V |-> 0]
      BY <1>1 DEF VectorSums
    <2>2. Dot(g[{}], x) = 0 /\ Dot(g[{}], y) = 0
      BY <1>2, <2>1, DotOfZero
    <2> QED
      BY <2>2
  <1>5. \A s \in SUBSET some : s # {} /\ s \ {Pick(s)} \in T => s \in T
    <2> SUFFICES ASSUME NEW s \in SUBSET some, s # {}, s \ {Pick(s)} \in T
                 PROVE  s \in T
      OBVIOUS
    <2> DEFINE k == Pick(s)
               r == s \ {Pick(s)}
    <2>1. /\ k \in s
          /\ Dot(g[s], x) = Dot(samples[k], x) + Dot(g[r], x)
          /\ Dot(samples[k], x) \in Int /\ Dot(g[r], x) \in Int
      BY <1>7 DEF OneMore
    <2>2. /\ Dot(g[s], y) = Dot(samples[k], y) + Dot(g[r], y)
          /\ Dot(samples[k], y) \in Int /\ Dot(g[r], y) \in Int
      BY <1>7 DEF OneMore
    <2>3. Dot(samples[k], x) > 0 /\ Dot(samples[k], y) <= 0
      BY <1>3, <2>1
    <2>4. Dot(g[r], x) >= 0 /\ Dot(g[r], y) <= 0
      OBVIOUS
    <2> HIDE DEF k, r
    <2> QED
      BY <2>1, <2>2, <2>3, <2>4
  <1>6. some \in T
    <2> HIDE DEF T
    <2> QED
      BY <1>1, <1>4, <1>5, ChosenInduction
  <1> QED
    BY <1>1, <1>6 DEF x, y

\* How far a sum leans, with one more sample.
LEMMA GapGrows ==
  ASSUME NEW p \in Int, NEW q \in Int, NEW u \in Int, NEW v \in Int,
         NEW K \in Int, NEW L, L = K + (u - v), p - q >= K
  PROVE  /\ L \in Int /\ (u + p) - (v + q) >= L
         /\ p - q > K => (u + p) - (v + q) > L
  OBVIOUS

LEMMA GapWidens ==
  ASSUME NEW p \in Int, NEW q \in Int, NEW u \in Int, NEW v \in Int,
         NEW K \in Int, p - q >= K, u > 0, v <= 0
  PROVE  (u + p) - (v + q) > K
  OBVIOUS

\* The mean of all samples is more like each of the others than like the
\* outlier.
LEMMA MeanTakesSide ==
  ASSUME NEW dim \in Nat, NEW samples, SamplesOf(samples, dim), Len(samples) >= 5,
         NEW i, Outlier(samples, i), NEW j \in DOMAIN samples \ {i}
  PROVE  LET mean == Total(samples, DOMAIN samples)
         IN  Dot(samples[i], mean) < Dot(samples[j], mean)
  <1> DEFINE V == 1..dim
             S == DOMAIN samples
             x == samples[j]
             y == samples[i]
             a == Dot(y, x)
             N == Dot(x, x)
             mean == Total(samples, S)
  <1>1. PICK g : VectorSums(g, samples, S, V) /\ mean = g[S] /\ IsFiniteSet(S)
    BY TotalOf
  <1>2. /\ IsFiniteSet(V) /\ x \in Vectors(V) /\ y \in Vectors(V)
        /\ \A k \in S : samples[k] \in Vectors(V)
        /\ i \in S /\ j \in S /\ i # j
    BY SamplesAreVectors DEF Outlier
  <1>3. a \in Int /\ N \in Int /\ Dot(x, y) = a /\ Dot(y, y) = N
    <2>1. Dot(y, y) = N
      <3>1. x \in Directions /\ y \in Directions
        BY <1>2, SamplesAreVectors
      <3> QED
        BY <3>1, AnalysisAssumption
    <2>2. Dot(x, y) = a
      <3> HIDE DEF x, y, V
      <3> QED
        BY <1>2, DotCommutes
    <2>3. a \in Int /\ N \in Int
      <3> HIDE DEF x, y, V
      <3> QED
        BY <1>2, DotIsInt
    <2> QED
      BY <2>1, <2>2, <2>3
  <1>4. \A k \in S \ {i, j} : Dot(samples[k], x) > 0 /\ Dot(samples[k], y) <= 0
    <2> SUFFICES ASSUME NEW k \in S \ {i, j}
                 PROVE  Dot(samples[k], x) > 0 /\ Dot(samples[k], y) <= 0
      OBVIOUS
    <2>1. Dot(samples[k], x) > 0 /\ Dot(y, samples[k]) <= 0
      BY DEF Outlier
    <2>2. Dot(y, samples[k]) = Dot(samples[k], y)
      BY <1>2, DotCommutes
    <2> QED
      BY <2>1, <2>2
  <1> HIDE DEF x, y, V, a, N
  <1>14. ASSUME NEW s \in SUBSET S, s # {}
         PROVE  OneMore(g, samples, s, x) /\ OneMore(g, samples, s, y)
    <2> HIDE DEF S
    <2> QED
      BY <1>1, <1>2, <1>14, DotOfNext
  <1> DEFINE low(s) == (IF i \in s THEN a - N ELSE 0) + (IF j \in s THEN N - a ELSE 0)
             T == {s \in SUBSET S :
               /\ Dot(g[s], x) \in Int /\ Dot(g[s], y) \in Int
               /\ Dot(g[s], x) - Dot(g[s], y) >= low(s)
               /\ s \ {i, j} # {} => Dot(g[s], x) - Dot(g[s], y) > low(s)}
  <1>5. {} \in T
    <2>1. g[{}] = [k \in V |-> 0]
      BY <1>1 DEF VectorSums
    <2>2. Dot(g[{}], x) = 0 /\ Dot(g[{}], y) = 0
      BY <1>2, <2>1, DotOfZero
    <2> QED
      BY <2>2
  <1>6. \A s \in SUBSET S : s # {} /\ s \ {Pick(s)} \in T => s \in T
    <2> SUFFICES ASSUME NEW s \in SUBSET S, s # {}, s \ {Pick(s)} \in T
                 PROVE  s \in T
      OBVIOUS
    <2> DEFINE k == Pick(s)
               r == s \ {Pick(s)}
               p == Dot(g[r], x)
               q == Dot(g[r], y)
               u == Dot(samples[k], x)
               v == Dot(samples[k], y)
    <2>1. /\ k \in s /\ Dot(g[s], x) = u + p /\ u \in Int /\ p \in Int
      BY <1>14 DEF OneMore
    <2>2. /\ Dot(g[s], y) = v + q /\ v \in Int /\ q \in Int
      BY <1>14 DEF OneMore
    <2>3. p - q >= low(r) /\ (r \ {i, j} # {} => p - q > low(r))
      OBVIOUS
    <2>4. s = r \cup {k} /\ k \notin r
      BY <2>1
    <2>5. /\ k = i => u = a /\ v = N
          /\ k = j => u = N /\ v = a
          /\ k \notin {i, j} => u > 0 /\ v <= 0
      <3>1. k = i => samples[k] = y
        BY DEF y
      <3>2. k = j => samples[k] = x
        BY DEF x
      <3> QED
        BY <1>3, <1>4, <2>1, <3>1, <3>2 DEF a, N
    <2> HIDE DEF k, r, p, q, u, v, T
    <2>6. CASE k \in {i, j}
      <3>1. low(s) = low(r) + (u - v) /\ low(r) \in Int /\ s \ {i, j} = r \ {i, j}
        <4>1. CASE k = i
          <5>1. u - v = a - N
            BY <2>5, <4>1
          <5>2. low(s) = low(r) + (a - N) /\ low(r) \in Int
            BY <1>2, <1>3, <2>4, <4>1
          <5> HIDE DEF low
          <5> QED
            BY <2>4, <4>1, <5>1, <5>2
        <4>2. CASE k = j
          <5>1. u - v = N - a
            BY <2>5, <4>2
          <5>2. low(s) = low(r) + (N - a) /\ low(r) \in Int
            BY <1>2, <1>3, <2>4, <4>2
          <5> HIDE DEF low
          <5> QED
            BY <2>4, <4>2, <5>1, <5>2
        <4> QED
          BY <2>6, <4>1, <4>2
      <3> HIDE DEF low
      <3>2. /\ low(s) \in Int /\ (u + p) - (v + q) >= low(s)
            /\ p - q > low(r) => (u + p) - (v + q) > low(s)
        BY <2>1, <2>2, <2>3, <3>1, GapGrows
      <3>3. /\ Dot(g[s], x) \in Int /\ Dot(g[s], y) \in Int
            /\ Dot(g[s], x) - Dot(g[s], y) >= low(s)
        BY <2>1, <2>2, <3>2
      <3>4. s \ {i, j} # {} => Dot(g[s], x) - Dot(g[s], y) > low(s)
        BY <2>1, <2>2, <2>3, <3>1, <3>2
      <3> QED
        BY <3>3, <3>4 DEF T
    <2>7. CASE k \notin {i, j}
      <3>1. low(s) = low(r) /\ low(r) \in Int
        BY <1>2, <1>3, <2>4, <2>7
      <3>2. u > 0 /\ v <= 0
        BY <2>5, <2>7
      <3> HIDE DEF low
      <3>3. (u + p) - (v + q) > low(s)
        BY <2>1, <2>2, <2>3, <3>1, <3>2, GapWidens
      <3>4. /\ Dot(g[s], x) \in Int /\ Dot(g[s], y) \in Int
            /\ Dot(g[s], x) - Dot(g[s], y) > low(s)
        BY <2>1, <2>2, <3>3
      <3>5. Dot(g[s], x) - Dot(g[s], y) >= low(s)
        BY <3>1, <3>4
      <3> QED
        BY <3>4, <3>5 DEF T
    <2> QED
      BY <2>6, <2>7
  <1>7. S \in T
    <2>1. IsFiniteSet(S)
      BY <1>1
    <2> HIDE DEF T, S
    <2> QED
      BY <1>5, <1>6, <2>1, ChosenInduction
  <1>8. S \ {i, j} # {}
    <2>1. S = 1..Len(samples) /\ Len(samples) \in Nat
      BY SamplesAreVectors
    <2>2. 1 \in S /\ 2 \in S /\ 3 \in S
      BY <2>1
    <2> HIDE DEF S
    <2> QED
      BY <2>2
  <1>9. low(S) = 0
    BY <1>2, <1>3
  <1>10. Dot(g[S], x) > Dot(g[S], y)
    <2>1. /\ Dot(g[S], x) \in Int /\ Dot(g[S], y) \in Int
          /\ Dot(g[S], x) - Dot(g[S], y) > low(S)
      BY <1>7, <1>8
    <2> HIDE DEF low, S
    <2> QED
      BY <1>9, <2>1
  <1>11. mean \in Vectors(V)
    BY <1>1 DEF VectorSums
  <1>12. Dot(x, mean) = Dot(g[S], x) /\ Dot(y, mean) = Dot(g[S], y)
    <2> HIDE DEF mean, S
    <2> QED
      BY <1>1, <1>2, <1>11, DotCommutes
  <1>13. Dot(y, mean) < Dot(x, mean)
    <2>1. Dot(g[S], x) \in Int /\ Dot(g[S], y) \in Int
      BY <1>7
    <2> HIDE DEF mean, S
    <2> QED
      BY <1>10, <1>12, <2>1
  <1> QED
    BY <1>13 DEF x, y

\* The square that keeps its sign keeps the order.
LEMMA SignedSquares ==
  ASSUME NEW a \in Int, NEW b \in Int, a < b
  PROVE  a * Abs(a) < b * Abs(b)
  <1>1. CASE a >= 0
    <2>1. Abs(a) = a /\ Abs(b) = b
      BY <1>1 DEF Abs
    <2>2. b * a < b * b
      BY <1>1, ProductIsStrictlyMonotone
    <2>3. a * a <= a * b
      BY <1>1, ProductIsMonotone
    <2> QED
      BY <2>1, <2>2, <2>3
  <1>2. CASE a < 0 /\ b >= 0
    <2>1. Abs(a) = -a /\ Abs(b) = b
      BY <1>2 DEF Abs
    <2>2. a * (-a) < 0 /\ b * b >= 0
      BY <1>2
    <2> QED
      BY <2>1, <2>2
  <1>3. CASE b < 0
    <2>1. Abs(a) = -a /\ Abs(b) = -b
      BY <1>3 DEF Abs
    <2> DEFINE p == -a
               q == -b
    <2>2. p \in Int /\ q \in Int /\ 0 < q /\ q < p /\ a = -p /\ b = -q
      BY <1>3
    <2> HIDE DEF p, q
    <2>3. p * q < p * p
      BY <2>2, ProductIsStrictlyMonotone
    <2>4. q * q < q * p
      BY <2>2, ProductIsStrictlyMonotone
    <2>5. (-p) * p < (-q) * q
      BY <2>2, <2>3, <2>4
    <2> QED
      BY <2>1, <2>2, <2>5 DEF p, q
  <1> QED
    BY <1>1, <1>2, <1>3

\* Of two vectors of one length, the one with the smaller product is less
\* similar.
LEMMA LessSimilar ==
  ASSUME NEW x, NEW y, NEW m,
         Dot(x, m) \in Int, Dot(y, m) \in Int, Dot(m, m) \in Int, Dot(x, x) \in Int,
         Dot(m, m) > 0, Dot(x, x) > 0, Dot(y, y) = Dot(x, x), Dot(y, m) < Dot(x, m)
  PROVE  Below(Cosine(y, m), Cosine(x, m))
  <1> DEFINE a == Dot(y, m)
             b == Dot(x, m)
             N == Dot(x, x)
             M == Dot(m, m)
             u == a * Abs(a)
             v == b * Abs(b)
             e == N * M
  <1>1. /\ Cosine(y, m).num = u /\ Cosine(y, m).den = e
        /\ Cosine(x, m).num = v /\ Cosine(x, m).den = e
    BY DEF Cosine
  <1>2. e \in Int /\ e > 0
    <2>1. N \in Int /\ M \in Int /\ N > 0 /\ M > 0
      OBVIOUS
    <2> HIDE DEF N, M
    <2> QED
      BY <2>1
  <1>3. u < v
    BY SignedSquares
  <1>4. u \in Int /\ v \in Int
    <2>1. a \in Int /\ b \in Int
      OBVIOUS
    <2> HIDE DEF a, b
    <2>2. Abs(a) \in Int /\ Abs(b) \in Int
      BY <2>1 DEF Abs
    <2> QED
      BY <2>1, <2>2
  <1> HIDE DEF u, v, e
  <1>5. u * e < v * e
    <2>1. e * u < e * v
      BY <1>2, <1>3, <1>4, ProductIsStrictlyMonotone
    <2> QED
      BY <1>2, <1>4, <2>1
  <1> QED
    BY <1>1, <1>5 DEF Below

\* The outlier's rank is 0, and robust_centroid() discards at least one.
LEMMA OutlierIsDiscarded ==
  ASSUME NEW dim \in Nat, NEW samples, SamplesOf(samples, dim), Len(samples) >= 5,
         HasCentroid(samples), NEW i, Outlier(samples, i)
  PROVE  i \notin Retained(samples)
  <1> DEFINE V == 1..dim
             S == DOMAIN samples
             mean == Total(samples, S)
             similarity(j) == Cosine(samples[j], mean)
             before(j) == \/ Below(similarity(j), similarity(i))
                          \/ ~Below(similarity(i), similarity(j)) /\ j < i
  <1>1. /\ IsFiniteSet(V) /\ S = 1..Len(samples) /\ Len(samples) \in Nat /\ i \in S
        /\ \A j \in S : samples[j] \in Vectors(V) /\ samples[j] \in Directions
    BY SamplesAreVectors DEF Outlier
  <1>2. mean \in Vectors(V) /\ NonZero(mean)
    <2>1. mean \in Vectors(V)
      BY TotalIsBounded
    <2>2. NonZero(mean)
      BY Zenon DEF HasCentroid, Usable, NonZero
    <2> QED
      BY <2>1, <2>2
  <1>3. \A j \in S : NonZero(samples[j])
    BY <1>1, AnalysisAssumption DEF Usable, NonZero
  <1>4. \A j \in S : Fraction(similarity(j))
    <2> SUFFICES ASSUME NEW j \in S PROVE Fraction(similarity(j))
      OBVIOUS
    <2> DEFINE x == samples[j]
    <2>1. x \in Vectors(V) /\ NonZero(x)
      BY <1>1, <1>3
    <2> HIDE DEF mean, V, x
    <2>2. Fraction(Cosine(x, mean))
      BY <1>1, <1>2, <2>1, CosineIsFraction
    <2> QED
      BY <2>2 DEF x
  <1>5. ASSUME NEW j \in S \ {i} PROVE Below(similarity(i), similarity(j))
    <2> DEFINE x == samples[j]
               y == samples[i]
    <2>1. Dot(y, mean) < Dot(x, mean)
      BY MeanTakesSide
    <2>2. Dot(y, y) = Dot(x, x)
      BY <1>1, AnalysisAssumption
    <2>3. /\ x \in Vectors(V) /\ y \in Vectors(V)
          /\ (\E k \in V : x[k] # 0) /\ \E k \in V : mean[k] # 0
      BY <1>1, <1>2, <1>3 DEF NonZero, Vectors
    <2> HIDE DEF x, y, mean, V
    <2>4. Dot(x, mean) \in Int /\ Dot(y, mean) \in Int
      BY <1>1, <1>2, <2>3, DotIsInt
    <2>5. Dot(x, x) \in Int /\ Dot(x, x) > 0
      BY <1>1, <2>3, DotWithItself
    <2>6. Dot(mean, mean) \in Int /\ Dot(mean, mean) > 0
      BY <1>1, <1>2, <2>3, DotWithItself
    <2>7. Below(Cosine(y, mean), Cosine(x, mean))
      BY <2>1, <2>2, <2>4, <2>5, <2>6, LessSimilar
    <2> QED
      BY <2>7 DEF x, y
  <1>6. \A j \in S : ~before(j)
    <2> SUFFICES ASSUME NEW j \in S PROVE ~before(j)
      OBVIOUS
    <2>1. CASE j = i
      <3>1. ~Below(similarity(i), similarity(i))
        <4> HIDE DEF similarity
        <4> QED
          BY <1>1, <1>4, BelowIsAsymmetric
      <3>2. ~(i < i)
        BY <1>1
      <3> QED
        BY <2>1, <3>1, <3>2
    <2>2. CASE j # i
      <3>1. Below(similarity(i), similarity(j))
        BY <1>5, <2>2
      <3> HIDE DEF similarity
      <3>2. ~Below(similarity(j), similarity(i))
        BY <1>1, <1>4, <3>1, BelowIsAsymmetric
      <3> QED
        BY <3>1, <3>2
    <2> QED
      BY <2>1, <2>2
  <1>7. {j \in S : before(j)} = {}
    <2> HIDE DEF before
    <2> QED
      BY <1>6
  <1>8. Cardinality({j \in S : before(j)}) = 0
    <2> HIDE DEF before
    <2> QED
      BY <1>7, FS_EmptySet
  <1>9. DiscardCount(Len(samples)) \in Int /\ DiscardCount(Len(samples)) >= 1
    <2> DEFINE n == Len(samples)
               t == n \div 10
    <2>1. t \in Int /\ n >= 5
      BY <1>1
    <2>2. DiscardCount(n) = Max({1, t})
      BY <2>1 DEF DiscardCount
    <2> HIDE DEF n, t
    <2>3. Max({1, t}) = IF 1 >= t THEN 1 ELSE t
      BY <2>1, MaxOfTwo
    <2> QED
      BY <2>1, <2>2, <2>3 DEF n
  <1>10. i \in Retained(samples) =>
           Cardinality({j \in S : before(j)}) >= DiscardCount(Len(samples))
    BY Zenon DEF Retained
  <1> QED
    BY <1>8, <1>9, <1>10

\* The centroid of samples with an outlier is that of the others.
LEMMA CentroidTakesSide ==
  ASSUME NEW dim \in Nat, NEW samples, SamplesOf(samples, dim), Len(samples) >= 5,
         HasCentroid(samples), NEW i, Outlier(samples, i),
         NEW j \in DOMAIN samples \ {i}
  PROVE  /\ Dot(Centroid(samples), samples[j]) > 0
         /\ Dot(Centroid(samples), samples[i]) <= 0
  <1> DEFINE V == 1..dim
             some == Retained(samples)
             total == Total(samples, some)
             w == Centroid(samples)
             x == samples[j]
             y == samples[i]
  <1>1. some \in SUBSET (DOMAIN samples \ {i})
    <2>1. i \notin some
      BY OutlierIsDiscarded
    <2>2. some \in SUBSET (DOMAIN samples)
      BY DEF Retained
    <2> HIDE DEF some
    <2> QED
      BY <2>1, <2>2
  <1>2. IsFiniteSet(V) /\ x \in Vectors(V) /\ y \in Vectors(V)
    BY SamplesAreVectors DEF Outlier
  <1>3. total \in Vectors(V) /\ NonZero(total)
    <2>1. NonZero(total)
      BY Zenon DEF HasCentroid, Usable, NonZero
    <2>2. some \in SUBSET (DOMAIN samples)
      BY <1>1
    <2> HIDE DEF some
    <2>3. total \in Vectors(V)
      BY <2>2, TotalIsBounded
    <2> QED
      BY <2>1, <2>3
  <1>4. some # {}
    <2> SUFFICES ASSUME some = {} PROVE FALSE
      OBVIOUS
    <2>1. PICK g : VectorSums(g, samples, {}, V) /\ Total(samples, {}) = g[{}]
      BY TotalOf
    <2>2. Total(samples, {}) = [k \in V |-> 0]
      BY <2>1 DEF VectorSums
    <2>3. total = [k \in V |-> 0]
      BY <2>2
    <2> HIDE DEF total
    <2> QED
      BY <1>3, <2>3 DEF NonZero
  <1>5. Dot(total, x) > 0 /\ Dot(total, y) <= 0
    <2> HIDE DEF some
    <2> QED
      BY <1>1, <1>4, SumTakesSide
  <1>6. w = Normalized(total)
    BY Zenon DEF Centroid
  <1> HIDE DEF some, total, w, x, y, V
  <1>7. PICK d \in Nat :
          d > 0 /\ w \in Vectors(V) /\ \A k \in V : total[k] = d * w[k]
    BY <1>3, <1>6, NormalizedDivides
  <1>8. Dot(total, x) = d * Dot(w, x) /\ Dot(total, y) = d * Dot(w, y)
    <2>1. Dot(total, x) = d * Dot(w, x)
      BY <1>2, <1>3, <1>7, DotOfMultiple
    <2>2. Dot(total, y) = d * Dot(w, y)
      BY <1>2, <1>3, <1>7, DotOfMultiple
    <2> QED
      BY <2>1, <2>2
  <1>9. Dot(w, x) > 0 /\ Dot(w, y) <= 0
    <2> DEFINE p == Dot(w, x)
               q == Dot(w, y)
    <2>1. p \in Int
      BY <1>2, <1>7, DotIsInt
    <2>2. q \in Int
      BY <1>2, <1>7, DotIsInt
    <2>3. d * p > 0 /\ d * q <= 0
      BY <1>5, <1>8
    <2> HIDE DEF p, q
    <2>4. p > 0
      <3> SUFFICES ASSUME p <= 0 PROVE FALSE
        BY <2>1
      <3>1. d * p <= d * 0
        BY <1>7, <2>1, ProductIsMonotone
      <3> QED
        BY <1>7, <2>1, <2>3, <3>1
    <2>5. q <= 0
      <3> SUFFICES ASSUME q >= 1 PROVE FALSE
        BY <2>2
      <3>1. d * 1 <= d * q
        BY <1>7, <2>2, ProductIsMonotone
      <3> QED
        BY <1>7, <2>2, <2>3, <3>1
    <2> QED
      BY <2>4, <2>5 DEF p, q
  <1> QED
    BY <1>9 DEF w, x, y

\* OutlierHasNoSay holds of every profile that is read: the sample that
\* disagrees with all the others is the least similar to their mean, and
\* robust_centroid() leaves it out (face_profile.cpp:105-134).
THEOREM OutlierNeverHasASay == Spec => []OutlierHasNoSay
  <1>1. FileInv => OutlierHasNoSay
    <2> SUFFICES ASSUME FileInv, ~damaged, profile # NoProfile,
                        Len(sampled[1]) >= 5, NEW i, Outlier(sampled[1], i),
                        NEW j \in DOMAIN sampled[1] \ {i}
                 PROVE  /\ Dot(profile.poses[1].centroid, sampled[1][j]) > 0
                        /\ Dot(profile.poses[1].centroid, sampled[1][i]) <= 0
      BY Zenon DEF OutlierHasNoSay, Outlier
    <2>1. Deserializes(bytes) /\ profile = Fields(bytes)
      BY DEF FileInv, ProfileIsRead
    <2>2. WrittenFrom(bytes, sampled)
      BY <2>1, EmptyFileIsNoProfile DEF FileInv, FileIsWritten
    <2>3. PICK model \in Models : Fields(bytes) = Finalize(model, sampled)
      BY <2>2, WrittenIsReadBack
    <2>4. 1 \in 1..PoseCount
      BY Counts
    <2>5. profile.poses[1].centroid = Centroid(sampled[1])
      BY <2>1, <2>3, <2>4 DEF Finalize
    <2>6. sampled \in Samplings /\ HasCentroid(sampled[1])
      BY <2>2, <2>4 DEF WrittenFrom
    <2>7. PICK dim : SameLength(dim)
      BY DirectionsHaveOneLength
    <2>8. dim \in Nat
      BY <2>7, Counts DEF SameLength
    <2>9. SamplesOf(sampled[1], dim)
      BY <2>4, <2>6, <2>7, SamplingIsSamples
    <2>10. /\ Dot(Centroid(sampled[1]), sampled[1][j]) > 0
           /\ Dot(Centroid(sampled[1]), sampled[1][i]) <= 0
      <3> DEFINE s == sampled[1]
      <3>1. /\ SamplesOf(s, dim) /\ Len(s) >= 5 /\ HasCentroid(s)
            /\ Outlier(s, i) /\ j \in DOMAIN s \ {i}
        BY <2>6, <2>9
      <3> HIDE DEF s
      <3>2. Dot(Centroid(s), s[j]) > 0 /\ Dot(Centroid(s), s[i]) <= 0
        BY <2>8, <3>1, CentroidTakesSide
      <3> QED
        BY <3>2 DEF s
    <2> QED
      BY <2>5, <2>10
  <1> QED
    BY <1>1, FileIsAlwaysRead, PTL
----------------------------------------------------------------------------
(* The faces that are kept. *)

Keeps(h, rows) ==
  /\ h[0] = NoFaces
  /\ \A k \in 1..Len(rows) : h[k] = KeepRow(h[k - 1], rows[k])

LEMMA KeptOneByOne ==
  ASSUME NEW R, NEW rows \in Seq(R)
  PROVE  \E h \in [0..Len(rows) -> Seq(R)] :
           Keeps(h, rows) /\ FoldLeft(KeepRow, NoFaces, rows) = h[Len(rows)]
  <1> DEFINE n == Len(rows)
             S == 1..n
             B == Seq(R)
             last == Latest(n)
             Q(g) == g = [s \in SUBSET S |->
               IF s = {} THEN NoFaces
               ELSE KeepRow(g[s \ {Max(s)}], rows[Max(s)])]
             step == [p \in S \X B |-> KeepRow(p[2], rows[p[1]])]
             g == CHOOSE g : Q(g)
  <1>0. n \in Nat /\ IsFiniteSet(S) /\ DOMAIN rows = S
    BY FS_Interval
  <1>1. Picks(last, S)
    BY <1>0, LatestPicks
  <1>2. \A s \in SUBSET S : last[s] = Max(s)
    BY DEF Latest
  <1>3. NoFaces \in B /\ step \in [S \X B -> B]
    <2>1. NoFaces \in B
      BY DEF NoFaces
    <2>2. \A i \in S, b \in B : KeepRow(b, rows[i]) \in B
      BY DEF KeepRow
    <2> HIDE DEF B
    <2> QED
      BY <2>1, <2>2
  <1>4. PICK k \in [SUBSET S -> B] : IsFold(k, step, NoFaces, last, S)
    <2> HIDE DEF step, B, S, last
    <2> QED
      BY <1>0, <1>1, <1>3, FoldExists
  <1>5. Q(k)
    <2>1. \A s \in SUBSET S : s # {} =>
            step[<<last[s], k[s \ {last[s]}]>>]
              = KeepRow(k[s \ {Max(s)}], rows[Max(s)])
      <3> SUFFICES ASSUME NEW s \in SUBSET S, s # {}
                   PROVE  step[<<last[s], k[s \ {last[s]}]>>]
                            = KeepRow(k[s \ {Max(s)}], rows[Max(s)])
        OBVIOUS
      <3>1. last[s] = Max(s) /\ Max(s) \in S
        BY <1>1, <1>2 DEF Picks
      <3>2. k[s \ {Max(s)}] \in B
        <4> HIDE DEF B
        <4> QED
          OBVIOUS
      <3> HIDE DEF B, S, last
      <3> QED
        BY <3>1, <3>2
    <2> HIDE DEF step, last, S
    <2> QED
      BY <1>4, <2>1 DEF IsFold
  <1>6. Q(g)
    <2> HIDE DEF Q
    <2> QED
      BY <1>5
  <1>7. g = k
    <2> DEFINE U == {s \in SUBSET S : g[s] = k[s]}
    <2> HIDE DEF g
    <2>1. {} \in U
      BY <1>5, <1>6
    <2>2. \A s \in SUBSET S : s # {} /\ s \ {last[s]} \in U => s \in U
      <3> SUFFICES ASSUME NEW s \in SUBSET S, s # {}, s \ {last[s]} \in U
                   PROVE  g[s] = k[s]
        OBVIOUS
      <3>1. g[s \ {Max(s)}] = k[s \ {Max(s)}]
        BY <1>2
      <3>2. /\ g[s] = KeepRow(g[s \ {Max(s)}], rows[Max(s)])
            /\ k[s] = KeepRow(k[s \ {Max(s)}], rows[Max(s)])
        BY <1>5, <1>6
      <3> QED
        BY <3>1, <3>2
    <2>3. SUBSET S \subseteq U
      <3> HIDE DEF U, S, last
      <3> QED
        BY <1>0, <1>1, <2>1, <2>2, PickInduction
    <2>4. \A s \in SUBSET S : g[s] = k[s]
      BY <2>3
    <2> HIDE DEF B
    <2> QED
      BY <1>6, <2>4
  <1> DEFINE h == Segments(k, n)
  <1>8. LeftFold(h, step, NoFaces, n)
    <2> HIDE DEF step
    <2> QED
      BY <1>0, <1>4, FoldOfSegments
  <1>9. h \in [0..n -> B]
    <2> HIDE DEF B
    <2> QED
      BY <1>0 DEF Segments
  <1>10. Keeps(h, rows)
    <2> SUFFICES ASSUME NEW i \in 1..n PROVE h[i] = KeepRow(h[i - 1], rows[i])
      BY <1>8 DEF Keeps, LeftFold
    <2>1. h[i] = step[<<i, h[i - 1]>>]
      <3> HIDE DEF h, step
      <3> QED
        BY <1>8 DEF LeftFold
    <2>2. h[i - 1] \in B
      <3> HIDE DEF h, B
      <3> QED
        BY <1>0, <1>9
    <2> HIDE DEF h, B
    <2> QED
      BY <1>0, <2>1, <2>2
  <1>11. FoldLeft(KeepRow, NoFaces, rows) = g[S]
    <2>1. FoldLeft(KeepRow, NoFaces, rows) = g[DOMAIN rows]
      <3>1. DOMAIN rows = 1..Len(rows)
        BY <1>0
      <3> QED
        BY <3>1, Zenon DEF FoldLeft, MapThenFoldSet
    <2> HIDE DEF g, S
    <2> QED
      BY <1>0, <2>1
  <1>12. h[n] = k[S]
    BY <1>0 DEF Segments
  <1> QED
    BY <1>7, <1>9, <1>10, <1>11, <1>12

Real(r) == r.finite /\ r.w > 0 /\ r.h > 0

\* What YuNet's detector keeps is one face only if one row is real, and is its
\* row.
LEMMA OneKeptIsOneReal ==
  ASSUME NEW R, NEW rows \in Seq(R),
         Len(FoldLeft(KeepRow, NoFaces, rows)) = 1
  PROVE  \E i \in 1..Len(rows) :
           /\ Head(FoldLeft(KeepRow, NoFaces, rows)) = rows[i]
           /\ {j \in 1..Len(rows) : Real(rows[j])} = {i}
  <1> DEFINE n == Len(rows)
  <1>1. PICK h \in [0..n -> Seq(R)] :
          Keeps(h, rows) /\ FoldLeft(KeepRow, NoFaces, rows) = h[n]
    BY KeptOneByOne
  <1> DEFINE reals(k) == {j \in 1..k : Real(rows[j])}
             Good(k) ==
               /\ Len(h[k]) = 0 => reals(k) = {}
               /\ Len(h[k]) = 1 => \E i \in 1..k :
                    Head(h[k]) = rows[i] /\ reals(k) = {i}
             T == {k \in Nat : k <= n => Good(k)}
  <1>2. n \in Nat
    OBVIOUS
  <1>3. 0 \in T
    BY <1>1 DEF Keeps, NoFaces
  <1>4. \A k \in Nat : k \in T => k + 1 \in T
    <2> SUFFICES ASSUME NEW k \in Nat, k + 1 <= n, Good(k) PROVE Good(k + 1)
      <3> HIDE DEF Good
      <3> QED
        BY <1>2
    <2>1. h[k + 1] = KeepRow(h[k], rows[k + 1])
      <3>1. k + 1 \in 1..n /\ (k + 1) - 1 = k
        BY <1>2
      <3> QED
        BY <1>1, <3>1 DEF Keeps
    <2>2. h[k] \in Seq(R) /\ rows[k + 1] \in R
      BY <1>1, <1>2
    <2>3. reals(k + 1) = reals(k) \cup {j \in {k + 1} : Real(rows[j])}
      OBVIOUS
    <2>4. CASE Real(rows[k + 1])
      <3>1. h[k + 1] = Append(h[k], rows[k + 1])
        BY <2>1, <2>4 DEF KeepRow, Real
      <3>2. Len(h[k + 1]) = Len(h[k]) + 1 /\ Len(h[k]) \in Nat
        BY <2>2, <3>1
      <3>3. ASSUME Len(h[k]) = 0
            PROVE  Head(h[k + 1]) = rows[k + 1] /\ reals(k + 1) = {k + 1}
        <4>1. h[k + 1][1] = rows[k + 1]
          BY <2>2, <3>1, <3>3
        <4>2. Head(h[k + 1]) = h[k + 1][1]
          BY <2>2, <3>1
        <4>3. reals(k) = {}
          BY <3>3
        <4> HIDE DEF reals
        <4> QED
          BY <2>3, <2>4, <4>1, <4>2, <4>3
      <3> QED
        BY <3>2, <3>3
    <2>5. CASE ~Real(rows[k + 1])
      <3>1. h[k + 1] = h[k]
        BY <2>1, <2>5 DEF KeepRow, Real
      <3>2. reals(k + 1) = reals(k)
        BY <2>3, <2>5
      <3> HIDE DEF reals
      <3> QED
        BY <3>1, <3>2
    <2> QED
      BY <2>4, <2>5
  <1>5. n \in T
    <2> HIDE DEF T, n
    <2> QED
      BY <1>2, <1>3, <1>4, NatSetInduction
  <1> QED
    BY <1>1, <1>2, <1>5
----------------------------------------------------------------------------
(* The theorem of the score. *)

\* A face that lies in its frame with its landmarks and is neither small nor large.
Fits(f, r) ==
  /\ r.x >= 0 /\ r.x + r.w <= f.cols
  /\ r.y >= 0 /\ r.y + r.h <= f.rows_
  /\ Len(r.marks) = 5
  /\ \A k \in 1..5 : /\ r.marks[k][1] \in 0..(f.cols - 1)
                    /\ r.marks[k][2] \in 0..(f.rows_ - 1)
  /\ 25 * r.w * r.h >= f.cols * f.rows_
  /\ 10 * r.w * r.h <= 7 * f.cols * f.rows_

\* What an approved frame has, if the detector and the embedder throw nothing.
Earned(kind, f, v) ==
  /\ kind = "yunet" /\ f.channels = 3
  /\ \E i \in DOMAIN f.rows :
       /\ {j \in DOMAIN f.rows : Real(f.rows[j])} = {i}
       /\ f.rows[i].score >= 80
       /\ Fits(f, f.rows[i])
  /\ f.luma \in 35..225 /\ f.sharpness >= 20
  /\ Usable(v)

LEMMA AreaIsPart ==
  ASSUME NEW f, NEW r \in Rows, f.cols \in Int, f.rows_ \in Int,
         ~(100 * r.w * r.h < 4 * f.cols * f.rows_),
         ~(100 * r.w * r.h > 70 * f.cols * f.rows_)
  PROVE  /\ 25 * r.w * r.h >= f.cols * f.rows_
         /\ 10 * r.w * r.h <= 7 * f.cols * f.rows_
  <1> DEFINE w == r.w
             h == r.h
             a == w * h
             c == f.cols * f.rows_
  <1>1. w \in Int /\ h \in Int
    BY DEF Rows
  <1>2. a \in Int /\ c \in Int
    BY <1>1
  <1>3. 4 * f.cols * f.rows_ = 4 * c /\ 70 * f.cols * f.rows_ = 70 * c
        /\ 7 * f.cols * f.rows_ = 7 * c
    OBVIOUS
  <1>4. 100 * w * h = 100 * a /\ 25 * w * h = 25 * a /\ 10 * w * h = 10 * a
    BY <1>1
  <1>5. ~(100 * a < 4 * c) /\ ~(100 * a > 70 * c)
    BY <1>3, <1>4
  <1>6. 25 * a >= c /\ 10 * a <= 7 * c
    <2> HIDE DEF a, c
    <2> QED
      BY <1>2, <1>5
  <1> QED
    BY <1>3, <1>4, <1>6

LEMMA ApprovedIsEarned ==
  ASSUME NEW kind \in {"noop", "haar", "yunet"}, NEW f \in Images, NEW v,
         ~DetectThrows(kind, f), Quality(f, Detect(kind, f)) = "approved",
         ~EmbedThrows(f, Head(Detect(kind, f)), v)
  PROVE  Earned(kind, f, v)
  <1> DEFINE faces == Detect(kind, f)
             r == Head(faces)
  <1>1. /\ f.channels \in {1, 3} /\ faces # NoFaces /\ Len(faces) = 1
        /\ ~(r.score < 80) /\ BoxInside(f, r) /\ ValidLandmarks(f, r)
        /\ ~(100 * r.w * r.h < 4 * f.cols * f.rows_)
        /\ ~(100 * r.w * r.h > 70 * f.cols * f.rows_)
        /\ ~(f.luma < 35) /\ ~(f.luma > 225) /\ ~(f.sharpness < 20)
    <2> HIDE DEF faces
    <2>1. Quality(f, faces) = "approved"
      BY DEF faces
    <2> QED
      BY <2>1, Approval
  <1>2. /\ f.channels \in Nat /\ f.cols \in Int /\ f.rows_ \in Int
        /\ f.luma \in Int /\ f.sharpness \in Int /\ f.rows \in Seq(Rows)
    BY ImageHasRows
  <1>3. Usable(v) /\ f.channels = 3
    BY Zenon DEF EmbedThrows
  <1>4. kind # "noop"
    BY <1>1, Zenon DEF Detect
  <1>5. kind # "haar"
    <2> SUFFICES ASSUME kind = "haar" PROVE FALSE
      OBVIOUS
    <2>1. faces = [i \in DOMAIN f.rows |->
                     [f.rows[i] EXCEPT !.score = 100, !.marks = <<>>]]
      <3>1. f.channels # 0
        BY <1>3
      <3> QED
        BY <3>1, Zenon DEF Detect
    <2> HIDE DEF faces
    <2>2. DOMAIN faces = 1..1
      <3>1. DOMAIN faces = 1..Len(f.rows) /\ Len(f.rows) \in Nat
        <4>1. DOMAIN faces = DOMAIN f.rows
          BY <2>1
        <4> QED
          BY <1>2, <4>1
      <3>2. Len(faces) = Len(f.rows)
        BY <3>1
      <3> QED
        BY <1>1, <3>1, <3>2
    <2>3. faces[1] = [f.rows[1] EXCEPT !.score = 100, !.marks = <<>>]
      <3>1. 1 \in DOMAIN f.rows
        <4>1. DOMAIN faces = DOMAIN f.rows
          BY <2>1
        <4> QED
          BY <2>2, <4>1
      <3> QED
        BY <2>1, <3>1, Zenon
    <2>4. f.rows[1] \in Rows
      <3>1. 1 \in DOMAIN f.rows
        <4>1. DOMAIN faces = DOMAIN f.rows
          BY <2>1
        <4> QED
          BY <2>2, <4>1
      <3> QED
        BY <1>2, <3>1
    <2>5. r = faces[1]
      <3>1. Head(faces) = faces[1]
        OBVIOUS
      <3> QED
        BY <3>1
    <2>6. faces[1].marks = <<>>
      <3> DEFINE row == f.rows[1]
      <3>1. row \in Rows /\ faces[1] = [row EXCEPT !.score = 100, !.marks = <<>>]
        BY <2>3, <2>4
      <3> HIDE DEF row
      <3> QED
        BY <3>1 DEF Rows
    <2>7. Len(r.marks) = 5
      BY <1>1, Zenon DEF ValidLandmarks
    <2>8. Len(<<>>) # 5
      OBVIOUS
    <2> QED
      BY <2>5, <2>6, <2>7, <2>8, Zenon
  <1>6. kind = "yunet"
    BY <1>4, <1>5
  <1>7. faces = FoldLeft(KeepRow, NoFaces, f.rows)
    BY <1>3, <1>6 DEF Detect
  <1>8. PICK i \in 1..Len(f.rows) :
          /\ Head(FoldLeft(KeepRow, NoFaces, f.rows)) = f.rows[i]
          /\ {j \in 1..Len(f.rows) : Real(f.rows[j])} = {i}
    <2>1. f.rows \in Seq(Rows) /\ Len(FoldLeft(KeepRow, NoFaces, f.rows)) = 1
      BY <1>1, <1>2, <1>7, Zenon
    <2> QED
      BY <2>1, OneKeptIsOneReal, Zenon
  <1>9. r = f.rows[i]
    <2> HIDE DEF faces
    <2> QED
      BY <1>7, <1>8
  <1> HIDE DEF faces, r
  <1>10. DOMAIN f.rows = 1..Len(f.rows) /\ r \in Rows
    BY <1>2, <1>9
  <1>11. r.score >= 80
    BY <1>1, <1>10 DEF Rows
  <1>12. Fits(f, r)
    <2>1. /\ 25 * r.w * r.h >= f.cols * f.rows_
          /\ 10 * r.w * r.h <= 7 * f.cols * f.rows_
      BY <1>1, <1>2, <1>10, AreaIsPart
    <2>2. /\ r.x >= 0 /\ r.x + r.w <= f.cols
          /\ r.y >= 0 /\ r.y + r.h <= f.rows_
      BY <1>1, Zenon DEF BoxInside
    <2>3. Len(r.marks) = 5 /\ \A k \in 1..5 : InFrame(f, r.marks[k])
      BY <1>1, Zenon DEF ValidLandmarks
    <2> QED
      BY <2>1, <2>2, <2>3, Zenon DEF Fits, InFrame
  <1>13. f.luma \in 35..225 /\ f.sharpness >= 20
    <2> DEFINE luma == f.luma
               sharpness == f.sharpness
    <2>1. /\ luma \in Int /\ sharpness \in Int
          /\ ~(luma < 35) /\ ~(luma > 225) /\ ~(sharpness < 20)
      BY <1>1, <1>2
    <2> HIDE DEF luma, sharpness
    <2>2. luma \in 35..225 /\ sharpness >= 20
      BY <2>1
    <2> QED
      BY <2>2 DEF luma, sharpness
  <1>14. /\ {j \in DOMAIN f.rows : Real(f.rows[j])} = {i}
         /\ f.rows[i].score >= 80
         /\ Fits(f, f.rows[i])
         /\ i \in DOMAIN f.rows
    BY <1>8, <1>9, <1>10, <1>11, <1>12
  <1> QED
    BY <1>3, <1>6, <1>13, <1>14, Zenon DEF Earned

\* What a score has beyond: it is that of the first of the most similar poses.
Matched(p, v, m) ==
  /\ p.model = Embedder
  /\ \A i \in 1..PoseCount :
       LET mine == Cosine(v, p.poses[m].centroid)
           other == Cosine(v, p.poses[i].centroid)
       IN  ~Below(mine, other) /\ (i < m => Below(other, mine))

\* The centroids of a valid profile whose fields are numbers.
LEMMA ValidCentroids ==
  ASSUME NEW p, Shaped(p), ValidProfile(p), NEW i \in 1..PoseCount
  PROVE  p.poses[i].centroid \in Vectors(1..p.dim) /\ NonZero(p.poses[i].centroid)
  <1> DEFINE c == p.poses[i].centroid
  <1>1. c \in Seq(Int) /\ Len(c) = p.dim
    BY DEF Shaped, PoseShaped
  <1>2. Usable(c)
    BY DEF ValidProfile
  <1>3. NonZero(c)
    BY <1>2 DEF Usable, NonZero
  <1> HIDE DEF c
  <1>4. c \in [1..p.dim -> Int]
    BY <1>1
  <1> QED
    BY <1>3, <1>4 DEF c, Vectors

LEMMA ScoreIsMatched ==
  ASSUME NEW p, Shaped(p), ValidProfile(p), p.model = Embedder,
         NEW v \in Seq(Int), Len(v) = p.dim, Usable(v)
  PROVE  Matched(p, v, Match(p, Normalized(v)))
  <1> DEFINE T == 1..p.dim
             w == Normalized(v)
             c(i) == p.poses[i].centroid
             m == Match(p, w)
  <1>1. IsFiniteSet(T) /\ p.dim \in Nat
    BY SegmentIsFinite DEF Shaped
  <1>2. v \in Vectors(T) /\ NonZero(v)
    <2>1. v \in [1..p.dim -> Int]
      OBVIOUS
    <2> QED
      BY <2>1 DEF Vectors, Usable, NonZero
  <1>3. \A i \in 1..PoseCount : c(i) \in Vectors(T) /\ NonZero(c(i))
    BY ValidCentroids
  <1>4. w \in Vectors(T) /\ NonZero(w)
    BY <1>2, NormalizedDivides, NormalizedOnce
  <1> HIDE DEF w, T, c
  <1>5. \A i \in 1..PoseCount : Fraction(Cosine(w, c(i)))
    BY <1>1, <1>3, <1>4, CosineIsFraction
  <1>6. /\ m \in 1..PoseCount
        /\ \A i \in 1..PoseCount :
             /\ ~Below(Cosine(w, c(m)), Cosine(w, c(i)))
             /\ i < m => Below(Cosine(w, c(i)), Cosine(w, c(m)))
    BY <1>5, MatchIsFirstOfBest DEF c
  <1> HIDE DEF m
  <1>7. PICK e \in Int :
          /\ e > 0
          /\ \A b \in Vectors(T) : /\ Cosine(v, b).num = e * Cosine(w, b).num
                                   /\ Cosine(v, b).den = e * Cosine(w, b).den
    BY <1>1, <1>2, <1>3, <1>6, CosineScaled DEF w
  <1>8. ASSUME NEW i \in 1..PoseCount, NEW j \in 1..PoseCount
        PROVE  Below(Cosine(v, c(i)), Cosine(v, c(j)))
                 <=> Below(Cosine(w, c(i)), Cosine(w, c(j)))
    <2>1. c(i) \in Vectors(T) /\ c(j) \in Vectors(T)
      BY <1>3
    <2>2. Fraction(Cosine(w, c(i))) /\ Fraction(Cosine(w, c(j)))
      BY <1>5
    <2>3. /\ Cosine(v, c(i)).num = e * Cosine(w, c(i)).num
          /\ Cosine(v, c(i)).den = e * Cosine(w, c(i)).den
          /\ Cosine(v, c(j)).num = e * Cosine(w, c(j)).num
          /\ Cosine(v, c(j)).den = e * Cosine(w, c(j)).den
      BY <1>7, <2>1
    <2> QED
      BY <1>7, <2>2, <2>3, BelowScaled
  <1>9. \A i \in 1..PoseCount :
          /\ ~Below(Cosine(v, c(m)), Cosine(v, c(i)))
          /\ i < m => Below(Cosine(v, c(i)), Cosine(v, c(m)))
    BY <1>6, <1>8
  <1>10. Matched(p, v, m)
    BY <1>9 DEF Matched, c
  <1> QED
    BY <1>10 DEF m, w

BackendIsKnown == backend \in {"noop", "haar", "yunet"}

ResultIsEarned ==
  result.status \in {"score_available", "sample"} =>
    /\ Earned(backend, frame, feature)
    /\ result.status = "score_available" => Matched(profile, feature, result.match)

ScoreInv == BackendIsKnown /\ ResultIsEarned

LEMMA ScoreOfVerdict ==
  ASSUME FileInv, BackendIsKnown, profile # NoProfile, NEW f \in Images,
         NEW v \in Seq(Int), Verdict(f, v).status \in {"score_available", "sample"}
  PROVE  Earned(backend, f, v) /\ Matched(profile, v, Verdict(f, v).match)
  <1> DEFINE faces == Detect(backend, f)
             best == Match(profile, Normalized(v))
             score == [Result("score_available", "threshold_not_calibrated")
                         EXCEPT !.match = best]
  <1>1. /\ Result("error", "pipeline_error").status = "error"
        /\ Result("rejected", Quality(f, faces)).status = "rejected"
        /\ score.match = best
    BY DEF Result, NoResult
  <1>2. /\ ~DetectThrows(backend, f) /\ Quality(f, faces) = "approved"
        /\ ~(EmbedThrows(f, Head(faces), v) \/ profile.model # Embedder
               \/ Len(v) # profile.dim)
        /\ Verdict(f, v) = score
    <2>1. Verdict(f, v)
            = IF DetectThrows(backend, f) THEN Result("error", "pipeline_error")
              ELSE IF Quality(f, faces) # "approved"
              THEN Result("rejected", Quality(f, faces))
              ELSE IF EmbedThrows(f, Head(faces), v) \/ profile.model # Embedder
                        \/ Len(v) # profile.dim
              THEN Result("error", "pipeline_error")
              ELSE score
      BY Zenon DEF Verdict
    <2> HIDE DEF faces, score
    <2> QED
      BY <1>1, <2>1
  <1>3. Earned(backend, f, v)
    BY <1>2, ApprovedIsEarned DEF BackendIsKnown
  <1>4. Shaped(profile) /\ ValidProfile(profile)
    <2>1. bytes \in Seq(Int) /\ Parses(bytes) /\ ValidProfile(Fields(bytes))
            /\ profile = Fields(bytes)
      BY DEF FileInv, FileHasNumbers, ProfileIsRead, Deserializes
    <2> QED
      BY <2>1, ReadIsLaidOut
  <1>5. profile.model = Embedder /\ Len(v) = profile.dim /\ Usable(v)
    BY <1>2, <1>3 DEF Earned
  <1>6. Matched(profile, v, best)
    <2> HIDE DEF faces, score
    <2> QED
      BY <1>4, <1>5, ScoreIsMatched
  <1> QED
    <2> HIDE DEF best, score
    <2> QED
      BY <1>1, <1>2, <1>3, <1>6

LEMMA SampleOfFrame ==
  ASSUME BackendIsKnown, NEW f \in Images, NEW v, Sample(f, v).status = "sample"
  PROVE  Earned(backend, f, v)
  <1> DEFINE faces == Detect(backend, f)
             sample == [Result("sample", "none") EXCEPT !.pose = Pose(Head(faces).marks)]
  <1>1. \A q : Result("rejected", q).status = "rejected"
    BY DEF Result, NoResult
  <1>2. Sample(f, v)
          = IF DetectThrows(backend, f)
            THEN Result("rejected", "detector_inference_failed")
            ELSE IF Quality(f, faces) # "approved"
            THEN Result("rejected", Quality(f, faces))
            ELSE IF EmbedThrows(f, Head(faces), v)
            THEN Result("rejected", "embedding_inference_failed")
            ELSE sample
    BY Zenon DEF Sample
  <1> HIDE DEF sample
  <1>3. /\ ~DetectThrows(backend, f) /\ Quality(f, faces) = "approved"
        /\ ~EmbedThrows(f, Head(faces), v)
    <2> HIDE DEF faces
    <2> QED
      BY <1>1, <1>2
  <1> QED
    BY <1>3, ApprovedIsEarned DEF BackendIsKnown

\* ScoreInv: a result with a score or a sample is one that evaluate() or capture()
\* made of the frame in the state, with the profile in it
\* (verification_pipeline.cpp:45-78, enrollment_controller.cpp:96-150).
THEOREM ResultIsAlwaysEarned == Spec => []ScoreInv
  <1>1. Init => ScoreInv
    BY DEF Init, ScoreInv, BackendIsKnown, ResultIsEarned, NoResult
  <1>2. FileInv /\ ScoreInv /\ [Next]_vars => ScoreInv'
    <2> SUFFICES ASSUME FileInv, ScoreInv, [Next]_vars PROVE ScoreInv'
      OBVIOUS
    <2>1. BackendIsKnown /\ ResultIsEarned
      BY DEF ScoreInv
    <2>2. CASE UNCHANGED <<profile, backend, frame, feature, result>>
      BY <2>1, <2>2
      DEF ScoreInv, BackendIsKnown, ResultIsEarned, Earned, Matched
    <2>3. CASE Loads
      <3>1. backend' = backend /\ result'.status \notin {"score_available", "sample"}
        BY <2>3 DEF Loads, Result, NoResult
      <3> QED
        BY <2>1, <3>1 DEF ScoreInv, BackendIsKnown, ResultIsEarned
    <2>4. ASSUME NEW look \in Looks, Evaluates(look[1], look[2]) PROVE ScoreInv'
      <3> DEFINE f == look[1]
                 v == look[2]
      <3>1. f \in Images /\ v \in Seq(Int)
        BY AnalysisAssumption
      <3> HIDE DEF f, v
      <3>2. /\ profile # NoProfile /\ profile' = profile /\ backend' = backend
            /\ frame' = f /\ feature' = v /\ result' = Verdict(f, v)
        BY <2>4 DEF Evaluates, f, v
      <3>3. Verdict(f, v).status \in {"score_available", "sample"} =>
              Earned(backend, f, v) /\ Matched(profile, v, Verdict(f, v).match)
        BY <2>1, <3>1, <3>2, ScoreOfVerdict
      <3> QED
        BY <2>1, <3>2, <3>3 DEF ScoreInv, BackendIsKnown, ResultIsEarned
    <2>5. ASSUME NEW look \in Looks, Examines(look[1], look[2]) PROVE ScoreInv'
      <3> DEFINE f == look[1]
                 v == look[2]
      <3>1. f \in Images
        BY AnalysisAssumption
      <3> HIDE DEF f, v
      <3>2. /\ profile' = profile /\ backend' = backend
            /\ frame' = f /\ feature' = v /\ result' = Sample(f, v)
        BY <2>5 DEF Examines, f, v
      <3>3. Sample(f, v).status \in {"rejected", "sample"}
        BY SampleIsNoError
      <3>4. Sample(f, v).status = "sample" => Earned(backend, f, v)
        BY <2>1, <3>1, SampleOfFrame
      <3> QED
        BY <2>1, <3>2, <3>3, <3>4 DEF ScoreInv, BackendIsKnown, ResultIsEarned
    <2> QED
      BY <2>2, <2>3, <2>4, <2>5 DEF Next, vars, Writes, Damages
  <1> QED
    BY <1>1, <1>2, FileIsAlwaysRead, PTL DEF Spec

\* ScoreIsEarned holds of every frame and profile: evaluate() and capture() make
\* a score or a sample only of a frame that passed each gate of
\* evaluate_frame_quality(), and the score is that of the first of the most
\* similar poses (verification_pipeline.cpp:45-78, frame_quality.cpp,
\* enrollment_controller.cpp:96-150, face_profile.cpp:339-364).
THEOREM ScoreIsAlwaysEarned == Spec => []ScoreIsEarned
  <1>1. ScoreInv => ScoreIsEarned
    BY Zenon DEF ScoreInv, ResultIsEarned, Earned, Fits, Matched, Real,
       ScoreIsEarned
  <1> QED
    BY <1>1, ResultIsAlwaysEarned, PTL
=============================================================================
