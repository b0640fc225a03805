---------------------- MODULE EnrollmentSessionProofs ----------------------
(***************************************************************************)
(* What holds of EnrollmentSession for every policy its constructor        *)
(* accepts: its types, which include the limit of samples per pose; that a *)
(* session that is over keeps no sample; that a Ready one has every sample *)
(* of every pose; and that the progress it shows never lies about that and *)
(* never falls. The last three rest on sums over the poses, so the module  *)
(* first shows what the fold that computes a sum does, by induction on the *)
(* set, and then what that makes of totals and percentages.                *)
(***************************************************************************)
EXTENDS EnrollmentSession, TLAPS, FiniteSetTheorems, WellFoundedInduction

LEMMA NoneIsTyped ==
  /\ None \in [Poses -> 0..MaximumPerPose]
  /\ None \in [Poses -> 0..HeldoutPerPose]
  BY PolicyAssumption DEF None, PolicyAssumption

LEMMA TypeStep == TypeOK /\ [Next]_vars => TypeOK'
  <1> SUFFICES ASSUME TypeOK, [Next]_vars PROVE TypeOK'
    OBVIOUS
  <1>1. CASE Start
    BY <1>1, NoneIsTyped DEF Start, TypeOK, SessionStates
  <1>2. ASSUME NEW p \in Poses, AddTraining(p) PROVE TypeOK'
    <2>1. training' \in [Poses -> 0..MaximumPerPose]
      <3>1. training[p] + 1 \in 0..MaximumPerPose
        BY <1>2, PolicyAssumption DEF AddTraining, TypeOK, PolicyAssumption
      <3> QED
        BY <3>1, <1>2 DEF AddTraining, TypeOK
    <2>2. candidate' \in BOOLEAN /\ session' \in SessionStates
      BY <1>2 DEF AddTraining, FinishTraining, TypeOK, SessionStates
    <2> QED
      BY <2>1, <2>2, <1>2 DEF AddTraining, TypeOK
  <1>3. ASSUME NEW p \in Poses, AddHeldout(p) PROVE TypeOK'
    <2>1. heldout' \in [Poses -> 0..HeldoutPerPose]
      <3>1. heldout[p] + 1 \in 0..HeldoutPerPose
        BY <1>3, PolicyAssumption DEF AddHeldout, TypeOK, PolicyAssumption
      <3> QED
        BY <3>1, <1>3 DEF AddHeldout, TypeOK
    <2>2. session' \in SessionStates
      BY <1>3 DEF AddHeldout, TypeOK, SessionStates
    <2> QED
      BY <2>1, <2>2, <1>3 DEF AddHeldout, TypeOK
  <1>4. CASE RefuseTraining
    BY <1>4 DEF RefuseTraining, FinishTraining, TypeOK, SessionStates
  <1>5. CASE Cancel
    BY <1>5, NoneIsTyped DEF Cancel, TypeOK, SessionStates
  <1>6. CASE MarkCommitted
    BY <1>6, NoneIsTyped DEF MarkCommitted, TypeOK, SessionStates
  <1>7. CASE UNCHANGED vars
    BY <1>7 DEF vars, TypeOK
  <1> QED
    BY <1>1, <1>2, <1>3, <1>4, <1>5, <1>6, <1>7 DEF Next, AddSample

\* Every variable keeps its type. In particular no pose ever has more samples
\* than its limit, also while finalize() keeps failing (face_profile.cpp:555).
THEOREM TypeCorrect == Spec => []TypeOK
  <1>1. Init => TypeOK
    <2> SUFFICES ASSUME Init PROVE TypeOK
      OBVIOUS
    <2>1. session \in SessionStates /\ accepted \in Nat
      BY DEF Init, SessionStates
    <2> QED
      BY <2>1, NoneIsTyped DEF Init, TypeOK
  <1> QED
    BY <1>1, TypeStep, PTL DEF Spec

----------------------------------------------------------------------------
(* Sums over a finite set, as the community modules' fold computes them: one *)
(* element after the other in the order of Pick. A function g of all partial *)
(* sums is known by its recursion, IsSum.                                    *)

Pick(s) == CHOOSE x \in s : TRUE

IsSum(g, f, S) ==
  g = [s \in SUBSET S |->
         IF s = {} THEN 0 ELSE f[Pick(s)] + g[s \ {Pick(s)}]]

LEMMA PickFromIt == ASSUME NEW s, s # {} PROVE Pick(s) \in s
  BY DEF Pick

\* Induction on the natural numbers for a set of them, from the least number
\* that is not in it.
LEMMA NatSetInduction ==
  ASSUME NEW T, 0 \in T, \A n \in Nat : n \in T => n + 1 \in T
  PROVE  Nat \subseteq T
  <1> DEFINE R == OpToRel(<, Nat)
             B == Nat \ T
  <1> SUFFICES ASSUME B # {} PROVE FALSE
    OBVIOUS
  <1>1. \E x \in B : \A y \in B : ~(<<y, x>> \in R)
    <2>1. IsWellFoundedOn(R, Nat)
      BY NatLessThanWellFounded
    <2>2. B \subseteq Nat
      OBVIOUS
    <2> HIDE DEF B, R
    <2> QED
      BY <2>1, <2>2, WFMin
  <1>2. PICK x \in B : \A y \in B : ~(<<y, x>> \in R)
    BY <1>1
  <1>3. x # 0 /\ x \in Nat
    OBVIOUS
  <1>4. x - 1 \in B
    BY <1>3
  <1>5. <<x - 1, x>> \in R
    BY <1>3 DEF OpToRel
  <1> QED
    BY <1>2, <1>4, <1>5

\* What holds of the empty set, and of a set when it holds without the element
\* picked from it, holds of every finite set.
LEMMA PickInduction ==
  ASSUME NEW S, IsFiniteSet(S), NEW T, {} \in T,
         \A s \in SUBSET S : s # {} /\ s \ {Pick(s)} \in T => s \in T
  PROVE  S \in T
  <1> DEFINE N == {n \in Nat : \A s \in SUBSET S : Cardinality(s) = n => s \in T}
  <1>1. \A s \in SUBSET S : IsFiniteSet(s) /\ Cardinality(s) \in Nat
    BY FS_Subset, FS_CardinalityType
  <1>2. 0 \in N
    BY <1>1, FS_EmptySet
  <1>3. \A n \in Nat : n \in N => n + 1 \in N
    <2> SUFFICES ASSUME NEW n \in Nat, n \in N, NEW s \in SUBSET S,
                        Cardinality(s) = n + 1
                 PROVE  s \in T
      OBVIOUS
    <2>1. s # {}
      BY FS_EmptySet
    <2>2. Cardinality(s \ {Pick(s)}) = n
      BY <1>1, <2>1, PickFromIt, FS_RemoveElement
    <2> QED
      BY <2>1, <2>2
  <1>4. Nat \subseteq N
    <2> HIDE DEF N
    <2> QED
      BY <1>2, <1>3, NatSetInduction
  <1> QED
    BY <1>1, <1>4

\* The recursion has a solution, found for one cardinality after the other.
LEMMA SumExists ==
  ASSUME NEW S, IsFiniteSet(S), NEW f \in [S -> Nat]
  PROVE  \E g : IsSum(g, f, S)
  <1> DEFINE Step(g) == [s \in SUBSET S |->
               IF s = {} THEN 0 ELSE f[Pick(s)] + g[s \ {Pick(s)}]]
             Solves(g, n) == \A s \in SUBSET S :
               Cardinality(s) <= n => g[s] = Step(g)[s]
             N == {n \in Nat : \E g \in [SUBSET S -> Nat] : Solves(g, n)}
  <1>1. \A s \in SUBSET S : IsFiniteSet(s) /\ Cardinality(s) \in Nat
    BY FS_Subset, FS_CardinalityType
  <1>2. 0 \in N
    <2> DEFINE g == [s \in SUBSET S |-> 0]
    <2>1. g \in [SUBSET S -> Nat]
      OBVIOUS
    <2>2. Solves(g, 0)
      <3> SUFFICES ASSUME NEW s \in SUBSET S, Cardinality(s) <= 0
                   PROVE  g[s] = Step(g)[s]
        OBVIOUS
      <3>1. s = {}
        BY <1>1, FS_EmptySet
      <3> QED
        BY <3>1
    <2> HIDE DEF g, Solves
    <2> QED
      BY <2>1, <2>2
  <1>3. \A n \in Nat : n \in N => n + 1 \in N
    <2> SUFFICES ASSUME NEW n \in Nat, n \in N PROVE n + 1 \in N
      OBVIOUS
    <2>0. PICK g \in [SUBSET S -> Nat] : Solves(g, n)
      OBVIOUS
    <2> DEFINE h == Step(g)
    <2>1. h \in [SUBSET S -> Nat]
      <3>1. \A s \in SUBSET S : s # {} =>
              f[Pick(s)] \in Nat /\ g[s \ {Pick(s)}] \in Nat
        BY PickFromIt
      <3> QED
        BY <3>1
    <2>2. Solves(h, n + 1)
      <3> SUFFICES ASSUME NEW s \in SUBSET S, Cardinality(s) <= n + 1
                   PROVE  h[s] = Step(h)[s]
        OBVIOUS
      <3>1. CASE s = {}
        BY <3>1
      <3>2. CASE s # {}
        <4> DEFINE r == s \ {Pick(s)}
        <4>1. r \in SUBSET S /\ Cardinality(r) <= n
          <5>1. Cardinality(r) = Cardinality(s) - 1
            BY <1>1, <3>2, PickFromIt, FS_RemoveElement
          <5> QED
            BY <1>1, <5>1
        <4>2. g[r] = h[r]
          BY <2>0, <4>1
        <4> QED
          BY <3>2, <4>1, <4>2
      <3> QED
        BY <3>1, <3>2
    <2> HIDE DEF h, Solves
    <2> QED
      BY <2>1, <2>2
  <1>4. Cardinality(S) \in N
    <2> HIDE DEF N
    <2> QED
      BY <1>1, <1>2, <1>3, NatSetInduction
  <1>5. PICK g \in [SUBSET S -> Nat] : Solves(g, Cardinality(S))
    BY <1>4
  <1>6. \A s \in SUBSET S : Cardinality(s) <= Cardinality(S)
    BY FS_Subset
  <1>7. \A s \in SUBSET S : g[s] = Step(g)[s]
    BY <1>5, <1>6
  <1>8. g = Step(g)
    <2> HIDE DEF Solves
    <2> QED
      BY <1>7
  <1> QED
    BY <1>8 DEF IsSum

LEMMA SumUnfolds ==
  ASSUME NEW S, NEW f, NEW g, IsSum(g, f, S)
  PROVE  /\ g[{}] = 0
         /\ \A s \in SUBSET S : s # {} =>
              /\ Pick(s) \in S /\ s \ {Pick(s)} \in SUBSET S
              /\ g[s] = f[Pick(s)] + g[s \ {Pick(s)}]
  BY PickFromIt DEF IsSum

LEMMA SumIsNat ==
  ASSUME NEW S, IsFiniteSet(S), NEW f \in [S -> Nat], NEW g, IsSum(g, f, S)
  PROVE  g[S] \in Nat
  <1> DEFINE T == {s \in SUBSET S : g[s] \in Nat}
  <1>1. {} \in T
    BY SumUnfolds
  <1>2. \A s \in SUBSET S : s # {} /\ s \ {Pick(s)} \in T => s \in T
    BY SumUnfolds
  <1>3. S \in T
    <2> HIDE DEF T
    <2> QED
      BY <1>1, <1>2, PickInduction
  <1> QED
    BY <1>3

LEMMA SumIsMonotone ==
  ASSUME NEW S, IsFiniteSet(S), NEW f \in [S -> Nat], NEW h \in [S -> Nat],
         \A x \in S : f[x] <= h[x],
         NEW g, IsSum(g, f, S), NEW k, IsSum(k, h, S)
  PROVE  g[S] <= k[S]
  <1> DEFINE T == {s \in SUBSET S : g[s] \in Nat /\ k[s] \in Nat /\ g[s] <= k[s]}
  <1>1. {} \in T
    BY SumUnfolds
  <1>2. \A s \in SUBSET S : s # {} /\ s \ {Pick(s)} \in T => s \in T
    <2> SUFFICES ASSUME NEW s \in SUBSET S, s # {}, s \ {Pick(s)} \in T
                 PROVE  s \in T
      OBVIOUS
    <2>1. /\ Pick(s) \in S
          /\ g[s] = f[Pick(s)] + g[s \ {Pick(s)}]
          /\ k[s] = h[Pick(s)] + k[s \ {Pick(s)}]
      BY SumUnfolds
    <2>2. f[Pick(s)] \in Nat /\ h[Pick(s)] \in Nat /\ f[Pick(s)] <= h[Pick(s)]
      BY <2>1
    <2> QED
      BY <2>1, <2>2
  <1>3. S \in T
    <2> HIDE DEF T
    <2> QED
      BY <1>1, <1>2, PickInduction
  <1> QED
    BY <1>3

LEMMA SumOfConstant ==
  ASSUME NEW S, IsFiniteSet(S), NEW c \in Nat, NEW f \in [S -> Nat],
         \A x \in S : f[x] = c, NEW g, IsSum(g, f, S)
  PROVE  g[S] = c * Cardinality(S)
  <1> DEFINE T == {s \in SUBSET S : g[s] = c * Cardinality(s)}
  <1>1. {} \in T
    BY SumUnfolds, FS_EmptySet
  <1>2. \A s \in SUBSET S : s # {} /\ s \ {Pick(s)} \in T => s \in T
    <2> SUFFICES ASSUME NEW s \in SUBSET S, s # {}, s \ {Pick(s)} \in T
                 PROVE  s \in T
      OBVIOUS
    <2>1. g[s] = c + c * Cardinality(s \ {Pick(s)})
      <3>1. Pick(s) \in S /\ g[s] = f[Pick(s)] + g[s \ {Pick(s)}]
        BY SumUnfolds
      <3> QED
        BY <3>1
    <2>2. IsFiniteSet(s) /\ Cardinality(s) \in Nat
      BY FS_Subset, FS_CardinalityType
    <2>3. Cardinality(s \ {Pick(s)}) = Cardinality(s) - 1
      BY <2>2, PickFromIt, FS_RemoveElement
    <2>4. c + c * (Cardinality(s) - 1) = c * Cardinality(s)
      BY <2>2
    <2> QED
      BY <2>1, <2>3, <2>4
  <1>3. S \in T
    <2> HIDE DEF T
    <2> QED
      BY <1>1, <1>2, PickInduction
  <1> QED
    BY <1>3

LEMMA SumOfIncrement ==
  ASSUME NEW S, IsFiniteSet(S), NEW p \in S, NEW f \in [S -> Nat],
         NEW h, \A x \in S : h[x] = IF x = p THEN f[x] + 1 ELSE f[x],
         NEW g, IsSum(g, f, S), NEW k, IsSum(k, h, S)
  PROVE  k[S] = g[S] + 1
  <1>0. \A s \in SUBSET S : s # {} => k[s] = h[Pick(s)] + k[s \ {Pick(s)}]
    <2>1. \A x : IsSum(k, x, S) => \A s \in SUBSET S : s # {} =>
            k[s] = x[Pick(s)] + k[s \ {Pick(s)}]
      BY DEF IsSum
    <2> QED
      BY <2>1
  <1> DEFINE T == {s \in SUBSET S : /\ g[s] \in Nat
                                    /\ k[s] = IF p \in s THEN g[s] + 1 ELSE g[s]}
  <1>1. {} \in T
    BY SumUnfolds
  <1>2. \A s \in SUBSET S : s # {} /\ s \ {Pick(s)} \in T => s \in T
    <2> SUFFICES ASSUME NEW s \in SUBSET S, s # {}, s \ {Pick(s)} \in T
                 PROVE  s \in T
      OBVIOUS
    <2>1. /\ Pick(s) \in S /\ Pick(s) \in s
          /\ g[s] = f[Pick(s)] + g[s \ {Pick(s)}]
          /\ k[s] = h[Pick(s)] + k[s \ {Pick(s)}]
      <3>1. k[s] = h[Pick(s)] + k[s \ {Pick(s)}]
        BY <1>0
      <3>2. Pick(s) \in S /\ g[s] = f[Pick(s)] + g[s \ {Pick(s)}]
        BY SumUnfolds
      <3> QED
        BY <3>1, <3>2, PickFromIt
    <2>2. f[Pick(s)] \in Nat /\ g[s \ {Pick(s)}] \in Nat
      BY <2>1
    <2>3. CASE Pick(s) = p
      BY <2>1, <2>2, <2>3
    <2>4. CASE Pick(s) # p
      BY <2>1, <2>2, <2>4
    <2> QED
      BY <2>3, <2>4
  <1>3. S \in T
    <2> HIDE DEF T
    <2> QED
      BY <1>1, <1>2, PickInduction
  <1> QED
    BY <1>3

----------------------------------------------------------------------------
(* The sums of EnrollmentSession, over the poses. *)

LEMMA TotalIsSum ==
  ASSUME NEW c \in [Poses -> Nat]
  PROVE  \E g : IsSum(g, c, Poses) /\ Total(c) = g[Poses]
  <1> DEFINE g == CHOOSE g : IsSum(g, c, Poses)
  <1>1. IsSum(g, c, Poses)
    BY SumExists, PolicyAssumption DEF PolicyAssumption
  <1>2. Total(c) = g[Poses]
    BY Zenon DEF Total, MapThenSumSet, MapThenFoldSet, IsSum, Pick
  <1> QED
    BY <1>1, <1>2

LEMMA TotalIsNat == ASSUME NEW c \in [Poses -> Nat] PROVE Total(c) \in Nat
  <1>1. PICK g : IsSum(g, c, Poses) /\ Total(c) = g[Poses]
    BY TotalIsSum
  <1> QED
    BY <1>1, SumIsNat, PolicyAssumption DEF PolicyAssumption

LEMMA TotalIsMonotone ==
  ASSUME NEW c \in [Poses -> Nat], NEW d \in [Poses -> Nat],
         \A p \in Poses : c[p] <= d[p]
  PROVE  Total(c) <= Total(d)
  <1>1. PICK g : IsSum(g, c, Poses) /\ Total(c) = g[Poses]
    BY TotalIsSum
  <1>2. PICK k : IsSum(k, d, Poses) /\ Total(d) = k[Poses]
    BY TotalIsSum
  <1> QED
    BY <1>1, <1>2, SumIsMonotone, PolicyAssumption DEF PolicyAssumption

LEMMA TotalOfConstant ==
  ASSUME NEW n \in Nat, NEW c \in [Poses -> Nat], \A p \in Poses : c[p] = n
  PROVE  Total(c) = n * Cardinality(Poses)
  <1>1. PICK g : IsSum(g, c, Poses) /\ Total(c) = g[Poses]
    BY TotalIsSum
  <1> QED
    BY <1>1, SumOfConstant, PolicyAssumption DEF PolicyAssumption

LEMMA TotalOfIncrement ==
  ASSUME NEW c \in [Poses -> Nat], NEW p \in Poses
  PROVE  Total([c EXCEPT ![p] = @ + 1]) = Total(c) + 1
  <1> DEFINE d == [c EXCEPT ![p] = @ + 1]
  <1>1. d \in [Poses -> Nat]
    OBVIOUS
  <1>2. PICK g : IsSum(g, c, Poses) /\ Total(c) = g[Poses]
    BY TotalIsSum
  <1>3. PICK k : IsSum(k, d, Poses) /\ Total(d) = k[Poses]
    <2> HIDE DEF d
    <2> QED
      BY <1>1, TotalIsSum
  <1>4. k[Poses] = g[Poses] + 1
    <2>1. /\ IsFiniteSet(Poses)
          /\ \A x \in Poses : d[x] = IF x = p THEN c[x] + 1 ELSE c[x]
      BY PolicyAssumption DEF PolicyAssumption
    <2> HIDE DEF d
    <2> QED
      BY <1>2, <1>3, <2>1, SumOfIncrement
  <1> QED
    BY <1>2, <1>3, <1>4

\* A total can be compared instead of each count, as validation_complete() does,
\* because no count exceeds its share (enrollment_session.cpp:183, 214-217).
LEMMA FullTotal ==
  ASSUME NEW n \in Nat, NEW c \in [Poses -> Nat], \A p \in Poses : c[p] <= n
  PROVE  /\ Total(c) <= n * Cardinality(Poses)
         /\ Total(c) = n * Cardinality(Poses) => \A p \in Poses : c[p] = n
  <1> DEFINE full == [p \in Poses |-> n]
  <1>1. full \in [Poses -> Nat] /\ Total(full) = n * Cardinality(Poses)
    <2>1. full \in [Poses -> Nat] /\ \A p \in Poses : full[p] = n
      OBVIOUS
    <2> HIDE DEF full
    <2> QED
      BY <2>1, TotalOfConstant
  <1>2. Total(c) <= Total(full)
    <2>1. \A p \in Poses : c[p] <= full[p]
      OBVIOUS
    <2> HIDE DEF full
    <2> QED
      BY <1>1, <2>1, TotalIsMonotone
  <1>3. ASSUME NEW p \in Poses, c[p] # n
        PROVE  Total(c) < n * Cardinality(Poses)
    <2> DEFINE d == [c EXCEPT ![p] = @ + 1]
    <2>1. d \in [Poses -> Nat] /\ \A q \in Poses : d[q] <= full[q]
      BY <1>3
    <2>2. Total(d) = Total(c) + 1
      BY TotalOfIncrement
    <2>3. Total(d) <= Total(full)
      <3> HIDE DEF d, full
      <3> QED
        BY <1>1, <2>1, TotalIsMonotone
    <2>4. Total(c) \in Nat /\ Total(full) \in Nat
      <3> HIDE DEF full
      <3> QED
        BY <1>1, TotalIsNat
    <2> HIDE DEF d, full
    <2> QED
      BY <1>1, <2>2, <2>3, <2>4
  <1>4. Total(c) \in Nat /\ Cardinality(Poses) \in Nat
    BY TotalIsNat, PolicyAssumption DEF PolicyAssumption
  <1>5. Total(c) <= n * Cardinality(Poses)
    <2> HIDE DEF full
    <2> QED
      BY <1>1, <1>2
  <1> QED
    BY <1>3, <1>4, <1>5

\* What builder_->progress_percent() sums up: a pose counts up to its target.
Capped(c) == [p \in Poses |-> Min({c[p], TargetPerPose})]

LEMMA CappedIsTyped ==
  ASSUME NEW c \in [Poses -> Nat]
  PROVE  /\ Capped(c) \in [Poses -> Nat]
         /\ \A p \in Poses :
              Capped(c)[p] = IF c[p] <= TargetPerPose THEN c[p] ELSE TargetPerPose
  <1>1. TargetPerPose \in Nat
    BY PolicyAssumption DEF PolicyAssumption
  <1>2. ASSUME NEW p \in Poses
        PROVE  Min({c[p], TargetPerPose})
                 = IF c[p] <= TargetPerPose THEN c[p] ELSE TargetPerPose
    <2>1. c[p] \in Nat
      OBVIOUS
    <2> QED
      BY <1>1, <2>1 DEF Min
  <1> QED
    BY <1>1, <1>2 DEF Capped

LEMMA CappedSum ==
  ASSUME NEW c \in [Poses -> Nat]
  PROVE  MapThenSumSet(LAMBDA p : Min({c[p], TargetPerPose}), Poses)
           = Total(Capped(c))
  <1> DEFINE P(g) == g = [s \in SUBSET Poses |->
               IF s = {} THEN 0
               ELSE Min({c[Pick(s)], TargetPerPose}) + g[s \ {Pick(s)}]]
             g == CHOOSE g : P(g)
  <1>1. \A h : P(h) <=> IsSum(h, Capped(c), Poses)
    <2>1. \A s \in SUBSET Poses : s # {} =>
            Capped(c)[Pick(s)] = Min({c[Pick(s)], TargetPerPose})
      BY PickFromIt DEF Capped
    <2> QED
      BY <2>1 DEF IsSum
  <1>2. Capped(c) \in [Poses -> Nat]
    BY CappedIsTyped
  <1>3. PICK k : IsSum(k, Capped(c), Poses) /\ Total(Capped(c)) = k[Poses]
    BY <1>2, TotalIsSum
  <1>4. P(g)
    <2>1. \E h : P(h)
      BY <1>1, <1>3
    <2> HIDE DEF P
    <2> QED
      BY <2>1
  <1>5. MapThenSumSet(LAMBDA p : Min({c[p], TargetPerPose}), Poses) = g[Poses]
    BY Zenon DEF MapThenSumSet, MapThenFoldSet, Pick
  <1>6. IsSum(g, Capped(c), Poses)
    BY <1>1, <1>4
  <1> HIDE DEF g, P
  <1>7. g[Poses] <= k[Poses] /\ k[Poses] <= g[Poses]
    <2>1. \A p \in Poses : Capped(c)[p] \in Nat /\ Capped(c)[p] <= Capped(c)[p]
      BY <1>2
    <2> QED
      BY <1>2, <1>3, <1>6, <2>1, SumIsMonotone, PolicyAssumption
         DEF PolicyAssumption
  <1>8. g[Poses] \in Nat /\ k[Poses] \in Nat
    BY <1>2, <1>3, <1>6, SumIsNat, PolicyAssumption DEF PolicyAssumption
  <1> QED
    BY <1>3, <1>5, <1>7, <1>8

----------------------------------------------------------------------------
(* The inductive invariant. *)

\* The held-out counts stay at zero until the training is complete.
HeldoutAfterTraining ==
  /\ session \in {"Idle", "Collecting", "Cancelled"} => heldout = None
  /\ session \in {"Validating", "Ready"} => Trained(training)

\* The session is Ready exactly when the held-out total is complete.
ReadyWhenValidated ==
  session \in {"Ready", "Committed"} <=> Total(heldout) = HeldoutRequired

IInv == HeldoutAfterTraining /\ ReadyWhenValidated

LEMMA PolicyIsNat ==
  /\ TargetPerPose \in 1..20 /\ HeldoutPerPose \in 1..5
  /\ Cardinality(Poses) \in 1..5
  /\ TrainingRequired \in 1..100 /\ HeldoutRequired \in 1..25
  BY PolicyAssumption DEF PolicyAssumption, TrainingRequired, HeldoutRequired

LEMMA CountsAreNat ==
  TypeOK => /\ training \in [Poses -> Nat] /\ heldout \in [Poses -> Nat]
            /\ \A p \in Poses : heldout[p] <= HeldoutPerPose
  <1>1. MaximumPerPose \in Nat /\ HeldoutPerPose \in Nat
    BY PolicyAssumption DEF PolicyAssumption
  <1> QED
    BY <1>1 DEF TypeOK

LEMMA NothingHeldOut == Total(None) = 0
  <1>1. None \in [Poses -> Nat] /\ \A p \in Poses : None[p] = 0
    BY DEF None
  <1>2. Total(None) = 0 * Cardinality(Poses)
    BY <1>1, TotalOfConstant
  <1> QED
    BY <1>2, PolicyIsNat

\* One sample more is one more in one of the two totals.
LEMMA OneMoreSample ==
  ASSUME TypeOK, NEW p \in Poses
  PROVE  /\ Total([training EXCEPT ![p] = @ + 1]) = Total(training) + 1
         /\ Total([heldout EXCEPT ![p] = @ + 1]) = Total(heldout) + 1
         /\ Total(training) \in Nat /\ Total(heldout) \in Nat
  BY CountsAreNat, TotalOfIncrement, TotalIsNat

LEMMA ErasedStep == TypeOK /\ ErasedWhenOver /\ [Next]_vars => ErasedWhenOver'
  <1> SUFFICES ASSUME TypeOK, ErasedWhenOver, [Next]_vars PROVE ErasedWhenOver'
    OBVIOUS
  <1> USE DEF ErasedWhenOver
  <1>1. CASE Start
    BY <1>1, NothingHeldOut DEF Start
  <1>2. ASSUME NEW p \in Poses, AddTraining(p) PROVE ErasedWhenOver'
    <2>1. accepted = Total(training) + Total(heldout)
      BY <1>2 DEF AddTraining, Collecting
    <2>2. /\ accepted' = accepted + 1 /\ UNCHANGED heldout
          /\ training' = [training EXCEPT ![p] = @ + 1]
      BY <1>2 DEF AddTraining
    <2>3. /\ Total(training') = Total(training) + 1 /\ Total(heldout') = Total(heldout)
          /\ Total(training) \in Nat /\ Total(heldout) \in Nat
      BY <2>2, OneMoreSample, Zenon
    <2>4. accepted' = Total(training') + Total(heldout')
      BY <2>1, <2>2, <2>3
    <2> QED
      BY <1>2, <2>4 DEF AddTraining, Collecting, FinishTraining
  <1>3. ASSUME NEW p \in Poses, AddHeldout(p) PROVE ErasedWhenOver'
    <2>1. accepted = Total(training) + Total(heldout)
      BY <1>3 DEF AddHeldout
    <2>2. /\ accepted' = accepted + 1 /\ UNCHANGED training
          /\ heldout' = [heldout EXCEPT ![p] = @ + 1]
      BY <1>3 DEF AddHeldout
    <2>3. /\ Total(heldout') = Total(heldout) + 1 /\ Total(training') = Total(training)
          /\ Total(training) \in Nat /\ Total(heldout) \in Nat
      BY <2>2, OneMoreSample, Zenon
    <2>4. accepted' = Total(training') + Total(heldout')
      BY <2>1, <2>2, <2>3
    <2> QED
      BY <1>3, <2>4 DEF AddHeldout
  <1>4. CASE RefuseTraining
    BY <1>4 DEF RefuseTraining, Collecting, FinishTraining
  <1>5. CASE Cancel
    BY <1>5 DEF Cancel
  <1>6. CASE MarkCommitted
    BY <1>6 DEF MarkCommitted
  <1>7. CASE UNCHANGED vars
    BY <1>7 DEF vars, None
  <1> QED
    BY <1>1, <1>2, <1>3, <1>4, <1>5, <1>6, <1>7 DEF Next, AddSample

\* A session that was cancelled or committed holds no training sample and no
\* candidate profile, and a cancelled one no held-out counts either; one that is under
\* way has counted what it holds and nothing else (enrollment_session.cpp:48-60).
THEOREM NothingOutlivesASession == Spec => []ErasedWhenOver
  <1>1. Init => ErasedWhenOver
    BY DEF Init, ErasedWhenOver
  <1> QED
    BY <1>1, ErasedStep, TypeCorrect, PTL DEF Spec

LEMMA NotValidatedAtFirst == heldout = None => Total(heldout) # HeldoutRequired
  BY NothingHeldOut, PolicyIsNat

LEMMA IInvInit == Init => IInv
  BY NotValidatedAtFirst
     DEF Init, IInv, HeldoutAfterTraining, ReadyWhenValidated

LEMMA IInvStep == TypeOK /\ IInv /\ [Next]_vars => IInv'
  <1> SUFFICES ASSUME TypeOK, IInv, [Next]_vars PROVE IInv'
    OBVIOUS
  <1> USE DEF IInv, HeldoutAfterTraining, ReadyWhenValidated
  <1>1. heldout' = None => Total(heldout') # HeldoutRequired
    BY NothingHeldOut, PolicyIsNat
  <1>2. CASE Start
    BY <1>1, <1>2 DEF Start
  <1>3. ASSUME NEW p \in Poses, AddTraining(p) PROVE IInv'
    BY <1>1, <1>3 DEF AddTraining, Collecting, FinishTraining
  <1>4. ASSUME NEW p \in Poses, AddHeldout(p) PROVE IInv'
    BY <1>4 DEF AddHeldout, Validated, HeldoutRequired
  <1>5. CASE RefuseTraining
    BY <1>1, <1>5 DEF RefuseTraining, Collecting, FinishTraining
  <1>6. CASE Cancel
    BY <1>1, <1>6 DEF Cancel
  <1>7. CASE MarkCommitted
    BY <1>7 DEF MarkCommitted, CanCommit
  <1>8. CASE UNCHANGED vars
    BY <1>8 DEF vars, Trained
  <1> QED
    BY <1>2, <1>3, <1>4, <1>5, <1>6, <1>7, <1>8 DEF Next, AddSample

LEMMA Invariance == Spec => [](TypeOK /\ IInv)
  BY IInvInit, IInvStep, TypeCorrect, PTL DEF Spec

\* A session is Ready only with every training and every held-out sample of every
\* pose, although validation_complete() compares a total
\* (enrollment_session.cpp:214-217): no pose can make up for another.
THEOREM ReadyAlwaysCovers == Spec => []ReadyCoversEveryPose
  <1>1. TypeOK /\ IInv => ReadyCoversEveryPose
    <2> SUFFICES ASSUME TypeOK, IInv, session \in {"Ready", "Committed"}
                 PROVE  /\ \A p \in Poses : heldout[p] = HeldoutPerPose
                        /\ session = "Ready" => Trained(training)
      BY DEF ReadyCoversEveryPose
    <2>1. Total(heldout) = HeldoutPerPose * Cardinality(Poses)
      BY DEF IInv, ReadyWhenValidated, HeldoutRequired
    <2>2. HeldoutPerPose \in Nat
      BY PolicyIsNat
    <2> QED
      BY <2>1, <2>2, CountsAreNat, FullTotal DEF IInv, HeldoutAfterTraining
  <1> QED
    BY <1>1, Invariance, PTL

----------------------------------------------------------------------------
(* Percentages. *)

\* A division and its bounds, all there is to know of the code's rounding.
LEMMA DivisionBounds ==
  ASSUME NEW a \in Nat, NEW b \in Nat, b > 0
  PROVE  /\ a \div b \in Nat
         /\ \A n \in Nat : a < (n + 1) * b => a \div b <= n
         /\ a \div b = 100 <=> 100 * b <= a /\ a < 101 * b
  OBVIOUS

LEMMA DivisionIsMonotone ==
  ASSUME NEW a \in Nat, NEW b \in Nat, NEW c \in Nat, b > 0, a <= c
  PROVE  a \div b <= c \div b
  OBVIOUS

LEMMA ProductIsMonotone ==
  ASSUME NEW a \in Nat, NEW b \in Nat, NEW c \in Nat, a <= c
  PROVE  a * b \in Nat /\ a * b <= c * b
  OBVIOUS

\* A percentage reaches 100 with the whole only, for every whole up to 199.
LEMMA PercentIsHonest ==
  ASSUME NEW whole \in 1..199, NEW part \in 0..whole
  PROVE  /\ Percent(part, whole) \in 0..100
         /\ Percent(part, whole) = 100 <=> part = whole
  <1> DEFINE a == part * 100 + whole \div 2
  <1>1. whole \div 2 \in 0..99 /\ whole \div 2 < whole
    OBVIOUS
  <1>2. a \in Nat /\ a < 101 * whole
    BY <1>1
  <1>3. a \div whole \in Nat /\ a \div whole <= 100
    BY <1>2, DivisionBounds
  <1>4. a \div whole = 100 <=> 100 * whole <= a
    BY <1>2, DivisionBounds
  <1>5. 100 * whole <= a <=> part = whole
    BY <1>1
  <1> QED
    BY <1>3, <1>4, <1>5 DEF Percent

LEMMA PercentIsMonotone ==
  ASSUME NEW whole \in 1..199, NEW part \in 0..whole, NEW more \in 0..whole,
         part <= more
  PROVE  Percent(part, whole) <= Percent(more, whole)
  <1>1. /\ whole \div 2 \in Nat /\ whole \in Nat /\ whole > 0
        /\ part * 100 + whole \div 2 \in Nat
        /\ more * 100 + whole \div 2 \in Nat
        /\ part * 100 + whole \div 2 <= more * 100 + whole \div 2
    OBVIOUS
  <1> QED
    BY <1>1, DivisionIsMonotone DEF Percent

\* Progress while there is a builder, from the two stages' own numbers.
Combined(percent, held) ==
  (percent * TrainingRequired + held * 100
     + (TrainingRequired + HeldoutRequired) \div 2)
    \div (TrainingRequired + HeldoutRequired)

LEMMA CombinedIsHonest ==
  ASSUME NEW percent \in 0..100, NEW held \in 0..HeldoutRequired
  PROVE  /\ Combined(percent, held) \in 0..100
         /\ held # HeldoutRequired => Combined(percent, held) # 100
  <1> DEFINE required == TrainingRequired + HeldoutRequired
             a == percent * TrainingRequired + held * 100 + required \div 2
  <1>1. /\ TrainingRequired \in 1..100 /\ HeldoutRequired \in 1..25
        /\ required \in 1..125 /\ required \div 2 \in 0..62
        /\ required \div 2 < required
    BY PolicyIsNat
  <1>2. /\ percent * TrainingRequired \in Nat
        /\ percent * TrainingRequired <= 100 * TrainingRequired
    BY <1>1, ProductIsMonotone
  <1>3. a \in Nat /\ a < 101 * required
    BY <1>1, <1>2
  <1>4. held # HeldoutRequired => a < 100 * required
    BY <1>1, <1>2
  <1> HIDE DEF a
  <1>5. a \div required \in Nat /\ a \div required <= 100
    BY <1>1, <1>3, DivisionBounds
  <1>6. a \div required = 100 => 100 * required <= a
    BY <1>1, <1>3, DivisionBounds
  <1>7. held # HeldoutRequired => a \div required # 100
    BY <1>1, <1>3, <1>4, <1>6
  <1> QED
    BY <1>5, <1>7 DEF Combined, a

LEMMA CombinedIsMonotone ==
  ASSUME NEW percent \in 0..100, NEW more \in 0..100, percent <= more,
         NEW held \in 0..HeldoutRequired, NEW further \in 0..HeldoutRequired,
         held <= further
  PROVE  Combined(percent, held) <= Combined(more, further)
  <1> DEFINE required == TrainingRequired + HeldoutRequired
             a == percent * TrainingRequired + held * 100 + required \div 2
             c == more * TrainingRequired + further * 100 + required \div 2
  <1>1. /\ TrainingRequired \in 1..100 /\ HeldoutRequired \in 1..25
        /\ required \in 1..125 /\ required \div 2 \in 0..62
    BY PolicyIsNat
  <1>2. /\ percent * TrainingRequired \in Nat /\ more * TrainingRequired \in Nat
        /\ percent * TrainingRequired <= more * TrainingRequired
    BY <1>1, ProductIsMonotone
  <1>3. a \in Nat /\ c \in Nat /\ a <= c
    BY <1>1, <1>2
  <1> HIDE DEF a, c
  <1>4. a \div required <= c \div required
    BY <1>1, <1>3, DivisionIsMonotone
  <1> QED
    BY <1>4 DEF Combined, a, c

LEMMA HeldoutIsPart == TypeOK => Total(heldout) \in 0..HeldoutRequired
  <1> SUFFICES ASSUME TypeOK PROVE Total(heldout) \in 0..HeldoutRequired
    OBVIOUS
  <1>1. HeldoutPerPose \in Nat /\ HeldoutRequired \in Nat
    BY PolicyIsNat
  <1>2. Total(heldout) \in Nat
    BY CountsAreNat, TotalIsNat
  <1>3. Total(heldout) <= HeldoutPerPose * Cardinality(Poses)
    BY <1>1, CountsAreNat, FullTotal
  <1> QED
    BY <1>1, <1>2, <1>3 DEF HeldoutRequired

LEMMA TrainingIsPart ==
  ASSUME NEW c \in [Poses -> Nat]
  PROVE  Total(Capped(c)) \in 0..TrainingRequired
  <1>1. TargetPerPose \in Nat /\ TrainingRequired \in Nat
    BY PolicyIsNat
  <1>2. /\ Capped(c) \in [Poses -> Nat]
        /\ \A p \in Poses : Capped(c)[p] <= TargetPerPose
    BY <1>1, CappedIsTyped
  <1>3. Total(Capped(c)) \in Nat
    BY <1>2, TotalIsNat
  <1>4. Total(Capped(c)) <= TargetPerPose * Cardinality(Poses)
    BY <1>1, <1>2, FullTotal
  <1> QED
    BY <1>1, <1>3, <1>4 DEF TrainingRequired

TrainingPercent(c) == Percent(Total(Capped(c)), TrainingRequired)

LEMMA TrainingPercentBounds ==
  ASSUME NEW c \in [Poses -> Nat] PROVE TrainingPercent(c) \in 0..100
  <1>1. Total(Capped(c)) \in 0..TrainingRequired
    BY TrainingIsPart
  <1>2. TrainingRequired \in 1..199
    BY PolicyIsNat
  <1> QED
    BY <1>1, <1>2, PercentIsHonest DEF TrainingPercent

LEMMA TrainingPercentIsMonotone ==
  ASSUME NEW c \in [Poses -> Nat], NEW d \in [Poses -> Nat],
         \A p \in Poses : c[p] <= d[p]
  PROVE  TrainingPercent(c) <= TrainingPercent(d)
  <1>1. /\ Total(Capped(c)) \in 0..TrainingRequired
        /\ Total(Capped(d)) \in 0..TrainingRequired
    BY TrainingIsPart
  <1>2. Capped(c) \in [Poses -> Nat] /\ Capped(d) \in [Poses -> Nat]
    BY CappedIsTyped
  <1>3. \A p \in Poses : Capped(c)[p] <= Capped(d)[p]
    <2>1. TargetPerPose \in Nat
      BY PolicyIsNat
    <2>2. \A p \in Poses : c[p] \in Nat /\ d[p] \in Nat
      OBVIOUS
    <2> QED
      BY <2>1, <2>2, CappedIsTyped
  <1>4. Total(Capped(c)) <= Total(Capped(d))
    BY <1>2, <1>3, TotalIsMonotone
  <1>5. TrainingRequired \in 1..199
    BY PolicyIsNat
  <1> QED
    BY <1>1, <1>4, <1>5, PercentIsMonotone DEF TrainingPercent

\* Progress, with the sums it is made of.
LEMMA ProgressIs ==
  TypeOK =>
    Progress = IF session \in {"Ready", "Committed"} THEN 100
               ELSE IF builder
               THEN Combined(TrainingPercent(training), Total(heldout))
               ELSE 0
  <1>1. TypeOK => TrainingProgress = TrainingPercent(training)
    BY CountsAreNat, CappedSum DEF TrainingProgress, TrainingPercent
  <1> QED
    BY <1>1 DEF Progress, Combined

\* 100 percent, of the whole or of the held-out part, is shown for a session that
\* is Ready or Committed and for no other, whatever the rounding
\* (enrollment_session.cpp:278-291).
THEOREM ProgressIsAlwaysHonest == Spec => []ProgressIsHonest
  <1>1. TypeOK /\ IInv => ProgressIsHonest
    <2> SUFFICES ASSUME TypeOK, IInv PROVE ProgressIsHonest
      OBVIOUS
    <2>1. Total(heldout) \in 0..HeldoutRequired /\ HeldoutRequired \in 1..199
      BY HeldoutIsPart, PolicyIsNat
    <2>2. HeldoutProgress = 100 <=> session \in {"Ready", "Committed"}
      <3>1. HeldoutProgress = 100 <=> Total(heldout) = HeldoutRequired
        BY <2>1, PercentIsHonest DEF HeldoutProgress
      <3> QED
        BY <3>1 DEF IInv, ReadyWhenValidated
    <2>3. TrainingPercent(training) \in 0..100
      BY CountsAreNat, TrainingPercentBounds
    <2>4. session \notin {"Ready", "Committed"} =>
            Combined(TrainingPercent(training), Total(heldout)) # 100
      BY <2>1, <2>3, CombinedIsHonest DEF IInv, ReadyWhenValidated
    <2>5. Progress = 100 <=> session \in {"Ready", "Committed"}
      BY <2>4, ProgressIs
    <2> QED
      BY <2>2, <2>5 DEF ProgressIsHonest
  <1> QED
    BY <1>1, Invariance, PTL

LEMMA ProgressBounds == TypeOK => Progress \in 0..100
  <1> SUFFICES ASSUME TypeOK PROVE Progress \in 0..100
    OBVIOUS
  <1>1. Total(heldout) \in 0..HeldoutRequired
    BY HeldoutIsPart
  <1>2. TrainingPercent(training) \in 0..100
    BY CountsAreNat, TrainingPercentBounds
  <1>3. Combined(TrainingPercent(training), Total(heldout)) \in 0..100
    BY <1>1, <1>2, CombinedIsHonest
  <1> QED
    BY <1>3, ProgressIs

\* A sample counts in one stage and lowers nothing in the other; also where the
\* stages meet, the session's progress goes on from where it was.
LEMMA SampleRaisesProgress ==
  ASSUME TypeOK, TypeOK', builder, builder',
         session \notin {"Ready", "Committed"},
         \A p \in Poses : training[p] <= training'[p],
         \A p \in Poses : heldout[p] <= heldout'[p]
  PROVE  Progress' >= Progress
  <1>0. /\ (TypeOK => Progress \in 0..100)'
        /\ (TypeOK => Total(heldout) \in 0..HeldoutRequired)'
    BY ProgressBounds, HeldoutIsPart, PTL
  <1>1. /\ training \in [Poses -> Nat] /\ heldout \in [Poses -> Nat]
        /\ (training \in [Poses -> Nat] /\ heldout \in [Poses -> Nat])'
    BY CountsAreNat, PTL
  <1>2. CASE session' \in {"Ready", "Committed"}
    <2>1. Progress' = 100
      BY <1>2 DEF Progress
    <2> QED
      BY <2>1, ProgressBounds
  <1>3. CASE session' \notin {"Ready", "Committed"}
    <2>1. Progress = Combined(TrainingPercent(training), Total(heldout))
      BY ProgressIs
    <2>2. Progress' = Combined(TrainingPercent(training'), Total(heldout'))
      <3>1. (TypeOK =>
               Progress = IF session \in {"Ready", "Committed"} THEN 100
                          ELSE IF builder
                          THEN Combined(TrainingPercent(training), Total(heldout))
                          ELSE 0)'
        BY ProgressIs, PTL
      <3> QED
        BY <1>3, <3>1
    <2>3. /\ TrainingPercent(training) \in 0..100
          /\ TrainingPercent(training') \in 0..100
          /\ TrainingPercent(training) <= TrainingPercent(training')
      BY <1>1, TrainingPercentBounds, TrainingPercentIsMonotone
    <2>4. /\ Total(heldout) \in 0..HeldoutRequired
          /\ Total(heldout') \in 0..HeldoutRequired
          /\ Total(heldout) <= Total(heldout')
      BY <1>0, <1>1, HeldoutIsPart, TotalIsMonotone
    <2>5. Combined(TrainingPercent(training), Total(heldout))
            <= Combined(TrainingPercent(training'), Total(heldout'))
      BY <2>3, <2>4, CombinedIsMonotone
    <2>6. Progress \in 0..100 /\ Progress' \in 0..100
      BY <1>0, ProgressBounds
    <2> QED
      BY <2>1, <2>2, <2>5, <2>6
  <1> QED
    BY <1>2, <1>3

\* What the user is shown never falls while a session lasts
\* (enrollment_session.cpp:278-291): only starting over and cancelling lower it.
THEOREM ProgressNeverGoesBack == Spec => ProgressNeverFalls
  <1>1. /\ TypeOK /\ TypeOK' /\ ErasedWhenOver /\ [Next]_vars
        => [Start \/ Cancel \/ Progress' >= Progress]_vars
    <2> SUFFICES ASSUME TypeOK, TypeOK', ErasedWhenOver, Next, ~Start, ~Cancel
                 PROVE  Progress' >= Progress
      OBVIOUS
    <2>0. /\ \A p \in Poses : training[p] \in Nat /\ heldout[p] \in Nat
          /\ training \in [Poses -> Nat] /\ heldout \in [Poses -> Nat]
      BY CountsAreNat
    <2>1. ASSUME NEW p \in Poses, AddTraining(p) PROVE Progress' >= Progress
      <3>1. /\ builder /\ builder' /\ session = "Collecting"
            /\ training' = [training EXCEPT ![p] = @ + 1]
            /\ heldout' = heldout
        BY <2>1 DEF AddTraining, Collecting
      <3>2. /\ \A q \in Poses : training[q] <= training'[q]
            /\ \A q \in Poses : heldout[q] <= heldout'[q]
        BY <2>0, <3>1
      <3> QED
        BY <3>1, <3>2, SampleRaisesProgress
    <2>2. ASSUME NEW p \in Poses, AddHeldout(p) PROVE Progress' >= Progress
      <3>1. /\ builder /\ builder' /\ session = "Validating"
            /\ heldout' = [heldout EXCEPT ![p] = @ + 1]
            /\ training' = training
        BY <2>2 DEF AddHeldout, ErasedWhenOver
      <3>2. /\ \A q \in Poses : training[q] <= training'[q]
            /\ \A q \in Poses : heldout[q] <= heldout'[q]
        BY <2>0, <3>1
      <3> QED
        BY <3>1, <3>2, SampleRaisesProgress
    <2>3. CASE RefuseTraining
      <3>1. /\ builder /\ builder' /\ session = "Collecting"
            /\ training' = training /\ heldout' = heldout
        BY <2>3 DEF RefuseTraining, Collecting
      <3>2. /\ \A q \in Poses : training[q] <= training'[q]
            /\ \A q \in Poses : heldout[q] <= heldout'[q]
        BY <2>0, <3>1
      <3> QED
        BY <3>1, <3>2, SampleRaisesProgress
    <2>4. CASE MarkCommitted
      <3>1. Progress = 100 /\ Progress' = 100
        BY <2>4 DEF MarkCommitted, CanCommit, Progress
      <3> QED
        BY <3>1
    <2> QED
      BY <2>1, <2>2, <2>3, <2>4 DEF Next, AddSample
  <1> QED
    BY <1>1, TypeCorrect, NothingOutlivesASession, PTL
       DEF Spec, ProgressNeverFalls
=============================================================================
