------------------------ MODULE LockScreenAuthProofs ------------------------
(***************************************************************************)
(* A finished attempt at the lock screen stays finished, and no candidate  *)
(* is compared too late, too often or in changing light, for every policy  *)
(* the constructor accepts.                                                *)
(***************************************************************************)
EXTENDS LockScreenAuth, TLAPS

\* What the illumination's flags and its two times have to do with each other.
IlluminationIsTimed ==
  /\ active => requested /\ shownAt # -1 /\ readyAt = shownAt + Settle
  /\ shownAt # -1 => active

IInv == TypeOK /\ CandidatesAreFair /\ IlluminationIsTimed

\* A fresh session (lockscreen_auth.h:60-68).
LEMMA InitHolds == Init => IInv
<1> SUFFICES ASSUME Init PROVE IInv
  OBVIOUS
<1> USE PolicyAssumption DEF Init
<1>1. TypeOK
  <2>1. /\ candidates \in 0..MaximumCandidates /\ clock \in 0..Deadline
        /\ elapsed \in Nat /\ readyAt \in Nat
        /\ counted \in Nat \cup {-1} /\ shownAt \in Nat \cup {-1}
    OBVIOUS
  <2>2. requested \in BOOLEAN /\ active \in BOOLEAN /\ lit \in BOOLEAN
    OBVIOUS
  <2>3. action \in Actions /\ reason \in Reasons
    BY DEF Actions, Reasons
  <2> QED
    BY <2>1, <2>2, <2>3 DEF TypeOK
<1>2. counted < Deadline /\ candidates < MaximumCandidates
  OBVIOUS
<1>3. CandidatesAreFair
  BY <1>2 DEF CandidatesAreFair, terminal
<1>4. IlluminationIsTimed
  BY DEF IlluminationIsTimed
<1> QED
  BY <1>1, <1>3, <1>4 DEF IInv

\* Each call, whatever the time it brings.
LEMMA CallsKeepIInv ==
  ASSUME IInv, NEW t \in 0..clock, Observe(t) \/ Acknowledge(t)
  PROVE  IInv'
<1> USE PolicyAssumption
<1>1. t \in Nat /\ t <= Deadline
  BY DEF IInv, TypeOK
<1>2. CASE DeadlineReached(t)
  BY <1>1, <1>2
     DEF DeadlineReached, Called, Finish, illumination, history, IInv, TypeOK,
         CandidatesAreFair, IlluminationIsTimed, Actions, Reasons, terminal
<1>3. CASE AskForLight(t)
  BY <1>1, <1>3
     DEF AskForLight, InTime, Called, verdict, history, IInv, TypeOK,
         CandidatesAreFair, IlluminationIsTimed, Actions, Reasons, terminal
<1>4. ASSUME NEW lowLight \in BOOLEAN, NEW matched \in BOOLEAN,
             CountCandidate(t, lowLight, matched)
      PROVE  IInv'
  <2>1. ~terminal /\ t < Deadline /\ candidates < MaximumCandidates
    BY <1>4 DEF CountCandidate, InTime, Called, IInv, CandidatesAreFair
  <2>2. lit'
    BY <1>1, <1>4
       DEF CountCandidate, SeesClearly, IInv, TypeOK, IlluminationIsTimed,
           CandidatesAreFair
  <2>3. candidates' = candidates + 1 /\ candidates' \in 1..MaximumCandidates
    BY <1>4, <2>1 DEF CountCandidate, IInv, TypeOK
  <2>4. TypeOK'
    BY <1>1, <1>4, <2>2, <2>3
       DEF CountCandidate, InTime, Called, Finish, illumination, verdict, IInv,
           TypeOK, Actions, Reasons
  <2>5. CandidatesAreFair'
    BY <1>4, <2>1, <2>2, <2>3
       DEF CountCandidate, Finish, verdict, IInv, TypeOK, CandidatesAreFair,
           terminal
  <2>6. IlluminationIsTimed'
    BY <1>4 DEF CountCandidate, illumination, IInv, IlluminationIsTimed
  <2> QED
    BY <2>4, <2>5, <2>6 DEF IInv
<1>5. CASE KeepWaiting(t)
  BY <1>1, <1>5
     DEF KeepWaiting, InTime, Called, illumination, verdict, history, IInv, TypeOK,
         CandidatesAreFair, IlluminationIsTimed, Actions, Reasons, terminal
<1>6. CASE Acknowledge(t)
  <2>1. /\ candidates' = candidates /\ counted' = counted /\ lit' = lit
        /\ action' = action /\ reason' = reason /\ clock' = clock
        /\ elapsed' = t /\ requested' = requested
    BY <1>6 DEF Acknowledge, InTime, Called, illumination, verdict
  <2>2. CandidatesAreFair'
    BY <2>1 DEF IInv, CandidatesAreFair, terminal
  <2>3. CASE active
    BY <1>1, <1>6, <2>1, <2>2, <2>3
       DEF Acknowledge, illumination, IInv, TypeOK, IlluminationIsTimed
  <2>4. CASE ~active
    <3>1. /\ active' = TRUE /\ requested' = TRUE
          /\ readyAt' = t + Settle /\ shownAt' = t
      BY <1>6, <2>1, <2>4 DEF Acknowledge, IInv, TypeOK
    <3>2. readyAt' \in Nat /\ shownAt' \in Nat
      BY <1>1, <3>1
    <3>3. TypeOK'
      BY <1>1, <2>1, <3>1, <3>2 DEF IInv, TypeOK
    <3>4. shownAt' # -1
      BY <3>2
    <3>5. IlluminationIsTimed'
      BY <3>1, <3>4 DEF IlluminationIsTimed
    <3> QED
      BY <2>2, <3>3, <3>5 DEF IInv
  <2> QED
    BY <2>3, <2>4
<1> QED
  BY <1>2, <1>3, <1>4, <1>5, <1>6 DEF Observe

LEMMA StepKeepsIInv == IInv /\ [Next]_vars => IInv'
<1> SUFFICES ASSUME IInv, [Next]_vars PROVE IInv'
  OBVIOUS
<1>1. CASE \E t \in 0..clock : Observe(t) \/ Acknowledge(t)
  BY <1>1, CallsKeepIInv
<1>2. CASE Cancel
  BY <1>2
     DEF Cancel, Finish, illumination, history, IInv, TypeOK, CandidatesAreFair,
         IlluminationIsTimed, Actions, Reasons, terminal
<1>3. CASE TimePasses
  <2>1. UNCHANGED <<candidates, elapsed, illumination, verdict, history>>
    BY <1>3 DEF TimePasses
  <2>2. clock' \in 0..Deadline
    BY <1>3, PolicyAssumption DEF TimePasses, IInv, TypeOK
  <2>3. TypeOK'
    BY <2>1, <2>2 DEF illumination, verdict, history, IInv, TypeOK
  <2> QED
    BY <2>1, <2>3
       DEF illumination, verdict, history, IInv, CandidatesAreFair,
           IlluminationIsTimed, terminal
<1>4. CASE Done \/ UNCHANGED vars
  <2>1. UNCHANGED vars
    BY <1>4 DEF Done
  <2>2. TypeOK'
    BY <2>1 DEF vars, illumination, verdict, history, IInv, TypeOK
  <2>3. CandidatesAreFair'
    BY <2>1
       DEF vars, illumination, verdict, history, IInv, CandidatesAreFair, terminal
  <2>4. IlluminationIsTimed'
    BY <2>1 DEF vars, illumination, verdict, history, IInv, IlluminationIsTimed
  <2> QED
    BY <2>2, <2>3, <2>4 DEF IInv
<1> QED
  BY <1>1, <1>2, <1>3, <1>4 DEF Next

\* Type correctness: also no more candidates than policy_.maximum_candidates
\* (lockscreen_auth.cpp:111-122).
THEOREM TypeCorrect == Spec => []TypeOK
<1>1. IInv => TypeOK
  BY DEF IInv
<1> QED
  BY InitHolds, StepKeepsIInv, <1>1, PTL DEF Spec

\* Every candidate is compared in time, within the limit and in steady light
\* (lockscreen_auth.cpp:79-118).
THEOREM CandidatesAreAlwaysFair == Spec => []CandidatesAreFair
<1>1. IInv => CandidatesAreFair
  BY DEF IInv
<1> QED
  BY InitHolds, StepKeepsIInv, <1>1, PTL DEF Spec

\* No call changes a verdict (lockscreen_auth.cpp:70, 130, 171).
THEOREM VerdictStaysFinal == Spec => VerdictIsFinal
<1>1. [Next]_vars => [terminal => UNCHANGED <<verdict, candidates>>]_vars
  <2> SUFFICES ASSUME Next, terminal
               PROVE  UNCHANGED <<verdict, candidates>>
    OBVIOUS
  <2>1. ASSUME NEW t \in 0..clock, Observe(t) \/ Acknowledge(t)
        PROVE  FALSE
    BY <2>1
       DEF Observe, Acknowledge, DeadlineReached, AskForLight, CountCandidate,
           KeepWaiting, InTime, Called
  <2>2. CASE TimePasses
    BY <2>2 DEF TimePasses
  <2>3. CASE Done
    BY <2>3 DEF Done, vars
  <2> QED
    BY <2>1, <2>2, <2>3 DEF Next, Cancel
<1> QED
  BY <1>1, PTL DEF Spec, VerdictIsFinal
=============================================================================
