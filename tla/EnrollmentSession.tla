------------------------- MODULE EnrollmentSession -------------------------
(***************************************************************************)
(* EnrollmentSession (daemon/src/enrollment_session.cpp) and the           *)
(* FaceProfileBuilder it fills (face_profile.cpp:453-607): training        *)
(* samples for every pose, then held-out samples that must agree with      *)
(* them, then a profile that can be committed.                             *)
(*                                                                         *)
(* A sample is its pose and whether the checks on it pass; embeddings,     *)
(* similarities and the reasons for a refusal are abstracted away.         *)
(* A definition named Fault... is the one after it with a plausible bug.   *)
(***************************************************************************)
EXTENDS Naturals, FiniteSets, FiniteSetsExt

CONSTANTS
  Poses,           \* PoseSlot without Unknown
  TargetPerPose,   \* policy_.target_per_pose
  MaximumPerPose,  \* policy_.maximum_per_pose
  HeldoutPerPose   \* policy_.validation_samples_per_pose

\* What the constructor accepts, but for a bound on the number of poses.
ASSUME PolicyAssumption ==
  /\ IsFiniteSet(Poses) /\ Cardinality(Poses) \in 1..5
  /\ TargetPerPose \in 1..20
  /\ MaximumPerPose \in TargetPerPose..50
  /\ HeldoutPerPose \in 1..5

VARIABLES
  session,    \* state_
  training,   \* builder_'s samples per pose, 0 when there is no builder
  builder,    \* builder_ is there
  candidate,  \* candidate_profile_ has a value
  heldout,    \* validation_counts_
  accepted    \* accepted_samples_

vars == <<session, training, builder, candidate, heldout, accepted>>

SessionStates ==
  {"Idle", "Collecting", "Validating", "Ready", "Committed", "Cancelled"}

TypeOK ==
  /\ session \in SessionStates
  /\ training \in [Poses -> 0..MaximumPerPose]
  /\ builder \in BOOLEAN
  /\ candidate \in BOOLEAN
  /\ heldout \in [Poses -> 0..HeldoutPerPose]
  /\ accepted \in Nat

None == [p \in Poses |-> 0]
Total(counts) == MapThenSumSet(LAMBDA p : counts[p], Poses)

Init ==
  /\ session = "Idle"
  /\ training = None
  /\ builder = FALSE
  /\ candidate = FALSE
  /\ heldout = None
  /\ accepted = 0

----------------------------------------------------------------------------
FaultStart ==
  /\ training' = None
  /\ builder' = TRUE
  /\ session' = "Collecting"
  /\ UNCHANGED <<candidate, heldout, accepted>>

\* start(): whatever there was is erased first.
Start ==
  /\ training' = None
  /\ builder' = TRUE
  /\ candidate' = FALSE
  /\ heldout' = None
  /\ accepted' = 0
  /\ session' = "Collecting"

\* builder_->ready()
Trained(counts) == \A p \in Poses : counts[p] >= TargetPerPose

\* add_sample() after the builder has looked at the sample: a complete builder is
\* finalized, which may throw and be tried again with the next sample.
FinishTraining(counts) ==
  \/ /\ Trained(counts)
     /\ candidate' = TRUE
     /\ session' = "Validating"
  \/ UNCHANGED <<candidate, session>>

Collecting == session = "Collecting" /\ builder

FaultAddTraining(p) ==
  /\ Collecting
  /\ training' = [training EXCEPT ![p] = @ + 1]
  /\ accepted' = accepted + 1
  /\ FinishTraining(training')
  /\ UNCHANGED <<builder, heldout>>

\* A sample the builder accepts.
AddTraining(p) ==
  /\ Collecting
  /\ training[p] < MaximumPerPose
  /\ training' = [training EXCEPT ![p] = @ + 1]
  /\ accepted' = accepted + 1
  /\ FinishTraining(training')
  /\ UNCHANGED <<builder, heldout>>

\* A sample it refuses: unknown pose, pose_full, duplicate, low quality...
RefuseTraining ==
  /\ Collecting
  /\ FinishTraining(training)
  /\ UNCHANGED <<training, builder, heldout, accepted>>

\* validation_complete(): the total is compared, not each pose's count.
Validated(counts) == Total(counts) = HeldoutPerPose * Cardinality(Poses)

FaultAddHeldout(p) ==
  /\ session = "Validating" /\ candidate
  /\ heldout' = [heldout EXCEPT ![p] = @ + 1]
  /\ accepted' = accepted + 1
  /\ session' = IF Validated(heldout') THEN "Ready" ELSE session
  /\ UNCHANGED <<training, builder, candidate>>

\* add_validation_sample() of a sample that agrees with the candidate; any other
\* changes nothing.
AddHeldout(p) ==
  /\ session = "Validating" /\ candidate
  /\ heldout[p] < HeldoutPerPose
  /\ heldout' = [heldout EXCEPT ![p] = @ + 1]
  /\ accepted' = accepted + 1
  /\ session' = IF Validated(heldout') THEN "Ready" ELSE session
  /\ UNCHANGED <<training, builder, candidate>>

Cancel ==
  /\ training' = None
  /\ builder' = FALSE
  /\ candidate' = FALSE
  /\ heldout' = None
  /\ accepted' = 0
  /\ session' = "Cancelled"

\* finalize() may be called, and after it mark_committed().
CanCommit == session = "Ready" /\ candidate

MarkCommitted ==
  /\ CanCommit
  /\ training' = None
  /\ builder' = FALSE
  /\ candidate' = FALSE
  /\ session' = "Committed"
  /\ UNCHANGED <<heldout, accepted>>

----------------------------------------------------------------------------
(* What status() reports. *)

\* A percentage is rounded to the nearest integer, a half up.
Percent(part, whole) == (part * 100 + whole \div 2) \div whole

TrainingRequired == TargetPerPose * Cardinality(Poses)
HeldoutRequired == HeldoutPerPose * Cardinality(Poses)

\* builder_->progress_percent(): a pose counts up to its target.
TrainingProgress ==
  Percent(MapThenSumSet(LAMBDA p : Min({training[p], TargetPerPose}), Poses),
          TrainingRequired)

\* validation_progress_percent, which the manifest turns into "validated".
HeldoutProgress == Percent(Total(heldout), HeldoutRequired)

FaultProgressOfTraining ==
  IF session \in {"Ready", "Committed"} THEN 100
  ELSE IF builder THEN TrainingProgress ELSE 0

FaultProgressOfStage ==
  IF session \in {"Ready", "Committed"} THEN 100
  ELSE IF session = "Validating" THEN HeldoutProgress
  ELSE IF builder THEN TrainingProgress ELSE 0

\* progress_percent: a percentage of the percentage of the training part.
Progress ==
  IF session \in {"Ready", "Committed"} THEN 100
  ELSE IF builder
  THEN LET required == TrainingRequired + HeldoutRequired
       IN  (TrainingProgress * TrainingRequired + Total(heldout) * 100
              + required \div 2) \div required
  ELSE 0

----------------------------------------------------------------------------
AddSample ==
  \/ \E p \in Poses : AddTraining(p) \/ AddHeldout(p)
  \/ RefuseTraining

Next == Start \/ AddSample \/ Cancel \/ MarkCommitted

Spec == Init /\ [][Next]_vars
----------------------------------------------------------------------------
\* A profile can be committed only when every pose has all its training samples
\* and, pose by pose, all its held-out samples, although
\* enrollment_session.cpp:214-217 looks at the total of the latter only.
ReadyCoversEveryPose ==
  session \in {"Ready", "Committed"} =>
    /\ \A p \in Poses : heldout[p] = HeldoutPerPose
    /\ session = "Ready" => Trained(training)

\* No rounding reports completion early: 100 percent is Ready or Committed and
\* nothing else, and so is a held-out progress of 100, from which commit()
\* concludes that validation passed (enrollment_controller.cpp:218).
ProgressIsHonest ==
  /\ Progress = 100 <=> session \in {"Ready", "Committed"}
  /\ HeldoutProgress = 100 <=> session \in {"Ready", "Committed"}

\* What the user is shown never falls while a session lasts, not even where one
\* stage ends and the next begins (enrollment_session.cpp:278-291): only starting
\* over and cancelling lower it.
ProgressNeverFalls == [][Start \/ Cancel \/ Progress' >= Progress]_vars

\* The samples and the candidate are in memory only while an enrollment is under
\* way: a cancelled or committed session keeps none of them, and what a session has
\* counted is what it holds, nothing of the one before
\* (enrollment_session.cpp:48-55, 86, 195).
ErasedWhenOver ==
  /\ builder <=> session \in {"Collecting", "Validating", "Ready"}
  /\ candidate <=> session \in {"Validating", "Ready"}
  /\ ~builder => training = None
  /\ session = "Cancelled" => heldout = None
  /\ builder => accepted = Total(training) + Total(heldout)
=============================================================================
