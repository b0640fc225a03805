--------------------- MODULE EnrollmentControllerProofs ---------------------
(***************************************************************************)
(* What holds of EnrollmentController for every policy, any number of      *)
(* leases and frames, with a lock screen or without. The camera lease and  *)
(* the enrollment session inside it are the ones CameraLeaseProofs and     *)
(* EnrollmentSessionProofs are about: every step of the controller is a    *)
(* step of each of them or leaves it alone, so their theorems hold here.   *)
(* The controller's own invariant relates their state to its own.          *)
(***************************************************************************)
EXTENDS EnrollmentController, TLAPS

\* The components again, with what is proved of them.
Lease == INSTANCE CameraLeaseProofs WITH Callers <- {Server}
Enrollment == INSTANCE EnrollmentSessionProofs

----------------------------------------------------------------------------
(* The inductive invariant. *)

LocalTypeOK ==
  /\ call \in {"none", "examine", "status", "left"}
  /\ frame \in 0..MaxLeases
  /\ ownLease \in 0..MaxLeases

\* The camera delivers no frame beyond its bound: the one it is about to
\* publish is counted already.
FramesBounded ==
  /\ framesTotal \in 0..MaxFrames
  /\ pc = "frame" /\ io # "fail" => framesTotal < MaxFrames

\* The numbers the controller keeps are of frames and leases there have been,
\* and a frame that can be read is newer than the session's start.
NumbersArePast ==
  /\ ownLease <= generation
  /\ baseline \in 0..framesTotal
  /\ lastProcessed \in 0..framesTotal
  /\ examined \subseteq 1..framesTotal
  /\ latest # 0 => baseline < framesTotal

\* The frame that can be read now was examined only if it is the last one the
\* session processed.
ExaminedIsProcessed ==
  latest # 0 /\ framesTotal \in examined => lastProcessed = framesTotal

IInv ==
  /\ LocalTypeOK
  /\ FramesBounded
  /\ NumbersArePast
  /\ ExaminedIsProcessed
  /\ SamplesAreFresh
  /\ LeaseEndsWithSession

----------------------------------------------------------------------------
(* The components are the ones the other proofs are about. *)

LEMMA LeaseAssumed == Lease!LeaseAssumption
  BY ControllerAssumption DEF ControllerAssumption, Camera!LeaseAssumption,
     Camera!WorkerReasons, Lease!LeaseAssumption, Lease!WorkerReasons

LEMMA PolicyAssumed == Enrollment!PolicyAssumption
  <1>1. Session!Cardinality(Poses) = Enrollment!Cardinality(Poses)
    BY Zenon DEF Session!Cardinality, Enrollment!Cardinality
  <1>2. Session!IsFiniteSet(Poses) <=> Enrollment!IsFiniteSet(Poses)
    BY DEF Session!IsFiniteSet, Enrollment!IsFiniteSet
  <1> QED
    BY <1>1, <1>2, ControllerAssumption
       DEF ControllerAssumption, Session!PolicyAssumption,
           Enrollment!PolicyAssumption

LEMMA CameraIsLease ==
  /\ Camera!Init <=> Lease!Init
  /\ Camera!TypeOK <=> Lease!TypeOK
  /\ Camera!LeaseInv <=> Lease!LeaseInv
  /\ Camera!Next <=> Lease!Next
  <1>1. Camera!Init <=> Lease!Init
    BY DEF Camera!Init, Lease!Init
  <1>2. Camera!TypeOK <=> Lease!TypeOK
    BY DEF Camera!TypeOK, Camera!FlagsTypeOK, Camera!DataTypeOK,
       Camera!States, Camera!WorkerSteps, Camera!WorkerReasons, Lease!TypeOK,
       Lease!FlagsTypeOK, Lease!DataTypeOK, Lease!States, Lease!WorkerSteps,
       Lease!WorkerReasons
  <1>3. Camera!LeaseInv <=> Lease!LeaseInv
    BY Zenon DEF Camera!LeaseInv, Camera!LeaseIsCurrent,
       Camera!FlagsFollowWorker, Camera!DeviceFollowsWorker,
       Camera!WantedFollowsState, Camera!FrameFollowsLease,
       Camera!FreedIsOver, Camera!FreedIsPast, Camera!ReasonExplains,
       Camera!NoLostWakeup, Camera!Serving, Camera!LeaseWanted,
       Lease!LeaseInv, Lease!LeaseIsCurrent, Lease!FlagsFollowWorker,
       Lease!DeviceFollowsWorker, Lease!WantedFollowsState,
       Lease!FrameFollowsLease, Lease!FreedIsOver, Lease!FreedIsPast,
       Lease!ReasonExplains, Lease!NoLostWakeup, Lease!Serving,
       Lease!LeaseWanted
  <1>4. Camera!Next <=> Lease!Next
    BY ZenonT(60) DEF Camera!Next, Camera!Calls, Camera!Worker, Camera!Driver,
       Camera!Start, Camera!StopNothing, Camera!StopBeforeOpen,
       Camera!StopAndWait, Camera!StopReturns, Camera!Destroy,
       Camera!WorkerSleeps, Camera!WorkerExits, Camera!WorkerTakesLease,
       Camera!WorkerOpenFailed, Camera!WorkerOpened, Camera!WorkerChecks,
       Camera!WorkerHandlesFrame, Camera!Expire, Camera!WorkerReleases,
       Camera!WorkerDropsSource, Camera!OpenReturns, Camera!ReadReturns,
       Camera!CloseReturns, Camera!WorkerWakesSpuriously,
       Camera!DeadlinePasses, Camera!Terminated, Camera!vars,
       Camera!managerVars, Camera!workerVars, Camera!callerVars,
       Camera!NotifyWorker, Camera!Released, Camera!CanCall,
       Camera!StartAnswer, Camera!LeaseWanted, Camera!ReasonOr,
       Camera!StillWanted, Camera!FrameWanted, Lease!Next, Lease!Calls,
       Lease!Worker, Lease!Driver, Lease!Start, Lease!StopNothing,
       Lease!StopBeforeOpen, Lease!StopAndWait, Lease!StopReturns,
       Lease!Destroy, Lease!WorkerSleeps, Lease!WorkerExits,
       Lease!WorkerTakesLease, Lease!WorkerOpenFailed, Lease!WorkerOpened,
       Lease!WorkerChecks, Lease!WorkerHandlesFrame, Lease!Expire,
       Lease!WorkerReleases, Lease!WorkerDropsSource, Lease!OpenReturns,
       Lease!ReadReturns, Lease!CloseReturns, Lease!WorkerWakesSpuriously,
       Lease!DeadlinePasses, Lease!Terminated, Lease!vars, Lease!managerVars,
       Lease!workerVars, Lease!callerVars, Lease!NotifyWorker, Lease!Released,
       Lease!CanCall, Lease!StartAnswer, Lease!LeaseWanted, Lease!ReasonOr,
       Lease!StillWanted, Lease!FrameWanted
  <1> QED
    BY <1>1, <1>2, <1>3, <1>4

LEMMA SessionIsEnrollment ==
  /\ Session!Init <=> Enrollment!Init
  /\ Session!TypeOK <=> Enrollment!TypeOK
  /\ Session!Next <=> Enrollment!Next
  <1>1. Session!Init <=> Enrollment!Init
    BY DEF Session!Init, Enrollment!Init, Session!None, Enrollment!None
  <1>2. Session!TypeOK <=> Enrollment!TypeOK
    BY DEF Session!TypeOK, Session!SessionStates, Enrollment!TypeOK,
           Enrollment!SessionStates
  <1>3. ASSUME NEW c PROVE Session!Total(c) = Enrollment!Total(c)
    BY Zenon DEF Session!Total, Session!MapThenSumSet, Session!MapThenFoldSet,
       Enrollment!Total, Enrollment!MapThenSumSet, Enrollment!MapThenFoldSet
  <1>4. Session!Cardinality(Poses) = Enrollment!Cardinality(Poses)
    BY Zenon DEF Session!Cardinality, Enrollment!Cardinality
  <1>5. Session!Next <=> Enrollment!Next
    BY <1>3, <1>4 DEF Session!Next, Session!Start, Session!AddSample,
       Session!Cancel, Session!MarkCommitted, Session!AddTraining,
       Session!AddHeldout, Session!RefuseTraining, Session!FinishTraining,
       Session!Trained, Session!None, Session!CanCommit, Session!Collecting,
       Session!Validated, Enrollment!Next, Enrollment!Start,
       Enrollment!AddSample, Enrollment!Cancel, Enrollment!MarkCommitted,
       Enrollment!AddTraining, Enrollment!AddHeldout,
       Enrollment!RefuseTraining, Enrollment!FinishTraining,
       Enrollment!Trained, Enrollment!None, Enrollment!CanCommit,
       Enrollment!Collecting, Enrollment!Validated
  <1> QED
    BY <1>1, <1>2, <1>5

----------------------------------------------------------------------------
(* Every step of the controller is a step of each component, or leaves it     *)
(* alone.                                                                     *)

LEMMA VarsAreWhole ==
  /\ Camera!vars = <<Camera!managerVars, Camera!workerVars, Camera!callerVars>>
  /\ UNCHANGED cameraVars <=> UNCHANGED Camera!vars
  /\ UNCHANGED sessionVars <=> UNCHANGED Session!vars
  BY DEF Camera!vars, Camera!managerVars, Camera!workerVars, Camera!callerVars,
         cameraVars, sessionVars, Session!vars

LEMMA StopIsCall ==
  ASSUME NEW reason \in StopReasons, StopCamera(reason)
  PROVE  Camera!Next
  BY DEF StopCamera, Camera!Next, Camera!Calls

LEMMA CameraMoves == [Next]_vars => [Camera!Next]_Camera!vars
  <1> SUFFICES ASSUME [Next]_vars PROVE Camera!Next \/ UNCHANGED cameraVars
    BY VarsAreWhole
  <1>1. CASE EnrollStart
    BY <1>1 DEF EnrollStart, StartCamera, Camera!Next, Camera!Calls
  <1>2. CASE CaptureFrame
    BY <1>2 DEF CaptureFrame
  <1>3. CASE CaptureNoFrame
    BY <1>3 DEF CaptureNoFrame
  <1>4. CASE ExamineFrame
    <2>1. "enrollment_ready" \in StopReasons
      BY DEF StopReasons
    <2> QED
      BY <1>4, <2>1, StopIsCall DEF ExamineFrame, AddSample
  <1>5. CASE EnrollStatus
    BY <1>5 DEF EnrollStatus
  <1>6. CASE EnrollCancel
    <2>1. "enrollment_cancelled" \in StopReasons
      BY DEF StopReasons
    <2> QED
      BY <1>6, <2>1, StopIsCall DEF EnrollCancel
  <1>7. CASE EnrollCommit
    <2>1. "enrollment_committed" \in StopReasons
      BY DEF StopReasons
    <2> QED
      BY <1>7, <2>1, StopIsCall DEF EnrollCommit
  <1>8. CASE LockScreenStart
    BY <1>8 DEF LockScreenStart, Camera!Next, Camera!Calls
  <1>9. CASE LockScreenStop
    <2>1. {"lockscreen_cancelled", "password_started"} \subseteq StopReasons
      BY DEF StopReasons
    <2> QED
      BY <1>9, <2>1, StopIsCall DEF LockScreenStop
  <1>10. CASE ServerLeaves
    <2>1. "daemon_shutdown" \in StopReasons
      BY DEF StopReasons
    <2> QED
      BY <1>10, <2>1, StopIsCall DEF ServerLeaves
  <1>11. CASE DestroyCamera
    BY <1>11 DEF DestroyCamera, Camera!Next, Camera!Calls
  <1>12. CASE CameraStep
    BY <1>12 DEF CameraStep, Camera!Next, Camera!Calls
  <1>13. CASE Terminated
    BY <1>13 DEF Terminated, vars
  <1>14. CASE UNCHANGED vars
    BY <1>14 DEF vars
  <1> QED
    BY <1>1, <1>2, <1>3, <1>4, <1>5, <1>6, <1>7, <1>8, <1>9, <1>10, <1>11,
       <1>12, <1>13, <1>14 DEF Next, Capture

LEMMA SessionMoves == [Next]_vars => [Session!Next]_Session!vars
  <1> SUFFICES ASSUME [Next]_vars PROVE Session!Next \/ UNCHANGED sessionVars
    BY VarsAreWhole
  <1> USE DEF Session!Next
  <1>1. CASE EnrollStart
    BY <1>1 DEF EnrollStart
  <1>2. CASE Capture
    BY <1>2 DEF Capture, CaptureFrame, CaptureNoFrame, ExamineFrame, AddSample
  <1>3. CASE EnrollStatus \/ EnrollCancel \/ EnrollCommit
    BY <1>3 DEF EnrollStatus, EnrollCancel, EnrollCommit
  <1>4. CASE LockScreenStart \/ LockScreenStop \/ ServerLeaves \/ DestroyCamera
    BY <1>4 DEF LockScreenStart, LockScreenStop, ServerLeaves, DestroyCamera
  <1>5. CASE CameraStep
    BY <1>5 DEF CameraStep
  <1>6. CASE Terminated \/ UNCHANGED vars
    BY <1>6 DEF Terminated, vars
  <1> QED
    BY <1>1, <1>2, <1>3, <1>4, <1>5, <1>6 DEF Next

\* The controller and the requests of the lock screen use the camera as
\* camera_lease.hpp lets them: no call of theirs is one its manager does not
\* handle, whatever enrollment_controller.cpp is in the middle of.
THEOREM UsesTheCamera == Spec => Camera!Spec
  <1>1. Init => Camera!Init
    BY DEF Init
  <1> QED
    BY <1>1, CameraMoves, PTL DEF Spec, Camera!Spec

\* The session changes only as EnrollmentSession lets it: the controller adds no
\* sample and commits nothing in a state that refuses it.
THEOREM UsesTheSession == Spec => Session!Spec
  <1>1. Init => Session!Init
    BY DEF Init
  <1> QED
    BY <1>1, SessionMoves, PTL DEF Spec, Session!Spec

\* So what CameraLeaseProofs shows of the camera holds of this one.
THEOREM LeaseHolds == Spec => [](Camera!TypeOK /\ Camera!LeaseInv)
  <1>1. Lease!Spec => [](Lease!TypeOK /\ Lease!LeaseInv)
    BY LeaseAssumed, Lease!LeaseInvariant
  <1>2. Camera!Spec => Lease!Spec
    <2>1. [Camera!Next]_Camera!vars => [Lease!Next]_Lease!vars
      BY CameraIsLease DEF Camera!vars, Camera!managerVars, Camera!workerVars,
         Camera!callerVars, Lease!vars, Lease!managerVars, Lease!workerVars,
         Lease!callerVars
    <2>2. Camera!Init => Lease!Init
      BY CameraIsLease
    <2> QED
      BY <2>1, <2>2, PTL DEF Camera!Spec, Lease!Spec
  <1> QED
    BY <1>1, <1>2, UsesTheCamera, CameraIsLease, PTL

\* And what EnrollmentSessionProofs shows of the session holds of this one.
THEOREM SessionHolds == Spec => []Session!TypeOK
  <1>1. Enrollment!Spec => []Enrollment!TypeOK
    BY PolicyAssumed, Enrollment!TypeCorrect
  <1>2. Session!Spec => Enrollment!Spec
    <2>1. [Session!Next]_Session!vars => [Enrollment!Next]_Enrollment!vars
      BY SessionIsEnrollment DEF Session!vars, Enrollment!vars
    <2>2. Session!Init => Enrollment!Init
      BY SessionIsEnrollment
    <2> QED
      BY <2>1, <2>2, PTL DEF Session!Spec, Enrollment!Spec
  <1> QED
    BY <1>1, <1>2, UsesTheSession, SessionIsEnrollment, PTL

----------------------------------------------------------------------------
(* What the camera does to the numbers the controller keeps. *)

\* The steps of the camera that grant no lease.
GrantsNothing ==
  \/ \E reason \in StopReasons : StopCamera(reason)
  \/ Camera!StopReturns(Server) \/ Camera!Destroy
  \/ Camera!Worker \/ Camera!Driver
  \/ Camera!WorkerWakesSpuriously \/ Camera!DeadlinePasses
  \/ UNCHANGED cameraVars

\* At most one frame is added, and without a new one no frame appears.
FramesOnlyGrow ==
  \/ framesTotal' = framesTotal /\ latest' \in {latest, 0}
  \/ framesTotal' = framesTotal + 1

LEMMA BoundsAreNat == MaxLeases \in Nat /\ MaxFrames \in Nat
  BY ControllerAssumption DEF ControllerAssumption, Camera!LeaseAssumption

LEMMA NothingGranted ==
  ASSUME Camera!FlagsTypeOK, GrantsNothing
  PROVE  generation' = generation /\ (requested' => requested)
  BY DEF GrantsNothing, StopCamera, cameraVars, Camera!FlagsTypeOK,
     Camera!Worker, Camera!Driver, Camera!StopNothing, Camera!StopBeforeOpen,
     Camera!StopAndWait, Camera!StopReturns, Camera!Destroy,
     Camera!WorkerSleeps, Camera!WorkerExits, Camera!WorkerTakesLease,
     Camera!WorkerOpenFailed, Camera!WorkerOpened, Camera!WorkerChecks,
     Camera!WorkerHandlesFrame, Camera!Expire, Camera!WorkerReleases,
     Camera!WorkerDropsSource, Camera!OpenReturns, Camera!ReadReturns,
     Camera!CloseReturns, Camera!WorkerWakesSpuriously, Camera!DeadlinePasses,
     Camera!managerVars

LEMMA FramesStep ==
  ASSUME FramesBounded, GrantsNothing
  PROVE  FramesOnlyGrow /\ FramesBounded'
  <1> USE BoundsAreNat DEF FramesOnlyGrow, FramesBounded, Camera!managerVars,
          Camera!workerVars, Camera!NotifyWorker
  <1>1. CASE \E reason \in StopReasons : StopCamera(reason)
    BY <1>1 DEF StopCamera, Camera!StopNothing, Camera!StopBeforeOpen,
       Camera!StopAndWait
  <1>2. CASE Camera!StopReturns(Server)
    BY <1>2 DEF Camera!StopReturns
  <1>3. CASE Camera!Destroy
    BY <1>3 DEF Camera!Destroy
  <1>4. CASE Camera!Worker
    <2>1. CASE Camera!WorkerHandlesFrame
      BY <2>1 DEF Camera!WorkerHandlesFrame, Camera!FrameWanted
    <2>2. CASE Camera!WorkerSleeps \/ Camera!WorkerExits
                 \/ Camera!WorkerTakesLease \/ Camera!WorkerDropsSource
      BY <2>2 DEF Camera!WorkerSleeps, Camera!WorkerExits,
         Camera!WorkerTakesLease, Camera!WorkerDropsSource
    <2>3. CASE Camera!WorkerOpenFailed \/ Camera!WorkerOpened
                 \/ Camera!WorkerChecks \/ Camera!WorkerReleases
      BY <2>3 DEF Camera!WorkerOpenFailed, Camera!WorkerOpened,
         Camera!WorkerChecks, Camera!WorkerReleases
    <2> QED
      BY <1>4, <2>1, <2>2, <2>3 DEF Camera!Worker
  <1>5. CASE Camera!Driver
    BY <1>5 DEF Camera!Driver, Camera!OpenReturns, Camera!ReadReturns,
       Camera!CloseReturns
  <1>6. CASE Camera!WorkerWakesSpuriously \/ Camera!DeadlinePasses
    BY <1>6 DEF Camera!WorkerWakesSpuriously, Camera!DeadlinePasses
  <1>7. CASE UNCHANGED cameraVars
    BY <1>7 DEF cameraVars
  <1> QED
    BY <1>1, <1>2, <1>3, <1>4, <1>5, <1>6, <1>7 DEF GrantsNothing

\* After stop() the lease is not wanted, also when there was nothing to release.
LEMMA StopEndsTheLease ==
  ASSUME Camera!TypeOK, Camera!LeaseInv, NEW reason \in StopReasons,
         StopCamera(reason)
  PROVE  ~requested'
  <1>1. Camera!FlagsTypeOK /\ Camera!FlagsFollowWorker
          /\ Camera!WantedFollowsState
    BY DEF Camera!TypeOK, Camera!LeaseInv
  <1> QED
    BY <1>1 DEF StopCamera, Camera!StopNothing, Camera!StopBeforeOpen,
       Camera!StopAndWait, Camera!Released, Camera!FlagsTypeOK,
       Camera!FlagsFollowWorker, Camera!WantedFollowsState, Camera!Serving,
       Camera!managerVars

\* enrollment_start finds the camera free, so that start() grants a lease: the
\* answer camera_stopping, and with it the cancel() of
\* enrollment_controller.cpp:83-86, is out of reach.
LEMMA StartIsGranted ==
  ASSUME Camera!TypeOK, Camera!LeaseInv, EnrollStart
  PROVE  /\ Camera!Start(Server) /\ Session!Start
         /\ ownLease' = generation' /\ baseline' = framesTotal
  <1>1. Camera!FlagsTypeOK /\ Camera!FlagsFollowWorker
    BY DEF Camera!TypeOK, Camera!LeaseInv
  <1>2. Camera!StartAnswer = "start_requested"
    BY <1>1 DEF EnrollStart, Camera!StartAnswer, Camera!FlagsTypeOK,
       Camera!FlagsFollowWorker
  <1> QED
    BY <1>2 DEF EnrollStart, StartCamera

----------------------------------------------------------------------------
(* Each step preserves the invariant. *)

\* A step that changes nothing but the camera, and grants no lease.
LEMMA CameraAlone ==
  ASSUME Camera!TypeOK, IInv, GrantsNothing,
         UNCHANGED <<session, lastProcessed, ownLease, baseline, examined>>,
         \/ call' = call /\ frame' = frame
         \/ call' \in {"none", "status", "left"} /\ frame' \in {frame, 0}
  PROVE  IInv'
  <1> USE BoundsAreNat
  <1>1. generation' = generation /\ (requested' => requested)
    BY NothingGranted DEF Camera!TypeOK
  <1>2. FramesOnlyGrow /\ FramesBounded'
    BY FramesStep DEF IInv
  <1>3. framesTotal \in Nat
    BY DEF IInv, FramesBounded
  <1>4. LocalTypeOK'
    BY DEF IInv, LocalTypeOK
  <1>5. NumbersArePast' /\ ExaminedIsProcessed'
    BY <1>1, <1>2, <1>3 DEF IInv, NumbersArePast, ExaminedIsProcessed,
       FramesOnlyGrow
  <1>6. SamplesAreFresh' /\ LeaseEndsWithSession'
    BY <1>1 DEF IInv, SamplesAreFresh, LeaseEndsWithSession, Enrolling
  <1> QED
    BY <1>2, <1>4, <1>5, <1>6 DEF IInv

\* A step that ends the session and with it the lease.
LEMMA SessionEndsStep ==
  ASSUME Camera!TypeOK, Camera!LeaseInv, IInv, GrantsNothing, ~requested',
         UNCHANGED controllerVars
  PROVE  IInv'
  <1> USE BoundsAreNat DEF controllerVars, historyVars
  <1>1. generation' = generation
    BY NothingGranted DEF Camera!TypeOK
  <1>2. FramesOnlyGrow /\ FramesBounded'
    BY FramesStep DEF IInv
  <1>3. framesTotal \in Nat
    BY DEF IInv, FramesBounded
  <1>4. LocalTypeOK' /\ SamplesAreFresh'
    BY DEF IInv, LocalTypeOK, SamplesAreFresh
  <1>5. NumbersArePast' /\ ExaminedIsProcessed'
    BY <1>1, <1>2, <1>3 DEF IInv, NumbersArePast, ExaminedIsProcessed,
       FramesOnlyGrow
  <1>6. LeaseEndsWithSession'
    BY DEF LeaseEndsWithSession
  <1> QED
    BY <1>2, <1>4, <1>5, <1>6 DEF IInv

\* A new lease hides every frame there was, so that nothing the session has
\* forgotten can be read.
LEMMA StartStep ==
  ASSUME Camera!TypeOK, Camera!LeaseInv, IInv, EnrollStart
  PROVE  IInv'
  <1> USE BoundsAreNat
  <1>1. /\ Camera!Start(Server) /\ Session!Start
        /\ ownLease' = generation' /\ baseline' = framesTotal
        /\ lastProcessed' = 0 /\ call = "none"
        /\ UNCHANGED <<call, frame, examined>>
    BY StartIsGranted DEF EnrollStart, ServerFree
  <1>2. /\ generation \in Nat /\ generation' = generation + 1
        /\ generation < MaxLeases
        /\ latest' = 0 /\ framesTotal' = framesTotal /\ io' = io
        /\ pc' = "frame" => pc = "frame"
    BY <1>1 DEF Camera!Start, Camera!NotifyWorker, Camera!TypeOK,
       Camera!DataTypeOK
  <1>3. session' = "Collecting"
    BY <1>1 DEF Session!Start
  <1>4. FramesBounded' /\ framesTotal \in Nat
    BY <1>2 DEF IInv, FramesBounded
  <1>5. LocalTypeOK'
    BY <1>1, <1>2 DEF IInv, LocalTypeOK
  <1>6. NumbersArePast'
    BY <1>1, <1>2, <1>4 DEF IInv, NumbersArePast
  <1>7. ExaminedIsProcessed' /\ SamplesAreFresh' /\ LeaseEndsWithSession'
    BY <1>1, <1>2, <1>3 DEF ExaminedIsProcessed, SamplesAreFresh,
       LeaseEndsWithSession, Enrolling
  <1> QED
    BY <1>4, <1>5, <1>6, <1>7 DEF IInv

LEMMA CaptureStep ==
  ASSUME Camera!TypeOK, Camera!LeaseInv, IInv, CaptureFrame
  PROVE  IInv'
  <1> USE BoundsAreNat
  <1>1. UNCHANGED <<pc, io, framesTotal, latest, generation, requested, session>>
    BY DEF CaptureFrame, cameraVars, sessionVars
  <1>2. latest # 0 /\ frame' = generation /\ generation \in 0..MaxLeases
    BY DEF CaptureFrame, Camera!Snapshot, Camera!LeaseInv,
       Camera!FrameFollowsLease, Camera!TypeOK, Camera!DataTypeOK
  <1>3. FramesBounded' /\ framesTotal \in Nat
    BY <1>1 DEF IInv, FramesBounded
  <1>4. /\ lastProcessed' = framesTotal /\ lastProcessed < framesTotal
        /\ call' = "examine" /\ examined' = examined \cup {framesTotal}
        /\ UNCHANGED <<ownLease, baseline>>
    BY DEF CaptureFrame
  <1>5. LocalTypeOK'
    BY <1>2, <1>4 DEF IInv, LocalTypeOK
  <1>6. NumbersArePast' /\ ExaminedIsProcessed'
    BY <1>1, <1>3, <1>4 DEF IInv, NumbersArePast, ExaminedIsProcessed
  <1>7. SamplesAreFresh' /\ LeaseEndsWithSession'
    BY <1>1, <1>2, <1>4 DEF IInv, NumbersArePast, SamplesAreFresh,
       LeaseEndsWithSession, Enrolling
  <1> QED
    BY <1>3, <1>5, <1>6, <1>7 DEF IInv

\* A sample leaves the session collecting, or makes it Ready and ends the lease.
LEMMA ExamineStep ==
  ASSUME Camera!TypeOK, Camera!LeaseInv, IInv, ExamineFrame
  PROVE  IInv'
  <1> USE BoundsAreNat
  <1>1. GrantsNothing
    <2>1. "enrollment_ready" \in StopReasons
      BY DEF StopReasons
    <2> QED
      BY <2>1 DEF ExamineFrame, AddSample, GrantsNothing
  <1>2. generation' = generation /\ (requested' => requested)
    BY <1>1, NothingGranted DEF Camera!TypeOK
  <1>3. FramesOnlyGrow /\ FramesBounded' /\ framesTotal \in Nat
    BY <1>1, FramesStep DEF IInv, FramesBounded
  <1>4. Enrolling' \/ ~requested' \/ session' = session
    <2>1. CASE AddSample
      <3>1. "enrollment_ready" \in StopReasons
        BY DEF StopReasons
      <3>2. CASE session' = "Ready"
        BY <2>1, <3>1, <3>2, StopEndsTheLease DEF AddSample
      <3>3. CASE session' # "Ready"
        BY <2>1, <3>3 DEF AddSample, Session!AddSample, Session!AddTraining,
           Session!AddHeldout, Session!RefuseTraining, Session!FinishTraining,
           Session!Collecting, Enrolling
      <3> QED
        BY <3>2, <3>3
    <2>2. CASE UNCHANGED <<cameraVars, sessionVars>>
      BY <2>2 DEF sessionVars
    <2> QED
      BY <2>1, <2>2 DEF ExamineFrame
  <1>5. call' = "none" /\ frame' = 0 /\ UNCHANGED <<lastProcessed, historyVars>>
    BY DEF ExamineFrame
  <1>6. LocalTypeOK' /\ SamplesAreFresh'
    BY <1>5 DEF IInv, LocalTypeOK, SamplesAreFresh, historyVars
  <1>7. NumbersArePast' /\ ExaminedIsProcessed'
    BY <1>2, <1>3, <1>5 DEF IInv, NumbersArePast, ExaminedIsProcessed,
       FramesOnlyGrow, historyVars
  <1>8. LeaseEndsWithSession'
    BY <1>2, <1>4, <1>5 DEF IInv, LeaseEndsWithSession, Enrolling, historyVars
  <1> QED
    BY <1>3, <1>6, <1>7, <1>8 DEF IInv

\* The session is erased only when the camera has ended the lease by itself.
LEMMA StatusStep ==
  ASSUME Camera!TypeOK, Camera!LeaseInv, IInv, EnrollStatus
  PROVE  IInv'
  <1>1. UNCHANGED <<pc, io, framesTotal, latest, generation, requested>>
    BY DEF EnrollStatus, cameraVars
  <1>2. session' = session \/ ~requested
    <2>1. CASE CameraEnded
      BY <2>1 DEF CameraEnded, Camera!LeaseInv, Camera!WantedFollowsState
    <2>2. CASE ~CameraEnded
      BY <2>2 DEF EnrollStatus, sessionVars
    <2> QED
      BY <2>1, <2>2
  <1>3. call' = "none" /\ UNCHANGED <<lastProcessed, frame, historyVars>>
    BY DEF EnrollStatus
  <1> QED
    BY <1>1, <1>2, <1>3 DEF IInv, LocalTypeOK, FramesBounded, NumbersArePast,
       ExaminedIsProcessed, SamplesAreFresh, LeaseEndsWithSession, Enrolling,
       historyVars

\* The lock screen's lease is not the session's.
LEMMA LockScreenStep ==
  ASSUME Camera!TypeOK, Camera!LeaseInv, IInv, LockScreenStart
  PROVE  IInv'
  <1> USE BoundsAreNat
  <1>1. /\ generation \in Nat /\ generation' = generation + 1
        /\ latest' = 0 /\ framesTotal' = framesTotal /\ io' = io
        /\ pc' = "frame" => pc = "frame"
    BY DEF LockScreenStart, Camera!Start, Camera!NotifyWorker, Camera!TypeOK,
       Camera!DataTypeOK
  <1>2. /\ UNCHANGED <<session, lastProcessed, call, frame, ownLease, baseline,
                       examined>>
        /\ call = "none" /\ ownLease \in Nat
    BY DEF LockScreenStart, ServerFree, sessionVars, controllerVars, historyVars,
       IInv, LocalTypeOK
  <1>3. FramesBounded' /\ LocalTypeOK' /\ SamplesAreFresh'
    BY <1>1, <1>2 DEF IInv, FramesBounded, LocalTypeOK, SamplesAreFresh
  <1>4. NumbersArePast' /\ ExaminedIsProcessed' /\ LeaseEndsWithSession'
    BY <1>1, <1>2 DEF IInv, NumbersArePast, ExaminedIsProcessed,
       LeaseEndsWithSession
  <1> QED
    BY <1>3, <1>4 DEF IInv

LEMMA IInvStep ==
  Camera!TypeOK /\ Camera!LeaseInv /\ IInv /\ [Next]_vars => IInv'
  <1> SUFFICES ASSUME Camera!TypeOK, Camera!LeaseInv, IInv, [Next]_vars
               PROVE  IInv'
    OBVIOUS
  <1> USE DEF StopReasons
  <1>1. CASE EnrollStart
    BY <1>1, StartStep
  <1>2. CASE CaptureFrame
    BY <1>2, CaptureStep
  <1>3. CASE CaptureNoFrame
    <2>1. GrantsNothing
      BY <1>3 DEF CaptureNoFrame, GrantsNothing
    <2> QED
      BY <1>3, <2>1, CameraAlone DEF CaptureNoFrame, sessionVars, historyVars
  <1>4. CASE ExamineFrame
    BY <1>4, ExamineStep
  <1>5. CASE EnrollStatus
    BY <1>5, StatusStep
  <1>6. CASE EnrollCancel
    <2>1. GrantsNothing
      BY <1>6 DEF EnrollCancel, GrantsNothing
    <2>2. ~requested' /\ UNCHANGED controllerVars
      BY <1>6, StopEndsTheLease DEF EnrollCancel
    <2> QED
      BY <2>1, <2>2, SessionEndsStep
  <1>7. CASE EnrollCommit
    <2>1. GrantsNothing
      BY <1>7 DEF EnrollCommit, GrantsNothing
    <2>2. ~requested' /\ UNCHANGED controllerVars
      BY <1>7, StopEndsTheLease DEF EnrollCommit
    <2> QED
      BY <2>1, <2>2, SessionEndsStep
  <1>8. CASE LockScreenStart
    BY <1>8, LockScreenStep
  <1>9. CASE LockScreenStop
    <2>1. GrantsNothing
      BY <1>9 DEF LockScreenStop, GrantsNothing
    <2> QED
      BY <1>9, <2>1, CameraAlone
         DEF LockScreenStop, sessionVars, controllerVars, historyVars
  <1>10. CASE ServerLeaves
    <2>1. GrantsNothing
      BY <1>10 DEF ServerLeaves, GrantsNothing
    <2> QED
      BY <1>10, <2>1, CameraAlone DEF ServerLeaves, sessionVars, historyVars
  <1>11. CASE DestroyCamera
    <2>1. GrantsNothing
      BY <1>11 DEF DestroyCamera, GrantsNothing
    <2> QED
      BY <1>11, <2>1, CameraAlone
         DEF DestroyCamera, sessionVars, controllerVars, historyVars
  <1>12. CASE CameraStep
    <2>1. GrantsNothing
      BY <1>12 DEF CameraStep, GrantsNothing
    <2> QED
      BY <1>12, <2>1, CameraAlone
         DEF CameraStep, sessionVars, controllerVars, historyVars
  <1>13. CASE Terminated \/ UNCHANGED vars
    <2>1. GrantsNothing
      BY <1>13 DEF Terminated, vars, GrantsNothing
    <2> QED
      BY <1>13, <2>1, CameraAlone
         DEF Terminated, vars, sessionVars, controllerVars, historyVars
  <1> QED
    BY <1>1, <1>2, <1>3, <1>4, <1>5, <1>6, <1>7, <1>8, <1>9, <1>10, <1>11,
       <1>12, <1>13 DEF Next, Capture

LEMMA IInvInit == Init => IInv
  BY BoundsAreNat DEF Init, Camera!Init, Session!Init, IInv, LocalTypeOK,
     FramesBounded, NumbersArePast, ExaminedIsProcessed, SamplesAreFresh,
     LeaseEndsWithSession

LEMMA Invariance == Spec => [](Camera!TypeOK /\ Camera!LeaseInv /\ IInv)
  BY IInvInit, IInvStep, LeaseHolds, PTL DEF Spec

----------------------------------------------------------------------------
(* What the invariant says of an enrollment. *)

\* Every variable keeps its type, those of the camera and of the session
\* included: lastProcessed is a number of frames there have been, and frame the
\* lease of a frame that was captured.
THEOREM TypeCorrect == Spec => []TypeOK
  <1>1. Camera!TypeOK /\ Session!TypeOK /\ IInv => TypeOK
    <2> SUFFICES ASSUME Camera!TypeOK, Session!TypeOK, IInv PROVE TypeOK
      OBVIOUS
    <2>1. /\ lastProcessed \in 0..MaxFrames /\ baseline \in 0..MaxFrames
          /\ examined \subseteq 1..MaxFrames
      BY BoundsAreNat DEF IInv, FramesBounded, NumbersArePast
    <2> QED
      BY <2>1 DEF TypeOK, IInv, LocalTypeOK
  <1> QED
    BY <1>1, Invariance, SessionHolds, PTL

\* Nothing from before enrollment_start is ever examined for a session: its
\* frames come from the lease it was granted or a later one
\* (enrollment_controller.cpp:67-82, 102-110).
THEOREM SamplesAreAlwaysFresh == Spec => []SamplesAreFresh
  BY Invariance, PTL DEF IInv

\* A session that is over, or has all it needs, does not keep the camera: its
\* own lease is not wanted any more (enrollment_controller.cpp:169, 197, 236).
THEOREM LeaseEndsWithItsSession == Spec => []LeaseEndsWithSession
  BY Invariance, PTL DEF IInv

\* No frame is examined twice, although enrollment_start forgets which was the
\* last (enrollment_controller.cpp:76, 107).
THEOREM FramesAreExaminedOnce == Spec => NoFrameReuse
  <1>1. IInv => [CaptureFrame => framesTotal \notin examined]_vars
    <2> SUFFICES ASSUME IInv, CaptureFrame PROVE framesTotal \notin examined
      OBVIOUS
    <2>1. latest # 0 /\ lastProcessed < framesTotal /\ framesTotal \in Nat
      BY DEF CaptureFrame, Camera!Snapshot, IInv, FramesBounded
    <2> QED
      BY <2>1 DEF IInv, ExaminedIsProcessed, NumbersArePast
  <1> QED
    BY <1>1, Invariance, PTL DEF NoFrameReuse
=============================================================================
