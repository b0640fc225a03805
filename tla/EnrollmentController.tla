----------------------- MODULE EnrollmentController -----------------------
(***************************************************************************)
(* EnrollmentController (daemon/src/enrollment_controller.cpp) between the *)
(* enrollment session it owns and the camera lease it borrows, with the    *)
(* lock-screen requests that use the same camera (main.cpp:1220-1262).     *)
(*                                                                         *)
(* One thread, the socket server's, serves one request at a time; the      *)
(* camera's worker runs beside it. An action is the part of a request from *)
(* one critical section of the camera manager up to the next. A request    *)
(* that only answers is left out.                                          *)
(* A definition named Fault... is the one after it with a plausible bug.   *)
(***************************************************************************)
EXTENDS Naturals

CONSTANTS
  Poses, TargetPerPose, MaximumPerPose, HeldoutPerPose,  \* EnrollmentSession
  MaxLeases, MaxFrames,                                  \* CameraLease
  LockScreen    \* a lock screen uses the camera, too

VARIABLES
  \* CameraLease
  shutdown, requested, opening, state, generation, cameraOpen, latest,
  framesTotal, releaseReason, pc, lease, gotFrame, due, io, device, waiting,
  freed,
  \* EnrollmentSession
  session, training, builder, candidate, heldout, accepted,
  \* EnrollmentController
  lastProcessed,  \* last_processed_frames_total_
  call,           \* what the server is in the middle of
  frame,          \* the lease of the frame capture() has copied, 0 for none
  ownLease,       \* history: the lease that enrollment_start was granted
  baseline,       \* history: framesTotal at that moment
  examined        \* history: the frames the detector has been given, by number

Server == "server"

StopReasons ==
  {"enrollment_ready", "enrollment_cancelled", "enrollment_committed",
   "lockscreen_cancelled", "password_started", "daemon_shutdown"}

Camera == INSTANCE CameraLease WITH Callers <- {Server}
Session == INSTANCE EnrollmentSession

\* What the two components assume, and whether there is a lock screen.
ASSUME ControllerAssumption ==
  /\ Camera!LeaseAssumption
  /\ Session!PolicyAssumption
  /\ LockScreen \in BOOLEAN

cameraVars == <<shutdown, requested, opening, state, generation, cameraOpen,
                latest, framesTotal, releaseReason, pc, lease, gotFrame, due,
                io, device, waiting, freed>>
sessionVars == <<session, training, builder, candidate, heldout, accepted>>
historyVars == <<ownLease, baseline, examined>>
controllerVars == <<lastProcessed, call, frame, historyVars>>
vars == <<cameraVars, sessionVars, controllerVars>>

TypeOK ==
  /\ Camera!TypeOK
  /\ Session!TypeOK
  /\ lastProcessed \in 0..MaxFrames
  /\ call \in {"none", "examine", "status", "left"}
  /\ frame \in 0..MaxLeases
  /\ ownLease \in 0..MaxLeases
  /\ baseline \in 0..MaxFrames
  /\ examined \subseteq 1..MaxFrames

Init ==
  /\ Camera!Init
  /\ Session!Init
  /\ lastProcessed = 0
  /\ call = "none"
  /\ frame = 0
  /\ ownLease = 0
  /\ baseline = 0
  /\ examined = {}

----------------------------------------------------------------------------
\* The server is ready for another request.
ServerFree == call = "none" /\ waiting = {} /\ ~shutdown

Enrolling == session \in {"Collecting", "Validating"}

\* stop() up to its wait; CameraLease's StopReturns ends the wait.
StopCamera(reason) ==
  \/ Camera!StopNothing(Server)
  \/ Camera!StopBeforeOpen(Server, reason)
  \/ Camera!StopAndWait(Server, reason)

\* camera_->start(), when it is accepted.
StartCamera ==
  IF Camera!StartAnswer = "lease_already_active" THEN UNCHANGED cameraVars
  ELSE Camera!Start(Server)

FaultEnrollStart ==
  /\ ServerFree
  /\ ~Enrolling /\ session # "Ready"
  /\ lastProcessed' = 0
  /\ IF Camera!StartAnswer # "camera_stopping"
     THEN /\ Session!Start
          /\ StartCamera
          /\ ownLease' = generation'
          /\ baseline' = framesTotal
     ELSE /\ Session!Cancel
          /\ UNCHANGED <<cameraVars, ownLease, baseline>>
  /\ UNCHANGED <<call, frame, examined>>

\* enrollment_start. Nobody else starts a lease between the look at the camera's
\* state and start(), so the two are one step.
EnrollStart ==
  /\ ServerFree
  /\ ~Enrolling /\ session # "Ready"
  /\ state \notin {"Opening", "Active", "Stopping"}
  /\ lastProcessed' = 0
  /\ IF Camera!StartAnswer # "camera_stopping"
     THEN /\ Session!Start
          /\ StartCamera
          /\ ownLease' = generation'
          /\ baseline' = framesTotal
     ELSE /\ Session!Cancel
          /\ UNCHANGED <<cameraVars, ownLease, baseline>>
  /\ UNCHANGED <<call, frame, examined>>

FaultCaptureFrame ==
  /\ ServerFree /\ Enrolling
  /\ Camera!Snapshot # 0
  /\ lastProcessed' = framesTotal
  /\ frame' = Camera!Snapshot
  /\ call' = "examine"
  /\ examined' = examined \cup {framesTotal}
  /\ UNCHANGED <<cameraVars, sessionVars, ownLease, baseline>>

\* enrollment_capture finds a frame it has not seen, and copies it.
CaptureFrame ==
  /\ ServerFree /\ Enrolling
  /\ Camera!Snapshot # 0
  /\ framesTotal > lastProcessed
  /\ lastProcessed' = framesTotal
  /\ frame' = Camera!Snapshot
  /\ call' = "examine"
  /\ examined' = examined \cup {framesTotal}
  /\ UNCHANGED <<cameraVars, sessionVars, ownLease, baseline>>

\* enrollment_capture finds none, and goes on to status().
CaptureNoFrame ==
  /\ ServerFree /\ Enrolling
  /\ Camera!Snapshot = 0
  /\ call' = "status"
  /\ UNCHANGED <<cameraVars, sessionVars, lastProcessed, frame, historyVars>>

FaultAddSample == Session!AddSample /\ UNCHANGED cameraVars

\* The sample goes into the session; the camera is not needed any more when that
\* makes it Ready.
AddSample ==
  /\ Session!AddSample
  /\ IF session' = "Ready" THEN StopCamera("enrollment_ready")
                           ELSE UNCHANGED cameraVars

\* The rest of enrollment_capture, with the detector, the quality gates and the
\* embedder, each of which may refuse the frame.
ExamineFrame ==
  /\ call = "examine"
  /\ AddSample \/ UNCHANGED <<cameraVars, sessionVars>>
  /\ call' = "none"
  /\ frame' = 0
  /\ UNCHANGED <<lastProcessed, historyVars>>

\* The camera has given up on the lease, or was never asked for one.
CameraEnded ==
  \/ state = "Failed"
  \/ state = "Idle" /\ releaseReason \notin {"never_started", "start_requested"}

FaultEnrollStatus ==
  /\ ServerFree \/ call = "status"
  /\ Enrolling
  /\ IF state = "Failed" THEN Session!Cancel ELSE UNCHANGED sessionVars
  /\ call' = "none"
  /\ UNCHANGED <<cameraVars, lastProcessed, frame, historyVars>>

\* enrollment_status, and the end of a capture without a frame: the session does
\* not outlive the camera's lease.
EnrollStatus ==
  /\ ServerFree \/ call = "status"
  /\ Enrolling
  /\ IF CameraEnded THEN Session!Cancel ELSE UNCHANGED sessionVars
  /\ call' = "none"
  /\ UNCHANGED <<cameraVars, lastProcessed, frame, historyVars>>

\* enrollment_cancel, whether or not an enrollment is under way.
EnrollCancel ==
  /\ ServerFree
  /\ Session!Cancel
  /\ StopCamera("enrollment_cancelled")
  /\ UNCHANGED controllerVars

\* enrollment_commit when the storage succeeds; a failure changes nothing here.
EnrollCommit ==
  /\ ServerFree
  /\ Session!MarkCommitted
  /\ StopCamera("enrollment_committed")
  /\ UNCHANGED controllerVars

\* lockscreen_start, when it is granted a lease of its own.
LockScreenStart ==
  /\ LockScreen /\ ServerFree
  /\ Camera!Start(Server)
  /\ UNCHANGED <<sessionVars, controllerVars>>

\* lockscreen_cancel and lockscreen_password_started.
LockScreenStop ==
  /\ LockScreen /\ ServerFree
  /\ \E reason \in {"lockscreen_cancelled", "password_started"} :
       StopCamera(reason)
  /\ UNCHANGED <<sessionVars, controllerVars>>

\* run_daemon_mode after the server's loop: stop() and the destructors.
ServerLeaves ==
  /\ ServerFree
  /\ StopCamera("daemon_shutdown")
  /\ call' = "left"
  /\ UNCHANGED <<sessionVars, lastProcessed, frame, historyVars>>

DestroyCamera ==
  /\ call = "left"
  /\ Camera!Destroy
  /\ UNCHANGED <<sessionVars, controllerVars>>

\* The camera's thread, its driver and its clock.
CameraStep ==
  /\ \/ Camera!Worker \/ Camera!Driver \/ Camera!DeadlinePasses
     \/ Camera!WorkerWakesSpuriously
     \/ Camera!StopReturns(Server)
  /\ UNCHANGED <<sessionVars, controllerVars>>

Terminated == shutdown /\ pc = "exited" /\ UNCHANGED vars

----------------------------------------------------------------------------
Capture == CaptureFrame \/ CaptureNoFrame \/ ExamineFrame

Next ==
  \/ EnrollStart \/ Capture \/ EnrollStatus \/ EnrollCancel \/ EnrollCommit
  \/ LockScreenStart \/ LockScreenStop
  \/ ServerLeaves \/ DestroyCamera
  \/ CameraStep \/ Terminated

Spec == Init /\ [][Next]_vars

\* The camera's threads run, the server finishes what it has begun, and a client
\* that enrolls keeps asking for the status, as the GUI does every 300 ms. The
\* server takes its requests in turn, so that it gets to each of them.
Fairness ==
  /\ WF_vars(CameraStep /\ (Camera!Worker \/ Camera!Driver))
  /\ WF_vars(CameraStep /\ Camera!DeadlinePasses)
  /\ WF_vars(CameraStep /\ Camera!StopReturns(Server))
  /\ WF_vars(ExamineFrame)
  /\ SF_vars(EnrollStatus)

FairSpec == Spec /\ Fairness
----------------------------------------------------------------------------
\* The detector is given a frame at most once, in whatever session: the reset of
\* last_processed_frames_total_ (enrollment_controller.cpp:76) brings no old frame
\* back, because a new lease starts without one.
NoFrameReuse == [][CaptureFrame => framesTotal \notin examined]_vars

\* What is examined for a session was captured after its enrollment_start, on the
\* lease granted then or on a later one, never before
\* (enrollment_controller.cpp:67-72, camera_lease.cpp:151).
SamplesAreFresh ==
  call = "examine" => frame >= ownLease /\ lastProcessed > baseline

\* An enrollment does not keep the camera: once its session is over or has all it
\* needs, its lease is not wanted any more (docs/native-enrollment.md:52-53).
LeaseEndsWithSession ==
  ~Enrolling /\ generation = ownLease => ~requested

\* docs/native-enrollment.md:52 and 57 promise a "bounded session" on a camera
\* lease that "is bounded to 45 seconds": its samples come from that one lease.
\* But neither capture() nor status() compares leases
\* (enrollment_controller.cpp:102, 179).
SamplesOfOneLease == [][accepted' > accepted => frame = ownLease]_vars

\* A session never lingers: with nobody else using the camera, and a client that
\* keeps asking, collecting ends in a complete session or an erased one, unless
\* the daemon leaves first (enrollment_controller.cpp:103, 174-190).
SessionEnds == Enrolling ~> (~Enrolling \/ call = "left")
=============================================================================
