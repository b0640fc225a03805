---------------------------- MODULE CameraLease ----------------------------
(***************************************************************************)
(* CameraLeaseManager (daemon/src/camera_lease.cpp): the thread that owns  *)
(* the camera, the calls other threads make to it, and the camera driver.  *)
(*                                                                         *)
(* An action is one section of the code between taking and releasing the   *)
(* manager's mutex, or one driver call, which runs with the mutex free.    *)
(* Time is abstract: a measured interval is either within its limit or     *)
(* past it.                                                                *)
(*                                                                         *)
(* A definition named Fault... is the one after it with a plausible bug:   *)
(* no action uses it, it shows that a property can tell the difference.    *)
(***************************************************************************)
EXTENDS Naturals

CONSTANTS
  Callers,      \* the threads that call start() and stop()
  StopReasons,  \* the reasons they give to stop()
  MaxLeases,    \* bound: leases granted
  MaxFrames     \* bound: frames the camera delivers

WorkerReasons ==
  {"never_started", "start_requested", "daemon_shutdown", "open_failed",
   "cancelled_while_opening", "open_timeout", "first_frame_timeout",
   "lease_deadline", "camera_stopped"}

\* A caller never passes one of the reasons the code sets by itself, except
\* "daemon_shutdown" (main.cpp:1705).
ASSUME LeaseAssumption ==
  /\ MaxLeases \in Nat
  /\ MaxFrames \in Nat
  /\ StopReasons \cap WorkerReasons \subseteq {"daemon_shutdown"}

VARIABLES
  shutdown,       \* shutdown_
  requested,      \* requested_: the lease is wanted
  opening,        \* open_in_progress_
  state,          \* state_
  generation,     \* generation_
  cameraOpen,     \* camera_open_: what the manager says of the device
  latest,         \* latest_frame_: the lease it was captured under, 0 for none
  framesTotal,    \* frames_total_
  releaseReason,  \* release_reason_
  pc,             \* where the worker is in worker_main
  lease,          \* worker_main's generation: the lease the worker serves
  gotFrame,       \* worker_main's recognition_started_set
  due,            \* the deadline running in this phase of the lease has passed
  io,             \* what the last driver call returned to the worker
  device,         \* what the camera really is
  waiting,        \* the callers inside stop()'s wait_for
  freed           \* history: the leases that were current when a stop() call
                  \* answered that the camera is released

managerVars == <<shutdown, requested, opening, state, generation, cameraOpen,
                 latest, framesTotal, releaseReason>>
workerVars == <<pc, lease, gotFrame, due, io, device>>
callerVars == <<waiting, freed>>
vars == <<managerVars, workerVars, callerVars>>

States == {"Idle", "Opening", "Active", "Stopping", "Failed"}

\* The points of worker_main at which it holds no lock, named for what it does
\* next; "asleep" is inside condition_.wait.
WorkerSteps == {"wait", "asleep", "open", "opened", "check", "read",
                "frame", "close", "closed", "drop", "exited"}

FlagsTypeOK ==
  /\ shutdown \in BOOLEAN /\ requested \in BOOLEAN /\ opening \in BOOLEAN
  /\ cameraOpen \in BOOLEAN /\ gotFrame \in BOOLEAN /\ due \in BOOLEAN

DataTypeOK ==
  /\ state \in States
  /\ generation \in 0..MaxLeases
  /\ latest \in 0..MaxLeases
  /\ framesTotal \in Nat
  /\ releaseReason \in StopReasons \cup WorkerReasons
  /\ pc \in WorkerSteps
  /\ lease \in 0..MaxLeases
  /\ io \in {"none", "fail", "ok", "late"}
  /\ device \in {"closed", "streaming"}
  /\ waiting \subseteq Callers
  /\ freed \subseteq 0..MaxLeases

\* In two parts, because no prover reasons about flags and numbers together.
TypeOK == FlagsTypeOK /\ DataTypeOK

Init ==
  /\ shutdown = FALSE /\ requested = FALSE /\ opening = FALSE
  /\ state = "Idle"
  /\ generation = 0
  /\ cameraOpen = FALSE
  /\ latest = 0
  /\ framesTotal = 0
  /\ releaseReason = "never_started"
  /\ pc = "wait"
  /\ lease = 0
  /\ gotFrame = FALSE /\ due = FALSE
  /\ io = "none"
  /\ device = "closed"
  /\ waiting = {}
  /\ freed = {}

----------------------------------------------------------------------------
(* The callers. *)

\* condition_.notify_all(): the sleeping worker will look at its predicate.
NotifyWorker == pc' = IF pc = "asleep" THEN "wait" ELSE pc

\* A caller is in at most one call, and none calls a manager being destroyed.
CanCall(c) == c \notin waiting /\ ~shutdown

FaultStartAnswer ==
  IF requested /\ state \in {"Opening", "Active"} THEN "lease_already_active"
  ELSE "start_requested"

StartAnswer ==
  IF requested /\ state \in {"Opening", "Active"} THEN "lease_already_active"
  ELSE IF opening \/ state \in {"Stopping", "Opening"} THEN "camera_stopping"
  ELSE "start_requested"

\* start() for an answer that changes the state; the other two, and a duration
\* out of range, change nothing.
Start(c) ==
  /\ CanCall(c)
  /\ StartAnswer = "start_requested"
  /\ generation < MaxLeases
  /\ generation' = generation + 1
  /\ requested' = TRUE
  /\ state' = "Opening"
  /\ releaseReason' = "start_requested"
  /\ latest' = 0
  /\ NotifyWorker
  /\ UNCHANGED <<shutdown, opening, cameraOpen, framesTotal, lease, gotFrame,
                 due, io, device, callerVars>>

FaultReleased == ~cameraOpen /\ state # "Stopping"

\* The condition stop() reports as "released".
Released == ~cameraOpen /\ ~opening /\ state \notin {"Opening", "Stopping"}

\* stop() when there is nothing to release: the reason is not recorded.
StopNothing(c) ==
  /\ CanCall(c)
  /\ Released
  /\ freed' = freed \cup {generation}
  /\ UNCHANGED <<managerVars, workerVars, waiting>>

FaultStopBeforeOpen(c, reason) ==
  /\ CanCall(c)
  /\ state = "Opening" /\ ~opening
  /\ requested' = FALSE
  /\ state' = "Idle"
  /\ latest' = 0
  /\ freed' = freed \cup {generation}
  /\ NotifyWorker
  /\ UNCHANGED <<shutdown, opening, generation, cameraOpen, framesTotal,
                 releaseReason, lease, gotFrame, due, io, device, waiting>>

\* stop() before the worker has taken the request.
StopBeforeOpen(c, reason) ==
  /\ CanCall(c)
  /\ state = "Opening" /\ ~opening
  /\ requested' = FALSE
  /\ state' = "Idle"
  /\ releaseReason' = reason
  /\ latest' = 0
  /\ freed' = freed \cup {generation}
  /\ NotifyWorker
  /\ UNCHANGED <<shutdown, opening, generation, cameraOpen, framesTotal, lease,
                 gotFrame, due, io, device, waiting>>

FaultStopAndWait(c, reason) ==
  /\ CanCall(c)
  /\ ~Released /\ ~(state = "Opening" /\ ~opening)
  /\ requested' = FALSE
  /\ releaseReason' = reason
  /\ waiting' = waiting \cup {c}
  /\ NotifyWorker
  /\ UNCHANGED <<shutdown, opening, state, generation, cameraOpen, latest,
                 framesTotal, lease, gotFrame, due, io, device, freed>>

\* stop() of a lease the worker is serving: ask, then wait for it to end.
StopAndWait(c, reason) ==
  /\ CanCall(c)
  /\ ~Released /\ ~(state = "Opening" /\ ~opening)
  /\ requested' = FALSE
  /\ releaseReason' = reason
  /\ state' = IF state = "Active" THEN "Stopping" ELSE state
  /\ waiting' = waiting \cup {c}
  /\ NotifyWorker
  /\ UNCHANGED <<shutdown, opening, generation, cameraOpen, latest, framesTotal,
                 lease, gotFrame, due, io, device, freed>>

\* wait_for returns, because the lease ended or because its time is up; either
\* way stop() reports what it then finds.
StopReturns(c) ==
  /\ c \in waiting
  /\ waiting' = waiting \ {c}
  /\ freed' = IF Released THEN freed \cup {generation} ELSE freed
  /\ UNCHANGED <<managerVars, workerVars>>

FaultDestroy ==
  /\ ~shutdown /\ waiting = {}
  /\ shutdown' = TRUE
  /\ requested' = FALSE
  /\ releaseReason' = "daemon_shutdown"
  /\ UNCHANGED <<opening, state, generation, cameraOpen, latest, framesTotal,
                 workerVars, callerVars>>

\* The destructor up to its join(), which ends when pc is "exited".
Destroy ==
  /\ ~shutdown /\ waiting = {}
  /\ shutdown' = TRUE
  /\ requested' = FALSE
  /\ releaseReason' = "daemon_shutdown"
  /\ NotifyWorker
  /\ UNCHANGED <<opening, state, generation, cameraOpen, latest, framesTotal,
                 lease, gotFrame, due, io, device, callerVars>>

FaultSnapshot == latest

\* What snapshot() finds: the lease whose frame it copies out, 0 when it
\* returns false.
Snapshot == IF state = "Active" THEN latest ELSE 0

----------------------------------------------------------------------------
(* The worker. *)

\* The predicate of condition_.wait, without shutdown_.
LeaseWanted == requested /\ state = "Opening" /\ ~opening

WorkerSleeps ==
  /\ pc = "wait" /\ ~shutdown /\ ~LeaseWanted
  /\ pc' = "asleep"
  /\ UNCHANGED <<managerVars, lease, gotFrame, due, io, device, callerVars>>

WorkerWakesSpuriously ==
  /\ pc = "asleep"
  /\ pc' = "wait"
  /\ UNCHANGED <<managerVars, lease, gotFrame, due, io, device, callerVars>>

WorkerExits ==
  /\ pc = "wait" /\ shutdown
  /\ pc' = "exited"
  /\ UNCHANGED <<managerVars, lease, gotFrame, due, io, device, callerVars>>

WorkerTakesLease ==
  /\ pc = "wait" /\ ~shutdown /\ LeaseWanted
  /\ opening' = TRUE
  /\ lease' = generation
  /\ gotFrame' = FALSE
  /\ pc' = "open"
  /\ UNCHANGED <<shutdown, requested, state, generation, cameraOpen, latest,
                 framesTotal, releaseReason, due, io, device, callerVars>>

FaultWorkerOpenFailed ==
  /\ pc = "opened" /\ io = "fail"
  /\ opening' = FALSE
  /\ requested' = FALSE
  /\ cameraOpen' = FALSE
  /\ state' = "Failed"
  /\ releaseReason' = "open_failed"
  /\ latest' = 0
  /\ io' = "none"
  /\ pc' = "wait"
  /\ UNCHANGED <<shutdown, generation, framesTotal, lease, gotFrame, due,
                 device, callerVars>>

\* The section that follows open(). A failed open's source is destroyed, and
\* with it a half-opened device, before the lock is.
WorkerOpenFailed ==
  /\ pc = "opened" /\ io = "fail"
  /\ opening' = FALSE
  /\ requested' = FALSE
  /\ cameraOpen' = FALSE
  /\ state' = "Failed"
  /\ releaseReason' = "open_failed"
  /\ latest' = 0
  /\ device' = "closed"
  /\ io' = "none"
  /\ pc' = "wait"
  /\ UNCHANGED <<shutdown, generation, framesTotal, lease, gotFrame, due,
                 callerVars>>

\* The lease the worker serves is still the one that is wanted.
StillWanted == ~shutdown /\ requested /\ lease = generation

ReasonOr(default) ==
  IF releaseReason # "start_requested" THEN releaseReason
  ELSE IF shutdown THEN "daemon_shutdown" ELSE default

WorkerOpened ==
  /\ pc = "opened" /\ io # "fail"
  /\ opening' = FALSE
  /\ cameraOpen' = TRUE
  /\ \/ /\ ~StillWanted
        /\ releaseReason' = ReasonOr("cancelled_while_opening")
        /\ state' = "Stopping"
        /\ UNCHANGED requested
     \/ /\ StillWanted /\ io = "late"
        /\ requested' = FALSE
        /\ releaseReason' = "open_timeout"
        /\ state' = "Stopping"
     \/ /\ StillWanted /\ io = "ok"
        /\ state' = "Active"
        /\ UNCHANGED <<requested, releaseReason>>
  /\ io' = "none"
  /\ pc' = "check"
  /\ UNCHANGED <<shutdown, generation, latest, framesTotal, lease, gotFrame,
                 due, device, callerVars>>

\* End the lease because the deadline of its phase has passed.
Expire ==
  /\ requested' = FALSE
  /\ releaseReason' = IF gotFrame THEN "lease_deadline"
                                  ELSE "first_frame_timeout"
  /\ state' = "Stopping"

FaultWorkerChecks ==
  /\ pc = "check"
  /\ pc' = IF StillWanted /\ state = "Active" THEN "read" ELSE "close"
  /\ UNCHANGED <<managerVars, lease, gotFrame, due, io, device, callerVars>>

\* The top of the capture loop: go on, or leave it.
WorkerChecks ==
  /\ pc = "check"
  /\ \/ /\ StillWanted /\ state = "Active" /\ ~due
        /\ pc' = "read"
        /\ UNCHANGED <<requested, releaseReason, state>>
     \/ /\ StillWanted /\ state = "Active" /\ due
        /\ Expire
        /\ pc' = "close"
     \/ /\ ~(StillWanted /\ state = "Active")
        /\ pc' = "close"
        /\ UNCHANGED <<requested, releaseReason, state>>
  /\ UNCHANGED <<shutdown, opening, generation, cameraOpen, latest, framesTotal,
                 lease, gotFrame, due, io, device, callerVars>>

\* read() delivered a frame, and its lease is still there to receive it.
FrameWanted ==
  io # "fail" /\ requested /\ lease = generation /\ state = "Active"

\* The section that follows read(): publish the frame, unless it came too late
\* or nobody wants it any more.
WorkerHandlesFrame ==
  /\ pc = "frame"
  /\ \/ /\ FrameWanted /\ io = "late"
        /\ Expire
        /\ UNCHANGED <<latest, framesTotal, gotFrame, due>>
     \/ /\ FrameWanted /\ io = "ok"
        /\ latest' = lease
        /\ framesTotal' = framesTotal + 1
        /\ gotFrame' = TRUE
        /\ due' = (gotFrame /\ due)
        /\ UNCHANGED <<requested, releaseReason, state>>
     \/ /\ ~FrameWanted
        /\ UNCHANGED <<requested, releaseReason, state, latest, framesTotal,
                       gotFrame, due>>
  /\ io' = "none"
  /\ pc' = "check"
  /\ UNCHANGED <<shutdown, opening, generation, cameraOpen, lease, device,
                 callerVars>>

\* The section that follows close().
WorkerReleases ==
  /\ pc = "closed"
  /\ cameraOpen' = FALSE
  /\ requested' = FALSE
  /\ opening' = FALSE
  /\ latest' = 0
  /\ releaseReason' = ReasonOr("camera_stopped")
  /\ state' = "Idle"
  /\ pc' = "drop"
  /\ UNCHANGED <<shutdown, generation, framesTotal, lease, gotFrame, due, io,
                 device, callerVars>>

FaultWorkerDropsSource ==
  /\ pc = "drop"
  /\ \/ pc' = "wait"
     \/ shutdown /\ pc' = "exited"
  /\ UNCHANGED <<managerVars, lease, gotFrame, due, io, device, callerVars>>

\* The end of worker_main's loop: the source is destroyed, and shutdown_ is
\* read without the lock, so a concurrent Destroy may go unseen until the wait.
WorkerDropsSource ==
  /\ pc = "drop"
  /\ device' = "closed"
  /\ \/ pc' = "wait"
     \/ shutdown /\ pc' = "exited"
  /\ UNCHANGED <<managerVars, lease, gotFrame, due, io, callerVars>>

----------------------------------------------------------------------------
(* The driver and the clock: nothing here holds the lock. *)

\* open() fails, perhaps by an exception with the device already open, or it
\* succeeds within open_timeout_ms or later. The first-frame clock starts.
OpenReturns ==
  /\ pc = "open"
  /\ \/ io' = "fail" /\ device' \in {"closed", "streaming"}
     \/ io' \in {"ok", "late"} /\ device' = "streaming"
  /\ due' = FALSE
  /\ pc' = "opened"
  /\ UNCHANGED <<managerVars, lease, gotFrame, callerVars>>

\* read() fails or delivers a frame, stamped before the lock is taken.
ReadReturns ==
  /\ pc = "read"
  /\ \/ io' = "fail"
     \/ io' = (IF due THEN "late" ELSE "ok") /\ framesTotal < MaxFrames
  /\ pc' = "frame"
  /\ UNCHANGED <<managerVars, lease, gotFrame, due, device, callerVars>>

\* close() releases the device, or throws and leaves it to the destructor.
CloseReturns ==
  /\ pc = "close"
  /\ device' \in {"closed", "streaming"}
  /\ pc' = "closed"
  /\ UNCHANGED <<managerVars, lease, gotFrame, due, io, callerVars>>

\* first_frame_timeout_ms, or after the first frame the lease's duration, is up.
DeadlinePasses ==
  /\ pc \in {"opened", "check", "read", "frame"}
  /\ ~due
  /\ due' = TRUE
  /\ UNCHANGED <<managerVars, pc, lease, gotFrame, io, device, callerVars>>

----------------------------------------------------------------------------
Terminated == shutdown /\ pc = "exited" /\ UNCHANGED vars

Calls ==
  \/ \E c \in Callers :
       \/ Start(c)
       \/ StopNothing(c)
       \/ \E reason \in StopReasons :
            StopBeforeOpen(c, reason) \/ StopAndWait(c, reason)
       \/ StopReturns(c)
  \/ Destroy

Worker ==
  \/ WorkerSleeps \/ WorkerExits \/ WorkerTakesLease
  \/ WorkerOpenFailed \/ WorkerOpened \/ WorkerChecks \/ WorkerHandlesFrame
  \/ WorkerReleases \/ WorkerDropsSource

Driver == OpenReturns \/ ReadReturns \/ CloseReturns

Next ==
  Calls \/ Worker \/ Driver \/ WorkerWakesSpuriously \/ DeadlinePasses
  \/ Terminated

Spec == Init /\ [][Next]_vars

\* The worker thread is scheduled, the driver's blocking calls return, the
\* clock runs, and wait_for has a time limit. Nobody has to call anything.
Fairness ==
  /\ WF_vars(Worker)
  /\ WF_vars(Driver)
  /\ WF_vars(DeadlinePasses)
  /\ \A c \in Callers : WF_vars(StopReturns(c))

FairSpec == Spec /\ Fairness
----------------------------------------------------------------------------
(* What the manager promises. *)

\* snapshot() never hands out a frame of an earlier lease, and none at all once
\* a stop() of the lease has begun (camera_lease.cpp:239-251). Only the
\* destructor leaves a frame behind, when no caller is left to read it.
NoStaleFrame ==
  Snapshot # 0 => Snapshot = generation /\ (requested \/ shutdown)

\* When the manager says the camera is not in use, it is not: the device is
\* closed, except that a close() that threw (camera_lease.cpp:401-405) is made
\* good only when the source is destroyed, right after Idle is published.
ReportMatchesDevice ==
  state \in {"Idle", "Failed"} => device = "closed" \/ pc = "drop"

\* A stop() that reported a lease released was right for good: nothing opens the
\* device or wants it again until another lease is granted, whatever open() or
\* read() was under way when it was called (camera_lease.cpp:161-217).
ReleasedStaysReleased ==
  generation \in freed =>
    /\ ~requested /\ ~cameraOpen /\ ~opening
    /\ pc \notin {"open", "opened", "check", "read", "frame", "close", "closed"}
    /\ device = "closed" \/ pc = "drop"

\* At most one handle on the device: the worker opens it only when it is closed
\* (camera_lease.cpp:271-285), though the close() before may have thrown.
OneHandle == pc = "open" => device = "closed"

\* Whenever the camera is not wanted the recorded reason says why it ended, as
\* enrollment_controller.cpp:60-70 relies on. So the reasons that
\* camera_lease.cpp:308 and 412 fill in are never needed.
ReasonExplains == releaseReason = "start_requested" => requested

\* The worker never sleeps through a request or through the destructor
\* (camera_lease.cpp:105, 157, 265-269).
NoLostWakeup == pc = "asleep" => ~shutdown /\ ~LeaseWanted

\* docs/lock-screen-auth.md:86 says that lockscreen_password_started "records
\* `password_started` as the terminal reason": once recorded it stays until the
\* next lease. An open() that then fails replaces it (camera_lease.cpp:300).
PasswordReasonIsTerminal ==
  [][releaseReason = "password_started" /\ generation' = generation /\ ~shutdown'
       => releaseReason' = "password_started"]_vars

----------------------------------------------------------------------------
(* The inductive invariant: what holds at each point of the worker's loop. *)

Serving == pc \in {"open", "opened", "check", "read", "frame", "close", "closed"}

\* The worker's lease is the current one for as long as it serves it.
LeaseIsCurrent == Serving => lease = generation

\* The flags the mutex protects say where the worker is.
FlagsFollowWorker ==
  /\ opening <=> pc \in {"open", "opened"}
  /\ cameraOpen <=> pc \in {"check", "read", "frame", "close", "closed"}
  /\ opening => state = "Opening"
  /\ cameraOpen => state \in {"Active", "Stopping"}
  /\ ~Serving => state \in {"Idle", "Failed", "Opening"}

DeviceFollowsWorker ==
  /\ pc \in {"wait", "asleep", "open", "exited"} => device = "closed"

\* A lease is wanted in Opening and Active only; it stops being wanted by
\* leaving them, except while an open() is under way and at the end.
WantedFollowsState ==
  /\ requested => state \in {"Opening", "Active"} /\ ~shutdown
  /\ state = "Active" => requested \/ shutdown
  /\ state = "Opening" /\ ~opening => requested \/ shutdown

FrameFollowsLease ==
  latest # 0 => latest = generation /\ state \in {"Active", "Stopping"}

FreedIsOver ==
  generation \in freed => ~requested /\ state \in {"Idle", "Failed"}

FreedIsPast == \A g \in freed : g <= generation

\* Everything above, as one step of any thread preserves it.
LeaseInv ==
  /\ LeaseIsCurrent
  /\ FlagsFollowWorker
  /\ DeviceFollowsWorker
  /\ WantedFollowsState
  /\ FrameFollowsLease
  /\ FreedIsOver
  /\ FreedIsPast
  /\ ReasonExplains
  /\ NoLostWakeup

----------------------------------------------------------------------------
(* The manager implements the abstract lease. *)

LeasePhase ==
  IF state \in {"Idle", "Failed"} THEN "free"
  ELSE IF requested THEN "held" ELSE "revoked"

Lease == INSTANCE DeviceLease WITH
  phase <- LeasePhase,
  number <- generation,
  visible <- IF shutdown THEN 0 ELSE Snapshot

\* Whatever the threads and the driver do, a user of the manager sees the leases
\* of DeviceLease: one at a time, never revived, no frame outside them.
ImplementsDeviceLease == Lease!Spec

----------------------------------------------------------------------------
(* Liveness, under Fairness. *)

\* Every lease ends by itself, with no caller's help: the camera is released
\* after a failed or late open, without any frame, or at the deadline
\* (camera_lease.cpp:326-399). A wanted lease is taken up first, so no start()
\* is forgotten.
LeaseEnds == ~Released ~> (Released \/ pc = "exited")

\* The device never stays open.
DeviceIsClosed == device = "streaming" ~> device = "closed"

\* The destructor's join() returns (camera_lease.cpp:98-110).
ShutdownCompletes == shutdown ~> pc = "exited"
=============================================================================
