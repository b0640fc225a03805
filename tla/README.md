# Face Unlock: verification

TLA+ modules, TLC runs and TLAPS proofs for the native part of face-unlock-linux:
the camera lease, enrollment, the files of an enrolled user, the daemon's socket and
its PAM client, the enrollment GUI, the lock screen's policy and the analysis of
frames and profiles. Paths below are relative to the repository's `src`
(`daemon/src/camera_lease.cpp` is `daemon/src/...` there).

    tlc -workers 2 -config MCCameraLease.cfg MCCameraLease.tla    # one run
    tlapm CameraLeaseProofs.tla                                    # its proofs

## 1. Inventory

### The system

`face-unlockd` is one daemon per user. It owns the camera, the detector and
recognizer models and the encrypted face profile, and serves one-line requests
on a Unix socket, one connection at a time on one thread. Its clients are the
PAM module (sudo and the Hyprlock lock screen) and the enrollment GUI. The key
and template tools and the GUI's Forget Me work on the same files without
asking the daemon.

| component | state | operations | talks to |
|---|---|---|---|
| camera lease manager (`camera_lease.cpp`) | state, flags, lease number and reason under one mutex; a worker thread with its place in the loop; the device | `start`, `stop` (waits up to a limit), `snapshot`, destructor; the worker's open / read / close | the camera driver (blocking calls); the socket server's thread |
| enrollment session and profile builder (`enrollment_session.cpp`, `face_profile.cpp`) | state, samples per pose, candidate profile, held-out counts | `start`, `add_sample`, `cancel`, `finalize`, `mark_committed`, `status` | owned by the controller |
| enrollment controller (`enrollment_controller.cpp`) | last processed frame number; a session | `enrollment_start`, `_capture`, `_status`, `_cancel`, `_commit` | session, camera manager, detector and recognizer, storage |
| profile storage (`profile_storage.cpp`, `template_crypto.cpp`) | key, template and manifest files | `commit_encrypted_face_profile`, load | file system |
| key and template tools (`key_tool.cpp`, `template_tool.cpp`) | the same files | create, delete | file system |
| socket server (`main.cpp`) | auth attempts, the socket and its path, the stop flag | accept, read, decide, write: one request per connection | everything above, the PAM module, the GUI |
| lock-screen authentication session (`lockscreen_auth.cpp`) | elapsed time, illumination, terminal decision, candidates | `observe`, `acknowledge_illumination`, `cancel` | nothing yet: only its test uses it |
| frame quality, verification pipeline (`frame_quality.cpp`, `verification_pipeline.cpp`) | none; the loaded profile | ordered gates over one frame, a diagnostic score | detector, recognizer, profile |
| detector and recognizer (`detector.cpp`, `recognizer.cpp`) | the loaded networks | `detect`, `align_and_embed`, `cosine_similarity` | OpenCV |
| PAM module (`pam/pam_face_unlock.c`) | none that lasts | one request, with a time limit for each wait | socket server |
| enrollment GUI (`gui/src`) | the capture timer, what is shown, the scanner's timer | buttons, a capture every 300 ms, Forget Me | socket server (blocking queries with time limits), files |
| PAM installation scripts (`scripts`) | PAM files and their backups | install, roll back | file system |

Left aside: the Python prototypes, the benchmarks and self-tests (read as
documentation of what is promised), the painting of the scanner widget, build,
service and packaging files.

### What is hard, and what would be right

* **Camera lease.** A caller, the worker and the driver interleave; `open()`,
  `read()` and `close()` block with the mutex free, and each may fail or come
  back after the lease is over. Right means: one handle on the device; no frame
  of an earlier lease; what `stop()` reports as released stays released; `Idle`
  means the device is closed; every lease ends by itself; the destructor returns.
* **Enrollment session.** Totals stand in for counts per pose, percentages are
  rounded twice, `finalize()` may throw half way. Right means: a profile is ready
  only when every pose is complete, progress is honest and never falls, and
  nothing of an enrollment outlives it.
* **Enrollment controller.** It asks what state the camera is in, not whose lease
  that is, and its detector runs while the lease may end. Right means: no frame
  is used twice, no frame from before the start is used, the camera is let go
  when the session is over, and no session lingers.
* **Files.** Three files are replaced one after the other by several programs
  without a lock, in a directory the first of them makes; a write may fail, the
  daemon may be killed, the power may go.
  Right means: a committed profile can be read until somebody else removes or
  replaces it, and Forget Me leaves nothing that can be read.
* **Socket server and PAM.** One silent client holds the only thread; a client
  that gave up leaves its request in the queue, where it still counts as an
  attempt and where the answer to it fails: a daemon run by systemd, which ignores
  SIGPIPE for its services unless told otherwise, warns and goes on, and one started
  from a terminal is ended by the signal; a daemon that stops unlinks a path that may
  be another's by then. Right means: the limit of attempts is kept,
  success belongs to the call it is given to, a daemon can be found, PAM comes back.
* **GUI.** A query takes effect in the daemon although the GUI has given up on it,
  and such queries can fill the daemon's queue; timers and modal questions overlap.
  Right means: capture runs only for a session that is shown as running, it ends,
  what is shown is so, and closing the window cancels.
* **Lock screen.** A deadline, a limit of candidates and an illumination that settles
  meet, and calls come late. Right means: a verdict is final, comes in time, and is
  about frames in steady light.
* **Frames and profiles.** Eleven gates in a row, inclusive thresholds, an outlier to
  leave out, a binary format. Right means: nothing gets past a gate, a file is read
  as what was written or not at all.

`PROJECT.json` lists the hazards one by one, at their lines, with the properties
that would notice.

## 2. Modules

| module | models | built on |
|---|---|---|
| `DeviceLease` | abstract: what a user of the camera may rely on | |
| `CameraLease` | `CameraLeaseManager`, its worker, the driver | implements `DeviceLease` |
| `CameraLeaseProofs` | theorems about `CameraLease` | `CameraLease`, TLAPS |
| `EnrollmentSession` | `EnrollmentSession`, `FaceProfileBuilder` | |
| `EnrollmentSessionProofs` | theorems about `EnrollmentSession` | `EnrollmentSession`, TLAPS |
| `EnrollmentController` | `EnrollmentController`, lock-screen requests, the daemon's exit | INSTANCEs of `CameraLease` and `EnrollmentSession` |
| `EnrollmentControllerProofs` | theorems about `EnrollmentController` | `EnrollmentController`, the proofs of its two components |
| `ProfileStorage` | commit, key tool, template tool, Forget Me, crashes | |
| `ProfileStorageProofs` | theorems about `ProfileStorage` | `ProfileStorage`, TLAPS |
| `DaemonServer` | socket server, auth decision, PAM module, other clients, kills | |
| `DaemonServerProofs` | theorems about `DaemonServer` | `DaemonServer`, TLAPS |
| `GuiEnrollment` | enrollment tab, queries, timers, the daemon behind them | |
| `GuiEnrollmentProofs` | theorems about `GuiEnrollment` | `GuiEnrollment`, TLAPS |
| `LockScreenAuth` | `LockScreenAuthSession` and its caller's clock | |
| `LockScreenAuthProofs` | theorems about `LockScreenAuth` | `LockScreenAuth`, TLAPS |
| `FaceAnalysis` | detectors, gates, poses, embeddings, profiles and their file | |
| `FaceAnalysisProofs` | theorems about `FaceAnalysis` | `FaceAnalysis`, TLAPS |
| `MC...` | symmetry or inputs for TLC | the module they are named for |

A definition named `Fault...` stands before the one it is named for and is that
definition with a plausible bug: a dropped guard, a missing reset, a step left
out. No specification uses it; put in place of the original, it makes TLC report
the property it goes with (`PROJECT.json`, "mutants").

### CameraLease

Variables are the manager's members plus `pc`, where the worker is in
`worker_main`; `lease`, `gotFrame` and `due`, its locals; `io`, what the last
driver call returned; `device`, the truth about the hardware; `waiting`, callers
inside `stop()`'s `wait_for`; and `freed`, a history of the leases that some
`stop()` reported released.

One action is one section between taking and releasing the mutex, or one driver
call. So `stop()` is `StopNothing` or `StopBeforeOpen` when it answers at once,
and `StopAndWait` followed by `StopReturns` when it waits; `StopReturns` may come
before the camera is released, which is the time limit. The worker's loop is
`WorkerSleeps`, `WorkerTakesLease`, `OpenReturns`, `WorkerOpened` or
`WorkerOpenFailed`, then `WorkerChecks`, `ReadReturns`, `WorkerHandlesFrame`
repeatedly, then `CloseReturns`, `WorkerReleases`, `WorkerDropsSource`.
`NotifyWorker` is `condition_.notify_all()`: only a worker that already sleeps
hears it. `WorkerDropsSource` reads `shutdown_` without the lock, as the code
does, so a change to it may be noticed or missed there.

Time is reduced to `due`: the deadline of the present phase (first frame, lease)
has passed. A late `open()` is one of the driver's outcomes. Frame contents, sizes
and latencies are left out; a frame is the number of the lease it belongs to.

### EnrollmentSession

A sample is a pose and a verdict. `AddTraining`, `RefuseTraining` and `AddHeldout`
are `add_sample` with the builder's and the validator's answers;
`FinishTraining` is the `finalize()` that may throw, whereupon the next sample,
accepted or not, tries again. `Percent`, `TrainingProgress`, `HeldoutProgress` and
`Progress` are the integer arithmetic of `status()` with its two roundings.

### EnrollmentController

The state is the camera's and the session's, plus `lastProcessed`, `call` (what
the server's thread is in the middle of) and `frame` (the copy it works on). A
request is cut where the camera's thread can come in between: after the snapshot
of a capture (`CaptureFrame`, then `ExamineFrame` with the detector's time in
between), after the look at the camera that finds nothing (`CaptureNoFrame`, then
`EnrollStatus`), and in each `stop()`'s wait. `LockScreenStart` and
`LockScreenStop` are the lock-screen requests of `main.cpp`, which share the
camera. `ServerLeaves` and `DestroyCamera` are the end of `run_daemon_mode`.
The histories `ownLease`, `baseline` and `examined` say what the properties need
and no action reads them.

### ProfileStorage

`dir` is what programs see, `durable` what a power loss may leave for each file,
`strays` what killed processes left under temporary names. `home` is the
directory itself: whether it is there, and whether its entry in the one above is known
to last. The installer has made it long ago or the first program that writes does
(`MakesHome`); a power loss may take a directory that was only made, with all that is in
it. A key is a number; a template names the key that opens it. `stage` and `file` walk
through `commit_encrypted_face_profile` and, for each file, `write_file_0600`: temporary
file, rename, sync of the directory. `NextFile` is the order key, template,
manifest. `CommitFails` is any failing call, `DaemonDies` a kill, `PowerLoss` a
choice for each file among what may have become durable. The tools and Forget Me
work file by file; their own syncs are left out, which only lets a power loss undo
more. The GUI's removal of a file may fail (`ForgetFails`). A placeholder
template has nothing in it to protect and so no key. Checks of the paths' types
and modes, and the cipher, are left out. `AtWork` bounds how many of the other
programs are half done at one time.

### DaemonServer

Each daemon has a place `pc`: from `Starts` (the path is unlinked), `Binds` and
`Listens` through the loop (`poll`, `read`, `look`, `decide`, `files`, `write`) to
`ClosesSocket` and `UnlinksPath`, which are two steps because another daemon may
bind in between. A connection is in a daemon's `queue` or is `serving`; `client`,
`sent` and `reply` are its other end. `Reads` waits for a client that is connected
and silent, as `read()` does, also after a signal. An auth request is `Looks` (the
camera's state, taken first), then `Grants`, `RefusesTooMany` or `Counts`, then
`LooksAtFiles`, whose three looks at files that change meanwhile may end in any of
the answers `FileReason` allows. When the client has left, `write()` fails:
`WriteFails` is `write_json_response`'s branch for that, taken by the daemons in
`Ignoring`, which run with SIGPIPE ignored as under the shipped service, and
`WritesToNobody` is the signal's default, which ends the others. `Hangup` is what the
kernel does for a process that ends. PAM is `Connects` or `PamConnectFails`,
`Sends` or `PamSendFails`, then `PamReads` or `PamGivesUp`, which leaves the request
where it is. Other programs connect, send and leave as they like. Of the camera only
"ready" is kept, which changes at any time; of the peer's credentials, whether it is
root. `alone`, `allowed` and `earned` are histories.

### GuiEnrollment

`todo` are the queries the GUI's one thread is about to make, the first of which it
waits for while `awaited`; `queue` are requests in the daemon, given up on or not.
Clicks and `Tick` plan queries; `Asks`, `TimesOut` and `Answered` are
`queryDaemonOperation`, and `Applies` is what `processEnrollment` and
`applyEnrollmentSnapshot` do with an answer. A failed or late query is shown as an
idle session, as the code does. Each button is enabled by what is `shown`. The daemon
is `EnrollmentController` reduced to the session's state and whether its lease is
there (`StartOp` to `CommitOp`), and `DaemonServer` reduced to one queue. A daemon is
started with SIGPIPE ignored or not (`ignores`): the one serves also what nobody waits
for any more (`ServesLate`), its effect stays and the GUI is not told; the other ends at
the answer (`ServesNobody`). An answer may also arrive just as the GUI stops waiting.
`visible` and `frames` are the scanner widget and its own timer. What the removal of
the files does is in `ProfileStorage`.

### LockScreenAuth

The members of `LockScreenAuthSession`, and `clock`, the caller's: a call takes the time
of some earlier look at it, so two calls may arrive in the order opposite to their
times and the later one is refused. `observe` is split by what comes of it:
`DeadlineReached`, `AskForLight`, `CountCandidate`, `KeepWaiting`.

### FaceAnalysis

Operators, one per function, and a small state machine that puts them in the order of
the program: a profile is written (`Writes`), perhaps damaged (`Damages`), loaded
(`Loads`) and used for one frame (`Evaluates`); or a frame is examined for enrollment
(`Examines`). Embeddings are vectors of integers: normalizing is dividing by the
greatest common divisor, which makes vectors of one direction equal as a unit length
does, and similarities are compared as fractions. The file is a sequence of fields in
the order of the bytes. `Refuses` gives the eleven gates their conditions and
`GateOrder` their order; areas are compared exactly, by products. The pose arithmetic is
doubled to stay with integers, with the code's thresholds in percent.

## 3. Runs

| run | configuration | instance | distinct states | what it shows |
|---|---|---|---|---|
| `camera_lease` | `MCCameraLease` | 2 callers, 3 leases, 2 frames | 35 thousand | the manager's invariants, `LeaseInv`, the refinement of `DeviceLease`; leases end, the device is closed, the destructor returns |
| `enrollment_session` | `MCEnrollmentSession` | 5 poses (symmetric), targets 3, 4 and 2 | 386 | completeness, honest progress, erasure, nothing carried over |
| `enrollment` | `MCEnrollmentController` | 2 poses, 2 leases, 4 frames, lock screen | 1.06 million | freshness of samples, no frame used twice, no lease left behind |
| `enrollment_live` | `MCEnrollmentControllerLive` | 1 pose, 2 leases, 2 frames, no lock screen | 39 thousand | a session ends |
| `profile_storage` | `MCProfileStorage` | 2 keys, both tools and Forget Me, one at a time beside the daemon | 2.6 million | commits survive everything but the loss of a directory that was only made, the manifest never lies, Forget Me leaves nothing readable |
| `daemon_server` | `MCDaemonServer` | 2 daemons, one with SIGPIPE ignored, PAM as root, one other program, backlog 1, limit 1 | 168 thousand | the limit, earned success, the socket's path; PAM returns, SIGTERM works |
| `gui_enrollment` | `MCGuiEnrollment` | backlog 3, SIGPIPE ignored or not | 108 thousand | display, timers and the daemon's session agree; a cancel sent at the end does its work, capture ends |
| `lockscreen_auth` | `MCLockScreenAuth` | 3 candidates, 5 units of time, 1 to settle | 1.5 thousand | fair candidates, final verdicts, an end |
| `face_analysis` | `MCFaceAnalysis` | 2 poses, 6 directions of 3 dimensions, 91 looks | 285 thousand | the file format, the outlier, the gates, the poses |
| `password_reason` | `MCCameraLeaseReason` | 1 caller, 1 lease | violation | finding 1 |
| `enrollment_one_lease` | `MCEnrollmentControllerLease` | 1 pose, 2 leases | violation | finding 2 |
| `forget_me_racing` | `MCProfileStorageForget` | 1 key | violation | finding 3 |

### The properties

* `NoStaleFrame`, `ReportMatchesDevice`, `ReleasedStaysReleased`, `OneHandle`,
  `ReasonExplains`, `LeaseInv` and the refinement `ImplementsDeviceLease` say
  what a user of the camera may rely on; each needs the caller, the worker and
  the driver to break it. `ReportMatchesDevice` has one exception, which is in the
  code: when `close()` throws, `Idle` is published a moment before the source's
  destructor closes the device. `NoStaleFrame` has another: a destructor leaves
  the last frame behind, with nobody left to read it.
* `ReadyCoversEveryPose` holds although `validation_complete()` compares a total,
  because `AddHeldout` keeps the limit of each pose. `ProgressIsHonest` holds
  although both percentages are rounded up at a half, because the totals stay
  far below 200 (at 200 samples the last but one would show 100).
  `ProgressNeverFalls` includes the change from training to validation.
  `ErasedWhenOver` also compares what a session has counted with what it holds, so
  that a start that does not erase shows; `ProgressIsHonest` would notice held-out
  counts left by a commit as well.
* `SamplesAreFresh` and `NoFrameReuse` hold although `last_processed_frames_total_`
  goes back to 0 at each start, because the camera's counter never does and a new
  lease begins without a frame. `LeaseEndsWithSession` is about the lease the
  session was granted; a lock screen's lease may well go on.
* `ManifestIsBacked` and `CommittedIsKept` speak of a directory that only the daemon
  has written since it was empty, or since a commit that ran undisturbed: the tools
  are free to destroy a profile. `CommittedIsKept` excepts, by the history `trust`, a
  power loss that takes the whole directory (section 4).
  `NothingReadableIsLeft` covers temporary files of
  killed daemons; after a power loss, which may bring temporary names and unlinked
  files back, it says nothing (Forget Me does not sync the directory).
* `LimitIsKept` counts, in a history of its own, the requests let past the limit since
  the last grant, those of clients that have given up included: the first daemon of
  the run survives the write() to them and goes on counting. `SuccessIsEarned` ties PAM's
  success to a frame the daemon had during that very call. `SocketIsFound` is
  restricted to a daemon that has had the machine for itself, since two at a time do
  lose the path to one another. `CallsReturn` holds with a stalled or dead daemon;
  `StopCompletes` excepts the daemon a client stalls for good: SIGTERM does not
  interrupt its `read()`.
* `TimersFollowDisplay` and `DisplayIsTrue` hold with any late or lost answer;
  `DisplayIsTrue` excepts, by the history `lost`, changes of the session no query has
  told the GUI of: the late effect of a request it has given up on, and the daemon's
  end. `SentCancelEnds` is about the cancel of a GUI that closes, once it is in the
  daemon's queue: it ends the session also when late requests, a start among them,
  are served before it, and when the window is gone by then. That it may not get into
  the queue is described in section 4.
* `CandidatesAreFair` remembers when illumination was acknowledged and when candidates
  were counted, apart from the session's own members. `AttemptEnds` needs a caller
  that goes on observing, with or without frames.
* `ReadsWhatIsWritten` compares what is read with what would be written, whatever the
  damage; the code has no checksum inside the encrypted file, so a field altered to
  another valid value is read as that. `ScoreIsEarned` states every gate anew, from
  the frame, without their order: one real face, its box, its landmarks and its share of
  the frame on both sides included. `OutlierHasNoSay` and `PoseIsMirrored` are the
  purpose of the centroid and a symmetry of the poses that no test compares.

### Why the bounds are enough

* Leases: a stale effect can reach the next lease. Three leases leave one in which
  an effect of the first could turn up after the second. A frame is told apart by
  its lease only, so two of them per behaviour give a first and a later one.
* Callers: the daemon has one, the server's thread; two also cover the class's own
  promise to be safe for several. Symmetry is used only where no liveness property is
  checked.
* Poses: the session is checked with the code's five. The controller needs a session
  that takes several frames, of either kind, and one that is complete: two poses with
  one sample of each kind is four frames; one pose is enough for liveness.
  The maximum per pose is 4 instead of 12, one above the target, as only full or not
  full matters.
* Keys: the one a profile is written with and the one that takes its place. When keys
  run out the model generates no more, and a commit that needs one fails.

* Daemons, clients: a path can be taken from one daemon by one other, and a grant be
  left over from one request for the next. The attempts' limit is 1: the boundary is
  between the limit and one more, and the proofs cover every limit. With a backlog of
  1 it fills; the daemon serves one more. In the GUI's model, three requests may wait,
  so that two the GUI has given up on stand before a third, or three before one that
  finds no room (the code's `listen` asks for eight). One daemon ignores SIGPIPE and
  one does not; the proofs cover any set of them.
* Lock screen: three candidates as by default; five units of time give room for the
  settling time at any place and for calls out of order.
* Frames: at and on either side of each limit of the gates and of the poses. Profiles:
  five samples are the fewest from which one is left out; each field of a file is
  altered to four values, and the file is cut at every place. One file and one frame to
  a behaviour, since nothing of a frame is kept for the next.

Deadlock is checked everywhere but in `face_analysis`, where a refused file is the end;
where the daemon has left or an attempt is over, `Terminated` and `Done` say so.

### Fairness

`CameraLease!Fairness`: the operating system schedules the worker, blocking driver
calls come back (the V4L2 source has its own time limits), the clock runs, and
`wait_for` has a limit. No caller is obliged to call anything, so leases end by
themselves. `EnrollmentController!Fairness` adds that the server finishes a request
it has begun and that a client keeps asking for the status, as the GUI's 300 ms
timer does; it is strong fairness, because the server is busy now and then and takes
its connections in turn. Without that client a session whose camera has gone stays
in memory as it is: nothing in the daemon erases it by itself. `SessionEnds` is
checked without a lock screen, whose leases would keep the session alive (finding 2).

`DaemonServer!FairSpec`: the server's thread and a process inside PAM are scheduled,
and PAM's waits have time limits. Nothing obliges another client to send or to leave,
nor a daemon to be started. `GuiEnrollment!FairSpec`: the daemon serves its queue, late
requests included (`Serves \/ ServesLate \/ ServesNobody`), a
lease ends at its deadline, a query returns at its limit, and the capture timer fires
in the end however much the user clicks (strong fairness, since clicks keep disabling
it; Qt serves timers between events). `LockScreenAuth!FairSpec`: time passes and the
lock screen calls `observe` again.

## 4. Findings

1. **`password_started` is not terminal.** `docs/lock-screen-auth.md:86` says that
   `lockscreen_password_started` "records `password_started` as the terminal reason".
   If the camera is still opening then and the open fails, `camera_lease.cpp:300`
   overwrites it with `open_failed`.
2. **A session can outlive its lease.** `docs/native-enrollment.md:52-57` bounds the
   enrollment's lease to 45 seconds and calls what it serves "a new bounded session".
   If the lock screen is granted a lease after the enrollment's own has ended and
   before anybody asks for the status, `enrollment_controller.cpp:102` and `:179` take
   it for the session's, and samples come from both.
3. **Forget Me does not wait for a commit.** `docs/gui.md:71` says that it "first
   cancels any active enrollment, then asks for confirmation before removing all three
   files". `gui/src/main.cpp:332-341` asks first, then sends the cancel and ignores the
   answer. If the GUI has given up waiting for a commit the daemon is still busy with,
   the files are removed and then written again.

Other places where code and documents part, seen while modelling and reflected in the
models, without a run of their own:

* `main.cpp:803-814`: `peer_policy_decision` names `reject_root_auth_disabled`, and
  `peer_is_allowed_for_operation` refuses only `reject`, so a root peer's auth request
  is served with root auth disabled (`PeerIsAllowed`). The comment at `main.cpp:799` says
  "Root auth peers are allowed only when explicitly enabled", `daemon/README.md:58`
  "root auth peers require explicit development opt-in".
* `main.cpp:1270-1288`: a development grant comes before the limit (`Grants`), while
  `docs/configuration.md:94` says "when the counter reaches max_auth_attempts, later auth
  requests return too_many_attempts".
* `gui/src/main.cpp:861`: a GUI that closes tries its cancel once and ignores what comes
  of it, while `gui/README.md:64` says "Closing the GUI during automatic capture cancels
  the daemon session and releases the camera." When the daemon is slow (a silent client,
  a long detection), queries the GUI has given up on, such as those of the status panels,
  wait in its queue; when they fill it, the cancel cannot connect. A daemon that ignores
  SIGPIPE serves them all and keeps the session, with nobody left to poll it: its lease
  releases the camera, and the samples stay in memory until the next request. In the
  model: `Asks` of two panel queries and one more while collecting, each with `TimesOut`,
  `Closes`, an `Asks` that fails, then `ServesLate` three times.
* `profile_storage.cpp:34`: the first commit makes the directory, whose own entry nobody
  syncs, so that a power loss may take it with a profile just reported as committed;
  `CHANGELOG.md:63` calls these writes "atomic and durable". `fsync(2)` leaves that open; a
  journaling file system such as ext4 usually commits both together, and a directory
  that has been there for some time is not affected. In the model: a commit begun with
  `home` missing, up to its last `SyncDirectory`, then `PowerLoss`.
* `main.cpp:772`: the shipped `packaging/systemd/face-unlockd.service` leaves systemd's
  default, `IgnoreSIGPIPE=yes`, in place, so that an answer to a client that has left is
  a warning there. The program itself does nothing about SIGPIPE: a daemon started from a
  terminal is ended by the same write, with its session and its count of attempts.
* `main.cpp:1492`: of two daemons the older one, when it stops, removes the path of the
  younger, which then cannot be reached.
* `gui/src/main.cpp:862`: a session that is `ready` stays in the daemon when the GUI is
  closed. After the question of Forget Me is answered with no, capture does not go on
  by itself, and after one query that failed Cancel is disabled until a refresh.

## 5. Proofs

`CameraLeaseProofs` proves, for every set of callers, every set of reasons (only
`daemon_shutdown` may be shared with the code's own, `LeaseAssumption`) and any bounds:

| theorem | says |
|---|---|
| `TypeCorrect` | `Spec => []TypeOK` |
| `LeaseInvariant` | `Spec => [](TypeOK /\ LeaseInv)` |
| `FramesAreOfTheLease`, `ReportIsTrue`, `ReleaseIsFinal`, `DeviceIsExclusive`, `ReasonIsRecorded` | the safety invariants of the run `camera_lease` |
| `Refinement` | `Spec => ImplementsDeviceLease` |

The invariants are not inductive by themselves. `NoStaleFrame`, for example, is lost
by a worker that publishes a frame for a lease that is over, and what excludes it is
that the worker's lease is the current one as long as it serves it. `LeaseInv` is the
strengthening: `LeaseIsCurrent`; `FlagsFollowWorker` (what `open_in_progress_`,
`camera_open_` and `state_` say of the worker's place); `DeviceFollowsWorker` (where in
the loop the device cannot be open); `WantedFollowsState`; `FrameFollowsLease`;
`FreedIsOver` and `FreedIsPast`; `ReasonExplains`; `NoLostWakeup`. Two ideas carry it:
`start()` is refused until the lease before is released, so the generation cannot
change under a worker that serves one; and what `stop()` reported is about a number
that `start()` never gives out again (`NewLeaseIsNew`). The step lemma has one step per
action and one per conjunct below it; flags and numbers stay in separate steps because
the provers do not treat them together. The refinement maps an idle or failed manager
to `free`, a wanted lease to `held`, and the rest to `revoked`; each action maps to one
step of `DeviceLease` or to a stutter.

`EnrollmentSessionProofs` proves of `EnrollmentSession`, for every policy the
constructor accepts (`PolicyAssumption`) and any poses:

| theorem | says | by |
|---|---|---|
| `TypeCorrect` | `Spec => []TypeOK`, with it the limit of samples per pose, also while `finalize()` keeps failing | inductive as it stands |
| `NothingOutlivesASession` | `Spec => []ErasedWhenOver` | inductive as it stands: each way out of a session clears what it holds, each way in starts from nothing, and a sample adds one to a count and to one of the two totals (`OneMoreSample`) |
| `ReadyAlwaysCovers` | `Spec => []ReadyCoversEveryPose` | `IInv`, and `FullTotal`: counts that are each at most `n` and sum up to `n` times their number are all `n` |
| `ProgressIsAlwaysHonest` | `Spec => []ProgressIsHonest` | the same, and `PercentIsHonest`, `CombinedIsHonest`: of a whole below 200, only the whole is rounded to 100 |
| `ProgressNeverGoesBack` | `Spec => ProgressNeverFalls` | both roundings are monotone, and so is a sum when one count grows |

`IInv` says that nothing is held out before the training is complete, and that a session
is ready or committed exactly when the held-out total is complete. A total is a fold over
the poses. `SumExists` unrolls that fold into a function that satisfies its recursion;
what follows is induction on the set of poses. The library's induction theorems cannot be
used for that (they take an operator), so `NatSetInduction` and `PickInduction` state
induction for a *set* of numbers or of sets, and are derived from the well-foundedness of
`<` on `Nat`. `FaceAnalysisProofs` has the same two lemmas for its own folds.

`EnrollmentControllerProofs` proves of `EnrollmentController`, for every policy, any
number of leases and frames, with a lock screen or without (`ControllerAssumption`):

| theorem | says | by |
|---|---|---|
| `UsesTheCamera`, `UsesTheSession` | `Spec => Camera!Spec`, `Spec => Session!Spec` | every step of the composition is a step of the component or leaves it alone |
| `LeaseHolds`, `SessionHolds` | the components' invariants hold in the composition | those two, and the theorems of `CameraLeaseProofs` and `EnrollmentSessionProofs` |
| `TypeCorrect` | `Spec => []TypeOK` | `IInv` |
| `SamplesAreAlwaysFresh` | `Spec => []SamplesAreFresh` | `IInv` |
| `LeaseEndsWithItsSession` | `Spec => []LeaseEndsWithSession` | `IInv` |
| `FramesAreExaminedOnce` | `Spec => NoFrameReuse` | `IInv` |

`IInv` relates the two components: what the controller remembers is of leases and frames
there have been (`NumbersArePast`); a frame that can be read is newer than the session's
start, because a new lease begins without a frame (`NumbersArePast`, from
`FrameFollowsLease` of the camera); a frame already examined that can still be read is
the last one processed (`ExaminedIsProcessed`), which is why one number is enough to
recognise it although `enrollment_start` resets that number. The step lemmas need no
more of the camera than that one of its steps, seen from outside, grants nothing and only
adds frames (`CameraAlone`).

`ProfileStorageProofs` proves of `ProfileStorage`, for any number of keys and any of the
other programs at any time (`StorageAssumption`):

| theorem | says | by |
|---|---|---|
| `TypeCorrect` | `Spec => []TypeOK` | `IInv` |
| `ManifestIsAlwaysBacked` | `Spec => []ManifestIsBacked` | `BackedForGood`, `CommitProceeds` |
| `CommittedIsAlwaysKept` | `Spec => []CommittedIsKept` | `BackedForGood`, `CommitIsDurable` |
| `ForgetMeIsThorough` | `Spec => []NothingReadableIsLeft` | `ForgetProceeds`, `StraysAreApart` |

What a power loss may leave of each file is independent of the others, so that the
invariants have to speak of all combinations: `BackedForGood` says that while a real
manifest is among what may be left, key and template may be left in one way only, and
`CommitProceeds` how each sync on the way of a commit makes that so before the manifest is
written. This is where the order key, template, manifest and the sync between two files
are used. A power loss that takes the directory leaves every file missing, which is no
real manifest either. `StraysAreApart` says why a temporary key is harmless: it was never in its
place, so nothing is encrypted with it.

`DaemonServerProofs` proves of `DaemonServer`, for any daemons, whichever of them ignore
SIGPIPE, and any clients, limit and backlog (`ServerAssumption`):

| theorem | says | by |
|---|---|---|
| `LimitHolds` | `Spec => []LimitIsKept` | `Counted`: the requests let past are exactly the failures counted, since both are reset together, and the counter stops at the limit |
| `SocketIsAlwaysFound` | `Spec => []SocketIsFound` | `SocketInv`: a daemon that is alone finds no path after its unlink, and nobody else can bind or unlink while it is |
| `SuccessIsAlwaysEarned` | `Spec => []SuccessIsEarned` | `EarnedInv`: from the frame (`camera`, `seen`, the answer, the reply) to the call, each step on the way implies that the call has earned it, provided no request is in two places |
| `TypeCorrect` | `Spec => []TypeOK` | all of these and the length of each queue |

`LockScreenAuthProofs` proves of `LockScreenAuth`, for every policy the constructor accepts,
`TypeCorrect`, `CandidatesAreAlwaysFair` and `VerdictStaysFinal`. The strengthening `IInv`
says that an active illumination has been on since `readyAt` less the settling time.

`GuiEnrollmentProofs` proves of `GuiEnrollment`, for any backlog (`GuiAssumption`),
`TypeCorrect`, `TimersAlwaysFollow` (`TimersFollowDisplay`) and `DisplayIsAlwaysTrue`
(`DisplayIsTrue`). `DisplayIsTrue` speaks only of a GUI between two queries, so it is not
inductive. `IInv` adds what holds while one is under way: `PlansAreKept` (no question is
open over a plan, and Forget Me asks for the status after it has cancelled),
`WindowIsOver` (what is left to ask once the window is closed), `WaitsForItsOwn` (the
request awaited is the last of the daemon's queue and an operation of the query planned
first) and `TruthIsOnItsWay`: an answer that will be shown is true, and what is shown is
true or will be replaced. An answer nobody will show may change the session only when a
status query follows it or the window is gone.

`FaceAnalysisProofs` proves of `FaceAnalysis`, for any number of poses, any length of an
embedding, any directions and any frames that meet `AnalysisAssumption`:

| theorem | says | by |
|---|---|---|
| `FileIsAlwaysRead` | `Spec => []FileInv` | inductive |
| `WrittenIsAlwaysRead` | `Spec => []ReadsWhatIsWritten` | `FileInv`, `ReadIsWritten` |
| `OutlierNeverHasASay` | `Spec => []OutlierHasNoSay` | `FileInv`, `CentroidTakesSide` |
| `PoseIsAlwaysMirrored` | `Spec => []PoseIsMirrored` | `FrameIsSeen`, `MirroredPose` |
| `ScoreIsAlwaysEarned` | `Spec => []ScoreIsEarned` | `ScoreInv` (`ResultIsAlwaysEarned`) |

`AnalysisAssumption` is what the code ensures of its inputs: `add_sample()` takes
normalized embeddings of one dimension (in the model: of one length, none zero, and small
enough that no sum of them reaches the number that stands for a float that is not finite),
the constructor checks the model id, and what the camera and the networks return are
numbers. Nothing is assumed about which gates a frame passes or whether a centroid exists.

Loops are folds here (`FoldFunction`, `FoldLeft`, `FlattenSeq`), and each gets a lemma
that says what it computes, from `FoldExists` and induction on a set: `DotIsSum`,
`TotalOf`, `FlattenedBlocks`, `MatchOneByOne`, `KeptOneByOne`. The rest is built on those:

* *The file.* `LaidOut(b, p)` says where in the file each field of the profile stands.
  What is serialized is laid out so (`SerializedIsLaidOut`), what is laid out so is read
  back as the same profile (`WrittenIsRead`), what parses is laid out as what is read from
  it (`ReadIsLaidOut`), and one profile is laid out in one way only (`LaidOutOnce`). That a
  written profile is accepted at all needs that a centroid is valid: usable, and not
  changed by normalizing once more (`CentroidIsValid`, `NormalizedOnce`).
* *The outlier.* Over all samples, the mean leans more to each of the others than to the
  outlier (`MeanTakesSide`): each of the others adds more to the one product than to the
  other, and what the two compared samples add cancels out, since all have one length.
  So nothing ranks below the outlier, its rank is 0, and at least one is discarded
  (`OutlierIsDiscarded`). What is left, not nothing or there would be no centroid, agrees
  with each of the others (`SumTakesSide`), and dividing keeps the signs.
* *The score.* `Approval` and `ApprovedIsEarned` say that an approved frame passed every
  gate; `OneKeptIsOneReal`, that one face kept is one real row. `Below` orders fractions
  (`BelowTransfers`) and normalizing does not change it (`CosineScaled`), hence
  `MatchIsFirstOfBest`.
* *The pose.* Mirroring negates the yaw and leaves span, height and pitch as they are;
  the thresholds are inclusive on both sides.

The inductive invariants are `FileInv` (an undamaged file is what some samples serialize to,
and the profile is what the file deserializes to) and `ScoreInv` (a result is what the
frame and the profile in the state earn).

Every safety invariant and every action property that a run checks is now stated by a
theorem, except the ones that runs refute (section 4). Only model-checked: liveness, which
needs fairness and ENABLED, outside the prover's reach.

## 6. Not modelled, and the plan

Not modelled: what the networks, the cipher, Qt, systemd and the kernel do inside; the
texts of answers and their parsing beyond operation, status and state; configuration
files, options and paths; the painting of the scanner; the Python prototypes, benchmarks
and self-tests; build and packaging.

Still planned, in this order:

1. `GuiEnrollment`'s daemon as a refinement of `EnrollmentController`.
2. `PamInstall`: installation, backups and rollback of the scripts.
