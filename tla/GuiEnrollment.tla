--------------------------- MODULE GuiEnrollment ---------------------------
(***************************************************************************)
(* The enrollment tab of the GUI (gui/src/main.cpp, daemon_client.cpp,     *)
(* scanner_widget.cpp) and the daemon it steers.                           *)
(*                                                                         *)
(* The GUI has one thread: a click or a tick of the capture timer puts one *)
(* or more queries to the daemon, each of which blocks until the answer,   *)
(* or a time limit, or a failure to connect. What the GUI shows is what the *)
(* last answer said. The daemon's part is EnrollmentController reduced to  *)
(* its session's state and to whether its camera is still on, and          *)
(* DaemonServer reduced to one queue. A request whose sender has given up  *)
(* is served all the same; whether the daemon outlives the write of its    *)
(* answer depends on what SIGPIPE does to it.                              *)
(* A definition named Fault... is the one after it with a plausible bug.   *)
(***************************************************************************)
EXTENDS Naturals, Sequences

CONSTANTS
  Backlog,       \* connections that wait for accept()
  ReduceMotion   \* FACE_UNLOCK_REDUCE_MOTION=1

ASSUME GuiAssumption == Backlog \in Nat \ {0} /\ ReduceMotion \in BOOLEAN

VARIABLES
  up,       \* the daemon runs
  ignores,  \* ... with SIGPIPE ignored, as systemd starts it by default
  session,  \* its enrollment's state
  camera,   \* the session's lease is still there
  queue,    \* the requests it has still to serve
  open,     \* "open", "closing" once aboutToQuit is emitted, or "closed"
  consent,  \* enrollmentConsent->isChecked()
  shown,    \* snapshot.state, as applied to the widgets
  timer,    \* captureTimer->isActive()
  visible,  \* the scanner is
  frames,   \* its own timer runs
  dialog,   \* the modal question that is open
  todo,     \* the queries the thread has still to make, or waits for (the first)
  awaited,  \* the first of todo has been sent, or could not be
  answer,   \* what has arrived for it, Nothing before that
  lost      \* history: the GUI has not been told of the session's last change

daemonVars == <<up, ignores, session, camera>>
scannerVars == <<visible, frames>>
vars == <<daemonVars, queue, open, consent, shown, timer, scannerVars, dialog,
          todo, awaited, answer, lost>>

States == {"idle", "collecting", "validating", "ready", "committed", "cancelled"}
Active(s) == s \in {"collecting", "validating"}

Operations == {"start", "capture", "status", "cancel", "commit", "other"}
\* What the GUI asks for, and what it does with the answer.
Queries == {"start", "capture", "refresh", "cancel", "commit", "drop", "status",
            "panel", "quit"}
\* Those whose answer is not shown.
Silent == {"drop", "panel", "quit"}

\* The answer of the daemon is ok or not and names the session's state. When there
\* is no answer, queryDaemonOperation() makes one up without an operation, which is
\* read as a failure with the state "idle".
Nothing == [ok |-> FALSE, valid |-> FALSE, state |-> "none"]
Failure == [ok |-> FALSE, valid |-> FALSE, state |-> "idle"]
Reply(ok, s) == [ok |-> ok, valid |-> TRUE, state |-> s]

TypeOK ==
  /\ up \in BOOLEAN /\ ignores \in BOOLEAN /\ camera \in BOOLEAN
  /\ session \in States
  /\ queue \in Seq(Operations) /\ Len(queue) <= Backlog
  /\ open \in {"open", "closing", "closed"}
  /\ consent \in BOOLEAN /\ timer \in BOOLEAN
  /\ visible \in BOOLEAN /\ frames \in BOOLEAN
  /\ shown \in States
  /\ dialog \in {"none", "save", "forget"}
  /\ todo \in Seq(Queries) /\ Len(todo) <= 4
  /\ awaited => todo # <<>>
  /\ answer \in {Nothing, Failure} \cup [ok : BOOLEAN, valid : {TRUE}, state : States]
  /\ lost \in BOOLEAN

Init ==
  /\ up = FALSE
  /\ ignores = FALSE
  /\ session = "idle"
  /\ camera = FALSE
  /\ queue = <<>>
  /\ open = "open"
  /\ consent = FALSE
  /\ shown = "idle"
  /\ timer = FALSE
  /\ visible = FALSE
  /\ frames = FALSE
  /\ dialog = "none"
  /\ todo = <<>>
  /\ awaited = FALSE
  /\ answer = Nothing
  /\ lost = TRUE

----------------------------------------------------------------------------
(* The daemon. *)

DaemonStarts ==
  /\ ~up
  /\ up' = TRUE
  /\ ignores' \in BOOLEAN
  /\ UNCHANGED <<session, camera, queue, open, consent, shown, timer, scannerVars,
                 dialog, todo, awaited, answer, lost>>

\* The process ends: the GUI finds its connection closed.
Ends ==
  /\ up' = FALSE
  /\ ignores' = FALSE
  /\ session' = "idle"
  /\ camera' = FALSE
  /\ queue' = <<>>
  /\ answer' = IF awaited /\ answer = Nothing THEN Failure ELSE answer
  /\ lost' = TRUE
  /\ UNCHANGED <<open, consent, shown, timer, scannerVars, dialog, todo, awaited>>

DaemonStops == up /\ Ends

\* The deadline of the lease, or a camera that fails.
LeaseEnds ==
  /\ camera
  /\ camera' = FALSE
  /\ UNCHANGED <<up, ignores, session, queue, open, consent, shown, timer, scannerVars,
                 dialog, todo, awaited, answer, lost>>

\* The head of the queue is the request whose sender still waits.
IsAwaited == Len(queue) = 1 /\ awaited /\ answer = Nothing

\* An operation's effect on the session and the camera, and its answer, which
\* only a sender that waits gets to see.
Becomes(s, cam, ok) ==
  /\ session' = s
  /\ camera' = cam
  /\ answer' = IF IsAwaited THEN Reply(ok, s) ELSE answer

StartOp ==
  \/ Becomes(session, camera, FALSE)
  \/ ~Active(session) /\ session # "ready" /\ Becomes("cancelled", camera, FALSE)
  \/ ~Active(session) /\ session # "ready" /\ Becomes("collecting", TRUE, TRUE)

FaultStatusOp == Becomes(session, camera, TRUE)

\* A session does not outlive the camera's lease.
StatusOp ==
  IF Active(session) /\ ~camera THEN Becomes("cancelled", FALSE, FALSE)
  ELSE Becomes(session, camera, TRUE)

CaptureOp ==
  \/ ~Active(session) /\ Becomes(session, camera, FALSE)
  \/ Active(session) /\ ~camera /\ StatusOp
  \/ Active(session) /\ camera /\ \E ok \in BOOLEAN : Becomes(session, TRUE, ok)
  \/ session = "collecting" /\ camera /\ \E ok \in BOOLEAN :
       Becomes("validating", TRUE, ok)
  \/ session = "validating" /\ camera /\ Becomes("ready", FALSE, TRUE)

CancelOp == Becomes("cancelled", FALSE, TRUE)

CommitOp ==
  \/ Becomes(session, camera, FALSE)
  \/ session = "ready" /\ Becomes("committed", FALSE, TRUE)

Does(op) ==
  CASE op = "start" -> StartOp
    [] op = "capture" -> CaptureOp
    [] op = "status" -> StatusOp
    [] op = "cancel" -> CancelOp
    [] op = "commit" -> CommitOp
    [] op = "other" -> Becomes(session, camera, TRUE)

\* A request whose sender still waits for the answer...
Serves ==
  /\ up /\ queue # <<>> /\ IsAwaited
  /\ Does(Head(queue))
  /\ queue' = <<>>
  /\ lost' = (lost /\ Head(todo) \in Silent)
  /\ UNCHANGED <<up, ignores, open, consent, shown, timer, scannerVars, dialog, todo,
                 awaited>>

\* ... and one whose sender has given up. Where SIGPIPE is ignored, write() fails
\* and the daemon goes on with the effect, of which the GUI is told nothing...
ServesLate ==
  /\ up /\ queue # <<>> /\ ~IsAwaited /\ ignores
  /\ Does(Head(queue))
  /\ queue' = Tail(queue)
  /\ lost' = (lost \/ session' # session)
  /\ UNCHANGED <<up, ignores, open, consent, shown, timer, scannerVars, dialog, todo,
                 awaited>>

\* ... elsewhere nothing is left of the effect when SIGPIPE ends the process.
ServesNobody ==
  /\ up /\ queue # <<>> /\ ~IsAwaited /\ ~ignores
  /\ Ends

----------------------------------------------------------------------------
(* The GUI's queries. *)

\* queryDaemonOperation() is called for each query, in turn.
Plan(queries) == todo' = queries /\ UNCHANGED <<awaited, answer>>

FaultOperation(query) ==
  CASE query \in {"refresh", "quit"} -> "status"
    [] query = "drop" -> "cancel"
    [] query = "panel" -> "other"
    [] OTHER -> query

Operation(query) ==
  CASE query = "refresh" -> "status"
    [] query \in {"drop", "quit"} -> "cancel"
    [] query = "panel" -> "other"
    [] OTHER -> query

Asks ==
  /\ todo # <<>> /\ ~awaited
  /\ IF up /\ Len(queue) < Backlog
     THEN /\ queue' = Append(queue, Operation(Head(todo)))
          /\ UNCHANGED answer
     ELSE /\ answer' = Failure
          /\ UNCHANGED queue
  /\ awaited' = TRUE
  /\ UNCHANGED <<daemonVars, open, consent, shown, timer, scannerVars, dialog, todo,
                 lost>>

\* waitForReadyRead() returns false; the request stays in the daemon's queue, or its
\* answer has come just too late to be read.
TimesOut ==
  /\ awaited /\ answer # Failure
  /\ answer' = Failure
  /\ UNCHANGED <<daemonVars, queue, open, consent, shown, timer, scannerVars, dialog,
                 todo, awaited, lost>>

\* ScannerWidget::updateTimer()
Animates(s, seen) == seen /\ Active(s) /\ ~ReduceMotion

\* ScannerWidget::setScannerState(); a state that stays is not looked at again.
SetScannerState(s) ==
  frames' = IF s = shown THEN frames ELSE Animates(s, visible)

FaultKeepCapturing(a) == a.valid

\* processEnrollment(): the timer is stopped unless there is more to capture.
KeepCapturing(a) == a.valid /\ Active(a.state)

FaultApplies(query, a) ==
  /\ shown' = IF a.ok THEN a.state ELSE shown
  /\ SetScannerState(shown')
  /\ lost' = (lost \/ ~a.valid)
  /\ timer' = \/ timer /\ KeepCapturing(a)
              \/ query = "start" /\ a.ok /\ a.state = "collecting"
              \/ query = "refresh" /\ a.ok /\ Active(a.state)

\* processEnrollment(), applyEnrollmentSnapshot() and what the handler of each
\* button does after them.
Applies(query, a) ==
  /\ shown' = a.state
  /\ SetScannerState(a.state)
  /\ lost' = (lost \/ ~a.valid)
  /\ timer' = \/ timer /\ KeepCapturing(a)
              \/ query = "start" /\ a.ok /\ a.state = "collecting"
              \/ query = "refresh" /\ a.ok /\ Active(a.state)

\* The answer is there. A committed profile makes the GUI look at the files.
Answered ==
  /\ awaited /\ answer # Nothing
  /\ IF Head(todo) \in Silent
     THEN UNCHANGED <<shown, frames, timer, lost>>
     ELSE Applies(Head(todo), answer)
  /\ todo' = (IF Head(todo) \notin Silent
                /\ answer.state = "committed" THEN <<"panel">> ELSE <<>>)
             \o Tail(todo)
  /\ open' = IF Head(todo) = "quit" THEN "closed" ELSE open
  /\ awaited' = FALSE
  /\ answer' = Nothing
  /\ UNCHANGED <<daemonVars, queue, consent, visible, dialog>>

----------------------------------------------------------------------------
(* What the user does, and the capture timer. *)

FaultIdle == open = "open" /\ dialog = "none"

\* The event loop, with no modal question in the way.
Idle == open = "open" /\ todo = <<>> /\ dialog = "none"

Tick ==
  /\ open = "open" /\ todo = <<>> /\ timer
  /\ Plan(<<"capture">>)
  /\ UNCHANGED <<daemonVars, queue, open, consent, shown, timer, scannerVars, dialog,
                 lost>>

\* The buttons: each is enabled or not according to what is shown.
Click(enabled, queries) ==
  /\ Idle /\ enabled
  /\ Plan(queries)
  /\ UNCHANGED <<daemonVars, queue, open, consent, shown, scannerVars, dialog, lost>>

ClickStart ==
  Click(consent /\ ~Active(shown) /\ shown # "ready", <<"start">>)
  /\ UNCHANGED timer
ClickCapture == Click(Active(shown), <<"capture">>) /\ UNCHANGED timer
ClickRefresh == Click(TRUE, <<"refresh">>) /\ UNCHANGED timer
ClickCancel ==
  Click(Active(shown) \/ shown = "ready", <<"cancel">>) /\ timer' = FALSE
\* detector_status and template_status, alone or one after the other.
ClickPanel ==
  /\ \/ Click(TRUE, <<"panel">>)
     \/ Click(TRUE, <<"panel", "panel">>)
  /\ UNCHANGED timer

\* Forget Me stops the timer and asks.
AskToForget ==
  /\ Idle
  /\ dialog' = "forget"
  /\ timer' = FALSE
  /\ UNCHANGED <<daemonVars, queue, open, consent, shown, scannerVars, todo, awaited,
                 answer, lost>>

AskToSave ==
  /\ Idle /\ shown = "ready"
  /\ dialog' = "save"
  /\ UNCHANGED <<daemonVars, queue, open, consent, shown, timer, scannerVars, todo,
                 awaited, answer, lost>>

\* The question is answered, with yes or with no.
CloseDialog ==
  /\ open = "open" /\ todo = <<>>
  /\ \/ dialog = "save" /\ (Plan(<<"commit">>) \/ Plan(<<>>))
     \/ /\ dialog = "forget"
        /\ Plan(<<"drop", "status", "panel">>) \/ Plan(<<"status", "panel">>)
  /\ dialog' = "none"
  /\ UNCHANGED <<daemonVars, queue, open, consent, shown, timer, scannerVars, lost>>

ToggleConsent ==
  /\ Idle
  /\ consent' = ~consent
  /\ UNCHANGED <<daemonVars, queue, open, shown, timer, scannerVars, dialog, todo,
                 awaited, answer, lost>>

\* showEvent() and hideEvent() of the scanner, whose tab is selected or not.
ShowOrHide ==
  /\ Idle
  /\ visible' = ~visible
  /\ frames' = Animates(shown, ~visible)
  /\ UNCHANGED <<daemonVars, queue, open, consent, shown, timer, dialog, todo, awaited,
                 answer, lost>>

\* The window is closed, and aboutToQuit cancels what it was capturing.
Closes ==
  /\ Idle
  /\ IF timer THEN open' = "closing" /\ todo' = <<"quit">>
              ELSE open' = "closed" /\ todo' = <<>>
  /\ timer' = FALSE
  /\ visible' = FALSE
  /\ frames' = FALSE
  /\ UNCHANGED <<daemonVars, queue, consent, shown, dialog, awaited, answer, lost>>

\* The program is started again.
Opens ==
  /\ open = "closed"
  /\ open' = "open"
  /\ consent' = FALSE
  /\ shown' = "idle"
  /\ lost' = TRUE
  /\ UNCHANGED <<daemonVars, queue, timer, scannerVars, dialog, todo, awaited, answer>>

----------------------------------------------------------------------------
User ==
  \/ ClickStart \/ ClickCapture \/ ClickRefresh \/ ClickCancel \/ ClickPanel
  \/ AskToForget \/ AskToSave \/ CloseDialog \/ ToggleConsent \/ ShowOrHide
  \/ Closes \/ Opens

Gui == Asks \/ TimesOut \/ Answered

Next ==
  \/ DaemonStarts \/ DaemonStops \/ LeaseEnds
  \/ Serves \/ ServesLate \/ ServesNobody
  \/ Gui \/ Tick \/ User

Spec == Init /\ [][Next]_vars

\* The daemon serves what is in its queue, a lease ends at its deadline, a query
\* returns at its time limit at the latest, and Qt gets to its timers however
\* much there is to click. Nobody has to click.
FairSpec ==
  /\ Spec
  /\ WF_vars(Serves \/ ServesLate \/ ServesNobody)
  /\ WF_vars(LeaseEnds)
  /\ WF_vars(Gui)
  /\ SF_vars(Tick)
----------------------------------------------------------------------------
\* Automatic capture and the animation run only while collecting or validating is
\* shown, the latter exactly while it can be seen as well, whatever is clicked, asked
\* or lost in between (docs/gui.md:25-37, scanner_widget.cpp:116).
TimersFollowDisplay ==
  /\ timer => Active(shown) /\ dialog = "none"
  /\ frames <=> visible /\ Active(shown) /\ ~ReduceMotion

\* Once every query has been answered, what the user sees and may click is what
\* the daemon's session allows, unless a request the GUI has given up on has changed
\* the session since, or the daemon's end has (main.cpp:145-277).
DisplayIsTrue == Idle /\ ~lost => shown = session

\* Closing the GUI during automatic capture cancels the session and releases the camera
\* (gui/README.md:64-65): the cancel, once it is in the daemon's queue, does, also when it waits behind requests that still take effect, and when
\* the GUI has given up on it and is gone (gui/main.cpp:861, daemon/main.cpp:771).
SentCancelEnds ==
  open = "closing" /\ awaited /\ answer = Nothing ~> ~Active(session) /\ ~camera

\* Automatic capture comes to an end by itself: the lease has a deadline, and the
\* session does not survive it (main.cpp:661).
CaptureStops == timer ~> ~timer
=============================================================================
