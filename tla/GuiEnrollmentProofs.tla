------------------------ MODULE GuiEnrollmentProofs ------------------------
(***************************************************************************)
(* What the GUI shows, its timers and what it asks for stay together, and  *)
(* with the daemon's session, for any backlog.                             *)
(***************************************************************************)
EXTENDS GuiEnrollment, TLAPS

\* A modal question is open only between queries. Forget Me asks for the status after
\* it has asked to cancel, and nothing is asked after the last query of all, which is
\* made only while the GUI closes (main.cpp:333-347, 861-866).
PlansAreKept ==
  /\ dialog # "none" => todo = <<>>
  /\ \A i \in 1..Len(todo) :
       /\ todo[i] = "drop" => i = 1 /\ Len(todo) > 1 /\ todo[2] = "status"
       /\ todo[i] = "quit" => Len(todo) = 1 /\ open = "closing"

\* Without its window the GUI has nothing left to ask but the last query, and no timer
\* runs.
WindowIsOver ==
  /\ open = "closing" => \A i \in 1..Len(todo) : todo[i] = "quit"
  /\ open = "closed" => todo = <<>>
  /\ open # "open" => ~timer /\ ~visible

\* An answer belongs to the query that is awaited; without one, the query is the
\* last of the daemon's queue.
WaitsForItsOwn ==
  /\ ~awaited => answer = Nothing
  /\ awaited /\ answer = Nothing =>
       queue # <<>> /\ queue[Len(queue)] = Operation(Head(todo))

StatusToCome == \E i \in 1..Len(todo) : todo[i] = "status"
ToBeShown == answer # Nothing /\ Head(todo) \notin Silent

\* Unless the GUI has missed a change: an answer that will be shown is true or none,
\* which counts as a miss, and what is shown is true or will be replaced.
TruthIsOnItsWay ==
  ~lost =>
    /\ ToBeShown /\ answer.valid => answer.state = session
    /\ open = "open" => shown = session \/ StatusToCome \/ ToBeShown

IInv ==
  /\ TypeOK /\ PlansAreKept /\ WindowIsOver /\ WaitsForItsOwn
  /\ TimersFollowDisplay /\ TruthIsOnItsWay

----------------------------------------------------------------------------
(* The queries and the daemon's answers. *)

\* What is left of a plan when its first query has been answered.
LEMMA RestOfPlan ==
  ASSUME NEW S, NEW p \in Seq(S), p # <<>>
  PROVE  /\ Head(p) \in S /\ Head(p) = p[1] /\ Len(p) \in Nat \ {0}
         /\ <<>> \o Tail(p) \in Seq(S) /\ Len(<<>> \o Tail(p)) = Len(p) - 1
         /\ \A i \in 1..(Len(p) - 1) : (<<>> \o Tail(p))[i] = p[i + 1]
  OBVIOUS

LEMMA RestAfterPanel ==
  ASSUME NEW S, NEW p \in Seq(S), p # <<>>, NEW q \in S
  PROVE  /\ <<q>> \o Tail(p) \in Seq(S) /\ Len(<<q>> \o Tail(p)) = Len(p)
         /\ (<<q>> \o Tail(p))[1] = q
         /\ \A i \in 2..Len(p) : (<<q>> \o Tail(p))[i] = p[i]
  OBVIOUS

LEMMA EveryQueryIsAnOperation == \A q \in Queries : Operation(q) \in Operations
  BY DEF Operation, Operations, Queries

\* Every operation answers with the state the session is in after it, or nobody.
LEMMA DoesReplies ==
  ASSUME NEW op \in Operations, session \in States, camera \in BOOLEAN, Does(op)
  PROVE  /\ session' \in States /\ camera' \in BOOLEAN
         /\ IF IsAwaited THEN \E ok \in BOOLEAN : answer' = Reply(ok, session')
                         ELSE answer' = answer
         /\ op = "other" => session' = session
  BY DEF Operations, Does, StartOp, CaptureOp, StatusOp, CancelOp, CommitOp, Becomes,
         States, Active

\* What a click, a tick or a question plans.
LEMMA ShortPlans ==
  /\ <<>> \in Seq(Queries) /\ Len(<<>>) = 0
  /\ \A a \in Queries : <<a>> \in Seq(Queries) /\ Len(<<a>>) = 1 /\ <<a>>[1] = a
  /\ \A a, b \in Queries :
       /\ <<a, b>> \in Seq(Queries) /\ Len(<<a, b>>) = 2
       /\ <<a, b>>[1] = a /\ <<a, b>>[2] = b
  /\ \A a, b, c \in Queries :
       /\ <<a, b, c>> \in Seq(Queries) /\ Len(<<a, b, c>>) = 3
       /\ <<a, b, c>>[1] = a /\ <<a, b, c>>[2] = b /\ <<a, b, c>>[3] = c
  OBVIOUS

----------------------------------------------------------------------------
(* The steps, one conjunct of the invariant after the other. *)

\* TypeOK in two: the flags, and the rest.
Flags ==
  /\ up \in BOOLEAN /\ ignores \in BOOLEAN /\ camera \in BOOLEAN
  /\ consent \in BOOLEAN /\ timer \in BOOLEAN
  /\ visible \in BOOLEAN /\ frames \in BOOLEAN /\ lost \in BOOLEAN

Data ==
  /\ session \in States /\ shown \in States
  /\ queue \in Seq(Operations) /\ Len(queue) <= Backlog
  /\ open \in {"open", "closing", "closed"}
  /\ dialog \in {"none", "save", "forget"}
  /\ todo \in Seq(Queries) /\ Len(todo) <= 4
  /\ awaited => todo # <<>>
  /\ answer \in {Nothing, Failure} \cup [ok : BOOLEAN, valid : {TRUE}, state : States]

LEMMA TypesInTwo == TypeOK <=> Flags /\ Data
  BY Zenon DEF TypeOK, Flags, Data

LEMMA InitHolds == Init => IInv
<1> SUFFICES ASSUME Init PROVE IInv
  OBVIOUS
<1> USE GuiAssumption
<1>1. Flags
  BY DEF Init, Flags
<1>2. <<>> \in Seq(Operations) /\ <<>> \in Seq(Queries) /\ Len(<<>>) = 0
  OBVIOUS
<1>3. Data
  BY <1>2 DEF Init, Data, States
<1>4. PlansAreKept /\ WindowIsOver /\ WaitsForItsOwn
  BY DEF Init, PlansAreKept, WindowIsOver, WaitsForItsOwn
<1>5. TimersFollowDisplay /\ TruthIsOnItsWay
  BY DEF Init, TimersFollowDisplay, Active, TruthIsOnItsWay
<1> QED
  BY <1>1, <1>3, <1>4, <1>5, TypesInTwo DEF IInv

Clicks ==
  ClickStart \/ ClickCapture \/ ClickRefresh \/ ClickCancel \/ ClickPanel

\* What has nothing to do with queries.
Quiet ==
  DaemonStarts \/ LeaseEnds \/ ToggleConsent \/ ShowOrHide \/ AskToForget \/ AskToSave
    \/ Opens

\* What plans queries, and leaves the answer to the last one alone.
Planning == Tick \/ Clicks \/ CloseDialog \/ Closes

LEMMA FlagsStep ==
  ASSUME Flags, Data, Next
  PROVE  Flags'
<1>1. CASE Quiet
  BY <1>1
     DEF Quiet, DaemonStarts, LeaseEnds, ToggleConsent, ShowOrHide, AskToForget, AskToSave,
         Opens, Flags, Animates, daemonVars, scannerVars
<1>2. CASE DaemonStops \/ ServesNobody
  BY <1>2 DEF DaemonStops, ServesNobody, Ends, Flags, scannerVars
<1>3. CASE Serves \/ ServesLate
  <2>1. camera' \in BOOLEAN
    BY <1>3, DoesReplies DEF Serves, ServesLate, Flags, Data
  <2>2. lost' \in BOOLEAN
    BY <1>3 DEF Serves, ServesLate, Flags
  <2> QED
    BY <1>3, <2>1, <2>2 DEF Serves, ServesLate, Flags, scannerVars
<1>4. CASE Asks \/ TimesOut
  BY <1>4 DEF Asks, TimesOut, Flags, daemonVars, scannerVars
<1>5. CASE Answered
  BY <1>5 DEF Answered, Applies, SetScannerState, Animates, Flags, daemonVars
<1>6. CASE Planning
  BY <1>6
     DEF Planning, Tick, Clicks, ClickStart, ClickCapture, ClickRefresh, ClickCancel,
         ClickPanel, Click, CloseDialog, Closes, Plan, Flags, daemonVars, scannerVars
<1> QED
  BY <1>1, <1>2, <1>3, <1>4, <1>5, <1>6 DEF Next, Gui, User, Quiet, Clicks, Planning

\* The plans there are.
LEMMA NewPlans ==
  ASSUME Planning
  PROVE  /\ todo' \in Seq(Queries) /\ Len(todo') <= 4 /\ dialog' \in {dialog, "none"}
         /\ \A i \in 1..Len(todo') :
              /\ todo'[i] = "drop" => i = 1 /\ Len(todo') > 1 /\ todo'[2] = "status"
              /\ todo'[i] = "quit" => Len(todo') = 1 /\ open' = "closing"
<1> DEFINE Others == Queries \ {"drop", "quit"}
<1>1. \/ todo' = <<>>
      \/ \E a \in Others : todo' = <<a>>
      \/ todo' = <<"quit">> /\ open' = "closing"
      \/ \E a, b \in Others : todo' = <<a, b>>
      \/ todo' = <<"drop", "status", "panel">>
  <2>1. CASE Tick
    BY <2>1 DEF Tick, Plan, Queries
  <2>2. CASE Clicks
    BY <2>2
       DEF Clicks, ClickStart, ClickCapture, ClickRefresh, ClickCancel, ClickPanel, Click,
           Plan, Queries
  <2>3. CASE CloseDialog
    BY <2>3 DEF CloseDialog, Plan, Queries
  <2>4. CASE Closes
    BY <2>4 DEF Closes, Queries
  <2> QED
    BY <2>1, <2>2, <2>3, <2>4 DEF Planning
<1>2. dialog' \in {dialog, "none"}
  BY DEF Planning, Tick, Clicks, ClickStart, ClickCapture, ClickRefresh, ClickCancel,
         ClickPanel, Click, CloseDialog, Closes
<1>3. CASE todo' = <<>>
  BY <1>2, <1>3, ShortPlans
<1>4. ASSUME NEW a \in Others, todo' = <<a>>
      PROVE  /\ todo' \in Seq(Queries) /\ Len(todo') <= 4
             /\ \A i \in 1..Len(todo') : todo'[i] \in Others
  BY <1>4, ShortPlans
<1>5. CASE todo' = <<"quit">> /\ open' = "closing"
  <2>1. todo' \in Seq(Queries) /\ Len(todo') = 1 /\ todo'[1] = "quit"
    BY <1>5, ShortPlans DEF Queries
  <2> QED
    BY <1>2, <1>5, <2>1
<1>6. ASSUME NEW a \in Others, NEW b \in Others, todo' = <<a, b>>
      PROVE  /\ todo' \in Seq(Queries) /\ Len(todo') <= 4
             /\ \A i \in 1..Len(todo') : todo'[i] \in Others
  BY <1>6, ShortPlans
<1>7. CASE todo' = <<"drop", "status", "panel">>
  <2>1. /\ todo' \in Seq(Queries) /\ Len(todo') = 3
        /\ todo'[1] = "drop" /\ todo'[2] = "status" /\ todo'[3] = "panel"
    BY <1>7, ShortPlans DEF Queries
  <2> QED
    BY <1>2, <2>1
<1>8. CASE /\ todo' \in Seq(Queries) /\ Len(todo') <= 4
           /\ \A i \in 1..Len(todo') : todo'[i] \in Others
  BY <1>2, <1>8
<1>9. CASE (\E a \in Others : todo' = <<a>>) \/ (\E a, b \in Others : todo' = <<a, b>>)
  BY <1>4, <1>6, <1>8, <1>9
<1> QED
  BY <1>1, <1>3, <1>5, <1>7, <1>9

LEMMA DataStep ==
  ASSUME Flags, Data, Next
  PROVE  Data'
<1> USE GuiAssumption
<1>1. CASE Quiet
  <2>1. UNCHANGED <<session, queue, todo, awaited, answer>>
    BY <1>1
       DEF Quiet, DaemonStarts, LeaseEnds, ToggleConsent, ShowOrHide, AskToForget,
           AskToSave, Opens, daemonVars
  <2>2. shown' \in {shown, "idle"} /\ open' \in {open, "open"}
    BY <1>1
       DEF Quiet, DaemonStarts, LeaseEnds, ToggleConsent, ShowOrHide, AskToForget,
           AskToSave, Opens, daemonVars
  <2>3. dialog' \in {dialog, "forget", "save"}
    BY <1>1
       DEF Quiet, DaemonStarts, LeaseEnds, ToggleConsent, ShowOrHide, AskToForget,
           AskToSave, Opens
  <2>4. shown' \in States
    BY <2>2 DEF Data, States
  <2> QED
    BY <2>1, <2>2, <2>3, <2>4 DEF Data
<1>2. CASE DaemonStops \/ ServesNobody
  <2>1. session' \in States /\ queue' = <<>>
    BY <1>2 DEF DaemonStops, ServesNobody, Ends, States
  <2>2. answer' \in {answer, Failure}
    BY <1>2 DEF DaemonStops, ServesNobody, Ends
  <2>3. queue' \in Seq(Operations) /\ Len(queue') <= Backlog
    BY <2>1
  <2>4. UNCHANGED <<shown, open, dialog, todo, awaited>>
    BY <1>2 DEF DaemonStops, ServesNobody, Ends
  <2> QED
    BY <2>1, <2>2, <2>3, <2>4 DEF Data
<1>3. CASE Serves \/ ServesLate
  <2>1. /\ Head(queue) \in Operations
        /\ Tail(queue) \in Seq(Operations) /\ Len(Tail(queue)) = Len(queue) - 1
    BY <1>3 DEF Serves, ServesLate, Data
  <2>2. /\ session' \in States
        /\ (\E ok \in BOOLEAN : answer' = Reply(ok, session')) \/ answer' = answer
    BY <1>3, <2>1, DoesReplies DEF Serves, ServesLate, Flags, Data
  <2>3. answer' \in {answer} \cup [ok : BOOLEAN, valid : {TRUE}, state : States]
    <3>1. ASSUME NEW ok \in BOOLEAN, answer' = Reply(ok, session')
          PROVE  answer' \in [ok : BOOLEAN, valid : {TRUE}, state : States]
      BY <2>2, <3>1 DEF Reply
    <3> QED
      BY <2>2, <3>1
  <2>4. queue' \in Seq(Operations) /\ Len(queue') <= Backlog
    <3>1. CASE Serves
      <4>1. queue' = <<>> /\ <<>> \in Seq(Operations) /\ Len(<<>>) = 0
        BY <3>1 DEF Serves
      <4> QED
        BY <4>1
    <3>2. CASE ServesLate
      <4>1. queue' = Tail(queue) /\ Len(queue) \in Nat /\ Len(queue) <= Backlog
        BY <3>2 DEF ServesLate, Data
      <4> QED
        BY <2>1, <4>1
    <3> QED
      BY <1>3, <3>1, <3>2
  <2>5. UNCHANGED <<shown, open, dialog, todo, awaited>>
    BY <1>3 DEF Serves, ServesLate
  <2> QED
    BY <2>2, <2>3, <2>4, <2>5 DEF Data
<1>4. CASE Asks
  <2>1. Operation(Head(todo)) \in Operations
    BY <1>4, RestOfPlan, EveryQueryIsAnOperation DEF Asks, Data
  <2>2. queue' \in Seq(Operations) /\ Len(queue') <= Backlog
    <3>1. CASE queue' = queue
      BY <3>1 DEF Data
    <3>2. CASE queue' = Append(queue, Operation(Head(todo))) /\ Len(queue) < Backlog
      BY <2>1, <3>2 DEF Data
    <3> QED
      BY <1>4, <3>1, <3>2 DEF Asks
  <2>3. answer' \in {answer, Failure}
    BY <1>4 DEF Asks
  <2>4. UNCHANGED <<session, shown, open, dialog, todo>> /\ todo # <<>>
    BY <1>4 DEF Asks, daemonVars
  <2> QED
    BY <2>2, <2>3, <2>4 DEF Data
<1>5. CASE TimesOut
  BY <1>5 DEF TimesOut, Data, daemonVars
<1>6. CASE Answered
  <2>1. "panel" \in Queries /\ todo \in Seq(Queries) /\ todo # <<>>
    BY <1>6 DEF Answered, Data, Queries
  <2>2. todo' \in {<<"panel">> \o Tail(todo), <<>> \o Tail(todo)}
    BY <1>6 DEF Answered
  <2>7. <<>> \o Tail(todo) \in Seq(Queries) /\ Len(<<>> \o Tail(todo)) = Len(todo) - 1
    BY <2>1, RestOfPlan
  <2>8. <<"panel">> \o Tail(todo) \in Seq(Queries) /\ Len(<<"panel">> \o Tail(todo)) = Len(todo)
    BY <2>1, RestAfterPanel
  <2>9. Len(todo) \in Nat /\ Len(todo) <= 4
    BY DEF Data
  <2>3. todo' \in Seq(Queries) /\ Len(todo') <= 4
    <3> DEFINE B == Seq(Queries)
               s == <<"panel">> \o Tail(todo)
               t == <<>> \o Tail(todo)
    <3>1. todo' \in {s, t} /\ s \in B /\ t \in B
      BY <2>2, <2>7, <2>8
    <3>2. Len(s) = Len(todo) /\ Len(t) = Len(todo) - 1
      BY <2>7, <2>8
    <3> HIDE DEF s, t, B
    <3>3. todo' \in B /\ Len(todo') <= 4
      BY <2>9, <3>1, <3>2
    <3> QED
      BY <3>3 DEF B
  <2>4. answer # Nothing
    BY <1>6 DEF Answered
  <2>5. answer.state \in States
    <3>1. CASE answer = Failure
      BY <3>1 DEF Failure, States
    <3>2. CASE answer \in [ok : BOOLEAN, valid : {TRUE}, state : States]
      BY <3>2
    <3> QED
      BY <2>4, <3>1, <3>2 DEF Data
  <2>6. shown' \in {shown, answer.state} /\ open' \in {open, "closed"}
    BY <1>6 DEF Answered, Applies
  <2>10. UNCHANGED <<session, queue, dialog>> /\ ~awaited' /\ answer' = Nothing
    BY <1>6 DEF Answered, daemonVars
  <2> QED
    BY <2>3, <2>5, <2>6, <2>10 DEF Data
<1>7. CASE Planning
  <2>2. todo' \in Seq(Queries) /\ Len(todo') <= 4
    BY <1>7, NewPlans
  <2>3. todo = <<>> /\ awaited' = awaited /\ answer' = answer
    BY <1>7
       DEF Planning, Tick, Clicks, ClickStart, ClickCapture, ClickRefresh, ClickCancel,
           ClickPanel, Click, CloseDialog, Closes, Idle, Plan
  <2>4. /\ open' \in {"open", "closing", "closed"} /\ dialog' \in {"none", "save", "forget"}
        /\ UNCHANGED <<daemonVars, queue, shown>>
    BY <1>7
       DEF Planning, Tick, Clicks, ClickStart, ClickCapture, ClickRefresh, ClickCancel,
           ClickPanel, Click, CloseDialog, Closes, Data
  <2> QED
    BY <2>2, <2>3, <2>4 DEF Data, daemonVars
<1> QED
  BY <1>1, <1>2, <1>3, <1>4, <1>5, <1>6, <1>7 DEF Next, Gui, User, Quiet, Clicks, Planning

LEMMA PlansStep ==
  ASSUME Flags, Data, PlansAreKept, TimersFollowDisplay, Next
  PROVE  PlansAreKept'
<1>1. CASE Quiet
  <2>1. todo' = todo /\ (dialog' # "none" => todo = <<>>)
    BY <1>1
       DEF Quiet, DaemonStarts, LeaseEnds, ToggleConsent, ShowOrHide, AskToForget,
           AskToSave, Opens, Idle, PlansAreKept
  <2>2. open = "closing" => open' = "closing"
    BY <1>1
       DEF Quiet, DaemonStarts, LeaseEnds, ToggleConsent, ShowOrHide, AskToForget,
           AskToSave, Opens
  <2> QED
    BY <2>1, <2>2 DEF PlansAreKept
<1>2. CASE DaemonStops \/ ServesNobody \/ Serves \/ ServesLate \/ Asks \/ TimesOut
  <2>1. UNCHANGED <<todo, dialog, open>>
    BY <1>2 DEF DaemonStops, ServesNobody, Ends, Serves, ServesLate, Asks, TimesOut
  <2> QED
    BY <2>1 DEF PlansAreKept
<1>3. CASE Answered
  <2>1. "panel" \in Queries /\ todo \in Seq(Queries) /\ todo # <<>>
    BY <1>3 DEF Answered, Data, Queries
  <2>2. dialog' = "none"
    BY <1>3, <2>1 DEF Answered, PlansAreKept
  <2>3. CASE todo' = <<>> \o Tail(todo)
    <3>1. Len(todo') = Len(todo) - 1 /\ Len(todo) \in Nat \ {0}
      BY <2>1, <2>3, RestOfPlan
    <3>2. \A i \in 1..Len(todo') : todo'[i] = todo[i + 1]
      BY <2>1, <2>3, <3>1, RestOfPlan
    <3>3. \A i \in 1..Len(todo') : todo'[i] \notin {"drop", "quit"}
      BY <3>1, <3>2 DEF PlansAreKept
    <3> QED
      BY <2>2, <3>3 DEF PlansAreKept
  <2>4. CASE todo' = <<"panel">> \o Tail(todo)
    <3>1. Len(todo') = Len(todo) /\ Len(todo) \in Nat \ {0} /\ todo'[1] = "panel"
      BY <2>1, <2>4, RestAfterPanel, RestOfPlan
    <3>2. \A i \in 2..Len(todo') : todo'[i] = todo[i]
      BY <2>1, <2>4, <3>1, RestAfterPanel
    <3>3. \A i \in 1..Len(todo') : todo'[i] \notin {"drop", "quit"}
      BY <3>1, <3>2 DEF PlansAreKept
    <3> QED
      BY <2>2, <3>3 DEF PlansAreKept
  <2> QED
    BY <1>3, <2>3, <2>4 DEF Answered
<1>4. CASE Planning
  <2>1. (todo = <<>> /\ dialog' = "none") \/ todo' = <<>>
    BY <1>4
       DEF Planning, Tick, Clicks, ClickStart, ClickCapture, ClickRefresh, ClickCancel,
           ClickPanel, Click, CloseDialog, Closes, Idle, Plan, TimersFollowDisplay
  <2> QED
    BY <1>4, <2>1, NewPlans DEF PlansAreKept
<1> QED
  BY <1>1, <1>2, <1>3, <1>4 DEF Next, Gui, User, Quiet, Clicks, Planning

LEMMA WaitingStep ==
  ASSUME Flags, Data, WaitsForItsOwn, Next
  PROVE  WaitsForItsOwn'
<1>1. CASE Quiet
  <2>1. UNCHANGED <<todo, awaited, answer, queue>>
    BY <1>1
       DEF Quiet, DaemonStarts, LeaseEnds, ToggleConsent, ShowOrHide, AskToForget,
           AskToSave, Opens, daemonVars
  <2> QED
    BY <2>1 DEF WaitsForItsOwn
<1>2. CASE DaemonStops \/ ServesNobody
  <2>1. awaited' = awaited /\ (awaited => answer' # Nothing)
    BY <1>2 DEF DaemonStops, ServesNobody, Ends, Failure, Nothing
  <2>2. ~awaited => answer' = Nothing
    BY <1>2 DEF DaemonStops, ServesNobody, Ends, WaitsForItsOwn
  <2> QED
    BY <2>1, <2>2 DEF WaitsForItsOwn
<1>3. CASE Serves
  <2>1. awaited /\ awaited' = awaited
    BY <1>3 DEF Serves, IsAwaited
  <2>2. Head(queue) \in Operations
    BY <1>3 DEF Serves, Data
  <2>3. answer' # Nothing
    BY <1>3, <2>2, DoesReplies DEF Serves, Flags, Data, Reply, Nothing
  <2> QED
    BY <2>1, <2>3 DEF WaitsForItsOwn
<1>4. CASE Asks
  <2>1. awaited' /\ todo' = todo /\ todo # <<>>
    BY <1>4 DEF Asks
  <2>2. CASE answer' = Failure
    BY <2>1, <2>2 DEF WaitsForItsOwn, Failure, Nothing
  <2>3. CASE queue' = Append(queue, Operation(Head(todo)))
    <3>1. queue' # <<>> /\ queue'[Len(queue')] = Operation(Head(todo))
      BY <2>3 DEF Data
    <3> QED
      BY <2>1, <3>1 DEF WaitsForItsOwn
  <2> QED
    BY <1>4, <2>2, <2>3 DEF Asks
<1>5. CASE TimesOut
  BY <1>5 DEF TimesOut, WaitsForItsOwn, Failure, Nothing
<1>8. CASE ServesLate
  <2>1. Head(queue) \in Operations /\ ~IsAwaited /\ Does(Head(queue))
        /\ queue' = Tail(queue) /\ UNCHANGED <<awaited, todo>>
    BY <1>8 DEF ServesLate, Data
  <2>2. answer' = answer
    BY <2>1, DoesReplies DEF Flags, Data
  <2>3. ASSUME awaited, answer = Nothing
        PROVE  queue' # <<>> /\ queue'[Len(queue')] = Operation(Head(todo))
    <3>1. /\ queue \in Seq(Operations) /\ queue # <<>> /\ Len(queue) # 1
          /\ queue[Len(queue)] = Operation(Head(todo))
      BY <1>8, <2>1, <2>3 DEF WaitsForItsOwn, IsAwaited, Data
    <3>2. /\ Len(queue) \in Nat \ {0, 1} /\ Tail(queue) \in Seq(Operations)
          /\ Len(Tail(queue)) = Len(queue) - 1
          /\ \A i \in 1..(Len(queue) - 1) : Tail(queue)[i] = queue[i + 1]
      BY <3>1
    <3>3. Len(queue) - 1 \in 1..(Len(queue) - 1) /\ (Len(queue) - 1) + 1 = Len(queue)
      BY <3>2
    <3>4. Tail(queue)[Len(Tail(queue))] = queue[Len(queue)] /\ Tail(queue) # <<>>
      BY <3>2, <3>3
    <3> QED
      BY <2>1, <3>1, <3>4
  <2> QED
    BY <2>1, <2>2, <2>3 DEF WaitsForItsOwn
<1>6. CASE Answered
  BY <1>6 DEF Answered, WaitsForItsOwn
<1>7. CASE Planning
  <2>1. ~awaited /\ ~awaited' /\ answer' = answer
    BY <1>7
       DEF Planning, Tick, Clicks, ClickStart, ClickCapture, ClickRefresh, ClickCancel,
           ClickPanel, Click, CloseDialog, Closes, Idle, Plan, Data
  <2> QED
    BY <2>1 DEF WaitsForItsOwn
<1> QED
  BY <1>1, <1>2, <1>3, <1>4, <1>5, <1>6, <1>7, <1>8
     DEF Next, Gui, User, Quiet, Clicks, Planning

LEMMA TimersStep ==
  ASSUME Flags, Data, PlansAreKept, WindowIsOver, TimersFollowDisplay, Next
  PROVE  TimersFollowDisplay'
<1>1. CASE ShowOrHide
  BY <1>1 DEF ShowOrHide, TimersFollowDisplay, Animates, Active
<1>2. CASE AskToForget \/ AskToSave
  BY <1>2 DEF AskToForget, AskToSave, TimersFollowDisplay, Active, scannerVars
<1>3. CASE Closes
  BY <1>3 DEF Closes, TimersFollowDisplay
<1>4. CASE Opens
  BY <1>4 DEF Opens, WindowIsOver, TimersFollowDisplay, Active, scannerVars
<1>5. CASE Answered
  <2>1. dialog' = "none"
    BY <1>5 DEF Answered, PlansAreKept, Data
  <2>2. CASE Head(todo) \in Silent
    BY <1>5, <2>1, <2>2 DEF Answered, TimersFollowDisplay
  <2>3. CASE Head(todo) \notin Silent
    <3>1. shown' = answer.state /\ visible' = visible
      BY <1>5, <2>3 DEF Answered, Applies
    <3>2. timer' => Active(answer.state)
      BY <1>5, <2>3 DEF Answered, Applies, KeepCapturing, Active
    <3>3. frames' <=> visible /\ Active(answer.state) /\ ~ReduceMotion
      BY <1>5, <2>3, GuiAssumption
         DEF Answered, Applies, SetScannerState, Animates, TimersFollowDisplay
    <3> QED
      BY <2>1, <3>1, <3>2, <3>3 DEF TimersFollowDisplay, Active
  <2> QED
    BY <2>2, <2>3
<1>6. CASE Tick \/ Clicks \/ CloseDialog
  <2>1. UNCHANGED <<shown, visible, frames>> /\ (timer' => timer) /\ dialog' \in {dialog, "none"}
    BY <1>6
       DEF Tick, Clicks, ClickStart, ClickCapture, ClickRefresh, ClickCancel, ClickPanel,
           Click, CloseDialog, scannerVars
  <2> QED
    BY <2>1 DEF TimersFollowDisplay
<1>7. CASE \/ DaemonStarts \/ LeaseEnds \/ ToggleConsent \/ DaemonStops \/ ServesNobody
           \/ Serves \/ ServesLate \/ Asks \/ TimesOut
  <2>1. UNCHANGED <<shown, visible, frames, timer, dialog>>
    BY <1>7
       DEF DaemonStarts, LeaseEnds, ToggleConsent, DaemonStops, ServesNobody, Ends, Serves,
           ServesLate, Asks, TimesOut, scannerVars
  <2> QED
    BY <2>1 DEF TimersFollowDisplay
<1> QED
  BY <1>1, <1>2, <1>3, <1>4, <1>5, <1>6, <1>7 DEF Next, Gui, User, Clicks

LEMMA WindowStep ==
  ASSUME Flags, Data, PlansAreKept, WindowIsOver, Next
  PROVE  WindowIsOver'
<1>1. CASE ShowOrHide \/ AskToForget \/ AskToSave \/ ToggleConsent
  <2>1. open = "open" /\ open' = open
    BY <1>1 DEF ShowOrHide, AskToForget, AskToSave, ToggleConsent, Idle
  <2> QED
    BY <2>1 DEF WindowIsOver
<1>2. CASE Closes
  <2>1. <<"quit">> \in Seq(Queries) /\ Len(<<"quit">>) = 1 /\ <<"quit">>[1] = "quit"
    BY ShortPlans DEF Queries
  <2>2. \/ open' = "closing" /\ todo' = <<"quit">>
        \/ open' = "closed" /\ todo' = <<>>
    BY <1>2 DEF Closes
  <2>3. ~timer' /\ ~visible'
    BY <1>2 DEF Closes
  <2>4. \A i \in 1..Len(todo') : todo'[i] = "quit"
    BY <2>1, <2>2
  <2> QED
    BY <2>2, <2>3, <2>4 DEF WindowIsOver
<1>3. CASE Opens
  BY <1>3 DEF Opens, WindowIsOver
<1>4. CASE Answered
  <2>1. todo \in Seq(Queries) /\ todo # <<>>
    BY <1>4 DEF Answered, Data
  <2>2. Head(todo) = todo[1] /\ Len(todo) \in Nat \ {0}
    BY <2>1, RestOfPlan
  <2>3. CASE open = "open"
    <3>1. Head(todo) # "quit"
      BY <2>2, <2>3 DEF PlansAreKept
    <3> QED
      BY <1>4, <2>3, <3>1 DEF Answered, WindowIsOver
  <2>4. CASE open = "closing"
    <3>1. Head(todo) = "quit" /\ Len(todo) = 1
      BY <2>2, <2>4 DEF PlansAreKept, WindowIsOver
    <3>2. open' = "closed" /\ timer' = timer /\ visible' = visible
      BY <1>4, <3>1 DEF Answered, Silent
    <3>3. todo' = <<>> \o Tail(todo)
      BY <1>4, <3>1 DEF Answered, Silent
    <3>4. todo' \in Seq(Queries) /\ Len(todo') = 0
      BY <2>1, <3>1, <3>3, RestOfPlan
    <3>5. todo' = <<>>
      BY <3>4
    <3> QED
      BY <2>4, <3>2, <3>5 DEF WindowIsOver
  <2>5. open # "closed"
    BY <2>1 DEF WindowIsOver
  <2> QED
    BY <2>3, <2>4, <2>5 DEF Data
<1>5. CASE Tick \/ Clicks \/ CloseDialog
  <2>1. open = "open" /\ open' = open
    BY <1>5
       DEF Tick, Clicks, ClickStart, ClickCapture, ClickRefresh, ClickCancel, ClickPanel,
           Click, CloseDialog, Idle
  <2> QED
    BY <2>1 DEF WindowIsOver
<1>6. CASE \/ DaemonStarts \/ LeaseEnds \/ DaemonStops \/ ServesNobody \/ Serves
           \/ ServesLate \/ Asks \/ TimesOut
  <2>1. UNCHANGED <<open, todo, timer, visible>>
    BY <1>6
       DEF DaemonStarts, LeaseEnds, DaemonStops, ServesNobody, Ends, Serves, ServesLate,
           Asks, TimesOut, scannerVars
  <2> QED
    BY <2>1 DEF WindowIsOver
<1> QED
  BY <1>1, <1>2, <1>3, <1>4, <1>5, <1>6 DEF Next, Gui, User, Clicks

LEMMA TruthStep ==
  ASSUME Flags, Data, PlansAreKept, WindowIsOver, WaitsForItsOwn, TruthIsOnItsWay, Next
  PROVE  TruthIsOnItsWay'
<1>1. CASE LeaseEnds \/ ToggleConsent \/ ShowOrHide \/ AskToForget \/ AskToSave \/ DaemonStarts
  <2>1. UNCHANGED <<lost, answer, todo, session, shown, open>>
    BY <1>1
       DEF LeaseEnds, ToggleConsent, ShowOrHide, AskToForget, AskToSave, DaemonStarts,
           daemonVars, scannerVars
  <2> QED
    BY <2>1 DEF TruthIsOnItsWay, ToBeShown, StatusToCome
<1>2. CASE DaemonStops \/ ServesNobody \/ Opens
  <2>1. lost'
    BY <1>2 DEF DaemonStops, ServesNobody, Ends, Opens
  <2> QED
    BY <2>1 DEF TruthIsOnItsWay
<1>3. CASE Serves
  <2>1. /\ UNCHANGED <<open, shown, todo, awaited>> /\ lost' = (lost /\ Head(todo) \in Silent)
        /\ Does(Head(queue)) /\ awaited /\ answer = Nothing /\ Len(queue) = 1
    BY <1>3 DEF Serves, IsAwaited
  <2>2. Head(queue) \in Operations
    BY <1>3 DEF Serves, Data
  <2>3. /\ \E ok \in BOOLEAN : answer' = Reply(ok, session')
        /\ Head(queue) = "other" => session' = session
    BY <2>1, <2>2, DoesReplies DEF Flags, Data, IsAwaited
  <2>4. answer' # Nothing /\ answer'.state = session'
    BY <2>3 DEF Reply, Nothing
  <2>5. CASE Head(todo) \notin Silent
    BY <2>1, <2>4, <2>5 DEF TruthIsOnItsWay, ToBeShown
  <2>6. CASE Head(todo) \in Silent
    <3>1. ~ToBeShown /\ ~ToBeShown' /\ lost' = lost /\ (StatusToCome <=> StatusToCome')
      BY <2>1, <2>6 DEF ToBeShown, StatusToCome, Flags
    <3>2. todo \in Seq(Queries) /\ todo # <<>>
      BY <2>1 DEF Data
    <3>3. Head(todo) = todo[1] /\ Len(todo) \in Nat \ {0}
      BY <3>2, RestOfPlan
    <3>4. CASE Head(todo) = "drop"
      <4>1. StatusToCome
        BY <3>3, <3>4 DEF PlansAreKept, StatusToCome
      <4> QED
        BY <3>1, <4>1 DEF TruthIsOnItsWay
    <3>5. CASE Head(todo) = "quit"
      <4>1. open' # "open"
        BY <2>1, <3>3, <3>5 DEF PlansAreKept
      <4> QED
        BY <3>1, <4>1 DEF TruthIsOnItsWay
    <3>6. CASE Head(todo) = "panel"
      <4>1. Head(queue) = "other"
        BY <1>3, <2>1, <3>6 DEF WaitsForItsOwn, Operation, Data
      <4> QED
        BY <2>1, <2>3, <3>1, <4>1 DEF TruthIsOnItsWay
    <3> QED
      BY <2>6, <3>4, <3>5, <3>6 DEF Silent
  <2> QED
    BY <2>5, <2>6
<1>4. CASE Asks \/ TimesOut
  <2>1. UNCHANGED <<lost, todo, session, shown, open>>
    BY <1>4 DEF Asks, TimesOut, daemonVars
  <2>2. \/ answer' = answer
        \/ answer' = Failure
    BY <1>4 DEF Asks, TimesOut
  <2>3. answer' # answer => answer' # Nothing /\ ~answer'.valid
    BY <2>2 DEF Failure, Nothing
  <2> QED
    BY <2>1, <2>3 DEF TruthIsOnItsWay, ToBeShown, StatusToCome
<1>7. CASE ServesLate
  <2>1. /\ Head(queue) \in Operations /\ ~IsAwaited /\ Does(Head(queue))
        /\ lost' = (lost \/ session' # session) /\ UNCHANGED <<todo, shown, open>>
    BY <1>7 DEF ServesLate, Data
  <2>2. answer' = answer
    BY <2>1, DoesReplies DEF Flags, Data
  <2> QED
    BY <2>1, <2>2 DEF TruthIsOnItsWay, ToBeShown, StatusToCome
<1>5. CASE Answered
  <2>1. todo \in Seq(Queries) /\ todo # <<>> /\ session' = session
    BY <1>5 DEF Answered, Data, daemonVars
  <2>2. Head(todo) = todo[1] /\ Len(todo) \in Nat \ {0} /\ answer' = Nothing
        /\ answer # Nothing
    BY <1>5, <2>1, RestOfPlan DEF Answered
  <2>3. CASE Head(todo) \notin Silent
    <3>1. shown' = answer.state /\ (~lost' => ~lost /\ answer.valid)
      BY <1>5, <2>3 DEF Answered, Applies
    <3>2. ~lost' => shown' = session'
      BY <2>1, <2>2, <2>3, <3>1 DEF TruthIsOnItsWay, ToBeShown
    <3> QED
      BY <2>2, <3>2 DEF TruthIsOnItsWay, ToBeShown
  <2>4. CASE Head(todo) \in Silent
    <3>1. shown' = shown /\ lost' = lost /\ todo' = <<>> \o Tail(todo)
      BY <1>5, <2>4 DEF Answered
    <3>2. open' = "open" => open = "open"
      BY <1>5 DEF Answered
    <3>3. Len(todo') = Len(todo) - 1 /\ \A i \in 1..(Len(todo) - 1) : todo'[i] = todo[i + 1]
      BY <2>1, <3>1, RestOfPlan
    <3>4. ASSUME StatusToCome PROVE StatusToCome'
      <4>1. PICK i \in 1..Len(todo) : todo[i] = "status"
        BY <3>4 DEF StatusToCome
      <4>2. i # 1
        BY <2>2, <2>4, <4>1 DEF Silent
      <4>3. i - 1 \in 1..Len(todo') /\ todo'[i - 1] = "status"
        BY <2>2, <3>3, <4>1, <4>2
      <4> QED
        BY <4>3 DEF StatusToCome
    <3>5. ~ToBeShown /\ ~ToBeShown'
      BY <2>2, <2>4 DEF ToBeShown
    <3> QED
      BY <2>1, <3>1, <3>2, <3>4, <3>5 DEF TruthIsOnItsWay
  <2> QED
    BY <2>3, <2>4
<1>6. CASE Planning
  <2>1. /\ UNCHANGED <<lost, answer, session, shown>> /\ ~awaited /\ todo = <<>>
        /\ open' = "open" => open = "open"
    BY <1>6
       DEF Planning, Tick, Clicks, ClickStart, ClickCapture, ClickRefresh, ClickCancel,
           ClickPanel, Click, CloseDialog, Closes, Idle, Plan, Data, daemonVars
  <2>2. answer = Nothing /\ ~StatusToCome
    BY <2>1 DEF WaitsForItsOwn, StatusToCome
  <2> QED
    BY <2>1, <2>2 DEF TruthIsOnItsWay, ToBeShown
<1> QED
  BY <1>1, <1>2, <1>3, <1>4, <1>5, <1>6, <1>7 DEF Next, Gui, User, Clicks, Planning

LEMMA StepKeepsIInv == IInv /\ [Next]_vars => IInv'
<1> SUFFICES ASSUME IInv, [Next]_vars PROVE IInv'
  OBVIOUS
<1>1. Flags /\ Data
  BY TypesInTwo DEF IInv
<1>2. CASE Next
  <2>1. TypeOK'
    BY <1>1, <1>2, FlagsStep, DataStep DEF IInv, TypeOK, Flags, Data
  <2>2. PlansAreKept' /\ WindowIsOver' /\ WaitsForItsOwn'
    BY <1>1, <1>2, PlansStep, WindowStep, WaitingStep DEF IInv
  <2>3. TimersFollowDisplay' /\ TruthIsOnItsWay'
    BY <1>1, <1>2, TimersStep, TruthStep DEF IInv
  <2> QED
    BY <2>1, <2>2, <2>3 DEF IInv
<1>3. CASE UNCHANGED vars
  <2>1. /\ UNCHANGED <<up, ignores, session, camera, queue, open, consent, shown, timer>>
        /\ UNCHANGED <<visible, frames, dialog, todo, awaited, answer, lost>>
    BY <1>3 DEF vars, daemonVars, scannerVars
  <2>2. TypeOK'
    <3>1. Flags'
      BY <1>1, <2>1 DEF Flags
    <3>2. Data'
      BY <1>1, <2>1 DEF Data
    <3> QED
      BY <3>1, <3>2 DEF TypeOK, Flags, Data
  <2>3. PlansAreKept' /\ WindowIsOver' /\ WaitsForItsOwn'
    BY <2>1 DEF IInv, PlansAreKept, WindowIsOver, WaitsForItsOwn
  <2>4. TimersFollowDisplay' /\ TruthIsOnItsWay'
    BY <2>1 DEF IInv, TimersFollowDisplay, TruthIsOnItsWay, ToBeShown, StatusToCome
  <2> QED
    BY <2>2, <2>3, <2>4 DEF IInv
<1> QED
  BY <1>2, <1>3

----------------------------------------------------------------------------
\* Every variable keeps its type; with it the daemon's queue never outgrows its
\* backlog, however often the GUI gives up and asks again (daemon_client.cpp:27-50).
THEOREM TypeCorrect == Spec => []TypeOK
<1>1. IInv => TypeOK
  BY DEF IInv
<1> QED
  BY InitHolds, StepKeepsIInv, <1>1, PTL DEF Spec

\* Automatic capture and the animation never run but for a session that is shown as
\* running, nor behind a question, in whatever order clicks, ticks and answers come
\* (main.cpp:670-689, scanner_widget.cpp:116).
THEOREM TimersAlwaysFollow == Spec => []TimersFollowDisplay
<1>1. IInv => TimersFollowDisplay
  BY DEF IInv
<1> QED
  BY InitHolds, StepKeepsIInv, <1>1, PTL DEF Spec

\* Unless a change has been kept from the GUI, what it shows between two queries is
\* the state of the daemon's session (main.cpp:145-277).
THEOREM DisplayIsAlwaysTrue == Spec => []DisplayIsTrue
<1>1. IInv => DisplayIsTrue
  <2> SUFFICES ASSUME IInv, Idle, ~lost PROVE shown = session
    BY DEF DisplayIsTrue
  <2>1. ~awaited /\ todo = <<>> /\ open = "open"
    BY DEF IInv, TypeOK, Idle
  <2>2. ~StatusToCome /\ ~ToBeShown
    BY <2>1 DEF IInv, WaitsForItsOwn, StatusToCome, ToBeShown, Nothing
  <2> QED
    BY <2>1, <2>2 DEF IInv, TruthIsOnItsWay
<1> QED
  BY InitHolds, StepKeepsIInv, <1>1, PTL DEF Spec
=============================================================================
