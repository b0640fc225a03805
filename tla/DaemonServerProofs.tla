------------------------ MODULE DaemonServerProofs ------------------------
(***************************************************************************)
(* What holds of DaemonServer for any daemons, clients, limit and backlog: *)
(* the limit of attempts, and the way to the socket. Neither depends on    *)
(* what the clients do, so the proofs go by the parts of Next that change  *)
(* a daemon.                                                               *)
(***************************************************************************)
EXTENDS DaemonServer, TLAPS

LEMMA MaxIsPositive == MaxAttempts \in Nat /\ MaxAttempts >= 1
  BY ServerAssumption DEF ServerAssumption

LEMMA FileAnswersAreAnswers ==
  /\ FileAnswers \subseteq FileReasons
  /\ FileReasons \subseteq Answers
  /\ "too_many_attempts" \notin FileReasons /\ "none" \notin FileReasons
  BY DEF FileAnswers, FileReason, FileReasons, Answers, Refusals

\* The counter is the history, and an answer waits only to be written.
Counted ==
  /\ pc \in [Daemons -> Places]
  /\ failed \in [Daemons -> 0..MaxAttempts]
  /\ allowed = failed
  /\ answer \in [Daemons -> Answers]
  /\ \A d \in Daemons :
       /\ answer[d] # "none" => pc[d] = "write"
       /\ answer[d] = "too_many_attempts" => failed[d] = MaxAttempts

LEMMA CountedInit == Init => Counted
  BY MaxIsPositive DEF Init, Counted, Places, Answers

LEMMA WillAnswerCounts ==
  ASSUME Counted, NEW d \in Daemons, NEW a \in Answers, WillAnswer(d, a),
         pc[d] # "write",
         failed' \in [Daemons -> 0..MaxAttempts],
         allowed' = failed',
         \A e \in Daemons \ {d} : failed'[e] = failed[e],
         a = "too_many_attempts" => failed'[d] = MaxAttempts
  PROVE  Counted'
  BY DEF Counted, WillAnswer, Places, Ends

LEMMA HangupCounts ==
  ASSUME Counted, NEW d \in Daemons, NEW held, Hangup(d, held),
         NEW p \in Places, pc' = [pc EXCEPT ![d] = p]
  PROVE  Counted'
  BY MaxIsPositive DEF Counted, Hangup, Answers

LEMMA CountedStep == Counted /\ [Next]_vars => Counted'
  <1> SUFFICES ASSUME Counted, [Next]_vars PROVE Counted'
    OBVIOUS
  <1>1. ASSUME NEW d \in Daemons,
               Starts(d) \/ Binds(d) \/ Listens(d) \/ UnlinksPath(d) \/ Accepts(d)
               \/ Reads(d) \/ Looks(d) \/ Writes(d) \/ WriteFails(d)
        PROVE  Counted'
    <2>1. CASE Starts(d)
      BY <2>1 DEF Starts, Counted, requestVars, Places, Ends
    <2>2. CASE Binds(d)
      BY <2>2 DEF Binds, Counted, requestVars, Places, Ends
    <2>3. CASE Listens(d)
      BY <2>3 DEF Listens, NextRound, Counted, requestVars, Places, Ends
    <2>4. CASE UnlinksPath(d)
      BY <2>4 DEF UnlinksPath, Counted, requestVars, Places, Ends
    <2>5. CASE Accepts(d)
      BY <2>5 DEF Accepts, Counted, requestVars, Places, Ends
    <2>6. CASE Reads(d)
      BY <2>6 DEF Reads, Counted, Places, Answers
    <2>7. CASE Looks(d)
      BY <2>7 DEF Looks, Counted, Places
    <2>8. CASE Writes(d) \/ WriteFails(d)
      BY <2>8 DEF Writes, WriteFails, NextRound, Counted, Places, Answers
    <2> QED
      BY <1>1, <2>1, <2>2, <2>3, <2>4, <2>5, <2>6, <2>7, <2>8
  <1>2. ASSUME NEW d \in Daemons, ClosesSocket(d) \/ Killed(d) \/ WritesToNobody(d)
        PROVE  Counted'
    <2>1. Hangup(d, Held(d))
      BY <1>2 DEF ClosesSocket, Killed, WritesToNobody
    <2>2. pc' = [pc EXCEPT ![d] = "closed"] \/ pc' = [pc EXCEPT ![d] = "gone"]
      BY <1>2 DEF ClosesSocket, Killed, WritesToNobody
    <2> QED
      BY <2>1, <2>2, HangupCounts DEF Places, Ends
  <1>3. ASSUME NEW d \in Daemons, Grants(d) PROVE Counted'
    <2>1. WillAnswer(d, "ok") /\ pc[d] # "write"
      BY <1>3 DEF Grants, Deciding
    <2>2. /\ failed' \in [Daemons -> 0..MaxAttempts]
          /\ allowed' = failed'
          /\ \A e \in Daemons \ {d} : failed'[e] = failed[e]
      BY <1>3, MaxIsPositive DEF Grants, Counted
    <2> QED
      BY <2>1, <2>2, WillAnswerCounts DEF Answers
  <1>4. ASSUME NEW d \in Daemons, Counts(d) PROVE Counted'
    <2>1. /\ failed' \in [Daemons -> 0..MaxAttempts]
          /\ allowed' = failed'
          /\ \A e \in Daemons \ {d} : failed'[e] = failed[e]
      <3>1. /\ failed[d] \in 0..MaxAttempts /\ allowed[d] = failed[d]
            /\ ~(failed[d] >= MaxAttempts)
        BY <1>4 DEF Counts, TooMany, Counted
      <3>2. failed[d] < MaxAttempts /\ failed[d] <= MaxAttempts
        BY <3>1, MaxIsPositive
      <3>3. /\ failed' = [failed EXCEPT ![d] = failed[d] + 1]
            /\ allowed' = [allowed EXCEPT ![d] = failed[d] + 1]
        BY <1>4, <3>1, <3>2 DEF Counts, RecordFailure
      <3>4. failed[d] + 1 \in 0..MaxAttempts
        BY <3>1, <3>2, MaxIsPositive
      <3> QED
        BY <3>3, <3>4 DEF Counted
    <2>2. CASE WillAnswer(d, "camera_not_ready")
      <3>1. pc[d] # "write"
        BY <1>4 DEF Counts, Deciding
      <3> QED
        BY <2>1, <2>2, <3>1, WillAnswerCounts DEF Answers, Refusals
    <2>3. CASE ~WillAnswer(d, "camera_not_ready")
      <3>1. /\ pc' = [pc EXCEPT ![d] = "files"]
            /\ answer' = answer
            /\ pc[d] = "decide"
        BY <1>4, <2>3 DEF Counts, Deciding
      <3> QED
        BY <2>1, <3>1 DEF Counted, Places
    <2> QED
      BY <2>2, <2>3
  <1>5. ASSUME NEW d \in Daemons,
               AnswersOther(d) \/ RefusesTooMany(d) \/ LooksAtFiles(d)
        PROVE  Counted'
    <2>1. PICK a \in FileAnswers \cup {"other", "too_many_attempts"} :
            /\ WillAnswer(d, a)
            /\ a = "too_many_attempts" => failed[d] >= MaxAttempts
      BY <1>5, FileAnswersAreAnswers
      DEF AnswersOther, RefusesTooMany, LooksAtFiles, TooMany
    <2>2. a \in Answers
      BY <2>1, FileAnswersAreAnswers DEF Answers, Refusals
    <2>3. /\ pc[d] # "write"
          /\ failed' = failed /\ allowed' = allowed
      BY <1>5 DEF AnswersOther, RefusesTooMany, LooksAtFiles, Deciding
    <2>4. a = "too_many_attempts" => failed'[d] = MaxAttempts
      BY <2>1, <2>3, MaxIsPositive DEF Counted
    <2> QED
      BY <2>1, <2>2, <2>3, <2>4, WillAnswerCounts DEF Counted
  <1>6. CASE UNCHANGED <<pc, failed, allowed, answer>>
    BY <1>6 DEF Counted
  <1>7. ASSUME NEW c \in Clients, Connects(c) \/ Abandons(c) PROVE Counted'
    BY <1>6, <1>7 DEF Connects, Abandons, Fails, Leaves, daemonVars, requestVars
  <1>8. ASSUME NEW c \in Pam, PamConnectFails(c) \/ PamStep(c) PROVE Counted'
    BY <1>6, <1>8 DEF PamConnectFails, PamStep, Sends, PamSendFails, PamReads,
       PamGivesUp, Succeeds, Fails, Leaves, daemonVars, requestVars
  <1>9. ASSUME NEW c \in Others, NEW op \in OtherOps, Sends(c, op) PROVE Counted'
    BY <1>6, <1>9 DEF Sends, daemonVars, requestVars
  <1>10. ASSUME NEW d \in Daemons, Signalled(d) \/ CameraChanges(d) PROVE Counted'
    BY <1>6, <1>10 DEF Signalled, CameraChanges, daemonVars, requestVars
  <1>11. CASE UNCHANGED vars
    BY <1>6, <1>11 DEF vars, daemonVars, requestVars
  <1> QED
    BY <1>1, <1>2, <1>3, <1>4, <1>5, <1>7, <1>8, <1>9, <1>10, <1>11
    DEF Next, DaemonStep

\* However many requests there are, and whoever gives up, no more than
\* max_auth_attempts of them get past the limit between two grants, and nobody is
\* refused before (main.cpp:1281-1290).
THEOREM LimitHolds == Spec => []LimitIsKept
  <1>1. Counted => LimitIsKept
    <2> SUFFICES ASSUME Counted, NEW d \in Daemons
                 PROVE  /\ allowed[d] <= MaxAttempts
                        /\ answer[d] = "too_many_attempts" => allowed[d] = MaxAttempts
      BY DEF LimitIsKept
    <2>1. failed[d] \in 0..MaxAttempts /\ allowed[d] = failed[d]
      BY DEF Counted
    <2> QED
      BY <2>1, MaxIsPositive DEF Counted
  <1> QED
    BY <1>1, CountedInit, CountedStep, PTL DEF Spec

----------------------------------------------------------------------------
\* A daemon that is alone is the only one that runs, and the path is what it has
\* made of it.
Alone(d) ==
  /\ Running(d) /\ pc[d] # "closed"
  /\ \A o \in Daemons \ {d} : ~Running(o)
  /\ pc[d] = "unlinked" => path = NoOne
  /\ pc[d] = "bound" \/ Listening(d) => path = d

SocketInv ==
  /\ pc \in [Daemons -> Places]
  /\ alone \in [Daemons -> BOOLEAN]
  /\ \A d \in Daemons : alone[d] => Alone(d)

LEMMA SocketInit == Init => SocketInv
  BY DEF Init, SocketInv, Places

\* The steps of a daemon that leave the path and the others alone.
LEMMA SocketKeeps ==
  ASSUME SocketInv, NEW d \in Daemons, Listening(d) \/ pc[d] = "bound",
         NEW p \in Places, pc' = [pc EXCEPT ![d] = p],
         Listening(d)', UNCHANGED <<path, alone>>
  PROVE  SocketInv'
  BY DEF SocketInv, Alone, Running, Listening, Places, Ends

LEMMA SocketStep == SocketInv /\ [Next]_vars => SocketInv'
  <1> SUFFICES ASSUME SocketInv, [Next]_vars PROVE SocketInv'
    OBVIOUS
  <1>1. ASSUME NEW d \in Daemons, Starts(d) PROVE SocketInv'
    <2>1. /\ pc' \in [Daemons -> Places]
          /\ alone' \in [Daemons -> BOOLEAN]
      BY <1>1 DEF Starts, SocketInv, Places
    <2>2. ASSUME NEW o \in Daemons \ {d} PROVE alone'[o] = FALSE
      BY <1>1, <2>2 DEF Starts, SocketInv, Alone
    <2>3. ASSUME alone'[d] PROVE Alone(d)'
      BY <1>1, <2>3 DEF Starts, SocketInv, Alone, Running, Listening, Ends
    <2> QED
      BY <2>1, <2>2, <2>3 DEF SocketInv
  <1>2. ASSUME NEW d \in Daemons, Binds(d) PROVE SocketInv'
    <2>1. Running(d)
      BY <1>2 DEF Binds, Running, Ends
    <2>2. ASSUME NEW o \in Daemons \ {d} PROVE ~alone[o]
      BY <2>1, <2>2 DEF SocketInv, Alone
    <2>3. ASSUME alone[d] PROVE Alone(d)'
      BY <1>2, <2>3 DEF Binds, SocketInv, Alone, Running, Listening, Ends
    <2> QED
      BY <1>2, <2>2, <2>3 DEF Binds, SocketInv, Places, Ends
  <1>3. ASSUME NEW d \in Daemons, Listens(d) PROVE SocketInv'
    <2> DEFINE p == NextRound(d)
    <2>1. p \in Places /\ pc[d] = "bound" /\ UNCHANGED <<path, alone>>
      BY <1>3 DEF Listens, NextRound, Places
    <2>2. pc' = [pc EXCEPT ![d] = p] /\ Listening(d)'
      BY <1>3 DEF Listens, NextRound, Listening, SocketInv
    <2> QED
      BY <2>1, <2>2, SocketKeeps
  <1>4. ASSUME NEW d \in Daemons, ClosesSocket(d) \/ Killed(d) \/ WritesToNobody(d)
        PROVE  SocketInv'
    <2>1. /\ alone' = [alone EXCEPT ![d] = FALSE] /\ path' = path
          /\ \/ pc' = [pc EXCEPT ![d] = "closed"]
             \/ pc' = [pc EXCEPT ![d] = "gone"]
      BY <1>4 DEF ClosesSocket, Killed, WritesToNobody
    <2>2. Running(d)
      BY <1>4 DEF ClosesSocket, Killed, WritesToNobody, Running, Ends
    <2>3. ASSUME NEW o \in Daemons \ {d} PROVE ~alone[o]
      BY <2>2, <2>3 DEF SocketInv, Alone
    <2> QED
      BY <2>1, <2>3 DEF SocketInv, Places, Ends
  <1>5. ASSUME NEW d \in Daemons, UnlinksPath(d) PROVE SocketInv'
    <2>1. Running(d) /\ ~Listening(d) /\ pc[d] \notin {"unlinked", "bound"}
      BY <1>5 DEF UnlinksPath, Running, Listening, Ends
    <2>2. ASSUME NEW o \in Daemons PROVE ~alone[o]
      BY <1>5, <2>1, <2>2 DEF UnlinksPath, SocketInv, Alone
    <2> QED
      BY <1>5, <2>2 DEF UnlinksPath, SocketInv, Places, Ends
  <1>6. ASSUME NEW d \in Daemons, NEW p \in Places,
               Listening(d), p \in {"poll", "read", "look", "decide", "files", "write", "leave"},
               pc' = [pc EXCEPT ![d] = p], UNCHANGED <<path, alone>>
        PROVE  SocketInv'
    <2>1. Listening(d)'
      BY <1>6 DEF SocketInv, Listening
    <2> QED
      BY <1>6, <2>1, SocketKeeps
  <1>7. ASSUME NEW d \in Daemons,
               Accepts(d) \/ Reads(d) \/ Looks(d) \/ AnswersOther(d) \/ Grants(d)
               \/ RefusesTooMany(d) \/ Counts(d) \/ LooksAtFiles(d) \/ Writes(d)
               \/ WriteFails(d)
        PROVE  SocketInv'
    <2>1. Listening(d) /\ UNCHANGED <<path, alone>>
      BY <1>7 DEF Listening, Accepts, Reads, Looks, AnswersOther, Grants,
         RefusesTooMany, Counts, LooksAtFiles, Writes, WriteFails, WillAnswer, Deciding
    <2>2. PICK p \in {"poll", "read", "look", "decide", "files", "write", "leave"} :
            pc' = [pc EXCEPT ![d] = p]
      BY <1>7 DEF Accepts, Reads, Looks, AnswersOther, Grants, RefusesTooMany,
         Counts, LooksAtFiles, Writes, WriteFails, WillAnswer, NextRound
    <2>3. p \in Places
      BY <2>2 DEF Places
    <2> QED
      BY <1>6, <2>1, <2>2, <2>3
  <1>8. CASE UNCHANGED <<path, pc, alone>>
    BY <1>8 DEF SocketInv, Alone, Running, Listening
  <1>9. ASSUME NEW c \in Clients, Connects(c) \/ Abandons(c) PROVE SocketInv'
    BY <1>8, <1>9 DEF Connects, Abandons, Fails, Leaves, daemonVars
  <1>10. ASSUME NEW c \in Pam, PamConnectFails(c) \/ PamStep(c) PROVE SocketInv'
    BY <1>8, <1>10 DEF PamConnectFails, PamStep, Sends, PamSendFails, PamReads,
       PamGivesUp, Succeeds, Fails, Leaves, daemonVars
  <1>11. ASSUME NEW c \in Others, NEW op \in OtherOps, Sends(c, op) PROVE SocketInv'
    BY <1>8, <1>11 DEF Sends, daemonVars
  <1>12. ASSUME NEW d \in Daemons, Signalled(d) \/ CameraChanges(d) PROVE SocketInv'
    BY <1>8, <1>12 DEF Signalled, CameraChanges, daemonVars
  <1>13. CASE UNCHANGED vars
    BY <1>8, <1>13 DEF vars, daemonVars
  <1> QED
    BY <1>1, <1>2, <1>3, <1>4, <1>5, <1>7, <1>9, <1>10, <1>11, <1>12, <1>13
    DEF Next, DaemonStep

\* A daemon that has had the machine for itself since it started does not fail to
\* bind, and as long as it listens the path leads to it, whatever other daemons
\* have left behind before (main.cpp:720-749, 1492).
THEOREM SocketIsAlwaysFound == Spec => []SocketIsFound
  <1>1. SocketInv => SocketIsFound
    BY DEF SocketInv, SocketIsFound, Alone, Running, Ends
  <1> QED
    BY <1>1, SocketInit, SocketStep, PTL DEF Spec

----------------------------------------------------------------------------
\* What has to have happened to a call of PAM that still waits.
Waits(c) == c \in Pam /\ client[c] # "away"

EarnedTypes ==
  /\ queue \in [Daemons -> Seq(Clients)]
  /\ serving \in [Daemons -> Clients \cup {NoOne}]
  /\ seen \in [Daemons -> BOOLEAN]
  /\ camera \in [Daemons -> BOOLEAN]
  /\ pc \in [Daemons -> Places]
  /\ answer \in [Daemons -> Answers]
  /\ client \in [Clients -> {"away", "connected", "asked"}]
  /\ reply \in [Clients -> {"none", "closed", "ok", "other"}]
  /\ earned \subseteq Pam /\ success \subseteq Pam

EarnedInv ==
  /\ EarnedTypes
  /\ \A d \in Daemons :
       /\ camera[d] => \A c \in Held(d) : Waits(c) => c \in earned
       /\ seen[d] => pc[d] \in {"decide", "files"}
       /\ answer[d] # "none" => pc[d] = "write"
       /\ (seen[d] \/ answer[d] = "ok") /\ Waits(serving[d]) =>
            serving[d] \in earned
  /\ \A c \in Pam :
       /\ reply[c] = "ok" => c \in earned
       /\ client[c] = "away" => reply[c] = "none"
       /\ c \in success => client[c] = "away" /\ c \in earned

LEMMA EarnedInit == Init => EarnedInv
  BY DEF Init, EarnedInv, EarnedTypes, Places, Answers, Clients, Held, Queued, Waits

\* Queued() along accept() and connect().
LEMMA TailIsQueued ==
  ASSUME NEW S, NEW q \in Seq(S), q # <<>>
  PROVE  /\ Head(q) \in S /\ Tail(q) \in Seq(S)
         /\ Head(q) \in {q[i] : i \in 1..Len(q)}
         /\ {Tail(q)[i] : i \in 1..Len(Tail(q))} \subseteq {q[i] : i \in 1..Len(q)}
  OBVIOUS

LEMMA AppendIsQueued ==
  ASSUME NEW S, NEW q \in Seq(S), NEW e \in S
  PROVE  /\ Append(q, e) \in Seq(S)
         /\ {Append(q, e)[i] : i \in 1..Len(Append(q, e))} = {q[i] : i \in 1..Len(q)} \cup {e}
  <1> DEFINE n == Len(q)
             w == Append(q, e)
  <1>1. n \in Nat /\ w \in Seq(S) /\ Len(w) = n + 1
    OBVIOUS
  <1>2. w[n + 1] = e /\ \A i \in 1..n : w[i] = q[i]
    OBVIOUS
  <1> HIDE DEF n, w
  <1>3. 1..(n + 1) = 1..n \cup {n + 1}
    BY <1>1
  <1>4. {w[i] : i \in 1..(n + 1)} = {q[i] : i \in 1..n} \cup {e}
    BY <1>2, <1>3
  <1> QED
    BY <1>1, <1>4 DEF n, w

PathTyped == path \in Daemons \cup {NoOne}

LEMMA PathStep == PathTyped /\ [Next]_vars => PathTyped'
  BY DEF PathTyped, Next, DaemonStep, PamStep, Starts, Binds, Listens, UnlinksPath,
     ClosesSocket, Killed, WritesToNobody, Signalled, Accepts, Reads, Looks,
     AnswersOther, Grants, RefusesTooMany, Counts, LooksAtFiles, WillAnswer, Writes,
     WriteFails, CameraChanges, Connects, PamConnectFails, Sends, PamSendFails, PamReads,
     PamGivesUp, Abandons, Succeeds, Fails, Leaves, daemonVars, vars

LEMMA NoOneIsNoClient == NoOne \notin Clients /\ Pam \subseteq Clients
  BY ServerAssumption DEF ServerAssumption, Clients

\* A daemon that neither decides nor writes goes on.
LEMMA GoesOn ==
  ASSUME EarnedInv, NEW d \in Daemons, NEW p \in Places,
         pc' = [pc EXCEPT ![d] = p],
         pc[d] = "decide" => p = "files",
         pc[d] \notin {"files", "write"},
         UNCHANGED <<queue, serving, seen, answer, camera, clientVars>>
  PROVE  EarnedInv'
  BY DEF EarnedInv, EarnedTypes, Held, Queued, Waits, clientVars

LEMMA HangupEarns ==
  ASSUME EarnedInv, NEW d \in Daemons, Hangup(d, Held(d)), NEW p \in Places,
         pc' = [pc EXCEPT ![d] = p]
  PROVE  EarnedInv'
  <1> USE NoOneIsNoClient
  <1>1. EarnedTypes'
    BY DEF EarnedInv, EarnedTypes, Hangup, Answers
  <1>2. \A e \in Daemons \ {d} :
          /\ queue'[e] = queue[e] /\ serving'[e] = serving[e]
          /\ camera'[e] = camera[e] /\ seen'[e] = seen[e]
          /\ answer'[e] = answer[e] /\ pc'[e] = pc[e]
    BY DEF EarnedInv, EarnedTypes, Hangup
  <1>3. ~camera'[d] /\ ~seen'[d] /\ answer'[d] = "none"
    BY DEF EarnedInv, EarnedTypes, Hangup
  <1>4. ASSUME NEW c \in Pam
        PROVE  /\ reply'[c] = "ok" => reply[c] = "ok"
               /\ client[c] = "away" => reply'[c] = reply[c]
    BY <1>4 DEF Hangup
  <1>5. earned' = earned /\ success' = success /\ client' = client
    BY DEF Hangup
  <1> QED
    BY <1>1, <1>2, <1>3, <1>4, <1>5 DEF EarnedInv, Held, Queued, Waits

LEMMA AnswerEarns ==
  ASSUME EarnedInv, NEW d \in Daemons, NEW a \in Answers, WillAnswer(d, a),
         pc[d] # "write",
         a = "ok" /\ Waits(serving[d]) => serving[d] \in earned
  PROVE  EarnedInv'
  BY DEF EarnedInv, EarnedTypes, WillAnswer, Held, Queued, Waits, clientVars, Places

\* A client goes; what it was granted is forgotten unless it is its success.
LEMMA LeavingEarns ==
  ASSUME EarnedInv, NEW c \in Clients, client[c] # "away", Leaves(c),
         UNCHANGED pc,
         \/ earned' = earned \ {c} /\ success' = success
         \/ c \in Pam /\ reply[c] = "ok" /\ earned' = earned /\ success' = success \cup {c}
  PROVE  EarnedInv'
  BY NoOneIsNoClient
  DEF EarnedInv, EarnedTypes, Leaves, Held, Queued, Waits, daemonVars, requestVars

LEMMA EarnedStep == EarnedInv /\ PathTyped /\ [Next]_vars => EarnedInv'
  <1> SUFFICES ASSUME EarnedInv, PathTyped, [Next]_vars PROVE EarnedInv'
    OBVIOUS
  <1> USE NoOneIsNoClient
  <1>1. ASSUME NEW d \in Daemons,
               Starts(d) \/ Binds(d) \/ Listens(d) \/ UnlinksPath(d)
        PROVE  EarnedInv'
    <2>1. /\ pc[d] \notin {"decide", "files", "write"}
          /\ UNCHANGED <<queue, serving, seen, answer, camera, clientVars>>
      BY <1>1 DEF Starts, Binds, Listens, UnlinksPath, requestVars
    <2>2. PICK p \in Places : pc' = [pc EXCEPT ![d] = p]
      BY <1>1 DEF Starts, Binds, Listens, UnlinksPath, NextRound, Places, Ends
    <2> QED
      BY <2>1, <2>2, GoesOn
  <1>2. ASSUME NEW d \in Daemons, ClosesSocket(d) \/ Killed(d) \/ WritesToNobody(d)
        PROVE  EarnedInv'
    <2>1. Hangup(d, Held(d))
      BY <1>2 DEF ClosesSocket, Killed, WritesToNobody
    <2>2. pc' = [pc EXCEPT ![d] = "closed"] \/ pc' = [pc EXCEPT ![d] = "gone"]
      BY <1>2 DEF ClosesSocket, Killed, WritesToNobody
    <2> QED
      BY <2>1, <2>2, HangupEarns DEF Places, Ends
  <1>3. ASSUME NEW d \in Daemons, Accepts(d) PROVE EarnedInv'
    <2>1. /\ Head(queue[d]) \in Clients /\ Tail(queue[d]) \in Seq(Clients)
          /\ Head(queue[d]) \in Queued(d)
          /\ {Tail(queue[d])[i] : i \in 1..Len(Tail(queue[d]))} \subseteq Queued(d)
      BY <1>3, TailIsQueued DEF Accepts, EarnedInv, EarnedTypes, Queued
    <2>2. Held(d)' \subseteq Held(d)
      BY <1>3, <2>1 DEF Accepts, Held, Queued, EarnedInv, EarnedTypes
    <2>3. ASSUME NEW e \in Daemons \ {d} PROVE Held(e)' = Held(e)
      BY <1>3 DEF Accepts, Held, Queued, EarnedInv, EarnedTypes
    <2>4. EarnedTypes'
      BY <1>3, <2>1 DEF Accepts, EarnedInv, EarnedTypes, requestVars, clientVars, Places
    <2>5. ~seen[d] /\ answer[d] = "none"
      BY <1>3 DEF Accepts, EarnedInv, EarnedTypes
    <2> QED
      BY <1>3, <2>2, <2>3, <2>4, <2>5
      DEF Accepts, EarnedInv, EarnedTypes, Waits, requestVars, clientVars
  <1>4. ASSUME NEW d \in Daemons, Reads(d) PROVE EarnedInv'
    <2>1. PICK a \in {"none", "peer_not_allowed"}, p \in {"look", "write"} :
            /\ pc[d] = "read" /\ pc' = [pc EXCEPT ![d] = p]
            /\ answer' = [answer EXCEPT ![d] = a]
            /\ a # "none" => p = "write"
            /\ UNCHANGED <<queue, serving, seen, camera, clientVars>>
      <3>1. answer[d] = "none"
        BY <1>4 DEF Reads, EarnedInv
      <3>2. CASE answer' = answer
        BY <1>4, <3>1, <3>2 DEF Reads, EarnedInv, EarnedTypes
      <3> QED
        BY <1>4, <3>2 DEF Reads
    <2>2. EarnedTypes'
      BY <2>1 DEF EarnedInv, EarnedTypes, clientVars, Places, Answers
    <2> QED
      BY <2>1, <2>2 DEF EarnedInv, EarnedTypes, Held, Queued, Waits, clientVars
  <1>5. ASSUME NEW d \in Daemons, Looks(d) PROVE EarnedInv'
    <2>1. EarnedTypes'
      BY <1>5 DEF Looks, EarnedInv, EarnedTypes, clientVars, Places
    <2>2. camera[d] /\ Waits(serving[d]) => serving[d] \in earned
      BY DEF EarnedInv, Held, Waits
    <2> QED
      BY <1>5, <2>1, <2>2
      DEF Looks, EarnedInv, EarnedTypes, Held, Queued, Waits, clientVars
  <1>6. ASSUME NEW d \in Daemons,
               AnswersOther(d) \/ Grants(d) \/ RefusesTooMany(d) \/ LooksAtFiles(d)
               \/ Counts(d)
        PROVE  EarnedInv'
    <2>1. CASE \E a \in Answers \ {"ok"} : WillAnswer(d, a)
      <3>1. pc[d] # "write"
        BY <1>6 DEF AnswersOther, Grants, RefusesTooMany, LooksAtFiles, Counts, Deciding
      <3> QED
        BY <2>1, <3>1, AnswerEarns
    <2>2. CASE Grants(d)
      <3>1. WillAnswer(d, "ok") /\ pc[d] # "write" /\ seen[d]
        BY <2>2 DEF Grants, Deciding, Granting
      <3>2. Waits(serving[d]) => serving[d] \in earned
        BY <3>1 DEF EarnedInv
      <3> QED
        BY <3>1, <3>2, AnswerEarns DEF Answers
    <2>3. CASE Counts(d) /\ ~WillAnswer(d, "camera_not_ready")
      <3>1. /\ pc' = [pc EXCEPT ![d] = "files"] /\ pc[d] = "decide"
            /\ UNCHANGED <<queue, serving, seen, answer, camera, clientVars>>
        BY <2>3 DEF Counts, Deciding
      <3> QED
        BY <3>1, GoesOn DEF Places
    <2>4. CASE AnswersOther(d) \/ RefusesTooMany(d) \/ WillAnswer(d, "camera_not_ready")
      BY <2>1, <2>4 DEF AnswersOther, RefusesTooMany, Answers, Refusals
    <2>5. CASE LooksAtFiles(d)
      <3>1. FileAnswers \subseteq Answers \ {"ok"}
        BY FileAnswersAreAnswers DEF FileReasons, Answers, Refusals
      <3> QED
        BY <2>1, <2>5, <3>1 DEF LooksAtFiles
    <2> QED
      BY <1>6, <2>2, <2>3, <2>4, <2>5
  <1>7. ASSUME NEW d \in Daemons, Writes(d) \/ WriteFails(d) PROVE EarnedInv'
    <2> DEFINE c == serving[d]
    <2>1. EarnedTypes'
      BY <1>7 DEF Writes, WriteFails, NextRound, EarnedInv, EarnedTypes, Places, Answers
    <2>2. \A e \in Daemons : Held(e)' \subseteq Held(e)
      BY <1>7 DEF Writes, WriteFails, Held, Queued, EarnedInv, EarnedTypes
    <2>3. ~seen[d]
      BY <1>7 DEF Writes, WriteFails, EarnedInv
    <2>4. ASSUME NEW p \in Pam
          PROVE  /\ reply'[p] = "ok" => p \in earned
                 /\ client[p] = "away" => reply'[p] = "none"
      BY <1>7, <2>4 DEF Writes, WriteFails, EarnedInv, EarnedTypes, Waits
    <2>5. /\ UNCHANGED <<seen, camera, client, success, earned>>
          /\ serving'[d] = NoOne /\ answer'[d] = "none"
          /\ \A e \in Daemons \ {d} : /\ pc'[e] = pc[e] /\ answer'[e] = answer[e]
                                     /\ serving'[e] = serving[e]
      BY <1>7 DEF Writes, WriteFails, EarnedInv, EarnedTypes
    <2>6. ASSUME NEW e \in Daemons, camera'[e], NEW p \in Held(e)', Waits(p)'
          PROVE  p \in earned'
      BY <2>2, <2>5, <2>6 DEF EarnedInv, Waits
    <2>7. ASSUME NEW e \in Daemons
          PROVE  /\ seen'[e] => pc'[e] \in {"decide", "files"}
                 /\ answer'[e] # "none" => pc'[e] = "write"
                 /\ (seen'[e] \/ answer'[e] = "ok") /\ Waits(serving[e])' =>
                      serving'[e] \in earned'
      <3>1. CASE e = d
        BY <2>3, <2>5, <3>1
      <3>2. CASE e # d
        BY <2>5, <3>2 DEF EarnedInv, Waits
      <3> QED
        BY <3>1, <3>2
    <2>8. ASSUME NEW p \in Pam
          PROVE  p \in success' => client'[p] = "away" /\ p \in earned'
      BY <2>5 DEF EarnedInv
    <2> QED
      BY <2>1, <2>4, <2>5, <2>6, <2>7, <2>8 DEF EarnedInv, Waits
  <1>8. ASSUME NEW d \in Daemons, CameraChanges(d) PROVE EarnedInv'
    BY <1>8 DEF CameraChanges, EarnedInv, EarnedTypes, Held, Queued, Waits,
       daemonVars, requestVars
  <1>9. ASSUME NEW d \in Daemons, Signalled(d) PROVE EarnedInv'
    BY <1>9 DEF Signalled, EarnedInv, EarnedTypes, Held, Queued, Waits,
       requestVars, clientVars
  <1>10. ASSUME NEW c \in Clients, Connects(c) PROVE EarnedInv'
    <2>1. PICK d \in Daemons : path = d
      BY <1>10 DEF Connects, CanConnect, PathTyped
    <2>2. client[c] = "away" /\ \A e \in Daemons : c \notin Held(e)
      BY <1>10 DEF Connects, Unused
    <2>3. /\ queue[d] \in Seq(Clients)
          /\ queue' = [queue EXCEPT ![d] = Append(queue[d], c)]
      BY <1>10, <2>1 DEF Connects, EarnedInv, EarnedTypes
    <2>4. /\ Append(queue[d], c) \in Seq(Clients)
          /\ Queued(d)' = Queued(d) \cup {c}
      BY <2>3, AppendIsQueued DEF Queued, EarnedInv, EarnedTypes
    <2>5. /\ Held(d)' = Held(d) \cup {c}
          /\ \A e \in Daemons \ {d} : Held(e)' = Held(e)
      <3>1. serving' = serving /\ \A e \in Daemons \ {d} : queue'[e] = queue[e]
        BY <1>10, <2>3 DEF Connects, EarnedInv, EarnedTypes
      <3>2. Held(d)' = Held(d) \cup {c}
        BY <2>4, <3>1 DEF Held
      <3>3. \A e \in Daemons \ {d} : Held(e)' = Held(e)
        BY <3>1 DEF Held, Queued
      <3> QED
        BY <3>2, <3>3
    <2>6. /\ c \notin {serving[e] : e \in Daemons}
          /\ c \in Pam /\ camera[d] => c \in earned'
          /\ \A p \in Pam \ {c} : p \in earned => p \in earned'
          /\ earned' \subseteq Pam
      BY <1>10, <2>1, <2>2 DEF Connects, Held, EarnedInv, EarnedTypes
    <2>7. EarnedTypes'
      <3>1. queue' \in [Daemons -> Seq(Clients)]
        BY <2>3, <2>4 DEF EarnedInv, EarnedTypes
      <3> QED
        BY <1>10, <2>6, <3>1
        DEF Connects, EarnedInv, EarnedTypes, daemonVars, requestVars
    <2>8. ASSUME NEW e \in Daemons, camera[e], NEW p \in Held(e)', Waits(p)'
          PROVE  p \in earned'
      <3>1. CASE p = c
        BY <2>2, <2>5, <2>6, <2>8, <3>1 DEF Waits
      <3>2. CASE p # c
        <4>1. p \in Held(e)
          BY <2>5, <2>8, <3>2
        <4>2. Waits(p)
          BY <1>10, <2>8, <3>2 DEF Connects, Waits, EarnedInv, EarnedTypes
        <4> QED
          BY <2>6, <2>8, <3>2, <4>1, <4>2 DEF EarnedInv, Waits
      <3> QED
        BY <3>1, <3>2
    <2>9. /\ \A e \in Daemons : Waits(serving[e])' <=> Waits(serving[e])
          /\ UNCHANGED <<pc, serving, seen, answer, camera, reply>>
      BY <1>10, <2>6 DEF Connects, Waits, EarnedInv, EarnedTypes, daemonVars, requestVars
    <2> QED
      BY <1>10, <2>2, <2>6, <2>7, <2>8, <2>9
      DEF Connects, EarnedInv, EarnedTypes, Waits
  <1>11. ASSUME NEW c \in Pam, PamConnectFails(c) PROVE EarnedInv'
    BY <1>11 DEF PamConnectFails, Unused, EarnedInv, EarnedTypes, Held, Queued, Waits,
       daemonVars, requestVars
  <1>12. ASSUME NEW c \in Clients, NEW op, Sends(c, op) PROVE EarnedInv'
    BY <1>12 DEF Sends, EarnedInv, EarnedTypes, Held, Queued, Waits, daemonVars,
       requestVars
  <1>13. ASSUME NEW c \in Clients, Abandons(c) PROVE EarnedInv'
    BY <1>13, LeavingEarns DEF Abandons, Fails, Leaves, daemonVars
  <1>14. ASSUME NEW c \in Pam, PamStep(c) PROVE EarnedInv'
    BY <1>12, <1>14, LeavingEarns DEF PamStep, PamSendFails, PamReads, PamGivesUp,
       Succeeds, Fails, Leaves, daemonVars
  <1>15. CASE UNCHANGED vars
    BY <1>15 DEF vars, daemonVars, requestVars, clientVars, EarnedInv, EarnedTypes,
       Held, Queued, Waits
  <1>16. Others \subseteq Clients
    BY DEF Clients
  <1> QED
    BY <1>1, <1>2, <1>3, <1>4, <1>5, <1>6, <1>7, <1>8, <1>9, <1>10, <1>11, <1>12,
       <1>13, <1>14, <1>15, <1>16 DEF Next, DaemonStep

\* A call of pam_sm_authenticate succeeds only when the daemon it is connected to
\* had a frame to show during this very call, and grants for development; no
\* earlier request, no earlier call and no other client can make it succeed
\* (main.cpp:1161, 1270; pam_face_unlock.c:264).
THEOREM SuccessIsAlwaysEarned == Spec => []SuccessIsEarned
  <1>1. EarnedInv => SuccessIsEarned
    BY DEF EarnedInv, EarnedTypes, SuccessIsEarned
  <1>2. Init => PathTyped
    BY DEF Init, PathTyped
  <1> QED
    BY <1>1, <1>2, EarnedInit, EarnedStep, PathStep, PTL DEF Spec

----------------------------------------------------------------------------
\* The rest of the types.
RestTyped ==
  /\ stop \in [Daemons -> BOOLEAN]
  /\ sent \in [Clients -> {"none"} \cup Operations]
  /\ \A d \in Daemons : Len(queue[d]) <= Backlog

LEMMA RestInit == Init => RestTyped
  BY ServerAssumption DEF Init, RestTyped, ServerAssumption

LEMMA SentStep ==
  sent \in [Clients -> {"none"} \cup Operations] /\ [Next]_vars
    => sent' \in [Clients -> {"none"} \cup Operations]
  <1> DEFINE Sent == [Clients -> {"none"} \cup Operations]
  <1> SUFFICES ASSUME sent \in Sent, [Next]_vars PROVE sent' \in Sent
    OBVIOUS
  <1>1. ASSUME NEW d \in Daemons, NEW held, Hangup(d, held) PROVE sent' \in Sent
    BY <1>1 DEF Hangup
  <1>2. ASSUME NEW c \in Clients, Leaves(c) PROVE sent' \in Sent
    <2> DEFINE kept == IF \E d \in Daemons : c \in Held(d) THEN sent[c] ELSE "none"
    <2>1. kept \in {"none"} \cup Operations
      OBVIOUS
    <2>2. sent' = [sent EXCEPT ![c] = kept]
      BY <1>2 DEF Leaves
    <2> HIDE DEF kept
    <2> QED
      BY <2>1, <2>2
  <1>3. ASSUME NEW c \in Clients, NEW op \in Operations, Sends(c, op)
        PROVE  sent' \in Sent
    BY <1>3 DEF Sends
  <1>4. ASSUME NEW d \in Daemons, Writes(d) \/ WriteFails(d) PROVE sent' \in Sent
    BY <1>4 DEF Writes, WriteFails
  <1>5. CASE UNCHANGED sent
    BY <1>5
  <1>6. Pam \subseteq Clients /\ Others \subseteq Clients
        /\ OtherOps \subseteq Operations /\ "auth" \in Operations
    BY ServerAssumption DEF ServerAssumption, Clients, Operations
  <1>7. ASSUME NEW d \in Daemons,
               Starts(d) \/ Signalled(d) \/ CameraChanges(d) \/ Binds(d) \/ Listens(d)
               \/ UnlinksPath(d) \/ Accepts(d) \/ Reads(d) \/ Looks(d) \/ AnswersOther(d)
               \/ Grants(d) \/ RefusesTooMany(d) \/ Counts(d) \/ LooksAtFiles(d)
        PROVE  sent' \in Sent
    BY <1>5, <1>7 DEF Starts, Signalled, CameraChanges, Binds, Listens, UnlinksPath,
       Accepts, Reads, Looks, AnswersOther, Grants, RefusesTooMany, Counts,
       LooksAtFiles, WillAnswer, clientVars
  <1>8. ASSUME NEW d \in Daemons, ClosesSocket(d) \/ Killed(d) \/ WritesToNobody(d)
        PROVE  sent' \in Sent
    BY <1>1, <1>8 DEF ClosesSocket, Killed, WritesToNobody
  <1>9. ASSUME NEW c \in Clients, Connects(c) \/ PamConnectFails(c) PROVE sent' \in Sent
    BY <1>5, <1>9 DEF Connects, PamConnectFails
  <1>10. ASSUME NEW c \in Clients,
                Abandons(c) \/ PamSendFails(c) \/ PamReads(c) \/ PamGivesUp(c)
         PROVE  sent' \in Sent
    BY <1>2, <1>10 DEF Abandons, PamSendFails, PamReads, PamGivesUp, Fails, Succeeds
  <1>11. CASE UNCHANGED vars
    BY <1>5, <1>11 DEF vars, clientVars
  <1>12. ASSUME NEW d \in Daemons, DaemonStep(d) PROVE sent' \in Sent
    BY <1>4, <1>7, <1>8, <1>12 DEF DaemonStep
  <1>13. ASSUME NEW c \in Pam, PamStep(c) PROVE sent' \in Sent
    BY <1>3, <1>6, <1>10, <1>13 DEF PamStep
  <1>14. ASSUME NEW c \in Others, NEW op \in OtherOps, Sends(c, op) PROVE sent' \in Sent
    BY <1>3, <1>6, <1>14
  <1> HIDE DEF Sent
  <1> QED
    BY <1>6, <1>7, <1>8, <1>9, <1>10, <1>11, <1>12, <1>13, <1>14 DEF Next

\* Only a client that finds room is queued; everything else shortens a queue.
LEMMA QueueStep ==
  EarnedTypes /\ PathTyped /\ RestTyped /\ [Next]_vars
    => \A d \in Daemons : Len(queue'[d]) <= Backlog
  <1> SUFFICES ASSUME EarnedTypes, PathTyped, RestTyped, [Next]_vars, NEW e \in Daemons
               PROVE  Len(queue'[e]) <= Backlog
    OBVIOUS
  <1>1. queue \in [Daemons -> Seq(Clients)] /\ Len(queue[e]) <= Backlog
        /\ Backlog \in Nat \ {0}
    BY ServerAssumption DEF EarnedTypes, RestTyped, ServerAssumption
  <1>2. CASE UNCHANGED queue
    BY <1>1, <1>2
  <1>3. ASSUME NEW d \in Daemons, queue' = [queue EXCEPT ![d] = <<>>]
        PROVE  Len(queue'[e]) <= Backlog
    BY <1>1, <1>3
  <1>4. ASSUME NEW d \in Daemons, Accepts(d) PROVE Len(queue'[e]) <= Backlog
    <2>1. queue[d] \in Seq(Clients) /\ queue[d] # <<>>
      BY <1>1, <1>4 DEF Accepts
    <2>2. Len(Tail(queue[d])) <= Len(queue[d])
      BY <2>1
    <2>3. queue' = [queue EXCEPT ![d] = Tail(queue[d])]
      BY <1>4 DEF Accepts
    <2>4. Tail(queue[d]) \in Seq(Clients)
      BY <2>1
    <2>5. CASE e = d
      BY <1>1, <2>1, <2>2, <2>3, <2>4, <2>5
    <2>6. CASE e # d
      BY <1>1, <2>3, <2>6
    <2> QED
      BY <2>5, <2>6
  <1>5. ASSUME NEW c \in Clients, Connects(c) PROVE Len(queue'[e]) <= Backlog
    <2>1. path \in Daemons /\ Len(queue[path]) < Backlog
      BY <1>5 DEF Connects, CanConnect, PathTyped
    <2>2. queue' = [queue EXCEPT ![path] = Append(queue[path], c)]
      BY <1>5 DEF Connects
    <2>3. queue[path] \in Seq(Clients)
      BY <1>1, <2>1
    <2>4. Len(Append(queue[path], c)) = Len(queue[path]) + 1 /\ Len(queue[path]) \in Nat
      BY <2>3
    <2>5. CASE e = path
      BY <1>1, <2>1, <2>2, <2>4, <2>5
    <2>6. CASE e # path
      BY <1>1, <2>2, <2>6
    <2> QED
      BY <2>5, <2>6
  <1>6. ASSUME NEW d \in Daemons,
               Starts(d) \/ Signalled(d) \/ CameraChanges(d) \/ Binds(d) \/ Listens(d)
               \/ UnlinksPath(d) \/ Reads(d) \/ Looks(d) \/ AnswersOther(d) \/ Grants(d)
               \/ RefusesTooMany(d) \/ Counts(d) \/ LooksAtFiles(d) \/ Writes(d)
               \/ WriteFails(d)
        PROVE  Len(queue'[e]) <= Backlog
    BY <1>2, <1>6 DEF Starts, Signalled, CameraChanges, Binds, Listens, UnlinksPath,
       Reads, Looks, AnswersOther, Grants, RefusesTooMany, Counts, LooksAtFiles, Writes,
       WriteFails, WillAnswer
  <1>7. ASSUME NEW d \in Daemons, ClosesSocket(d) \/ Killed(d) \/ WritesToNobody(d)
        PROVE  Len(queue'[e]) <= Backlog
    BY <1>3, <1>7 DEF ClosesSocket, Killed, WritesToNobody, Hangup
  <1>8. ASSUME NEW c \in Clients, Abandons(c) \/ PamConnectFails(c) \/ PamStep(c)
        PROVE  Len(queue'[e]) <= Backlog
    BY <1>2, <1>8 DEF Abandons, PamConnectFails, PamStep, Sends, PamSendFails, PamReads,
       PamGivesUp, Succeeds, Fails, Leaves
  <1>9. ASSUME NEW c \in Clients, NEW op \in OtherOps, Sends(c, op)
        PROVE  Len(queue'[e]) <= Backlog
    BY <1>2, <1>9 DEF Sends
  <1>10. CASE UNCHANGED vars
    BY <1>2, <1>10 DEF vars
  <1>11. Pam \subseteq Clients /\ Others \subseteq Clients
    BY DEF Clients
  <1>12. ASSUME NEW d \in Daemons, DaemonStep(d) PROVE Len(queue'[e]) <= Backlog
    BY <1>4, <1>6, <1>7, <1>12 DEF DaemonStep
  <1> QED
    BY <1>5, <1>6, <1>7, <1>8, <1>9, <1>10, <1>11, <1>12 DEF Next

LEMMA StopStep ==
  stop \in [Daemons -> BOOLEAN] /\ [Next]_vars => stop' \in [Daemons -> BOOLEAN]
  <1> SUFFICES ASSUME stop \in [Daemons -> BOOLEAN], [Next]_vars
               PROVE  stop' \in [Daemons -> BOOLEAN]
    OBVIOUS
  <1>1. \/ UNCHANGED stop
        \/ \E d \in Daemons : \/ stop' = [stop EXCEPT ![d] = TRUE]
                             \/ stop' = [stop EXCEPT ![d] = FALSE]
    BY ZenonT(60) DEF Next, DaemonStep, PamStep, Starts, Binds, Listens, UnlinksPath, ClosesSocket,
       Killed, WritesToNobody, Hangup, Signalled, Accepts, Reads, Looks, AnswersOther,
       Grants, RefusesTooMany, Counts, LooksAtFiles, WillAnswer, Writes, WriteFails, CameraChanges,
       Connects, PamConnectFails, Sends, PamSendFails, PamReads, PamGivesUp, Abandons,
       Succeeds, Fails, Leaves, daemonVars, vars
  <1> QED
    BY <1>1

\* Every variable keeps its type; with it no daemon holds more connections that
\* wait than its backlog (main.cpp:748), and none counts failures past the limit.
THEOREM TypeCorrect == Spec => []TypeOK
  <1>1. EarnedInv /\ PathTyped /\ Counted /\ SocketInv /\ RestTyped => TypeOK
    <2> SUFFICES ASSUME EarnedInv, PathTyped, Counted, SocketInv, RestTyped PROVE TypeOK
      OBVIOUS
    <2>1. 0..MaxAttempts \subseteq 0..(MaxAttempts + 1)
      BY MaxIsPositive
    <2>2. failed \in [Daemons -> 0..MaxAttempts] /\ allowed = failed
      BY DEF Counted
    <2>3. allowed \in [Daemons -> 0..(MaxAttempts + 1)]
      BY <2>1, <2>2
    <2> QED
      BY <2>2, <2>3, Zenon
      DEF EarnedInv, EarnedTypes, PathTyped, SocketInv, RestTyped, TypeOK
  <1>2. EarnedInv /\ PathTyped /\ RestTyped /\ [Next]_vars => RestTyped'
    BY QueueStep, SentStep, StopStep DEF EarnedInv, RestTyped
  <1>3. Init => PathTyped
    BY DEF Init, PathTyped
  <1> QED
    BY <1>1, <1>2, <1>3, EarnedInit, EarnedStep, PathStep, RestInit, CountedInit,
       CountedStep, SocketInit, SocketStep, PTL DEF Spec
=============================================================================
