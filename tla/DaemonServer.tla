--------------------------- MODULE DaemonServer ---------------------------
(***************************************************************************)
(* The daemon's socket server (daemon/src/main.cpp:712-815 and 1154-1495)  *)
(* and the PAM module that asks it for a decision                          *)
(* (pam/pam_face_unlock.c). One thread serves one connection at a time,    *)
(* and its read() has no time limit; a client may give up at any moment,   *)
(* and a daemon may be started, stopped or killed at any moment, also      *)
(* while another one runs.                                                 *)
(*                                                                         *)
(* A connection is a member of Pam or Others, free to be used again once   *)
(* both ends have closed it. Of the camera only "ready" is kept. The user's *)
(* files change at any time, so a look at them may find anything.          *)
(* A definition named Fault... is the one after it with a plausible bug.   *)
(***************************************************************************)
EXTENDS Naturals, Sequences

CONSTANTS
  Daemons,      \* the daemons that will be started, each once
  Pam, Others,  \* connections: of the PAM module, and of other programs
  OtherOps,     \* the operations the other programs ask for
  Root,         \* those whose peer is root; the others are the user's own
  DevAllowed,   \* the daemons with FACE_UNLOCK_DEV_ALLOW=1
  Ignoring,     \* those started with SIGPIPE ignored, as systemd does by default
  RootAuth,     \* FACE_UNLOCK_ALLOW_ROOT_AUTH=1
  MaxAttempts,  \* max_auth_attempts
  Backlog,      \* connections that wait for accept()
  NoOne         \* no daemon, no connection

Clients == Pam \cup Others
Operations == {"auth", "other"}

ASSUME ServerAssumption ==
  /\ Pam \cap Others = {} /\ OtherOps \subseteq Operations
  /\ Root \subseteq Clients
  /\ DevAllowed \subseteq Daemons /\ Ignoring \subseteq Daemons
  /\ RootAuth \in BOOLEAN
  /\ MaxAttempts \in 1..10
  /\ Backlog \in Nat \ {0}
  /\ NoOne \notin Daemons \cup Clients

VARIABLES
  path,     \* the daemon whose socket the path names, alive or not
  pc,       \* what each daemon does next
  stop,     \* the daemons that have been sent SIGTERM: ~g_running
  queue,    \* the connections each daemon has still to accept
  serving,  \* the one it serves
  seen,     \* camera_status.state = "ready", as this request found it
  failed,   \* auth_state.failed_attempts
  answer,   \* what it will write
  camera,   \* the daemons whose lease shows a frame
  client,   \* where each client is
  sent,     \* the operation a connection carries, "none" before it is sent
  reply,    \* what the server has written to a connection, "closed" for nothing
  success,  \* the calls of pam_sm_authenticate whose last return was PAM_SUCCESS
  alone,    \* history: no other daemon has run since this one started
  allowed,  \* history: auth requests let past the limit since the last grant
  earned    \* history: the calls of PAM during which the camera was ready

daemonVars == <<path, pc, stop, alone>>
requestVars == <<seen, failed, answer, allowed>>
clientVars == <<client, sent, reply, success, earned>>
vars == <<daemonVars, queue, serving, requestVars, camera, clientVars>>

FileReasons == {"template_missing", "template_not_decryptable", "key_missing",
                "template_decrypt_failed", "matcher_not_implemented"}
Refusals == {"too_many_attempts", "camera_not_ready"} \cup FileReasons
Answers == {"none", "ok", "peer_not_allowed", "other"} \cup Refusals

\* A daemon that has not been started, or whose process is gone.
Ends == {"failed", "gone"}
Running(d) == pc[d] \notin {"off"} \cup Ends
\* Between listen() and close() of its socket.
Listening(d) ==
  pc[d] \in {"poll", "read", "look", "decide", "files", "write", "leave"}

Places == {"off", "unlinked", "bound", "poll", "read", "look", "decide", "files",
           "write", "leave", "closed"} \cup Ends

TypeOK ==
  /\ path \in Daemons \cup {NoOne}
  /\ pc \in [Daemons -> Places]
  /\ stop \in [Daemons -> BOOLEAN]
  /\ queue \in [Daemons -> Seq(Clients)]
  /\ \A d \in Daemons : Len(queue[d]) <= Backlog
  /\ serving \in [Daemons -> Clients \cup {NoOne}]
  /\ seen \in [Daemons -> BOOLEAN]
  /\ failed \in [Daemons -> 0..MaxAttempts]
  /\ answer \in [Daemons -> Answers]
  /\ camera \in [Daemons -> BOOLEAN]
  /\ client \in [Clients -> {"away", "connected", "asked"}]
  /\ sent \in [Clients -> {"none"} \cup Operations]
  /\ reply \in [Clients -> {"none", "closed", "ok", "other"}]
  /\ success \in SUBSET Pam
  /\ alone \in [Daemons -> BOOLEAN]
  /\ allowed \in [Daemons -> 0..(MaxAttempts + 1)]
  /\ earned \in SUBSET Pam

Init ==
  /\ path = NoOne
  /\ pc = [d \in Daemons |-> "off"]
  /\ stop = [d \in Daemons |-> FALSE]
  /\ queue = [d \in Daemons |-> <<>>]
  /\ serving = [d \in Daemons |-> NoOne]
  /\ seen = [d \in Daemons |-> FALSE]
  /\ failed = [d \in Daemons |-> 0]
  /\ answer = [d \in Daemons |-> "none"]
  /\ camera = [d \in Daemons |-> FALSE]
  /\ client = [c \in Clients |-> "away"]
  /\ sent = [c \in Clients |-> "none"]
  /\ reply = [c \in Clients |-> "none"]
  /\ success = {}
  /\ alone = [d \in Daemons |-> FALSE]
  /\ allowed = [d \in Daemons |-> 0]
  /\ earned = {}

Queued(d) == {queue[d][i] : i \in 1..Len(queue[d])}
\* The connections a daemon holds an end of.
Held(d) == Queued(d) \cup ({serving[d]} \ {NoOne})

----------------------------------------------------------------------------
(* The life of a daemon. *)

FaultStarts(d) ==
  /\ pc[d] = "off"
  /\ pc' = [pc EXCEPT ![d] = "unlinked"]
  /\ alone' = [e \in Daemons |->
       IF e = d THEN \A o \in Daemons \ {d} : ~Running(o)
       ELSE alone[e] /\ ~Running(e)]
  /\ UNCHANGED <<path, stop, queue, serving, requestVars, camera, clientVars>>

\* create_server_socket() begins: whatever the path names is unlinked.
Starts(d) ==
  /\ pc[d] = "off"
  /\ path' = NoOne
  /\ pc' = [pc EXCEPT ![d] = "unlinked"]
  /\ alone' = [e \in Daemons |->
       IF e = d THEN \A o \in Daemons \ {d} : ~Running(o)
       ELSE alone[e] /\ ~Running(e)]
  /\ UNCHANGED <<stop, queue, serving, requestVars, camera, clientVars>>

\* bind() fails when the path has come into being again.
Binds(d) ==
  /\ pc[d] = "unlinked"
  /\ \/ /\ path = NoOne
        /\ path' = d
        /\ pc' = [pc EXCEPT ![d] = "bound"]
     \/ /\ path # NoOne
        /\ pc' = [pc EXCEPT ![d] = "failed"]
        /\ UNCHANGED path
  /\ UNCHANGED <<stop, alone, queue, serving, requestVars, camera, clientVars>>

FaultNextRound(d) == "poll"

\* The loop goes on while g_running.
NextRound(d) == IF stop[d] THEN "leave" ELSE "poll"

Listens(d) ==
  /\ pc[d] = "bound"
  /\ pc' = [pc EXCEPT ![d] = NextRound(d)]
  /\ UNCHANGED <<path, stop, alone, queue, serving, requestVars, camera,
                 clientVars>>

\* SIGINT or SIGTERM. read() is restarted after it, poll() is not.
Signalled(d) ==
  /\ Running(d) /\ ~stop[d]
  /\ stop' = [stop EXCEPT ![d] = TRUE]
  /\ UNCHANGED <<path, pc, alone, queue, serving, requestVars, camera, clientVars>>

\* The kernel closes the connections a daemon holds, and its memory is gone.
Hangup(d, held) ==
  /\ queue' = [queue EXCEPT ![d] = <<>>]
  /\ serving' = [serving EXCEPT ![d] = NoOne]
  /\ reply' = [c \in Clients |->
       IF c \in held /\ client[c] # "away" THEN "closed" ELSE reply[c]]
  /\ sent' = [c \in Clients |->
       IF c \in held /\ client[c] = "away" THEN "none" ELSE sent[c]]
  /\ answer' = [answer EXCEPT ![d] = "none"]
  /\ seen' = [seen EXCEPT ![d] = FALSE]
  /\ failed' = [failed EXCEPT ![d] = 0]
  /\ allowed' = [allowed EXCEPT ![d] = 0]
  /\ camera' = [camera EXCEPT ![d] = FALSE]
  /\ stop' = [stop EXCEPT ![d] = FALSE]
  /\ UNCHANGED <<client, success, earned>>

\* The loop has ended, and the socket is closed...
ClosesSocket(d) ==
  /\ (pc[d] = "poll" /\ stop[d]) \/ pc[d] = "leave"
  /\ pc' = [pc EXCEPT ![d] = "closed"]
  /\ Hangup(d, Held(d))
  /\ alone' = [alone EXCEPT ![d] = FALSE]
  /\ UNCHANGED path

\* ... and then the path is unlinked, whoever it belongs to.
UnlinksPath(d) ==
  /\ pc[d] = "closed"
  /\ path' = NoOne
  /\ pc' = [pc EXCEPT ![d] = "gone"]
  /\ UNCHANGED <<stop, alone, queue, serving, requestVars, camera, clientVars>>

\* SIGKILL, or a crash: the path stays behind.
Killed(d) ==
  /\ Running(d)
  /\ pc' = [pc EXCEPT ![d] = "gone"]
  /\ Hangup(d, Held(d))
  /\ alone' = [alone EXCEPT ![d] = FALSE]
  /\ UNCHANGED path

----------------------------------------------------------------------------
(* One request. *)

Accepts(d) ==
  /\ pc[d] = "poll" /\ queue[d] # <<>>
  /\ serving' = [serving EXCEPT ![d] = Head(queue[d])]
  /\ queue' = [queue EXCEPT ![d] = Tail(@)]
  /\ pc' = [pc EXCEPT ![d] = "read"]
  /\ UNCHANGED <<path, stop, alone, requestVars, camera, clientVars>>

\* peer_policy_decision(): the socket's mode leaves only the user and root.
PeerPolicy(c, op) ==
  CASE c \notin Root -> "allow_same_uid"
    [] c \in Root /\ op = "auth" /\ RootAuth -> "allow_root_auth"
    [] c \in Root /\ op = "auth" /\ ~RootAuth -> "reject_root_auth_disabled"
    [] OTHER -> "reject"

\* peer_is_allowed_for_operation()
PeerIsAllowed(c, op) == PeerPolicy(c, op) # "reject"

\* read() returns the request, or nothing when the client has closed its end
\* without sending one. Otherwise it waits.
Readable(c) == sent[c] # "none" \/ client[c] = "away"

Reads(d) ==
  /\ pc[d] = "read" /\ Readable(serving[d])
  /\ \/ /\ PeerIsAllowed(serving[d], sent[serving[d]])
        /\ pc' = [pc EXCEPT ![d] = "look"]
        /\ UNCHANGED answer
     \/ /\ ~PeerIsAllowed(serving[d], sent[serving[d]])
        /\ pc' = [pc EXCEPT ![d] = "write"]
        /\ answer' = [answer EXCEPT ![d] = "peer_not_allowed"]
  /\ UNCHANGED <<path, stop, alone, queue, serving, seen, failed, allowed,
                 camera, clientVars>>

\* get_camera_status(), before anything else is looked at.
Looks(d) ==
  /\ pc[d] = "look"
  /\ seen' = [seen EXCEPT ![d] = camera[d]]
  /\ pc' = [pc EXCEPT ![d] = "decide"]
  /\ UNCHANGED <<path, stop, alone, queue, serving, failed, answer, allowed,
                 camera, clientVars>>

WillAnswer(d, a) ==
  /\ pc' = [pc EXCEPT ![d] = "write"]
  /\ answer' = [answer EXCEPT ![d] = a]
  /\ seen' = [seen EXCEPT ![d] = FALSE]
  /\ UNCHANGED <<path, stop, alone, queue, serving, camera, clientVars>>

\* Every operation but auth, and what is none: of no concern to PAM.
AnswersOther(d) ==
  /\ pc[d] = "decide" /\ sent[serving[d]] # "auth"
  /\ WillAnswer(d, "other")
  /\ UNCHANGED <<failed, allowed>>

Deciding(d) == pc[d] = "decide" /\ sent[serving[d]] = "auth"
FaultGranting(d) == d \in DevAllowed
Granting(d) == d \in DevAllowed /\ seen[d]

\* The development-only grant, which comes before the limit.
Grants(d) ==
  /\ Deciding(d) /\ Granting(d)
  /\ failed' = [failed EXCEPT ![d] = 0]
  /\ allowed' = [allowed EXCEPT ![d] = 0]
  /\ WillAnswer(d, "ok")

FaultTooMany(d) == failed[d] > MaxAttempts

\* too_many_attempts()
TooMany(d) == failed[d] >= MaxAttempts

RefusesTooMany(d) ==
  /\ Deciding(d) /\ ~Granting(d) /\ TooMany(d)
  /\ WillAnswer(d, "too_many_attempts")
  /\ UNCHANGED <<failed, allowed>>

\* record_failure_and_remaining(): every other request counts as a failure.
RecordFailure(d) ==
  failed' = [failed EXCEPT ![d] = IF @ < MaxAttempts THEN @ + 1 ELSE @]

Counts(d) ==
  /\ Deciding(d) /\ ~Granting(d) /\ ~TooMany(d)
  /\ RecordFailure(d)
  /\ allowed' = [allowed EXCEPT ![d] = IF @ <= MaxAttempts THEN @ + 1 ELSE @]
  /\ \/ d \in DevAllowed /\ WillAnswer(d, "camera_not_ready")
     \/ /\ d \notin DevAllowed
        /\ pc' = [pc EXCEPT ![d] = "files"]
        /\ UNCHANGED <<path, stop, alone, queue, serving, seen, answer, camera,
                       clientVars>>

\* What a look at the user's files finds: is there a template, the key storage the
\* manifest names, and whether the key file is missing, opens the template or not.
FileStates ==
  [template : BOOLEAN,
   storage : {"local_development_key_file", "discarded_random_key", "unknown"},
   key : {"missing", "fits", "other"}]

\* decryptability_status_value()
Decryptability(f) ==
  CASE ~f.template -> "template_missing"
    [] f.template /\ f.storage = "local_development_key_file" ->
         IF f.key = "missing" THEN "key_missing" ELSE "possible_with_dev_key"
    [] f.template /\ f.storage = "discarded_random_key" ->
         "not_possible_discarded_key"
    [] OTHER -> "unknown"

\* template_decrypt_status_value() = "ok"
Decrypts(f) == Decryptability(f) = "possible_with_dev_key" /\ f.key = "fits"

\* The three looks an auth request takes, one after the other.
FileReason(first, second, third) ==
  CASE ~first.template -> "template_missing"
    [] first.template /\ Decryptability(second) = "not_possible_discarded_key" ->
         "template_not_decryptable"
    [] first.template /\ Decryptability(second) = "key_missing" -> "key_missing"
    [] OTHER -> IF Decrypts(third) THEN "matcher_not_implemented"
                ELSE "template_decrypt_failed"

FileAnswers ==
  {FileReason(first, second, third) : first, second, third \in FileStates}

LooksAtFiles(d) ==
  /\ pc[d] = "files"
  /\ \E a \in FileAnswers : WillAnswer(d, a)
  /\ UNCHANGED <<failed, allowed>>

\* write_json_response() and close(), with the client still there...
Writes(d) ==
  /\ pc[d] = "write" /\ client[serving[d]] # "away"
  /\ reply' = [reply EXCEPT ![serving[d]] =
                 IF answer[d] = "ok" THEN "ok" ELSE "other"]
  /\ answer' = [answer EXCEPT ![d] = "none"]
  /\ serving' = [serving EXCEPT ![d] = NoOne]
  /\ pc' = [pc EXCEPT ![d] = NextRound(d)]
  /\ sent' = [sent EXCEPT ![serving[d]] = "none"]
  /\ UNCHANGED <<path, stop, alone, queue, seen, failed, allowed, camera, client,
                 success, earned>>

\* ... or gone. Where SIGPIPE is ignored, write() fails with EPIPE, and the daemon
\* warns and goes on with what the request has changed...
WriteFails(d) ==
  /\ pc[d] = "write" /\ client[serving[d]] = "away" /\ d \in Ignoring
  /\ answer' = [answer EXCEPT ![d] = "none"]
  /\ serving' = [serving EXCEPT ![d] = NoOne]
  /\ pc' = [pc EXCEPT ![d] = NextRound(d)]
  /\ sent' = [sent EXCEPT ![serving[d]] = "none"]
  /\ UNCHANGED <<path, stop, alone, queue, seen, failed, allowed, camera, client,
                 reply, success, earned>>

\* ... and where it is not, nobody handles the signal, and write() ends the process.
WritesToNobody(d) ==
  /\ pc[d] = "write" /\ client[serving[d]] = "away" /\ d \notin Ignoring
  /\ pc' = [pc EXCEPT ![d] = "gone"]
  /\ Hangup(d, Held(d))
  /\ alone' = [alone EXCEPT ![d] = FALSE]
  /\ UNCHANGED path

\* The lease comes to show a frame, or shows none any more.
CameraChanges(d) ==
  /\ Listening(d) /\ d \in DevAllowed
  /\ camera' = [camera EXCEPT ![d] = ~@]
  /\ earned' = IF camera[d] THEN earned
               ELSE earned \cup {c \in Held(d) \cap Pam : client[c] # "away"}
  /\ UNCHANGED <<daemonVars, queue, serving, requestVars, client, sent, reply,
                 success>>

----------------------------------------------------------------------------
(* The clients. *)

Unused(c) == client[c] = "away" /\ \A d \in Daemons : c \notin Held(d)

\* Whether connect() to the path succeeds at once; PAM's socket does not wait.
CanConnect ==
  /\ path # NoOne
  /\ Listening(path)
  /\ Len(queue[path]) < Backlog

Connects(c) ==
  /\ Unused(c) /\ CanConnect
  /\ queue' = [queue EXCEPT ![path] = Append(@, c)]
  /\ client' = [client EXCEPT ![c] = "connected"]
  /\ earned' = IF camera[path] THEN earned \cup ({c} \cap Pam) ELSE earned \ {c}
  /\ success' = success \ {c}
  /\ UNCHANGED <<daemonVars, serving, requestVars, camera, sent, reply>>

\* No socket, nobody who listens, or no room: EAGAIN is a failure, too.
PamConnectFails(c) ==
  /\ Unused(c) /\ ~CanConnect
  /\ success' = success \ {c}
  /\ earned' = earned \ {c}
  /\ UNCHANGED <<daemonVars, queue, serving, requestVars, camera, client, sent,
                 reply>>

Sends(c, op) ==
  /\ client[c] = "connected" /\ reply[c] = "none"
  /\ client' = [client EXCEPT ![c] = "asked"]
  /\ sent' = [sent EXCEPT ![c] = op]
  /\ UNCHANGED <<daemonVars, queue, serving, requestVars, camera, reply, success,
                 earned>>

\* The client closes its end. What it has sent can still be read.
Leaves(c) ==
  /\ client' = [client EXCEPT ![c] = "away"]
  /\ reply' = [reply EXCEPT ![c] = "none"]
  /\ sent' = [sent EXCEPT ![c] =
       IF \E d \in Daemons : c \in Held(d) THEN @ ELSE "none"]
  /\ UNCHANGED <<daemonVars, queue, serving, requestVars, camera>>

Succeeds(c) == Leaves(c) /\ success' = success \cup {c} /\ UNCHANGED earned
Fails(c) == Leaves(c) /\ earned' = earned \ {c} /\ UNCHANGED success

\* send() finds the connection closed.
PamSendFails(c) ==
  /\ client[c] = "connected" /\ reply[c] = "closed"
  /\ Fails(c)

\* Whatever is not an answer with status ok to an auth request is an error.
PamReads(c) ==
  /\ client[c] = "asked" /\ reply[c] # "none"
  /\ \/ reply[c] = "ok" /\ Succeeds(c)
     \/ reply[c] # "ok" /\ Fails(c)

FaultPamGivesUp(c) ==
  /\ client[c] = "asked" /\ reply[c] = "none"
  /\ \E d \in Daemons : serving[d] = c /\ pc[d] # "read"
  /\ Fails(c)

\* The answer is not there in time. The request stays where it is.
PamGivesUp(c) ==
  /\ client[c] = "asked" /\ reply[c] = "none"
  /\ Fails(c)

\* Another program may read its answer or not and leave at any time, and so may
\* the one that has called PAM, when it is interrupted.
Abandons(c) ==
  /\ client[c] # "away"
  /\ Fails(c)

----------------------------------------------------------------------------
DaemonStep(d) ==
  \/ Binds(d) \/ Listens(d) \/ ClosesSocket(d) \/ UnlinksPath(d)
  \/ Accepts(d) \/ Reads(d) \/ Looks(d)
  \/ AnswersOther(d) \/ Grants(d) \/ RefusesTooMany(d) \/ Counts(d)
  \/ LooksAtFiles(d) \/ Writes(d) \/ WriteFails(d) \/ WritesToNobody(d)

PamStep(c) ==
  \/ Sends(c, "auth") \/ PamSendFails(c) \/ PamReads(c) \/ PamGivesUp(c)

Next ==
  \/ \E d \in Daemons :
       Starts(d) \/ Signalled(d) \/ Killed(d) \/ CameraChanges(d) \/ DaemonStep(d)
  \/ \E c \in Clients : Connects(c) \/ Abandons(c)
  \/ \E c \in Pam : PamConnectFails(c) \/ PamStep(c)
  \/ \E c \in Others, op \in OtherOps : Sends(c, op)

Spec == Init /\ [][Next]_vars

\* The server's thread is scheduled, and so is PAM, whose every wait has a time
\* limit. Nobody else has to do anything.
FairSpec ==
  /\ Spec
  /\ \A d \in Daemons : WF_vars(DaemonStep(d))
  /\ \A c \in Pam : WF_vars(PamStep(c))

----------------------------------------------------------------------------
\* Between two grants at most max_auth_attempts requests get past the limit, those of
\* clients that have given up included, whom a daemon that outlives the write() serves
\* all the same; and nobody is refused for too many attempts before that many
\* (main.cpp:771-777, 1281-1290).
LimitIsKept ==
  \A d \in Daemons :
    /\ allowed[d] <= MaxAttempts
    /\ answer[d] = "too_many_attempts" => allowed[d] = MaxAttempts

\* PAM reports success only to a call during which the daemon it is connected to
\* allowed development grants and had a frame, never because of what the daemon
\* saw for an earlier request (main.cpp:1161, 1270; pam_face_unlock.c:264).
SuccessIsEarned == success \subseteq earned

\* A daemon that has had the machine for itself gets to listen, whatever an earlier
\* one that was killed has left, and is the one the path leads to
\* (main.cpp:720, 1492).
SocketIsFound ==
  \A d \in Daemons : alone[d] =>
    /\ pc[d] # "failed"
    /\ Listening(d) => path = d

\* A call of PAM comes back, also when the daemon is stalled or gone.
CallsReturn == \A c \in Pam : client[c] # "away" ~> client[c] = "away"

\* A client that is there and says nothing, which read() waits for.
Stalled(d) == pc[d] = "read" /\ ~Readable(serving[d])

\* SIGTERM ends a daemon that no client stalls for good, however many others keep
\* connecting (main.cpp:1445).
StopCompletes ==
  \A d \in Daemons : <>[]Stalled(d) \/ (stop[d] ~> ~Running(d))
=============================================================================
