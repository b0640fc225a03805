--------------------------- MODULE LockScreenAuth ---------------------------
(***************************************************************************)
(* LockScreenAuthSession (daemon/src/lockscreen_auth.cpp): the policy of   *)
(* one attempt at the lock screen, until it succeeds, falls back to the    *)
(* password or is cancelled.                                               *)
(*                                                                         *)
(* The program that will drive it is external: a lock screen that looks at *)
(* the clock, and some time later observes a frame, acknowledges that its  *)
(* illumination is shown, or cancels. Two of its calls may therefore come  *)
(* in the order opposite to their times. A call that throws changes        *)
(* nothing. The reason of a Continue is left out.                          *)
(* A definition named Fault... is the one after it with a plausible bug.   *)
(***************************************************************************)
EXTENDS Integers

CONSTANTS
  MaximumCandidates,  \* policy_.maximum_candidates
  Deadline,           \* policy_.deadline_ms
  Settle              \* policy_.illumination_settle_ms

\* What the constructor accepts, but for the upper limits and the unit of time.
ASSUME PolicyAssumption ==
  /\ MaximumCandidates \in Nat \ {0}
  /\ Deadline \in Nat \ {0}
  /\ Settle \in 0..Deadline

VARIABLES
  candidates,  \* qualified_candidates_
  elapsed,     \* last_elapsed_ms_
  readyAt,     \* illumination_ready_ms_
  requested,   \* illumination_requested_
  active,      \* illumination_active_
  action,      \* terminal_action_, "Continue" while not terminal_
  reason,      \* terminal_reason_
  clock,       \* external: the time since the attempt began
  counted,     \* history: the time of the candidate counted last, -1 for none
  shownAt,     \* history: the time the illumination has been on since, -1 for not
  lit          \* history: each was counted with it on long enough, or not asked for

illumination == <<readyAt, requested, active>>
verdict == <<action, reason>>
history == <<counted, shownAt, lit>>
vars == <<candidates, elapsed, illumination, verdict, clock, history>>

Actions == {"Continue", "Success", "PasswordFallback", "Cancelled"}
Reasons == {"none", "matched", "deadline_reached", "candidate_limit_reached",
            "cancelled"}

TypeOK ==
  /\ candidates \in 0..MaximumCandidates
  /\ elapsed \in Nat
  /\ readyAt \in Nat
  /\ requested \in BOOLEAN /\ active \in BOOLEAN
  /\ action \in Actions
  /\ reason \in Reasons
  /\ clock \in 0..Deadline
  /\ counted \in Nat \cup {-1}
  /\ shownAt \in Nat \cup {-1}
  /\ lit \in BOOLEAN

Init ==
  /\ candidates = 0
  /\ elapsed = 0
  /\ readyAt = 0
  /\ requested = FALSE
  /\ active = FALSE
  /\ action = "Continue"
  /\ reason = "none"
  /\ clock = 0
  /\ counted = -1
  /\ shownAt = -1
  /\ lit = TRUE

terminal == action # "Continue"

----------------------------------------------------------------------------
\* finish()
Finish(a, r) == action' = a /\ reason' = r

\* Both calls take the time of an earlier look at the clock, which they refuse when
\* it is before the one they had last.
Called(t) ==
  /\ ~terminal
  /\ t >= elapsed
  /\ elapsed' = t

FaultDeadlineReached(t) ==
  /\ Called(t) /\ t >= Deadline /\ ~(requested /\ ~active)
  /\ Finish("PasswordFallback", "deadline_reached")
  /\ UNCHANGED <<candidates, illumination, clock, history>>

\* It comes before everything else that a call looks at.
DeadlineReached(t) ==
  /\ Called(t) /\ t >= Deadline
  /\ Finish("PasswordFallback", "deadline_reached")
  /\ UNCHANGED <<candidates, illumination, clock, history>>

\* A call in time.
InTime(t) == Called(t) /\ t < Deadline

\* observe() that asks for illumination, once.
AskForLight(t) ==
  /\ InTime(t) /\ ~requested
  /\ requested' = TRUE
  /\ UNCHANGED <<candidates, readyAt, active, verdict, clock, history>>

FaultSeesClearly(t) == active => t >= readyAt

\* No illumination is awaited, and none is settling.
SeesClearly(t) ==
  /\ requested => active
  /\ active => t >= readyAt

\* observe() of a frame of one face that passed the gates, in light enough or with
\* the illumination on.
CountCandidate(t, lowLight, matched) ==
  /\ InTime(t)
  /\ SeesClearly(t)
  /\ lowLight => active
  /\ candidates' = candidates + 1
  /\ IF matched THEN Finish("Success", "matched")
     ELSE IF candidates' >= MaximumCandidates
     THEN Finish("PasswordFallback", "candidate_limit_reached")
     ELSE UNCHANGED verdict
  /\ counted' = t
  /\ lit' = (lit /\ (requested => shownAt # -1 /\ t >= shownAt + Settle))
  /\ UNCHANGED <<illumination, clock, shownAt>>

\* observe() of anything else: awaiting_illumination, illumination_settling,
\* awaiting_frame, single_face_required, quality_rejected.
KeepWaiting(t) ==
  /\ InTime(t)
  /\ UNCHANGED <<candidates, illumination, verdict, clock, history>>

FaultAcknowledge(t) ==
  /\ t >= elapsed /\ t < Deadline
  /\ elapsed' = t
  /\ requested /\ ~active
  /\ active' = TRUE
  /\ readyAt' = t + Settle
  /\ shownAt' = t
  /\ Finish("Continue", "none")
  /\ UNCHANGED <<candidates, requested, clock, counted, lit>>

\* acknowledge_illumination(); the second time it changes no more than the time.
Acknowledge(t) ==
  /\ InTime(t)
  /\ requested
  /\ IF active THEN UNCHANGED <<illumination, shownAt>>
     ELSE /\ active' = TRUE
          /\ readyAt' = t + Settle
          /\ shownAt' = t
          /\ UNCHANGED requested
  /\ UNCHANGED <<candidates, verdict, clock, counted, lit>>

\* cancel()
Cancel ==
  /\ ~terminal
  /\ Finish("Cancelled", "cancelled")
  /\ UNCHANGED <<candidates, elapsed, illumination, clock, history>>

\* The clock of the caller, which need not be looked at after the deadline.
TimePasses ==
  /\ clock < Deadline
  /\ clock' = clock + 1
  /\ UNCHANGED <<candidates, elapsed, illumination, verdict, history>>

----------------------------------------------------------------------------
Observe(t) ==
  \/ DeadlineReached(t)
  \/ AskForLight(t)
  \/ \E lowLight, matched \in BOOLEAN : CountCandidate(t, lowLight, matched)
  \/ KeepWaiting(t)

Done == terminal /\ clock = Deadline /\ UNCHANGED vars

Next ==
  \/ \E t \in 0..clock : Observe(t) \/ Acknowledge(t)
  \/ Cancel \/ TimePasses \/ Done

Spec == Init /\ [][Next]_vars

\* Time passes, and the lock screen goes on to observe, whatever it sees.
FairSpec ==
  /\ Spec
  /\ WF_vars(TimePasses)
  /\ WF_vars(Observe(clock))
----------------------------------------------------------------------------
\* A verdict is for good, whatever call comes after it: no acknowledgement or frame
\* on its way brings a finished attempt back to life (lockscreen_auth.cpp:68-76).
VerdictIsFinal == [][terminal => UNCHANGED <<verdict, candidates>>]_vars

\* A candidate is compared only before the deadline, within the limit, and never in
\* the light that is being changed: once illumination has been asked for, only when
\* it has been on for the settling time. A match at the deadline comes too late, and
\* the last candidate may still match (docs/lock-screen-auth.md:58).
CandidatesAreFair ==
  /\ counted < Deadline /\ lit
  /\ action = "Success" => reason = "matched" /\ candidates \in 1..MaximumCandidates
  /\ reason = "candidate_limit_reached" => candidates = MaximumCandidates
  /\ ~terminal => candidates < MaximumCandidates

\* The lock screen is not held up: also without a frame, and with an illumination
\* that is never acknowledged, an attempt ends (docs/lock-screen-auth.md:24).
AttemptEnds == <>terminal
=============================================================================
