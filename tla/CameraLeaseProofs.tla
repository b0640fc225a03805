------------------------- MODULE CameraLeaseProofs -------------------------
(***************************************************************************)
(* What holds of CameraLease for any set of callers, any reasons they give *)
(* and any number of leases and frames: its types, the inductive invariant *)
(* LeaseInv with what it implies for a user of the manager, and the        *)
(* refinement of DeviceLease. The flags and the numbers are kept in        *)
(* separate steps, since no prover reasons about both at once.             *)
(***************************************************************************)
EXTENDS CameraLease, TLAPS

LEMMA FlagsStep == FlagsTypeOK /\ [Next]_vars => FlagsTypeOK'
  BY ZenonT(60) DEF FlagsTypeOK, Next, Calls, Worker, Driver, Start, StopNothing,
     StopBeforeOpen, StopAndWait, StopReturns, Destroy, WorkerSleeps,
     WorkerExits, WorkerTakesLease, WorkerOpenFailed, WorkerOpened,
     WorkerChecks, WorkerHandlesFrame, Expire, WorkerReleases,
     WorkerDropsSource, OpenReturns, ReadReturns, CloseReturns,
     WorkerWakesSpuriously, DeadlinePasses, Terminated, vars, managerVars,
     workerVars, callerVars

LEMMA DataStep == DataTypeOK /\ [Next]_vars => DataTypeOK'
  <1> SUFFICES ASSUME DataTypeOK, [Next]_vars PROVE DataTypeOK'
    OBVIOUS
  <1> USE LeaseAssumption DEF LeaseAssumption
  <1>1. ASSUME NEW c \in Callers, Start(c)
        PROVE  DataTypeOK'
    BY <1>1 DEF Start, NotifyWorker, DataTypeOK, States, WorkerSteps,
       WorkerReasons, managerVars, workerVars, callerVars
  <1>2. ASSUME NEW c \in Callers, StopNothing(c)
        PROVE  DataTypeOK'
    BY <1>2 DEF StopNothing, DataTypeOK, States, WorkerSteps, WorkerReasons,
       managerVars, workerVars, callerVars
  <1>3. ASSUME NEW c \in Callers, NEW reason \in StopReasons,
                StopBeforeOpen(c, reason)
        PROVE  DataTypeOK'
    BY <1>3 DEF StopBeforeOpen, NotifyWorker, DataTypeOK, States, WorkerSteps,
       WorkerReasons, managerVars, workerVars, callerVars
  <1>4. ASSUME NEW c \in Callers, NEW reason \in StopReasons,
                StopAndWait(c, reason)
        PROVE  DataTypeOK'
    BY <1>4 DEF StopAndWait, NotifyWorker, DataTypeOK, States, WorkerSteps,
       WorkerReasons, managerVars, workerVars, callerVars
  <1>5. ASSUME NEW c \in Callers, StopReturns(c)
        PROVE  DataTypeOK'
    BY <1>5 DEF StopReturns, DataTypeOK, States, WorkerSteps, WorkerReasons,
       managerVars, workerVars, callerVars
  <1>6. CASE Destroy
    BY <1>6 DEF Destroy, NotifyWorker, DataTypeOK, States, WorkerSteps,
       WorkerReasons, managerVars, workerVars, callerVars
  <1>7. CASE WorkerSleeps
    BY <1>7 DEF WorkerSleeps, DataTypeOK, States, WorkerSteps, WorkerReasons,
       managerVars, workerVars, callerVars
  <1>8. CASE WorkerExits
    BY <1>8 DEF WorkerExits, DataTypeOK, States, WorkerSteps, WorkerReasons,
       managerVars, workerVars, callerVars
  <1>9. CASE WorkerTakesLease
    BY <1>9 DEF WorkerTakesLease, DataTypeOK, States, WorkerSteps,
       WorkerReasons, managerVars, workerVars, callerVars
  <1>10. CASE WorkerOpenFailed
    BY <1>10 DEF WorkerOpenFailed, DataTypeOK, States, WorkerSteps,
       WorkerReasons, managerVars, workerVars, callerVars
  <1>11. CASE WorkerOpened
    BY <1>11 DEF WorkerOpened, ReasonOr, DataTypeOK, States, WorkerSteps,
       WorkerReasons, managerVars, workerVars, callerVars
  <1>12. CASE WorkerChecks
    BY <1>12 DEF WorkerChecks, Expire, DataTypeOK, States, WorkerSteps,
       WorkerReasons, managerVars, workerVars, callerVars
  <1>13. CASE WorkerHandlesFrame
    BY <1>13 DEF WorkerHandlesFrame, Expire, DataTypeOK, States, WorkerSteps,
       WorkerReasons, managerVars, workerVars, callerVars
  <1>14. CASE WorkerReleases
    BY <1>14 DEF WorkerReleases, ReasonOr, DataTypeOK, States, WorkerSteps,
       WorkerReasons, managerVars, workerVars, callerVars
  <1>15. CASE WorkerDropsSource
    BY <1>15 DEF WorkerDropsSource, DataTypeOK, States, WorkerSteps,
       WorkerReasons, managerVars, workerVars, callerVars
  <1>16. CASE OpenReturns
    BY <1>16 DEF OpenReturns, DataTypeOK, States, WorkerSteps, WorkerReasons,
       managerVars, workerVars, callerVars
  <1>17. CASE ReadReturns
    BY <1>17 DEF ReadReturns, DataTypeOK, States, WorkerSteps, WorkerReasons,
       managerVars, workerVars, callerVars
  <1>18. CASE CloseReturns
    BY <1>18 DEF CloseReturns, DataTypeOK, States, WorkerSteps, WorkerReasons,
       managerVars, workerVars, callerVars
  <1>19. CASE WorkerWakesSpuriously
    BY <1>19 DEF WorkerWakesSpuriously, DataTypeOK, States, WorkerSteps,
       WorkerReasons, managerVars, workerVars, callerVars
  <1>20. CASE DeadlinePasses
    BY <1>20 DEF DeadlinePasses, DataTypeOK, States, WorkerSteps,
       WorkerReasons, managerVars, workerVars, callerVars
  <1>21. CASE Terminated
    BY <1>21 DEF Terminated, DataTypeOK, States, WorkerSteps, WorkerReasons,
       managerVars, workerVars, callerVars, vars
  <1>22. CASE UNCHANGED vars
    BY <1>22 DEF vars, DataTypeOK, managerVars, workerVars, callerVars
  <1>23. QED
    BY <1>1, <1>2, <1>3, <1>4, <1>5, <1>6, <1>7, <1>8, <1>9, <1>10, <1>11,
       <1>12, <1>13, <1>14, <1>15, <1>16, <1>17, <1>18, <1>19, <1>20, <1>21,
       <1>22 DEF Next, Calls, Worker, Driver

\* Every variable keeps the type of the member or local it stands for.
THEOREM TypeCorrect == Spec => []TypeOK
  <1>1. Init => TypeOK
    <2>1. Init => FlagsTypeOK
      BY DEF Init, FlagsTypeOK
    <2>2. Init => DataTypeOK
      BY LeaseAssumption DEF LeaseAssumption, Init, DataTypeOK, States,
         WorkerSteps, WorkerReasons
    <2>3. QED
      BY <2>1, <2>2 DEF TypeOK
  <1>2. TypeOK /\ [Next]_vars => TypeOK'
    BY FlagsStep, DataStep DEF TypeOK
  <1>3. QED
    BY <1>1, <1>2, PTL DEF Spec

----------------------------------------------------------------------------

\* FreedIsPast is the one conjunct of LeaseInv about the order of the leases;
\* the others need only that a new lease is new.
LEMMA FreedIsPastStep == DataTypeOK /\ FreedIsPast /\ [Next]_vars => FreedIsPast'
  <1> SUFFICES ASSUME DataTypeOK, FreedIsPast, [Next]_vars PROVE FreedIsPast'
    OBVIOUS
  <1>1. generation \in Nat /\ (\A g \in freed : g \in Nat /\ g <= generation)
    BY LeaseAssumption DEF LeaseAssumption, DataTypeOK, FreedIsPast
  <1>2. freed' \subseteq freed \cup {generation}
    BY DEF Next, Calls, Worker, Driver, Start, StopNothing, StopBeforeOpen,
       StopAndWait, StopReturns, Destroy, WorkerSleeps, WorkerExits,
       WorkerTakesLease, WorkerOpenFailed, WorkerOpened, WorkerChecks,
       WorkerHandlesFrame, WorkerReleases, WorkerDropsSource, OpenReturns,
       ReadReturns, CloseReturns, WorkerWakesSpuriously, DeadlinePasses,
       Terminated, vars, callerVars
  <1>3. generation' \in {generation, generation + 1}
    BY DEF Next, Calls, Worker, Driver, Start, StopNothing, StopBeforeOpen,
       StopAndWait, StopReturns, Destroy, WorkerSleeps, WorkerExits,
       WorkerTakesLease, WorkerOpenFailed, WorkerOpened, WorkerChecks,
       WorkerHandlesFrame, WorkerReleases, WorkerDropsSource, OpenReturns,
       ReadReturns, CloseReturns, WorkerWakesSpuriously, DeadlinePasses,
       Terminated, vars, managerVars
  <1>4. QED
    BY <1>1, <1>2, <1>3 DEF FreedIsPast

LEMMA NewLeaseIsNew ==
  DataTypeOK /\ FreedIsPast => generation + 1 \notin freed /\ generation + 1 # 0
  BY LeaseAssumption DEF LeaseAssumption, DataTypeOK, FreedIsPast

LEMMA LeaseInvInit == Init => LeaseInv
  <1> SUFFICES ASSUME Init PROVE LeaseInv
    OBVIOUS
  <1>1. FreedIsPast
    BY DEF Init, FreedIsPast
  <1>2. QED
    BY <1>1 DEF Init, LeaseInv, LeaseIsCurrent, FlagsFollowWorker,
       DeviceFollowsWorker, WantedFollowsState, FrameFollowsLease, FreedIsOver,
       ReasonExplains, NoLostWakeup, Serving, LeaseWanted

LEMMA LeaseInvStep == TypeOK /\ LeaseInv /\ [Next]_vars => LeaseInv'
  <1> SUFFICES ASSUME TypeOK, LeaseInv, [Next]_vars PROVE LeaseInv'
    OBVIOUS
  <1> DEFINE Now == /\ LeaseIsCurrent /\ FlagsFollowWorker /\ DeviceFollowsWorker
                    /\ WantedFollowsState /\ FrameFollowsLease /\ FreedIsOver
                    /\ ReasonExplains /\ NoLostWakeup
  <1>1. FreedIsPast'
    BY FreedIsPastStep DEF TypeOK, LeaseInv
  <1>2. /\ FlagsTypeOK /\ pc \in WorkerSteps /\ state \in States
        /\ releaseReason \in StopReasons \cup WorkerReasons
        /\ Now
    BY DEF TypeOK, DataTypeOK, LeaseInv
  <1>3. Now'
    <2>0. generation + 1 \notin freed /\ generation + 1 # 0
      BY NewLeaseIsNew DEF TypeOK, LeaseInv
    <2>1. ASSUME NEW c \in Callers, Start(c)
          PROVE  Now'
      BY <2>1, <1>2, <2>0 DEF Start, NotifyWorker, CanCall, StartAnswer,
         LeaseIsCurrent, FlagsFollowWorker, DeviceFollowsWorker,
         WantedFollowsState, FrameFollowsLease, FreedIsOver, ReasonExplains,
         NoLostWakeup, Serving, LeaseWanted, managerVars, workerVars,
         callerVars, FlagsTypeOK, WorkerSteps, States
    <2>2. ASSUME NEW c \in Callers, StopNothing(c)
          PROVE  Now'
      BY <2>2, <1>2 DEF StopNothing, Released, LeaseIsCurrent,
         FlagsFollowWorker, DeviceFollowsWorker, WantedFollowsState,
         FrameFollowsLease, FreedIsOver, ReasonExplains, NoLostWakeup, Serving,
         LeaseWanted, managerVars, workerVars, callerVars, FlagsTypeOK,
         WorkerSteps, States
    <2>3. ASSUME NEW c \in Callers, NEW reason \in StopReasons,
                StopBeforeOpen(c, reason)
          PROVE  Now'
      BY <2>3, <1>2, LeaseAssumption DEF StopBeforeOpen, NotifyWorker, CanCall,
         LeaseIsCurrent, FlagsFollowWorker, DeviceFollowsWorker,
         WantedFollowsState, FrameFollowsLease, FreedIsOver, ReasonExplains,
         NoLostWakeup, Serving, LeaseWanted, managerVars, workerVars,
         callerVars, FlagsTypeOK, WorkerSteps, States, LeaseAssumption,
         WorkerReasons
    <2>4. ASSUME NEW c \in Callers, NEW reason \in StopReasons,
                StopAndWait(c, reason)
          PROVE  Now'
      BY <2>4, <1>2, LeaseAssumption DEF StopAndWait, NotifyWorker, Released,
         CanCall, LeaseIsCurrent, FlagsFollowWorker, DeviceFollowsWorker,
         WantedFollowsState, FrameFollowsLease, FreedIsOver, ReasonExplains,
         NoLostWakeup, Serving, LeaseWanted, managerVars, workerVars,
         callerVars, FlagsTypeOK, WorkerSteps, States, LeaseAssumption,
         WorkerReasons
    <2>5. ASSUME NEW c \in Callers, StopReturns(c)
          PROVE  Now'
      BY <2>5, <1>2 DEF StopReturns, Released, LeaseIsCurrent,
         FlagsFollowWorker, DeviceFollowsWorker, WantedFollowsState,
         FrameFollowsLease, FreedIsOver, ReasonExplains, NoLostWakeup, Serving,
         LeaseWanted, managerVars, workerVars, callerVars, FlagsTypeOK,
         WorkerSteps, States
    <2>6. CASE Destroy
      BY <2>6, <1>2 DEF Destroy, NotifyWorker, LeaseIsCurrent,
         FlagsFollowWorker, DeviceFollowsWorker, WantedFollowsState,
         FrameFollowsLease, FreedIsOver, ReasonExplains, NoLostWakeup, Serving,
         LeaseWanted, managerVars, workerVars, callerVars, FlagsTypeOK,
         WorkerSteps, States
    <2>7. CASE WorkerSleeps
      BY <2>7, <1>2 DEF WorkerSleeps, LeaseIsCurrent, FlagsFollowWorker,
         DeviceFollowsWorker, WantedFollowsState, FrameFollowsLease,
         FreedIsOver, ReasonExplains, NoLostWakeup, Serving, LeaseWanted,
         managerVars, workerVars, callerVars, FlagsTypeOK, WorkerSteps, States
    <2>8. CASE WorkerExits
      BY <2>8, <1>2 DEF WorkerExits, LeaseIsCurrent, FlagsFollowWorker,
         DeviceFollowsWorker, WantedFollowsState, FrameFollowsLease,
         FreedIsOver, ReasonExplains, NoLostWakeup, Serving, LeaseWanted,
         managerVars, workerVars, callerVars, FlagsTypeOK, WorkerSteps, States
    <2>9. CASE WorkerTakesLease
      BY <2>9, <1>2 DEF WorkerTakesLease, LeaseIsCurrent, FlagsFollowWorker,
         DeviceFollowsWorker, WantedFollowsState, FrameFollowsLease,
         FreedIsOver, ReasonExplains, NoLostWakeup, Serving, LeaseWanted,
         managerVars, workerVars, callerVars, FlagsTypeOK, WorkerSteps, States
    <2>10. CASE WorkerOpenFailed
      BY <2>10, <1>2 DEF WorkerOpenFailed, LeaseIsCurrent, FlagsFollowWorker,
         DeviceFollowsWorker, WantedFollowsState, FrameFollowsLease,
         FreedIsOver, ReasonExplains, NoLostWakeup, Serving, LeaseWanted,
         managerVars, workerVars, callerVars, FlagsTypeOK, WorkerSteps, States
    <2>11. CASE WorkerOpened
      BY <2>11, <1>2 DEF WorkerOpened, ReasonOr, StillWanted, LeaseIsCurrent,
         FlagsFollowWorker, DeviceFollowsWorker, WantedFollowsState,
         FrameFollowsLease, FreedIsOver, ReasonExplains, NoLostWakeup, Serving,
         LeaseWanted, managerVars, workerVars, callerVars, FlagsTypeOK,
         WorkerSteps, States
    <2>12. CASE WorkerChecks
      BY <2>12, <1>2 DEF WorkerChecks, Expire, StillWanted, LeaseIsCurrent,
         FlagsFollowWorker, DeviceFollowsWorker, WantedFollowsState,
         FrameFollowsLease, FreedIsOver, ReasonExplains, NoLostWakeup, Serving,
         LeaseWanted, managerVars, workerVars, callerVars, FlagsTypeOK,
         WorkerSteps, States
    <2>13. CASE WorkerHandlesFrame
      BY <2>13, <1>2 DEF WorkerHandlesFrame, Expire, FrameWanted,
         LeaseIsCurrent, FlagsFollowWorker, DeviceFollowsWorker,
         WantedFollowsState, FrameFollowsLease, FreedIsOver, ReasonExplains,
         NoLostWakeup, Serving, LeaseWanted, managerVars, workerVars,
         callerVars, FlagsTypeOK, WorkerSteps, States
    <2>14. CASE WorkerReleases
      BY <2>14, <1>2 DEF WorkerReleases, ReasonOr, LeaseIsCurrent,
         FlagsFollowWorker, DeviceFollowsWorker, WantedFollowsState,
         FrameFollowsLease, FreedIsOver, ReasonExplains, NoLostWakeup, Serving,
         LeaseWanted, managerVars, workerVars, callerVars, FlagsTypeOK,
         WorkerSteps, States
    <2>15. CASE WorkerDropsSource
      BY <2>15, <1>2 DEF WorkerDropsSource, LeaseIsCurrent, FlagsFollowWorker,
         DeviceFollowsWorker, WantedFollowsState, FrameFollowsLease,
         FreedIsOver, ReasonExplains, NoLostWakeup, Serving, LeaseWanted,
         managerVars, workerVars, callerVars, FlagsTypeOK, WorkerSteps, States
    <2>16. CASE OpenReturns
      BY <2>16, <1>2 DEF OpenReturns, LeaseIsCurrent, FlagsFollowWorker,
         DeviceFollowsWorker, WantedFollowsState, FrameFollowsLease,
         FreedIsOver, ReasonExplains, NoLostWakeup, Serving, LeaseWanted,
         managerVars, workerVars, callerVars, FlagsTypeOK, WorkerSteps, States
    <2>17. CASE ReadReturns
      BY <2>17, <1>2 DEF ReadReturns, LeaseIsCurrent, FlagsFollowWorker,
         DeviceFollowsWorker, WantedFollowsState, FrameFollowsLease,
         FreedIsOver, ReasonExplains, NoLostWakeup, Serving, LeaseWanted,
         managerVars, workerVars, callerVars, FlagsTypeOK, WorkerSteps, States
    <2>18. CASE CloseReturns
      BY <2>18, <1>2 DEF CloseReturns, LeaseIsCurrent, FlagsFollowWorker,
         DeviceFollowsWorker, WantedFollowsState, FrameFollowsLease,
         FreedIsOver, ReasonExplains, NoLostWakeup, Serving, LeaseWanted,
         managerVars, workerVars, callerVars, FlagsTypeOK, WorkerSteps, States
    <2>19. CASE WorkerWakesSpuriously
      BY <2>19, <1>2 DEF WorkerWakesSpuriously, LeaseIsCurrent,
         FlagsFollowWorker, DeviceFollowsWorker, WantedFollowsState,
         FrameFollowsLease, FreedIsOver, ReasonExplains, NoLostWakeup, Serving,
         LeaseWanted, managerVars, workerVars, callerVars, FlagsTypeOK,
         WorkerSteps, States
    <2>20. CASE DeadlinePasses
      BY <2>20, <1>2 DEF DeadlinePasses, LeaseIsCurrent, FlagsFollowWorker,
         DeviceFollowsWorker, WantedFollowsState, FrameFollowsLease,
         FreedIsOver, ReasonExplains, NoLostWakeup, Serving, LeaseWanted,
         managerVars, workerVars, callerVars, FlagsTypeOK, WorkerSteps, States
    <2>21. CASE Terminated
      BY <2>21, <1>2 DEF Terminated, LeaseIsCurrent, FlagsFollowWorker,
         DeviceFollowsWorker, WantedFollowsState, FrameFollowsLease,
         FreedIsOver, ReasonExplains, NoLostWakeup, Serving, LeaseWanted,
         managerVars, workerVars, callerVars, vars, FlagsTypeOK, WorkerSteps,
         States
    <2>22. CASE UNCHANGED vars
      BY <2>22, <1>2 DEF vars, LeaseIsCurrent, FlagsFollowWorker,
         DeviceFollowsWorker, WantedFollowsState, FrameFollowsLease,
         FreedIsOver, ReasonExplains, NoLostWakeup, Serving, LeaseWanted,
         managerVars, workerVars, callerVars, FlagsTypeOK, WorkerSteps, States
    <2>23. QED
      BY <2>1, <2>2, <2>3, <2>4, <2>5, <2>6, <2>7, <2>8, <2>9, <2>10, <2>11,
         <2>12, <2>13, <2>14, <2>15, <2>16, <2>17, <2>18, <2>19, <2>20, <2>21,
         <2>22 DEF Next, Calls, Worker, Driver
  <1>4. QED
    BY <1>1, <1>3 DEF LeaseInv

\* LeaseInv holds in every state: it is what makes each mutex-protected section
\* of camera_lease.cpp find the manager in a state it can handle.
THEOREM LeaseInvariant == Spec => [](TypeOK /\ LeaseInv)
  <1>1. Init => LeaseInv
    BY LeaseInvInit
  <1>2. TypeOK /\ LeaseInv /\ [Next]_vars => LeaseInv'
    BY LeaseInvStep
  <1>3. QED
    BY <1>1, <1>2, TypeCorrect, PTL DEF Spec

----------------------------------------------------------------------------
(* What the invariant gives a user of the manager. *)

\* snapshot() hands out frames of the current lease only, and none once a stop()
\* of it has begun.
THEOREM FramesAreOfTheLease == Spec => []NoStaleFrame
  <1>1. TypeOK /\ LeaseInv => NoStaleFrame
    BY DEF TypeOK, DataTypeOK, LeaseInv, FrameFollowsLease, WantedFollowsState, Snapshot, NoStaleFrame
  <1>2. QED
    BY <1>1, LeaseInvariant, PTL

\* Idle and Failed are published only with the device closed, or about to be by
\* the destructor of a source whose close() threw.
THEOREM ReportIsTrue == Spec => []ReportMatchesDevice
  <1>1. TypeOK /\ LeaseInv => ReportMatchesDevice
    BY DEF TypeOK, DataTypeOK, LeaseInv, FlagsFollowWorker, DeviceFollowsWorker, Serving, WorkerSteps, ReportMatchesDevice
  <1>2. QED
    BY <1>1, LeaseInvariant, PTL

\* A lease that a stop() reported released stays released, with the device
\* closed, until another is granted.
THEOREM ReleaseIsFinal == Spec => []ReleasedStaysReleased
  <1>1. TypeOK /\ LeaseInv => ReleasedStaysReleased
    BY DEF TypeOK, DataTypeOK, LeaseInv, FlagsFollowWorker, DeviceFollowsWorker, FreedIsOver, Serving, WorkerSteps, ReleasedStaysReleased
  <1>2. QED
    BY <1>1, LeaseInvariant, PTL

\* The worker never opens a device it still has open.
THEOREM DeviceIsExclusive == Spec => []OneHandle
  <1>1. TypeOK /\ LeaseInv => OneHandle
    BY DEF TypeOK, DataTypeOK, LeaseInv, DeviceFollowsWorker, OneHandle
  <1>2. QED
    BY <1>1, LeaseInvariant, PTL

\* A camera that is not wanted has a reason recorded other than the request.
THEOREM ReasonIsRecorded == Spec => []ReasonExplains
  <1>1. TypeOK /\ LeaseInv => ReasonExplains
    BY DEF TypeOK, DataTypeOK, LeaseInv, NoLostWakeup, ReasonExplains
  <1>2. QED
    BY <1>1, LeaseInvariant, PTL

----------------------------------------------------------------------------
(* The refinement: each step of CameraLease is a step of DeviceLease, or    *)
(* changes nothing that a user of the lease can see.                        *)

LEMMA RefinementInit == Init => Lease!Init
  BY DEF Init, Lease!Init, LeasePhase, Snapshot

LEMMA RefinementStep ==
  TypeOK /\ LeaseInv /\ LeaseInv' /\ [Next]_vars => [Lease!Next]_Lease!leaseVars
  <1> SUFFICES ASSUME TypeOK, LeaseInv, LeaseInv', [Next]_vars
               PROVE  [Lease!Next]_Lease!leaseVars
    OBVIOUS
  <1>0. /\ FlagsTypeOK /\ state \in States /\ pc \in WorkerSteps
        /\ FlagsFollowWorker /\ WantedFollowsState /\ FrameFollowsLease
        /\ LeaseIsCurrent
        /\ (FrameFollowsLease /\ WantedFollowsState)'
    BY DEF TypeOK, DataTypeOK, LeaseInv
  <1> USE DEF Lease!Next, Lease!Grant, Lease!Show, Lease!Revoke, Lease!Free,
              Lease!leaseVars, LeasePhase, Snapshot, FlagsTypeOK, States,
              WorkerSteps, FlagsFollowWorker, WantedFollowsState,
              FrameFollowsLease, LeaseIsCurrent, Serving, managerVars
  <1>1. ASSUME NEW c \in Callers, Start(c)
        PROVE  [Lease!Next]_Lease!leaseVars
    BY <1>1, <1>0 DEF Start, CanCall, StartAnswer
  <1>2. ASSUME NEW c \in Callers, StopNothing(c)
        PROVE  [Lease!Next]_Lease!leaseVars
    BY <1>2, <1>0 DEF StopNothing
  <1>3. ASSUME NEW c \in Callers, NEW reason \in StopReasons,
                StopBeforeOpen(c, reason)
        PROVE  [Lease!Next]_Lease!leaseVars
    BY <1>3, <1>0 DEF StopBeforeOpen, CanCall
  <1>4. ASSUME NEW c \in Callers, NEW reason \in StopReasons,
                StopAndWait(c, reason)
        PROVE  [Lease!Next]_Lease!leaseVars
    BY <1>4, <1>0 DEF StopAndWait, CanCall, Released
  <1>5. ASSUME NEW c \in Callers, StopReturns(c)
        PROVE  [Lease!Next]_Lease!leaseVars
    BY <1>5, <1>0 DEF StopReturns
  <1>6. CASE Destroy
    BY <1>6, <1>0 DEF Destroy
  <1>7. CASE WorkerSleeps
    BY <1>7, <1>0 DEF WorkerSleeps
  <1>8. CASE WorkerExits
    BY <1>8, <1>0 DEF WorkerExits
  <1>9. CASE WorkerTakesLease
    BY <1>9, <1>0 DEF WorkerTakesLease
  <1>10. CASE WorkerOpenFailed
    BY <1>10, <1>0 DEF WorkerOpenFailed
  <1>11. CASE WorkerOpened
    BY <1>11, <1>0 DEF WorkerOpened, ReasonOr, StillWanted
  <1>12. CASE WorkerChecks
    BY <1>12, <1>0 DEF WorkerChecks, Expire, StillWanted
  <1>13. CASE WorkerHandlesFrame
    BY <1>13, <1>0 DEF WorkerHandlesFrame, Expire, FrameWanted
  <1>14. CASE WorkerReleases
    BY <1>14, <1>0 DEF WorkerReleases, ReasonOr
  <1>15. CASE WorkerDropsSource
    BY <1>15, <1>0 DEF WorkerDropsSource
  <1>16. CASE OpenReturns
    BY <1>16, <1>0 DEF OpenReturns
  <1>17. CASE ReadReturns
    BY <1>17, <1>0 DEF ReadReturns
  <1>18. CASE CloseReturns
    BY <1>18, <1>0 DEF CloseReturns
  <1>19. CASE WorkerWakesSpuriously
    BY <1>19, <1>0 DEF WorkerWakesSpuriously
  <1>20. CASE DeadlinePasses
    BY <1>20, <1>0 DEF DeadlinePasses
  <1>21. CASE Terminated
    BY <1>21, <1>0 DEF Terminated, vars
  <1>22. CASE UNCHANGED vars
    BY <1>22, <1>0 DEF vars
  <1>23. QED
    BY <1>1, <1>2, <1>3, <1>4, <1>5, <1>6, <1>7, <1>8, <1>9, <1>10, <1>11,
       <1>12, <1>13, <1>14, <1>15, <1>16, <1>17, <1>18, <1>19, <1>20, <1>21,
       <1>22 DEF Next, Calls, Worker, Driver

\* CameraLease implements DeviceLease: seen from outside there is one lease at a
\* time, it is never revived, and frames are visible only while it is held.
THEOREM Refinement == Spec => ImplementsDeviceLease
  <1>1. TypeOK /\ LeaseInv /\ LeaseInv' /\ [Next]_vars
          => [Lease!Next]_Lease!leaseVars
    BY RefinementStep
  <1>2. QED
    BY <1>1, RefinementInit, LeaseInvariant, PTL
       DEF Spec, ImplementsDeviceLease, Lease!Spec
=============================================================================
