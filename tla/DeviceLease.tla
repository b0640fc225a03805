---------------------------- MODULE DeviceLease ----------------------------
(***************************************************************************)
(* What the camera lease promises to the rest of the daemon, with no       *)
(* thread, no driver call and no lock: leases are granted one at a time,   *)
(* each with a number of its own; a frame can be read only while the lease *)
(* it was captured under is held; a lease that has been revoked is never   *)
(* held again and shows no frame; the next lease is granted only after the *)
(* one before it is free.                                                  *)
(*                                                                         *)
(* CameraLease implements this module (CameraLease!Lease, checked by TLC   *)
(* and proved in CameraLeaseProofs).                                       *)
(***************************************************************************)
EXTENDS Naturals

VARIABLES
  phase,    \* "free", "held" or "revoked"
  number,   \* the number of the lease granted last, 0 before the first
  visible   \* the number of the lease whose frame a reader gets, 0 for none

leaseVars == <<phase, number, visible>>

Init ==
  /\ phase = "free"
  /\ number = 0
  /\ visible = 0

Grant ==
  /\ phase = "free"
  /\ phase' = "held"
  /\ number' = number + 1
  /\ visible' = 0

Show ==
  /\ phase = "held"
  /\ visible' = number
  /\ UNCHANGED <<phase, number>>

Revoke ==
  /\ phase = "held"
  /\ phase' = "revoked"
  /\ visible' = 0
  /\ UNCHANGED number

Free ==
  /\ phase # "free"
  /\ phase' = "free"
  /\ visible' = 0
  /\ UNCHANGED number

Next == Grant \/ Show \/ Revoke \/ Free

Spec == Init /\ [][Next]_leaseVars
=============================================================================
