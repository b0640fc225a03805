--------------------------- MODULE MCCameraLease ---------------------------
(***************************************************************************)
(* The instances of CameraLease that TLC checks. In the daemon one thread  *)
(* calls the manager, the socket server's; the class itself promises its   *)
(* callers no less when there are two, so the runs have two.               *)
(***************************************************************************)
EXTENDS CameraLease
=============================================================================
