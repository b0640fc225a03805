---------------------- MODULE MCEnrollmentController ----------------------
(***************************************************************************)
(* EnrollmentController with two poses and a short policy: a complete      *)
(* enrollment takes four frames.                                           *)
(***************************************************************************)
EXTENDS EnrollmentController, TLC

\* The code treats all poses alike.
PoseSymmetry == Permutations(Poses)
=============================================================================
