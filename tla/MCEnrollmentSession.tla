------------------------ MODULE MCEnrollmentSession ------------------------
(***************************************************************************)
(* EnrollmentSession with the five poses of the code and its default       *)
(* policy, but for the limit of samples per pose.                          *)
(***************************************************************************)
EXTENDS EnrollmentSession, TLC

\* The code treats all poses alike.
PoseSymmetry == Permutations(Poses)
=============================================================================
