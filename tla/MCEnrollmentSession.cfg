\* The default policy is 3 training samples per pose, at most 12, and 1 held-out
\* sample; here at most 4, and 2 held-out samples.
SPECIFICATION Spec
CONSTANTS
  Poses = {center, left, right, up, down}
  TargetPerPose = 3
  MaximumPerPose = 4
  HeldoutPerPose = 2
SYMMETRY PoseSymmetry
INVARIANTS
  ReadyCoversEveryPose
  ProgressIsHonest
  ErasedWhenOver
PROPERTY ProgressNeverFalls
