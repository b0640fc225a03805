\* Two enrollments, or one beside a lock screen.
SPECIFICATION Spec
CONSTANTS
  Poses = {center, left}
  TargetPerPose = 1
  MaximumPerPose = 1
  HeldoutPerPose = 1
  MaxLeases = 2
  MaxFrames = 4
  LockScreen = TRUE
SYMMETRY PoseSymmetry
INVARIANTS
  TypeOK
  SamplesAreFresh
  LeaseEndsWithSession
PROPERTY NoFrameReuse
