\* Liveness of an enrollment that has the camera for itself.
SPECIFICATION FairSpec
CONSTANTS
  Poses = {center}
  TargetPerPose = 1
  MaximumPerPose = 1
  HeldoutPerPose = 1
  MaxLeases = 2
  MaxFrames = 2
  LockScreen = FALSE
PROPERTY SessionEnds
