\* One enrollment and one lease of the lock screen.
SPECIFICATION Spec
CONSTANTS
  Poses = {center}
  TargetPerPose = 1
  MaximumPerPose = 1
  HeldoutPerPose = 1
  MaxLeases = 2
  MaxFrames = 2
  LockScreen = TRUE
PROPERTY SamplesOfOneLease
