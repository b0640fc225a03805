\* Two poses of the five; a pose of five samples is the smallest that loses one.
SPECIFICATION Spec
CONSTANTS
  PoseCount = 2
  MaximumModelId = 2
  MaximumDimension = 3
  MaximumSamples = 5
  SampleSizes = {1, 2, 5}
  Embedder <- MCEmbedder
  Models <- MCModels
  Directions <- MCDirections
  Looks <- MCLooks
\* Nothing follows a file that was refused.
CHECK_DEADLOCK FALSE
INVARIANTS
  ReadsWhatIsWritten
  OutlierHasNoSay
  ScoreIsEarned
  PoseIsMirrored
