\* Three connections may wait, so that requests nobody awaits any more can stand in
\* the way of the next one.
SPECIFICATION FairSpec
CONSTANTS
  Backlog = 3
  ReduceMotion = FALSE
INVARIANTS
  TypeOK
  TimersFollowDisplay
  DisplayIsTrue
PROPERTIES
  SentCancelEnds
  CaptureStops
