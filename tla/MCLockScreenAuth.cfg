\* Three candidates, as by default, and time in fifths of the recognition window,
\* one of which is the settling time, as by default, too.
SPECIFICATION FairSpec
CONSTANTS
  MaximumCandidates = 3
  Deadline = 5
  Settle = 1
INVARIANTS
  CandidatesAreFair
PROPERTIES
  VerdictIsFinal
  AttemptEnds
