\* Two daemons, the first one with the development grant, a call of PAM for sudo
\* and a program of the user's, each at any time and as often as it likes.
SPECIFICATION FairSpec
CONSTANTS
  Daemons = {first, second}
  Pam = {sudo}
  Others = {gui}
  OtherOps = {"other"}
  Root = {sudo}
  DevAllowed = {first}
  Ignoring = {first}
  RootAuth = TRUE
  MaxAttempts = 1
  Backlog = 1
  NoOne = noOne
INVARIANTS
  LimitIsKept
  SuccessIsEarned
  SocketIsFound
PROPERTIES
  CallsReturn
  StopCompletes
