\* One lease is enough: the password is submitted while the camera is opening,
\* and then the open fails.
SPECIFICATION Spec
CONSTANTS
  Callers = {server}
  StopReasons = {"password_started"}
  MaxLeases = 1
  MaxFrames = 1
PROPERTY PasswordReasonIsTerminal
