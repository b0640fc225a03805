\* Two callers, three leases, two frames: every interleaving of a start, a stop
\* that waits, the driver's answers, the deadlines and the destructor, under
\* fairness of the worker, the driver, the clock and wait_for's time limit.
SPECIFICATION FairSpec
CONSTANTS
  Callers = {server, other}
  StopReasons = {"client_cancelled", "daemon_shutdown"}
  MaxLeases = 3
  MaxFrames = 2
INVARIANTS
  LeaseInv
  NoStaleFrame
  ReportMatchesDevice
  ReleasedStaysReleased
  OneHandle
  ReasonExplains
PROPERTIES
  ImplementsDeviceLease
  LeaseEnds
  DeviceIsClosed
  ShutdownCompletes
