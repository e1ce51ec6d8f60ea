\* Two requests of the speedtest handler.
SPECIFICATION FairSpec
CONSTANTS
  Callers = {a, b}
  NoCaller = NoCaller
  PositionCallers = {a, b}
PROPERTY ShutdownReleasesWaiters
CHECK_DEADLOCK FALSE
