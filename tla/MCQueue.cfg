\* Two requests, one of them with the callback of the speedtest handler: the
\* clean-up blocks in some behaviours and not in others.
SPECIFICATION FairSpec
CONSTANTS
  Callers = {a, b}
  NoCaller = NoCaller
  PositionCallers = {a}
INVARIANTS
  TypeOK
  NoLostWaiter
  NoLostWakeup
  ReleasedWasToldFirst
  StuckOnAnother
PROPERTIES
  ImplementsSlot
  ImplementsService
  StuckForGood
  WaiterGetsOut
  ShutdownReachesServer
\* After the shutdown everything stops, and HandleQueue can block for good.
CHECK_DEADLOCK FALSE
