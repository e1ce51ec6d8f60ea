\* One visitor with one purpose, and one signal.
SPECIFICATION FairSpec
CONSTANTS
  MaxMessages = 1
  Kilo = 2
  MaxInt = 127
  Numbers <- AFewNumbers
  SpeedtestFileList <- OfferedFiles
  DefaultChunks = 2
  MaxChunks = 3
  CkSizes <- AFewSizes
  FeatureChoices <- AllServed
  Workloads = {"page", "stream", "shell", "speedtest"}
INVARIANTS
  LengthIsHonest
  ConfiguredIsKept
  HandlerLeavesNothing
  TearDownGoesOn
PROPERTIES
  AnyEndTearsDown
  PageCatchesUp
  SignalEndsProcess
\* The process ends.
CHECK_DEADLOCK FALSE
