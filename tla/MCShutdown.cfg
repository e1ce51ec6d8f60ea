\* A request is open when the process ends, long before the 30 seconds have passed.
SPECIFICATION Spec
CONSTANTS
  MaxMessages = 1
  Kilo = 2
  MaxInt = 127
  Numbers <- AFewNumbers
  SpeedtestFileList <- OfferedFiles
  DefaultChunks = 2
  MaxChunks = 3
  CkSizes <- AFewSizes
  FeatureChoices <- AllServed
  Workloads = {"page", "stream", "shell", "speedtest"}
INVARIANT ShutdownIsGraceful
CHECK_DEADLOCK FALSE
