\* Two pipes, more chunks than either buffer holds.
SPECIFICATION FairSpec
CONSTANTS
  Pipes = {stdout, stderr}
  PipeSize = 1
  ChannelSize = 2
  MaxChunks = 3
INVARIANTS
  TypeOK
  ShownIsPrefix
  NothingIsLeftRunning
PROPERTIES
  HandlerReturns
  CopiersReturn
\* The handler has returned and nobody empties the channel.
CHECK_DEADLOCK FALSE
