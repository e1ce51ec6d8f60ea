\* One reconnect of a page whose chart is shown.
SPECIFICATION Spec
CONSTANTS
  MaxSources = 2
  MaxRuns = 1
  Count = 2
  Hosts = {host}
  ChannelSize = 1
INVARIANT ReconnectIsTransparent
CHECK_DEADLOCK FALSE
