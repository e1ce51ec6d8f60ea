\* One reconnect, a run that is stopped or cut and another one after it.
SPECIFICATION FairSpec
CONSTANTS
  MaxSources = 2
  MaxRuns = 2
  Count = 2
  Hosts = {host}
  ChannelSize = 1
INVARIANTS
  OneLiveSource
  PageKnowsItsSession
  TableInOrder
  IdlePageIsDeaf
  EndIsUnderWay
PROPERTIES
  ComponentsStayMounted
  PageLearnsOfTheEnd
  PageReconnects
CHECK_DEADLOCK FALSE
