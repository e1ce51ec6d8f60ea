\* A session and one that takes over from it; more samples than the cache or
\* a channel holds.
SPECIFICATION Spec
CONSTANTS
  Handlers = {h1, h2}
  NoSession = NoSession
  CacheSize = 2
  ChannelSize = 1
  MaxSamples = 3
SYMMETRY HandlersAreAlike
INVARIANTS
  TypeOK
  NoSampleIsMissed
PROPERTY LiveSamplesInOrder
\* Every request has come and gone, and the timer has reached the bound.
CHECK_DEADLOCK FALSE
