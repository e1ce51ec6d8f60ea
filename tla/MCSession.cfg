\* One handler that mints an id and two that resume it.
SPECIFICATION FairSpec
CONSTANTS
  Handlers = {h1, h2, h3}
  NoSession = NoSession
INVARIANTS
  NoDeadEntry
  MintedSessionIsFound
PROPERTIES
  ImplementsLifecycle
  HandlerReturns
\* Every request has come and gone.
CHECK_DEADLOCK FALSE
