\* Two handlers, so that a resume can interfere, and an operation of either kind.
SPECIFICATION FairSpec
CONSTANTS
  Handlers = {h1, h2}
  NoSession = NoSession
  Operations = {op}
INVARIANTS
  CancelledForAReason
  EndOfSessionIsSeen
PROPERTY MintedSessionEndsOperations
\* Every request has come and gone.
CHECK_DEADLOCK FALSE
