\* Two handlers, so that a resume can interfere, and one shell.
SPECIFICATION Spec
CONSTANTS
  Handlers = {h1, h2}
  NoSession = NoSession
  Operations = {shell}
INVARIANT ResumeKeepsOperations
\* Every request has come and gone.
CHECK_DEADLOCK FALSE
