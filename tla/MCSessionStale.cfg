\* One handler and the one that takes over from it.
SPECIFICATION Spec
CONSTANTS
  Handlers = {h1, h2}
  NoSession = NoSession
PROPERTY StaleHandlerSparesReplacement
CHECK_DEADLOCK FALSE
