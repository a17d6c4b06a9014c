SPECIFICATION Spec
CONSTANTS
  Socket = {s1}
  NoSocket = NoSocket
  limitCnt = 3
  PromptClose = TRUE
INVARIANT DestroyedIsQuiet
CHECK_DEADLOCK FALSE
