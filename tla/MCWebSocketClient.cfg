\* Closes follow errors promptly, as the broker's do.
SPECIFICATION Spec
CONSTANTS
  Socket = {s1, s2}
  NoSocket = NoSocket
  limitCnt = 3
  PromptClose = TRUE
INVARIANTS AttemptsAreLimited OneThingAtATime FlagIsAccurate
PROPERTY DestroyIsClean
CHECK_DEADLOCK FALSE
