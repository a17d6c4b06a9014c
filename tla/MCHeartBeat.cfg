SPECIFICATION Spec
CONSTANTS
  Timer = {t1, t2}
  NoTimer = NoTimer
  MaxInbox = 1
PROPERTY HeartBeatIsSent
CHECK_DEADLOCK FALSE
