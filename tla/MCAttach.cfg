SPECIFICATION AttachSpec
CONSTANTS
  Jvm = {j1}
  NoJvm = NoJvm
  Thread = {main, t2, listener}
  NoThread = NoThread
  Listener = listener
  Entry = {TRUE, FALSE}
  Request = {r1, r2}
  NoRequest = NoRequest
INVARIANTS OneInstance HandlesAreDetached BootsOnce ConnectsOnlyInstrumented
PROPERTIES LoadedMeansBootOver AttachIsAnswered BootIsFinal BootEnds ImplementsBootOnce
CHECK_DEADLOCK FALSE
