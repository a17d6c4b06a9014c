SPECIFICATION Spec
CONSTANTS
  Jvm = {j1, j2}
  Channel = {c1, c2}
  NoJvm = NoJvm
  NoChannel = NoChannel
INVARIANTS
  OneConnectionPerLife
  ServedIsConnected
PROPERTIES
  LossIsFinal
  NobodyWaits
