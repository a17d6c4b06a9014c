\* MaxUpdateCount is 100 in the code.
SPECIFICATION Spec
CONSTANTS
  Data = {a, b}
  Computeds = 2
  Watchers = 3
  User = {1}
  Callback = {c1}
  MaxUpdateCount = 1
  Key = {k1, k2}
  NoKey = NoKey
  Kind = {li, p}
  LongList = 4
  ShortList = 3
SYMMETRY Symmetry
INVARIANTS DependenciesAreRight ChildrenAreRight
PROPERTIES ChangesAreKept
CHECK_DEADLOCK FALSE
