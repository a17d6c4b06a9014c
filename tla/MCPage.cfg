\* The page stops changing its data, and nothing throws in a patch.
SPECIFICATION Spec
CONSTANTS
  Owner = {o1, o2, o3}
  PageOwner = {o1, o2}
  NoOwner = NoOwner
  Styles = 2
  Socket = {s1, s2, s3}
  NoSocket = NoSocket
  limitCnt = 3
  Watchers = 3
  User = {1}
  Callback = {c1}
  MaxUpdateCount = 100
  MaxChanges = 3
  Key = {k1, k2}
  NoKey = NoKey
  Kind = {li}
  MaxChildren = 3
PROPERTIES OwnersAreServed ShownIsWhole FileIsWholeOrRejected LoadingEnds ViewCatchesUp LossIsRetried
CHECK_DEADLOCK FALSE
