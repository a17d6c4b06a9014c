\* One file whose entry makes the map grow; names of every kind: the JDK's, and others
\* of the URLs, of the parent, of both and of none; threads load classes or use the cache.
SPECIFICATION Spec
CONSTANTS
  Timer = {t1, t2}
  NoTimer = NoTimer
  MaxInbox = 3
  Seeker = {s1, s2}
  File = {f1}
  Loader = {resources}
  Threshold = 0
  Thread = {h1, h2}
  NoThread = NoThread
  Name = {jdk, sun, both, parents, none}
  Jdk = {jdk, sun}
  Own = {jdk, sun, both}
  Parents = {jdk, both, parents}
  Channel = {c1, c2}
  Null = Null
INVARIANTS HeartBeatsAreContained ClassesAreRight GetIsAtomic CacheMatchesChannels
PROPERTIES PathAnswersAreRight LocksAreReleased
CHECK_DEADLOCK FALSE
