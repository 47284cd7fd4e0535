SPECIFICATION FairSpec
CONSTANTS
  Hosts = {h1, h2}
  Threads = {t1, t2, t3}
  Callbacks = {c1, c2}
  Operations = {o1}
  NoHost = NoHost
  NoThread = NoThread
INVARIANTS
  ShutdownIsFinal
PROPERTIES
  ShutdownReturns
CHECK_DEADLOCK FALSE
