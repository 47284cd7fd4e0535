SPECIFICATION BoundarySpec
CONSTANTS
  h1 = h1
  h2 = h2
  t1 = t1
  t2 = t2
  o1 = o1
  o2 = o2
  s1 = s1
  Hosts = {h1}
  Threads = {t1, t2}
  Operations = {o1, o2}
  Subscriptions = {s1}
  NoHost = NoHost
  NoThread = NoThread
  NoJob = NoJob
  Messages <- MCMessages
  Disturbable <- MCDisturbable
  NoValue = NoValue
  Rejected = Rejected
INVARIANTS
  ClientHandleIsAlive
  JoinIsAFence
  MessagesSurviveTheWire
PROPERTIES
  JoinsEnd
CHECK_DEADLOCK FALSE
CONSTRAINT TwoJobs
