SPECIFICATION MailSpec
CONSTANTS
  j1 = j1
  j2 = j2
  j3 = j3
  k1 = k1
  Jobs = {j1, j2, j3}
  Keys = {k1}
  KeysOf <- ThreeJobs
  QueueSize = 2
  NoKey = NoKey
  NoJob = NoJob
INVARIANTS
  NeverOnClosedChannel
  NotQueuedIsTrue
  MailedOnce
  Accounted
PROPERTIES
  StopReturns
  EveryJobSettles
CHECK_DEADLOCK FALSE
