SPECIFICATION ShutdownSpec
CONSTANTS
  a = a
  r1 = r1
  j1 = j1
  j2 = j2
  Messages = {a}
  Requests = {r1}
  NoItem = NoItem
  MaxLosses = 0
  MaxKills = 0
  Jobs = {j1, j2}
  Keys = {}
  KeysOf <- SingleMails
  QueueSize = 1
  NoKey = NoKey
  NoJob = NoJob
INVARIANTS
  NothingLostOnStop
PROPERTIES
  NoMailRefusedByStop
  
CHECK_DEADLOCK FALSE
