SPECIFICATION BrokerSpec
CONSTANTS
  a = a
  b = b
  r1 = r1
  r2 = r2
  Messages = {a, b}
  Requests = {r1, r2}
  NoItem = NoItem
  MaxLosses = 1
  MaxKills = 1
INVARIANTS
  OneLostPerKill

  
  
CHECK_DEADLOCK FALSE
