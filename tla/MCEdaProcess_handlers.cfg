SPECIFICATION EdaSpec
CONSTANTS
  m1 = m1
  p1 = p1
  p2 = p2
  p3 = p3
  t1 = t1
  t2 = t2
  c1 = c1
  c2 = c2
  v1 = v1
  v2 = v2
  Meters = {m1}
  Participants = {p1, p2, p3}
  Tenants = {t1, t2}
  TenantOf <- TwoCommunities
  RcOf <- OneReceiver
  Receivers = {t1}
  ConsentIds = {c1, c2}
  InsertStates = {"NEW"}
  MaxDate = 2
  NoRow = NoRow
  NoConsent = NoConsent
  Offline = {t2}
  Order <- Names
  Conversations = {v1, v2}
  MaxHandled = 3
  MaxOperations = 2
SYMMETRY Symmetry

  
PROPERTIES
  ConsentProtects
  ToldOnce
  EndsOnChosenDay
CHECK_DEADLOCK FALSE
