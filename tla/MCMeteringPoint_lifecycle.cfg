SPECIFICATION Spec
CONSTANTS
  m1 = m1
  m2 = m2
  p1 = p1
  p2 = p2
  t1 = t1
  Meters = {m1, m2}
  Participants = {p1, p2}
  Tenants = {t1}
  TenantOf <- OneCommunity
  RcOf <- OneReceiver
  Receivers = {t1}
  ConsentIds = {}
  InsertStates = {"NEW", "ACTIVE"}
  MaxDate = 2
  NoRow = NoRow
  NoConsent = NoConsent
  Offline = {}
SYMMETRY Symmetry
CONSTRAINT AtMostTwoRows

  
PROPERTIES
  NeverBackToInit
  
CHECK_DEADLOCK FALSE
