SPECIFICATION FormSpec
CONSTANTS
  m1 = m1
  m2 = m2
  p1 = p1
  p2 = p2
  t1 = t1
  Meters = {m1}
  Participants = {p1, p2}
  Tenants = {t1}
  TenantOf <- OneCommunity
  RcOf <- OneReceiver
  Receivers = {t1}
  ConsentIds = {}
  InsertStates = {"NEW"}
  MaxDate = 1
  NoRow = NoRow
  NoConsent = NoConsent
  Offline = {}
  NoForm = NoForm
PROPERTIES
  NeverBackToInit
CHECK_DEADLOCK FALSE
