SPECIFICATION AnswersSpec
CONSTANTS
  m1 = m1
  p1 = p1
  t1 = t1
  Meters = {m1}
  Participants = {p1}
  Tenants = {t1}
  TenantOf <- OneCommunity
  RcOf <- OneReceiver
  Receivers = {t1}
  ConsentIds = {}
  InsertStates = {"NEW"}
  MaxDate = 2
  NoRow = NoRow
  NoConsent = NoConsent
  Offline = {}
PROPERTIES
  LateAnswerLeavesNewParticipation
CHECK_DEADLOCK FALSE
