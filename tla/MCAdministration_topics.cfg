SPECIFICATION AdministrationSpec
CONSTANTS
  p1 = p1
  p2 = p2
  c1 = c1
  c2 = c2
  x1 = x1
  anna = anna
  ben = ben
  u1 = u1
  t1 = t1
  t2 = t2
  x2 = x2
  o1 = o1
  o2 = o2
  NoName = NoName
  Blank = Blank
  BadNumber = BadNumber
  Ids = {p1, p2}
  Legacy = {p1}
  NameOf <- Names
  Sheets <- TwoSheets
  FormStatuses = {"ACTIVE"}
  Points = {x1}
  Parts <- ContactAndAccount
  Clients = {c1, c2}
  TariffIds = {1}
  Editors = {c1, c2}
  Users = {u1}
  MaxVersion = 2
  Meters = {x1, x2}
  Owners = {c1, c2}
  Shares = {1, 2}
  OperatorOf <- Operators
  NoOperator = NoOperator
  MaxForms = 1
  MaxSent = 2
  Quarters = 4
  Day <- Windows
  NoWindow = NoWindow
  Intervals = {"MONTHLY", "QUARTER", "BIANNUAL"}
  FirstInterval = "MONTHLY"
  PeriodMonths <- Months
  GapWindow = 2
  Horizon = 6
  MaxRuns = 1
  MaxChanges = 2
  Pages = {1}
  Texts <- Spellings
  Upper <- Folded
  Alphabet <- ByLetter
  EcIds = {"AT1"}
  Applications <- ThreeApplications
  Registrars = {c1, c2}
  Askers = {1}
  MaxAsks = 2
  MaxLists = 2
  Tenants = {t1, t2}
  Writers = {c1, c2}
  Readers = {c1, c2}
  MaxWrites = 2
SYMMETRY Symmetry
CONSTRAINT ListsCurrent
INVARIANTS
  ListedOnce
  RowsAccounted
  PricesUnambiguous
  
  RcOfOneCommunity
  ListToAsker
  NoStaleEntry
PROPERTIES
  NoParticipationDeleted
  NoTariffLost
  FormerFactorsStay
CHECK_DEADLOCK FALSE
