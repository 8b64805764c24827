SPECIFICATION EnergySpec
CONSTANTS
  c1 = c1
  c2 = c2
  k1 = k1
  k2 = k2
  m1 = m1
  m2 = m2
  d1 = d1
  d2 = d2
  t1 = t1
  Clients = {c1, c2}
  TenantOf <- OneTenant
  Checkers = {k1, k2}
  Meters = {m1}
  Periods <- OneDayPeriods
  LockWindow = 1
  PageSize = 2
  FirstBatch = 2
  Batch = 1
  MaxBatches = 2
  Deadline = 2
  MaxRuns = 2
  MaxAnswers = 2
  MaxClock = 3
INVARIANTS
  OneSummaryPerRun
  NoDoubleRequest
  
  NoAnswerMeansDeadline
  PageIsNewest
  LeftOutIsCounted
SYMMETRY Symmetry
CHECK_DEADLOCK FALSE
