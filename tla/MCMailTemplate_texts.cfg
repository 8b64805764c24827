SPECIFICATION FairSpec
CONSTANTS
  e1 = e1
  e2 = e2
  f1 = f1
  f2 = f2
  Editors = {e1, e2}
  Nobody = Nobody
  Files = {f1, f2}
  MaxImages = 1
  DefaultVersions = {1, 2}
  NoTemplate = NoTemplate
  MaxSaves = 3
  MaxResets = 1
INVARIANTS
  UpdatedVersionComplete
  DraftLimit
  NoticedOnce
PROPERTIES
  VersionProtects
  RequestsEnd
CHECK_DEADLOCK FALSE
