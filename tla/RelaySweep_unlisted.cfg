SPECIFICATION FairSpec
CONSTANTS
  t1 = t1
  t2 = t2
  Tenant <- OneTenant
  Base = 1
  IdleMax = 2
  Discovering = TRUE
  DiscoverEvery = 2
  EarlyGap = 1
  ExtraTenants <- NoTenant
  Commits <- AllInsert
  Backlog = FALSE
  Batch = 1
  MaxPending = 1
PROPERTY TakenIsSwept
