SPECIFICATION Spec
CONSTANTS
  t1 = t1
  t2 = t2
  Tenant <- OneTenant
  Base = 1
  IdleMax = 3
  Discovering = TRUE
  DiscoverEvery = 2
  EarlyGap = 1
  ExtraTenants <- NoTenant
  Commits <- AllInsertWith
  Backlog = FALSE
  Batch = 1
  MaxPending = 1
INVARIANT PromptWake
