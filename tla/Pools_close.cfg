SPECIFICATION Spec
CONSTANTS
  t1 = t1
  t2 = t2
  c1 = c1
  c2 = c2
  c3 = c3
  NoTenant = NoTenant
  Tenant <- TwoTenants
  Caller <- TwoCallers
  Limit = 1
  IdleClose = 1
  MaxPools = 4
INVARIANT CloseReleases
