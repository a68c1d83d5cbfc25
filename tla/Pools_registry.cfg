SPECIFICATION FairSpec
CONSTANTS
  t1 = t1
  t2 = t2
  c1 = c1
  c2 = c2
  c3 = c3
  NoTenant = NoTenant
  Tenant <- TwoTenants
  Caller <- TwoCallers
  Limit = 1
  IdleClose = 2
  MaxPools = 3
INVARIANTS
  RegistryInv
  Isolation
PROPERTIES
  IdleIsReleased
  CloseFinishes
