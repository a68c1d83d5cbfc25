SPECIFICATION FairSpec
CONSTANTS
  t1 = t1
  t2 = t2
  c1 = c1
  c2 = c2
  Tenant <- TwoTenants
  Catalog <- OneCatalog
  Caller <- TwoCallers
  TTL = 2
  CallTimeout = 1
  MintTimeout = 1
  Margin = 3
  LeastLife = 6
  Life <- LongEnough
  Nobody = Nobody
INVARIANTS
  AnswerIsRecent
  TokenOutlivesCall
PROPERTY
  EveryCallReturns
