SPECIFICATION MCSpec
CONSTANTS
  c1 = c1
  c2 = c2
  c3 = c3
  q1 = q1
  q2 = q2
  h1 = h1
  h2 = h2
  w1 = w1
  w2 = w2
  b1 = b1
  b2 = b2
  None = None
  Call <- ThreeCalls
  Request <- TwoRequests
  Slow = FALSE
  MaxTurns = 1
  Holders <- SomeHolders
  UserLimit <- BurstOfTwo
  ServiceLimit <- Unlimited
  AgentLimit <- BurstOfOne
  Handlers <- TwoHandlers
  NoBucket = NoBucket
  MaxNow = 2
  MaxPassed = 5
  Tenants <- TwoTenants
  Keys <- SomeKeys
  Forbidden = {}
  MaxPresignTTL = 2
  Workers <- TwoWorkers
  Contents <- TwoContents
  Empty = Empty
  Absent = Absent
  Torn = Torn
  SidecarOf <- TypeFile
  MaxCalls = 3
  MaxCrashes = 1
  Cores <- SomeCores
  Requesters <- TwoWorkers
  Bytes <- TwoContents
  TTLs <- SomeTTLs
  NoObject = NoObject
  InDoubt = InDoubt
  MaxRequests = 3
  MaxLinks = 1
  MaxTimeouts = 1
  MaxClock = 3
  Configs <- SomeConfigs
  Indicators <- SomeIndicators
  CalendarDays <- TwoDays
  Replies <- SomeReplies
  Bodies <- SomeBodies
  Null = Null
  Junk = Junk
  RateError = RateError
  NotPublished = NotPublished
  Names <- SomeDatabases
  Others <- OtherDatabases
  Prefix <- DatabasePrefix
  Suffix <- NoSuffix
  SlugAlphabet <- Letters
  Target = 1
  NoSchema <- MinusOne
  MayCreate = {TRUE, FALSE}
  MaxChanges = 2
  MaxFaults = 1
  Ids = {1, 2, 3}
  Days = {1}
  Windows = {}
  NotFound = NotFound
  Broken = Broken
  Endless = Endless
  Centers = {1}
  Types = {1}
  SnapshotTTL = 2
  MaxWait = 1
  Askers = {"asker"}
  NoShot = NoShot
  NoTask = NoTask
  MaxEdits = 2
  SupplierIds = {1, 2}
  Width = 2
  Lookups <- SomeLookups
  LookupCap = 2
  Subjects = {"s1"}
  Resources = {"r1", "r2"}
  Batches <- SomeBatches
  MaxBatch = 2
  Nobody = Nobody
  NotYet = NotYet
  Failed = Failed
  MaxShifts = 2
  Nodes = {"a", "b"}
  Environment <- SomeEnvironments
  MaxDepth = 3
  NoTrace = NoTrace
  Outer = Outer
  MaxWork = 4
  Replicas = {1, 2}
  Builds = {1, 2, 3}
  Hash <- Sha256
  NoCopy = NoCopy
  NoAsk = NoAsk
  NoFile = NoFile
SYMMETRY Symmetry
INVARIANTS
  NoRerun
  FairLimits
  StoredIsRead
  TenantsApart
  RatesAreTheirs
  EveryTenantIsTold
  ReferencesWereTrue
  NeighboursAreHeard
  ContextFollows
  DeployIsSeen
PROPERTY
  NeverActivates
CHECK_DEADLOCK FALSE
