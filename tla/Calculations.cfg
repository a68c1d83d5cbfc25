SPECIFICATION MCSpec
CONSTANTS
  Ids <- ThreeIds
  Days <- TwoDays
  Windows <- SomeWindows
  NotFound = NotFound
  Broken = Broken
  Endless = Endless
  Tables <- WellFormedTables
  Payments <- SomePayments
  MaxBase = 7
  Uncapped = Uncapped
  NoTier = NoTier
  Kinds <- RuleKinds
  RowsOf <- KindRows
  FactsOf <- RuleFacts
  One = 2
  MaxCount = 3
  Precision = 10
  Error = Error
  Panic = Panic
  NoRow = NoRow
  BadDate = BadDate
  Units <- SomeUnits
  Declared <- SomeContents
  Amounts <- SomeAmounts
  Contents <- SomeContents
  Scale = 12
  MaxDigits = 3
  MinExponent <- MinusTwo
  MaxLines = 2
  Refused = Refused
  NoItem = NoItem
  Catalogs <- SomeCatalogs
  ProtoTrees <- SomeTrees
  Packages <- CorePackages
  Modules <- CoreModules
  Nothing = Nothing
  Unset = Unset
  Junk = Junk
  Wildcards = {"*", ">"}
  NatsEnvs <- SomeNatsEnvs
  PoolEnvs <- SomePoolEnvs
  DefaultMax = 3
  DefaultIdle = 10
  IntHalf = 8
  Anonymous = Anonymous
  Refusal = Refusal
  MaxDials = 2
  p1 = p1
  p2 = p2
  outsider = outsider
  w1 = w1
  w2 = w2
  w3 = w3
  Principal <- TwoCores
  Actor <- Actors
  Worker <- ThreeWorkers
  Core <- TwoOfOne
  MaxDepth <- DeepEnough
  Root <- OfP2AndACycle
  MaxCopies = 1
SYMMETRY Symmetry
INVARIANTS
  WalksAgree
  MonthIsOne
  OneRowForAll
  NoSeams
  KardexIsSound
  SpeaksForTheProtos
  Honoured
  AppliedOnce
  AckedIsHandled
  ActsOnce
CHECK_DEADLOCK FALSE
