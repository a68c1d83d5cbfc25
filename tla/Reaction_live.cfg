SPECIFICATION FairReactionSpec
CONSTANTS
  p1 = p1
  p2 = p2
  outsider = outsider
  w1 = w1
  w2 = w2
  w3 = w3
  Principal <- TwoCores
  Actor <- Actors
  Worker <- TwoWorkers
  Core <- OneEach
  MaxDepth <- Depths
  Root <- OfBoth
  MaxCopies = 1
PROPERTIES
  Settles
