SPECIFICATION FairSpec
CONSTANTS
  k1 = k1
  k2 = k2
  c1 = c1
  c2 = c2
  read = read
  lookup = lookup
  write = write
  m1 = m1
  m2 = m2
  Kid <- TwoKeys
  Call <- TwoCalls
  Client <- TwoClients
  Action <- Actions
  Verb <- Verbs
  Harmless <- Readers
  Gates <- TwoGates
  Principals <- SomePrincipals
  TTL = 2
  Deadline = 1
  PdpTimeout = 1
  Nobody = Nobody
INVARIANTS
  PolicyDecides
  AssistantOnlyReads
PROPERTIES
  OnlyFreshKeys
  EveryCallEnds
