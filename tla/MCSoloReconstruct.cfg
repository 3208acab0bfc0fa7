SPECIFICATION SoloSpec
CONSTANTS
  c1 = c1  c2 = c2  c3 = c3
  k1 = k1  k2 = k2  k3 = k3  k1b = k1b  junk = junk
  Requests = {r1}
  NodeCount = 2
  Peered = TRUE
  MaxTime = 4
  Genesis = 0
  Period = 2
  RegistryFiles <- ThreeFiles
  Centers = {c1, c2, c3}
  Keys = {k1, k2, k3, k1b}
  Hexes = {k1, k2, k3}
  KeyOf <- ThreeSpellings
  KeysOf <- ThreeKeys
  MaxShards = 3
  MinThreshold = 2
  MinLead = 0
  MaxRound = 9
  Ks = {2, 3}
  Ns = {3}
  Leads = {0, 2}
  Junk = junk
  MaxTampered = 0
  Setups <- GatedSetups
  AdminRate = 1
  ForgedNs = {}
  ForgedKs = {}
  ForgedRounds = {}
  HmacKeyOut = FALSE
  MaxReleases = 1
  Givens <- SomeGivens
INVARIANTS GateHolds SharesSuffice
PROPERTIES RecoversLock
CHECK_DEADLOCK FALSE
