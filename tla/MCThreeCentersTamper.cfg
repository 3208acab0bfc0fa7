SPECIFICATION TamperSpec
CONSTANTS
  c1 = c1  c2 = c2  c3 = c3
  k1 = k1  k2 = k2  k3 = k3  k1b = k1b  junk = junk
  Requests = {r1, r2}
  NodeCount = 1
  Peered = FALSE
  MaxTime = 0
  Genesis = 0
  Period = 2
  RegistryFiles <- TwoOrThreeFiles
  Centers = {c1, c2, c3}
  Keys = {k1, k2, k3, k1b}
  Hexes = {k1, k2, k3}
  KeyOf <- ThreeSpellings
  KeysOf <- ThreeKeys
  MaxShards = 3
  MinThreshold = 2
  MinLead = 0
  MaxRound = 9
  Ks = {2, 3}
  Ns = {2, 3}
  Leads = {0}
  Junk = junk
  MaxTampered = 1
  Setups <- UngatedSetup
  AdminRate = 1
  ForgedNs = {2, 3}
  ForgedKs = {1, 2}
  ForgedRounds = {1}
  HmacKeyOut = TRUE
  MaxReleases = 1
SYMMETRY Symmetry
INVARIANTS KCentersContributed
PROPERTIES SharesOnlyFromTheirCenter
CHECK_DEADLOCK FALSE
