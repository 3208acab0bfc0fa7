SPECIFICATION PublishedSpec
CONSTANTS
  c1 = c1  c2 = c2
  k1 = k1  k2 = k2  k1b = k1b  junk = junk
  Requests = {r1}
  NodeCount = 2
  Peered = FALSE
  MaxTime = 2
  Genesis = 0
  Period = 2
  RegistryFiles <- TwoFiles
  Centers = {c1, c2}
  Keys = {k1, k2, k1b}
  Hexes = {k1, k2}
  KeyOf <- OneSpelling
  KeysOf <- TwoKeys
  MaxShards = 2
  MinThreshold = 2
  MinLead = 1
  MaxRound = 9
  Ks = {2}
  Ns = {2}
  Leads = {1}
  Junk = junk
  MaxTampered = 0
  Setups <- UngatedSetup
  AdminRate = 1
  ForgedNs = {}
  ForgedKs = {}
  ForgedRounds = {}
  HmacKeyOut = FALSE
  MaxReleases = 1
PROPERTIES EveryNodeTried
CHECK_DEADLOCK FALSE
