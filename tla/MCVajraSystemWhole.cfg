SPECIFICATION SystemSpec
CONSTANTS
  c1 = c1  c2 = c2
  k1 = k1  k2 = k2  k1b = k1b  junk = junk
  Requests = {r1}
  NodeCount = 2
  Peered = FALSE
  MaxTime = 4
  Genesis = 0
  Period = 2
  RegistryFiles <- TwoFiles
  Centers = {c1, c2}
  Keys = {k1, k2, k1b}
  Hexes = {k1, k2}
  KeyOf <- OneSpelling
  KeysOf <- TwoKeys
  MaxShards = 2
  MinThreshold = 2
  MinLead = 1
  MaxRound = 9
  Ks = {2}
  Ns = {2}
  Leads = {2, 4}
  Junk = junk
  MaxTampered = 0
  Setups <- SoundSetups
  AdminRate = 1
  ForgedNs = {2}
  ForgedKs = {2}
  ForgedRounds = {1}
  HmacKeyOut = TRUE
  MaxReleases = 1
INVARIANTS SystemTypeOK GateHolds PuzzleHolds
PROPERTIES ImplementsExamVault
CHECK_DEADLOCK FALSE
