SPECIFICATION Spec
CONSTANTS
  c1 = c1  c2 = c2  c3 = c3
  k1 = k1  k2 = k2  k3 = k3  k1upper = k1upper
  Requests = {r1}
  NodeCount = 1
  Peered = FALSE
  MaxTime = 4
  Genesis = 2
  Period = 3
  Centers = {c1, c2, c3}
  Keys = {k1, k2, k3}
  Hexes = {k1, k1upper, k2, k3}
  KeyOf <- Spellings
  RegistryFiles <- EveryFile
  MaxShards = 3
  MinThreshold = 2
  MinLead = 1
  MaxRound = 2
  Ns = {1, 2, 3, 4}
  Ks = {1, 2, 3}
  Leads = {0, 1, 2, 5}
INVARIANTS OneShardPerCenter BoundToFirstRound
CHECK_DEADLOCK FALSE
