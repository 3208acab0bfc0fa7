SPECIFICATION Spec
CONSTANTS
  c1 = c1  c2 = c2  c3 = c3
  k1 = k1  k2 = k2  k3 = k3  k1upper = k1upper
  Requests = {r1}
  NodeCount = 1
  Peered = FALSE
  MaxTime = 0
  Genesis = 2
  Period = 3
  Centers = {c1, c2, c3}
  Keys = {k1, k2, k3}
  Hexes = {k1, k1upper, k2, k3}
  KeyOf <- Spellings
  RegistryFiles <- Respelt
  MaxShards = 3
  MinThreshold = 2
  MinLead = 1
  MaxRound = 9
  Ns = {2}
  Ks = {2}
  Leads = {2}
INVARIANTS NoSharedKey
CHECK_DEADLOCK FALSE
