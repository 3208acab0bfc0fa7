SPECIFICATION FairSpec
CONSTANTS
  c1 = c1  c2 = c2  c3 = c3
  k1 = k1  k2 = k2  k3 = k3  k1upper = k1upper
  Requests = {r1, r2}
  NodeCount = 2
  Peered = FALSE
  MaxTime = 0
  Genesis = 0
  Period = 3
  Centers = {c1, c2, c3}
  Keys = {k1, k2, k3}
  Hexes = {k1, k1upper, k2, k3}
  KeyOf <- Spellings
  RegistryFiles <- OneFile
  MaxShards = 3
  MinThreshold = 2
  MinLead = 1
  MaxRound = 9
  Ns = {2, 3}
  Ks = {2}
  Leads = {2}
INVARIANTS TypeOK ManifestComplete SecretErasedBeforeUpload AnsweredLeavesNoSecret ReplyAgreesWithStore
PROPERTIES HandlersFinish
CHECK_DEADLOCK FALSE
