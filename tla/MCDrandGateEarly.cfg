SPECIFICATION GateSpec
CONSTANTS
  beacon = beacon  forged1 = forged1  forged2 = forged2
  Genesis = 0
  Period = 2
  RelayCount = 4
  MinAgreement = 2
  Round = 2
  Beacon = beacon
  Forged = {forged1, forged2}
  Faults <- HonestRelays
  Skews <- AnySkew
  MaxTime = 5
INVARIANTS NeverBeforePublishTime
CHECK_DEADLOCK FALSE
