SPECIFICATION FairGateSpec
CONSTANTS
  beacon = beacon  forged1 = forged1  forged2 = forged2
  Genesis = 0
  Period = 2
  RelayCount = 4
  MinAgreement = 2
  Round = 2
  Beacon = beacon
  Forged = {forged1, forged2}
  Faults <- AnyFaults
  Skews <- AnySkew
  MaxTime = 7
INVARIANTS GateTypeOK OpensOnGenuineRound ClockHoldsAlone
PROPERTIES FaultsTolerated
CHECK_DEADLOCK FALSE
