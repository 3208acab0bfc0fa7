SPECIFICATION ShamirSpec
CONSTANTS
  Secrets = {0, 83}
  Coefficients = {0, 202, 255}
  Ns = {1, 2, 3, 255, 256}
  Ks = {1, 2, 3}
  Positions = {1, 2, 3, 255}
  Deltas = {1, 165}
  MaxGiven = 4
INVARIANTS FieldLaws GenuineSharesSuffice AlteredShareShows Hidden
CHECK_DEADLOCK FALSE
