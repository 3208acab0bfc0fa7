SPECIFICATION ToolSpec
CONSTANTS
  PrimeBits = 4
  BenchBits = {2, 3, 4, 5, 6, 7, 8, 9, 10, 11}
  Bases = {2, 3, 11, 26}
  Times = {0, 1, 3}
  Rates = {1, 6}
  CounterBits = 4
  Aads = {0, 1}
  MaxGenerates = 2
INVARIANTS PrimesPass CompositesShow TrapdoorMatchesSolver LeadIsSpent GenerateRepairs
CHECK_DEADLOCK FALSE
