SPECIFICATION DeploySpec
CONSTANTS
  MaxBulk = 3
  Ns = {0, 2, 3, 4}
  MaxRuns = 3
  MaxX = 2
  Ks = {1, 2, 3}
  Environments <- MCEnvironments
INVARIANTS RegistryIsBacked LocksAreBacked BulkRepairs RequestsCanBeServed AgreementIsOfServers
PROPERTIES OnlyForceLosesKeys
