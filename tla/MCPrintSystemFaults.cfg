SPECIFICATION FairSpec
CONSTANTS
  Agents = {a1}
  Jobs = {j1}
  NoAgent = NoAgent
  NoJob = NoJob
  DefaultMax = 2
  Cap = 3
  LeaseTicks = 1
  MaxRequeues = 2
  MaxFaults = 3
PROPERTIES ContractSpec JobsSettle PrintedIsReported
CHECK_DEADLOCK FALSE
