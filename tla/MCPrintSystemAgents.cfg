SPECIFICATION SystemSpec
CONSTANTS
  Agents = {a1, a2}
  Jobs = {j1}
  NoAgent = NoAgent
  NoJob = NoJob
  DefaultMax = 2
  Cap = 3
  LeaseTicks = 2
  MaxRequeues = 1
  MaxFaults = 1
SYMMETRY Symmetry
INVARIANTS JournalBeforePaper
PROPERTIES ContractSpec
CHECK_DEADLOCK FALSE
