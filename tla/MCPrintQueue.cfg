SPECIFICATION Spec
CONSTANTS
  Agents = {a1, a2}
  Jobs = {j1, j2}
  NoAgent = NoAgent
  DefaultMax = 2
  Cap = 3
  LeaseTicks = 2
  MaxRequeues = 2
SYMMETRY Symmetry
INVARIANTS PendingIsClaimable SecondLeaseNeedsOverlap SignaturesWithinRequeues
PROPERTIES NoTheft
CHECK_DEADLOCK FALSE
