SPECIFICATION FairSpec
CONSTANTS
  Replicas = {r1, r2}
  Rows = {c1, c2}
  NoRow = NoRow
  MaxAttempts = 2
  BatchSize = 2
  MaxRetries = 1
  MaxFaults = 2
INVARIANTS MailBudget OutcomesAreTrue
PROPERTIES Settles
CHECK_DEADLOCK FALSE
