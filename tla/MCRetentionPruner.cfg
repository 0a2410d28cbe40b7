\* Four rows use up the budget of a pass, or leave one of another kind unread.
CONSTANTS
  Records = {r1, r2, r3, r4}
  MaxFaults = 1
  Windows = {"success", "failure", "notification"}
  BatchSize = 2
  MaxBatches = 2
SPECIFICATION RetentionFairSpec
INVARIANTS
  PassIsThorough
PROPERTY EveryOldRowPruned
