\* One fetch can be cut off, one ledger can hold more than PollLimit, and any
\* one step can fail; no symmetry, for the liveness properties.
CONSTANTS
  Transactions = {{e1, e2}, {e3}, {e4}}
  StartLedger = 1
  PollLimit = 2
  MaxLedger = 2
  MaxFaults = 1
  MetricsLinked = FALSE
SPECIFICATION FairSpec
INVARIANTS
  CursorCovered
  StoppedNeverSleeps
PROPERTIES
  ImplementsTipLog
  EveryTipStored
  CursorFollowsHead
