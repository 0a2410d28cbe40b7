CONSTANTS
  Transactions = {{e1}, {e2}}
  StartLedger = 1
  PollLimit = 2
  MaxLedger = 2
  MaxFaults = 0
  MetricsLinked = TRUE
SPECIFICATION Spec
PROPERTY NewTipReportedNew
