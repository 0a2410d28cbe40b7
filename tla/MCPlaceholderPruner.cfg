SPECIFICATION FairSpec
CONSTANTS
  NumCreators = 2
  BatchSize = 1
  MaxBatches = 2
  MaxFaults = 2
INVARIANTS TypeOK 
PROPERTY AbandonedGoes
CHECK_DEADLOCK FALSE
