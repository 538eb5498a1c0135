CONSTANTS
  MaxVersion = 3
  MaxFailures = 2
  Attempts = 2
  RollbackFails = FALSE
  RetainBusy = 3
  RetainStable = 2
SPECIFICATION FairSpec
INVARIANTS OneVersionServed CommitAcknowledged
PROPERTIES NoSwitchUnderRecalls IngestEnds GateReopens
CHECK_DEADLOCK FALSE
