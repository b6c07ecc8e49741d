CONSTANTS
  Chunk = 2
  MaxBytes = 2
SPECIFICATION RelayFairSpec
INVARIANTS
  NeverOverReports UncountedIsOneChunk CompletedIsFinal
PROPERTIES ProgressIsMonotone RelayReturns TasksStop
