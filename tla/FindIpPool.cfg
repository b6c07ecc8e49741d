CONSTANTS
  Ips = {good1, good2, bad}
  Good = {good1, good2}
  bad = bad
  Score <- Scores
  None = None
  MaxIp = 2
  ScanLimit = 3
  DropCount = 1
  MaxBytes = 2
SPECIFICATION FairSpec
INVARIANTS PoolIsBounded PinIsObeyed ServedACycle
PROPERTIES PoolRefills
