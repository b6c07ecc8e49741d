CONSTANTS
  Ips = {good1, good2, bad}
  Good = {good1, good2}
  bad = bad
  Score <- Scores
  None = None
  Domains = {d1, d2}
  MaxIp = 2
  ScanLimit = 3
  DropCounts = {1, 2, 3}
  MaxBytes = 2
SPECIFICATION FairSpec
INVARIANTS PoolIsBounded NoDropBeforeTraffic
PROPERTIES DropsAreBounded PinStopsManager
