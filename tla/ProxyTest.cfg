CONSTANTS
  Count = 3
  Engines = {1, 2, 3}
  Backends = {"iptables", "nftables", "windivert"}
  MaxFaults = 4
SPECIFICATION FairSpec
INVARIANTS RulesHaveOwner FailuresAreOwn
PROPERTIES TesterEnds
CHECK_DEADLOCK FALSE
