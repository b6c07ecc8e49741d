CONSTANTS
  Count = 3
  Engines = {1, 2, 3}
  Backends = {"iptables", "nftables", "windivert"}
  MaxFaults = 0
SPECIFICATION Spec
INVARIANT EngineOpens
CHECK_DEADLOCK FALSE
