CONSTANTS
  s1 = s1  s2 = s2  s3 = s3  h1 = h1  h2 = h2
  q1 = q1  q2 = q2  q3 = q3  a1 = a1  a2 = a2
  Slots <- MCSlots
  Pairs <- MCPairs
  Hosts <- MCHosts
  HostOf <- MCHostOf
  Place <- MCPlace
  SpecialPairs <- MCSpecial
  GoodTasks <- MCGood
  MaxProbes = 1
  MaxConnects = 1
  MinCandidates = 1
SPECIFICATION ScanFairSpec
INVARIANTS NothingLost CountCoversArrived
PROPERTIES ScanEnds
CHECK_DEADLOCK FALSE
