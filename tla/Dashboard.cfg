CONSTANTS
  Conns = {c1, c2}
  Ports = {p1, p2}
  Modes = {"intercept", "intercept_segmented", "tls_frag", "ip_bypass", "find_ip", "auto_spoof"}
  MaxRecords = 1
  MaxQueue = 1
SPECIFICATION FairSpec
INVARIANTS
  ActiveIsExact
PROPERTIES PruneSparesActive EndedIsForgotten
