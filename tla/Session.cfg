SPECIFICATION FairSpec
CONSTANTS
    Modes = {"sni_spoof", "ip_bypass", "ip_bypass_plus", "find_ip", "auto_spoof"}
    MaxProxies = 3
    MaxEvents = 2
    t1 = t1
    t2 = t2
    t3 = t3
    h1 = h1
    h2 = h2
    a1 = a1
    a2 = a2
    a3 = a3
    Targets <- MCTargets
    SniOf <- MCSniOf
    IpOf <- MCIpOf
CHECK_DEADLOCK FALSE
INVARIANTS
    FakeNamesItsAddress
    HeaderCatchesUp
    ServedIsHeld
PROPERTIES
    HeadlessStops
