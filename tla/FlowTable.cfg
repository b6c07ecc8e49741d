CONSTANTS
  Conns = {c1, c2, c3}
  Ports = {p1, p2}
  None = None
SPECIFICATION TableSpec
INVARIANTS
  NoForeignEntry RelayIsUntracked NoLeak
