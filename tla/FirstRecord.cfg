CONSTANTS
  Base = 3
  Streams <- MCStreams
  Sizes = {1, 2, 4}
  MaxBody = 3
  MaxSegment = 8
  MaxPayload = 14
SPECIFICATION Spec
INVARIANTS FragmentsReassemble UnrewrittenIsWhole
CHECK_DEADLOCK FALSE
