\* Two control senders, one speaker and the ticker.
SPECIFICATION Spec
CONSTANTS
  Frame <- MCFrame
  High <- MCHigh
  Length <- MCLength
  Chunk = 2
  Capacity = 2
  Sender = {rx, ws}
  Speaker = {mic}
  MaxBlocks = 2
INVARIANTS
  PeerBeforeBytes
  FramesIntact
PROPERTIES
  InOrder
