SPECIFICATION SpecIncoming
CONSTANTS
  Script <- Conversation
  Chunks = {1, 4}
  MaxLost = 2
  Emulations = {"panel", "BP7100"}
  Identity <- OurIdentity
  PayloadSize = 1
  Senders = {"peer", "stranger"}
  Sent <- Pieces
  Size = 3
  Limit = 1
  Header <- Headers
INVARIANTS
  Converses
  Understood
PROPERTIES
  Reassembles
CHECK_DEADLOCK FALSE
