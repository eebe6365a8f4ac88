\* The reorder buffer under every arrival order.
SPECIFICATION FairSpec
CONSTANTS
  Half = 3
  Wait = 2
  Poll = 2
  Packet <- MCPacket
  Audio <- MCAudio
  SeqByte <- MCSeqByte
INVARIANTS
  WindowOK
  WaitOK
  ReleasedInSequence
PROPERTIES
  TimeoutReleases
  Accounting
  SilenceDrains
