\* A stream longer than the sequence space over a bad network.
SPECIFICATION FairStreamSpec
CONSTANTS
  Half = 3
  Wait = 1
  Poll = 1
  LastIndex = 7
  MaxCopies = 1
  Packet <- MCPacket
  Audio <- MCPacket
  SeqByte <- MCSeqByte
INVARIANTS
  SameLap
PROPERTIES
  ImplementsOrdered
  BufferedIsDelivered
