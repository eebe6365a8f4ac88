SPECIFICATION MCSpec
\* Of the device: queues of two, chunks of two samples, callbacks that want one sample or,
\* more than is buffered, five.
CONSTANTS
  QueueFrames = 2
  Period = 2
  BufferedFrames = 2
  Needs = {1, 5}
  MaxChunks = 4
  MaxCaptures = 4
\* Of the selection: two panels with three requests, one of which may fail.
CONSTANTS
  Panels = {p1, p2}
  Ids = {"a", "b"}
  Keep = "same"
  Requests <- SomeRequests
  MaxRequests = 3
  MaxFailures = 1
\* Of browsers that talk: two connections, one rate that is a multiple of the line's and one
\* that is not; messages of less than a block, and of several.
CONSTANTS
  Client = {c1, c2}
  Rates = {2, 3, 5}
  LineRate = 2
  FrameSamples = 2
  Sizes = {1, 2, 7}
  MaxSamples = 9
  MaxConfigs = 2
\* Of the jitter buffer: a sample has four parts; the ceiling is passed, and the ring
\* overflows by one message.
CONSTANTS
  Unit = 4
  Capacity = 16
  Block = 3
  Targets = {6, 8}
  HardMax = 10
  PacketFrames = 2
  MinSilenceFrames = 2
  CrossfadeFrames = 4
  MinRate = 3
  MaxRate = 5
  MessageSizes = {4, 17}
  MaxReceived = 25
INVARIANTS
  ToldRight
  NoSeam
  PlaysForward
PROPERTIES
  Merges
  DeviceHolds
SYMMETRY Alike
CHECK_DEADLOCK FALSE
