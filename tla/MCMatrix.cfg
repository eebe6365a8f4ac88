\* Five chunks over three sequence numbers, two frames under way at a time, a matrix that
\* fails twice; two fetches and a crosspoint, two helper processes one after the other.
SPECIFICATION MCSpec
CONSTANTS
  Chunks = 5
  SeqSpace = 3
  OldFrom = 4
  MaxComing = 2
  MaxFaults = 2
  Names = {"fetch", "refetch"}
  Crosspoints = {"crosspoint"}
  Helpers = {"helper", "successor"}
  None = "none"
INVARIANT
  OneConnection
PROPERTIES
  ImplementsFetch
  FetchSettles
  HelperSettles
CHECK_DEADLOCK FALSE
