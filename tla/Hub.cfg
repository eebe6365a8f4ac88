\* One broadcaster, one browser, two keys.
SPECIFICATION FairSpec
CONSTANTS
  Client = {c1}
  Broadcaster = {rx}
  Key = {k1, k2}
  Coverage <- WholePanel
  Capacity = 2
  MaxBroadcasts = 3
INVARIANTS
  SnapshotIsHistory
  UndisturbedMirrors
PROPERTIES
  NobodyWaits
CHECK_DEADLOCK FALSE
