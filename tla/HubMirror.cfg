\* One browser joins while a key changes.
SPECIFICATION Spec
CONSTANTS
  Client = {c1}
  Broadcaster = {rx}
  Key = {k1}
  Coverage <- WholePanel
  Capacity = 3
  MaxBroadcasts = 2
INVARIANTS
  Mirrors
CHECK_DEADLOCK FALSE
