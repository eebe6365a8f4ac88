\* Two profiles and three fetches, with every configuration.
SPECIFICATION Spec
CONSTANTS
  Profile = {bp, vp}
  None = None
  Fetcher = {startup, request1, request2}
SYMMETRY Interchangeable
INVARIANTS
  AnnouncedOnce
  NothingForgotten
  Shown
CHECK_DEADLOCK FALSE
