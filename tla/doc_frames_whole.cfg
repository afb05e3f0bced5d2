SPECIFICATION Spec
CONSTANTS
  Calls = {k1, k2}
  None = None
  Notices = 0
  WireCap = 2
  InboxCap = 2
CHECK_DEADLOCK FALSE
INVARIANT FramesWhole
