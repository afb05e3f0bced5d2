SPECIFICATION FairSpec
CONSTANTS
  Calls = {k1, k2}
  None = None
  Notices = 1
  WireCap = 1
  InboxCap = 2
CHECK_DEADLOCK FALSE
INVARIANT TypeOK
INVARIANT OwnAnswer
INVARIANT PendingAccounting
INVARIANT SerialFramesWhole
PROPERTY CallReturns
PROPERTY DisposeReturns
