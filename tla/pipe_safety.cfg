SPECIFICATION Spec
CONSTANTS
  Handles = {h1, h2}
  Clients = {c1, c2}
  Callbacks = {t1, t2}
  Server = server
  None = None
  MaxSent = 2
  OutCap = 1
SYMMETRY Symmetry
INVARIANT TypeOK
INVARIANT CellTracksSession
INVARIANT LockNesting
INVARIANT OneLiveInstance
INVARIANT HandleAccounting
INVARIANT OneRequestInFlight
INVARIANT AtMostOneLateSession
PROPERTY WritesUnderLocks
PROPERTY HangsUpOnlyOnLimit
PROPERTY ImplementsRpcSession
