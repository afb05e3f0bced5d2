SPECIFICATION Spec
CONSTANTS
  Calls = {k1, k2}
  None = None
  Window = 1
  Timeout = 1
  Delays = {2}
  Sent <- AllSorts
  Epoch = 4
  Settings = {2, 9}
  MaxAdjusted = 1
  MaxTime = 3
SYMMETRY Symmetry
CHECK_DEADLOCK FALSE
INVARIANT TypeOK
INVARIANT NoGhostExecution
INVARIANT StaleOnlyBehindDelay
