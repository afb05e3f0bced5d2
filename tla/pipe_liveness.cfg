SPECIFICATION FairSpec
CONSTANTS
  Handles = {h1, h2}
  Clients = {c1}
  Callbacks = {t1}
  Server = server
  None = None
  MaxSent = 1
  OutCap = 1
PROPERTY RequestAnswered
PROPERTY CallbackReturns
PROPERTY ShutdownCompletes
