SPECIFICATION FairSpec
CONSTANTS
  Handles = {h1}
  Clients = {c1}
  Callbacks = {t1}
  Server = server
  None = None
  MaxSent = 1
  OutCap = 1
PROPERTY CallbacksAtAnyTime
