SPECIFICATION Spec
CONSTANTS
  ByteOrder <- Bytewise
  CultureOrder <- Cultural
  WindowsTexts <- ErrorTexts
  Base = 2
  MaxPayload = 2
  Requests <- SomeRequests
  MaxCalls = 2
CHECK_DEADLOCK FALSE
INVARIANT FormsAgree
