SPECIFICATION Spec
CONSTANTS
  a = a
  b = b
  c = c
  Paths = {a, b, c}
  Old = "v0"
  Packages <- SomePackages
  None = None
CHECK_DEADLOCK FALSE
INVARIANT RestartsReplaced
