\* Three addresses, nothing is imported.
SPECIFICATION Spec
CONSTANTS
  a = a
  b = b
  c = c
  d = d
  None = None
  NoHost = NoHost
  Address = {a, b, c}
  MaxWalk = 3
  MaxFile = 0
SYMMETRY Addresses
INVARIANTS
  NoSilentLoop
