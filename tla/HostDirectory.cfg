\* Four addresses; the guard looks at three hosts, so that a chain can be too long.
SPECIFICATION Spec
CONSTANTS
  a = a
  b = b
  c = c
  d = d
  None = None
  NoHost = NoHost
  Address = {a, b, c, d}
  MaxWalk = 3
  MaxFile = 2
SYMMETRY Addresses
INVARIANTS
  LoopsPastTheGuard
  GuardExact
