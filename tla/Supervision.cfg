\* Two ports, a tick of grace, an alarm after two, and one channel.
SPECIFICATION Spec
CONSTANTS
  Port = {7999, 8000}
  Closed = 0
  Running = 99
  Grace = 1
  Normal = 99
  AlarmSec = 2
  Channel = {"smtp"}
  MaxFaults = 1
INVARIANTS
  PauseSeen
PROPERTIES
  SlowSustained
  SlowPaired
  HeartbeatHeard
  SlowTold
