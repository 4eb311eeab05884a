\* A host behind another, polled equally often; no faults.
SPECIFICATION FairSpec
CONSTANTS
  core = core
  leaf = leaf
  NoHost = NoHost
  NoState = NoState
  NoRow = NoRow
  Host = {core, leaf}
  Channel = {"sms", "webhook"}
  Sms = "sms"
  Parent <- LeafOnCore
  MaxAge = 1
  FailPeriod <- OneTick
  SuccessPeriod <- OneTick
  Interval <- OneTick
  Knobs = {"alarms","live"}
  MaxFaults = 0
  MaxTorn = 0
PROPERTIES
  DampedBehindParent
