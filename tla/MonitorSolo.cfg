\* One host, one channel, everything an operator can do, one fault.
SPECIFICATION FairSpec
CONSTANTS
  core = core
  leaf = leaf
  NoHost = NoHost
  NoState = NoState
  NoRow = NoRow
  Host = {core}
  Channel = {"sms"}
  Sms = "sms"
  Parent <- NoParents
  MaxAge = 1
  FailPeriod <- OneTick
  SuccessPeriod <- OneTick
  Interval <- OneTick
  Knobs = {"live", "alarms", "channels", "sms", "held", "enabled"}
  MaxFaults = 1
  MaxTorn = 1
INVARIANTS
  FeedMatchesReported
PROPERTIES
  
  KeepsContract
  OutageTold
  RecoveryTold

