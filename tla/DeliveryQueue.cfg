\* Three deliveries on two channels, rounds of two, one fault.
SPECIFICATION FairSpec
CONSTANTS
  None = 0
  Delivery = {1, 2, 3}
  Channel = {"sms", "webhook"}
  ChannelOf <- TwoChannels
  Flaky = {"sms"}
  Batch = 2
  GiveUp = 2
  Delay <- Delays
  Instant = {1, 2}
  Lag = 0
  MaxFaults = 1
INVARIANTS
  SettledForCause
  TwiceOnlyAfterSlip
  RetriesPaced
PROPERTIES
  NoOvertaking
  AlwaysSettled
  WorkingChannelServed
