\* One host, two codes, two recipients, one text, any number of restarts, one call that breaks off.
SPECIFICATION FairSpec
CONSTANTS
  h1 = h1
  a7 = a7
  b3 = b3
  m1 = m1
  NoCode = NoCode
  NoSession = NoSession
  NoMessage = NoMessage
  Host = {h1}
  Code = {a7, b3}
  Message = {m1}
  Chain = 2
  Escalation = 1
  AckWindow = 3
  Keep = 3
  MaxFaults = 1
INVARIANTS
  AckDeserved
  ExhaustedAfterAll
PROPERTIES
  ClosedForGood
  NoCallAfterWindow
  EverySessionEnds
