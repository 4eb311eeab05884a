\* Two accounts, one of which names its modem; the queue with two recipients and
\* an administrator who verifies.
SPECIFICATION Spec
CONSTANTS
  Account = {"a", "b"}
  Manual = {"b"}
  Recipient = {"r1", "r2"}
  Sender = {"queue"}
  Reader = {"admin"}
  Verifier = {"admin"}
  None = None
  MaxPause = 2
  MaxTrouble = 2
INVARIANTS
  AtHome
  LoginsSpaced
PROPERTIES
  TextedOnce
  CallsEnd
  QueueServed
