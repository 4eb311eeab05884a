\* Two users, three endpoints; the secrets are the key of web push and another one.
SPECIFICATION Spec
CONSTANTS
  u1 = u1
  u2 = u2
  e1 = e1
  e2 = e2
  e3 = e3
  User = {u1, u2}
  Endpoint = {e1, e2, e3}
  Legacy = Legacy
  Absent = Absent
  NoCommand = NoCommand
  Secret = {"vapid", "sms"}
  MaxValue = 2
  Sender = {"queue"}
  MaxPerUser = 1
  MaxAll = 2
  MaxLegacy = 1
  MaxRequests = 2
  MaxMeddling = 1
SYMMETRY Interchangeable
INVARIANTS
  QuotasKept
  NoticedOnce
  DeliveredReached
PROPERTIES
  KeyKept
  NothingUndone
