\* Two accounts, two sessions, two requests under way; one call breaks off.
SPECIFICATION FairSpec
CONSTANTS
  a = a
  b = b
  t1 = t1
  t2 = t2
  r1 = r1
  r2 = r2
  NoSession = NoSession
  NoRequest = NoRequest
  Account = {a, b}
  First = a
  Token = {t1, t2}
  Request = {r1, r2}
  MaxFailed = 2
  Lockout = 1
  AdminIdle = 1
  AdminLimit = 1
  UserLimit = 2
  MaxFaults = 1
INVARIANTS
  AdminRemains
  SessionFollowsRole
  AbsoluteLimit
  GuessesLimited
  RevocationComplete
PROPERTIES
  SessionsEnd
