\* Two addresses and two hosts.
SPECIFICATION Spec
CONSTANTS
  Address = {"a", "b"}
  Id = {1, 2}
  NoHost = 0
  NoRow = NoRow
PROPERTIES
  OwnNews
