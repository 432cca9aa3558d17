SPECIFICATION Spec
CONSTANTS
  t1 = t1
  t2 = t2
  common = common
  root = root
  Tab <- MCTab
  User <- MCUser
  Role <- MCRole
  MaxActs = 3
  MaxRequests = 3
  MaxFaults = 1
  None = None
INVARIANTS OneUserEverywhere LinksAreAllowed
PROPERTIES BoundToTheNamedUser OAuthEnds
CHECK_DEADLOCK FALSE
