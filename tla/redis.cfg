CONSTANTS
  Client = {c1, c2, c3}
  Key = {k1}
  Limit <- MCLimit
  Expiration = 2
  Prompt = TRUE
  MaxFaults = 1
  Horizon = 6
  None = None
SPECIFICATION Spec
SYMMETRY Interchangeable
INVARIANT OvershootBounded
PROPERTIES
  DenialsAreDeserved
  ImplementsSlidingWindow
