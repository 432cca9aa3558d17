CONSTANTS
  Short = Short
  Long = Long
  Key = {Short, Long}
  Limit <- MCLimit
  Expiration = 3
  Late = 1
  Horizon = 8
  None = None
SPECIFICATION Spec
INVARIANTS AtMostNumPerDuration QuietKeysAreForgotten
PROPERTY ImplementsSlidingWindow
