CONSTANTS
  Id = {i1, i2}
  Token = {t1, t2}
  Url = {u1}
  Variant = {default}
  Client = {c1, c2}
  ReuseIds = FALSE
  Time <- MCTime
  NoRow = NoRow
  NoOne = NoOne
  Slow = {i1}
SPECIFICATION LiveSpec
PROPERTY EveryRequestAnswered
