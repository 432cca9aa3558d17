CONSTANTS
  Id = {i1}
  Token = {t1}
  Url = {u1, u2}
  Variant = {default}
  Client = {c1, c2}
  ReuseIds = FALSE
  Time <- MCTime
  NoRow = NoRow
  NoOne = NoOne
SPECIFICATION Spec
PROPERTY CopyFollowsAddress
