CONSTANTS
  Id = {i1}
  Token = {t1, t2}
  Url = {u1}
  Variant = {default, clash}
  Client = {c1, c2}
  ReuseIds = FALSE
  Time <- MCTime
  NoRow = NoRow
  NoOne = NoOne
SYMMETRY Interchangeable
SPECIFICATION Spec
 
PROPERTIES
  CopyNeverGoesBack
  NeverOlderThanDelivered
  CopyOutlivesFailures
  ImplementsFixedLink
