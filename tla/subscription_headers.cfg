CONSTANTS
  Id = {i1}
  Token = {t1}
  Url = {u1}
  Variant = {default}
  Client = {c1, c2}
  ReuseIds = FALSE
  Time = {1}
  Body = {b1, b2}
  Request <- MCRequest
  NoRow = NoRow
  NoOne = NoOne
SYMMETRY Interchangeable
SPECIFICATION HeaderSpec
INVARIANTS NotModifiedIsTrue 
