CONSTANTS
  Id = {u1, u2, u3}
  Client = {c1, c2}
  NoRow = NoRow
  ReuseIds = FALSE
  MaxBirth = 3
  MaxSecret = 1
SYMMETRY Interchangeable
SPECIFICATION AccountsSpec
INVARIANTS  OneRoot
PROPERTY DeletedStaysDeleted
