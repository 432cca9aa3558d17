CONSTANTS
  Email = {e1}
  GitHubEmail = {}
  Provider = {"github"}
  Identity = {x1}
  Client = {c1, c2}
  Valid = 1
  MaxSize = 1
  MaxId = 2
  MaxCode = 3
  Horizon = 1
  None = None
SYMMETRY Interchangeable
SPECIFICATION Spec
INVARIANTS  MapIsSwept 
PROPERTIES ResetCodeIsSpent CodesStayGood
