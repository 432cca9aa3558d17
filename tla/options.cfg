CONSTANTS
  Switch <- MCSwitch
  Setting <- MCSetting
  Hidden <- MCHidden
  Needs <- MCNeeds
  Group <- MCGroup
  Rank <- MCRank
  Default <- MCDefault
  Kept <- MCHidden
  Other <- MCOwn
  Own <- MCOwn
  Text <- MCText
  Trim <- MCTrim
  Page = {p1, p2}
  MaxEdits = 2
  None = None
SYMMETRY Interchangeable
SPECIFICATION Spec
INVARIANTS RestartChangesNothing SwitchedOnOnceConfigured 
 
