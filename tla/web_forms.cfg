SPECIFICATION Spec
CONSTANTS
  x = x
  y = y
  Form <- MCForm
  Text <- MCText
  Blank = Blank
  MaxClicks <- MCMaxClicks
  MaxOthers = 1
  MaxTokens = 2
  MaxFaults = 1
  None = None
INVARIANTS TypeOK CleanFieldsAreSaved  
PROPERTIES OnlyEditsAreWritten 
CHECK_DEADLOCK FALSE
