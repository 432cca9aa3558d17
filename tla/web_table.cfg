CONSTANTS
  Id <- MCId
  ItemsPerPage = 2
  MaxActs = 4
  MaxHasty = 2
SPECIFICATION Spec
CHECK_DEADLOCK FALSE
INVARIANTS TypeOK RowsTellTheTruth NoRowTwice
PROPERTY AnswersMarkTheirRow
