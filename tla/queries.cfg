SPECIFICATION GoldSpec
CONSTANTS
  Ids <- MCIds
  Unresolved = {"CDEMO-TO-PROGRAM"}
  None = None
  Catalogs <- MCCatalogs
  Inputs <- MCInputs
  Golds <- Documents
  JobOf <- MCJobOf
  Skip = Skip
  MaxEdges = 3
CHECK_DEADLOCK FALSE
INVARIANT QueriesInv
INVARIANT ReachableIsTheClosure
INVARIANT AnswersAgree
INVARIANT GoldVerdict
