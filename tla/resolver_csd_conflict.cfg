SPECIFICATION Spec
CONSTANTS
  Ids <- MCIds
  TypeOf <- MCTypeOf
  Files <- MCFiles
  FileOf <- MCFileOf
  Paths <- MCPaths
  DDs <- MCDDs
  NoId = NoId
  NoEntity = NoEntity
  Inputs <- OnlineInputs
CHECK_DEADLOCK FALSE
INVARIANT CsdConflictInLedger
