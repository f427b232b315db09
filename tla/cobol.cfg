SPECIFICATION FairSpec
CONSTANTS
  Names <- MCNames
  WsNames <- MCWsNames
  Files <- MCFiles
  Bodies <- MCBodies
  CopyWindow = 10
  BlockWindow = 30
  Absent = Absent
  Unknown = Unknown
  Spaces = Spaces
CHECK_DEADLOCK FALSE
INVARIANT CobolInv
INVARIANT RefusalLeavesNothing
PROPERTY KeepsThePromise
PROPERTY EndsReadOrEmpty
