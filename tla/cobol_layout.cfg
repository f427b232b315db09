SPECIFICATION Spec
CONSTANTS
  Names <- MCNames
  WsNames <- MCWsNames
  Files <- SmallFiles
  Bodies <- MCBodies
  CopyWindow = 10
  BlockWindow = 30
  Absent = Absent
  Unknown = Unknown
  Spaces = Spaces
CHECK_DEADLOCK FALSE
INVARIANT LayoutsComeFromFileSection
