SPECIFICATION Spec
CONSTANTS
  Names <- MCNames
  Filler = Filler
  Absent = Absent
  Clause = Clause
  Copybooks <- AllLayouts
  MaxEntries = 4
CHECK_DEADLOCK FALSE
INVARIANT DataItemsInv
INVARIANT HierarchyFollowsLevels
INVARIANT TypesHoldTheirValues
