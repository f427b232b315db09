SPECIFICATION Spec
CONSTANTS
  Names <- MCNames
  Blank = Blank
  Operands <- MCOperands
  NoOperand = NoOperand
  Sources <- MCSources
  MaxLines = 5
CHECK_DEADLOCK FALSE
INVARIANT BmsInv
INVARIANT DeclarationsHaveTheirPlace
