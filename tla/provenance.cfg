SPECIFICATION Spec
CONSTANTS
  Code <- MCCode
  Blank = Blank
  Joined = Joined
  Starts <- MCStarts
  CopyLines <- MCCopyLines
  CopyOf <- MCCopyOf
  BookOrder <- MCBookOrder
  Corpora <- MCCorpora
  MaxLines = 3
CHECK_DEADLOCK FALSE
INVARIANT ProvenanceInv
INVARIANT OriginsMatch
INVARIANT OriginsAreTrue
