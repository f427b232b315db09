SPECIFICATION CorpusSpec
CONSTANTS
  Names <- MCNames
  Dsns <- MCDsns
  Bases <- MCBases
  BaseOf <- MCBaseOf
  Symbolic <- MCSymbolic
  Absent = Absent
  Unknown = Unknown
  NoEntity = NoEntity
  Decks <- MCDecks
  CsdNames <- MCCsdNames
  Corpora <- MCCorpora
  GraphIds <- MCGraphIds
  MaxLines = 4
CHECK_DEADLOCK FALSE
INVARIANT CorpusInv
INVARIANT DdsFollowTheirStep
INVARIANT SysinNamesTheProgram
INVARIANT EveryStatementObserved
INVARIANT CsdInv
INVARIANT HandOverKeepsContract
INVARIANT GraphFollowsTheFiles
