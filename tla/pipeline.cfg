SPECIFICATION Spec
CONSTANTS
  Cobol <- MCCobol
  Other <- MCOther
  Order <- MCOrder
  Whole = 2
  MaxRuns = 2
CHECK_DEADLOCK FALSE
INVARIANT PipelineInv
INVARIANT RerunRepairs
INVARIANT FailureStaysInItsFile
INVARIANT ExitTellsFaults
