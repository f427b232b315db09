SPECIFICATION Spec
CONSTANTS
  Ids <- MCIds
  TypeOf <- MCTypeOf
  Files <- MCFiles
  FileOf <- MCFileOf
  Paths <- MCPaths
  DDs <- MCDDs
  NoId = NoId
  NoEntity = NoEntity
  Inputs <- MCInputs
CHECK_DEADLOCK FALSE
INVARIANT ResolverInv
INVARIANT EdgesClosed
INVARIANT PartialsReportedOnce
INVARIANT NothingDropped
INVARIANT DynamicNeverPromoted
INVARIANT ObservedOutranksReferenced
INVARIANT OnlineFilesBound
INVARIANT ExpansionComplete
INVARIANT MixedExpansionInLedger
INVARIANT CouplingMatchesPaths
INVARIANT VerdictFollowsFromSources
PROPERTY SkeletonOnlyGrows
PROPERTY RefinesSkeleton
