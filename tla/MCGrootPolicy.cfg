SPECIFICATION PolicySpec
CONSTANTS
  ChunkLength = 3
  MaxQueries = 5
  NoAction = NoAction
INVARIANTS
  PolicyTypeOK
  QueueIsRestOfChunk
  EmittedIsDeclared
PROPERTY StreamRefinement
