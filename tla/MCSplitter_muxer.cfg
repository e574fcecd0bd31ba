SPECIFICATION LiveSpec
CONSTANTS
  Queue = {q1}
  MaxWrites = 5
  Size <- Sizes
  MaxFileSize = 3
  Limits = {0, 7}
  Word = 64
  Serialized = TRUE
  MaxInodes = 8
  MaxRestarts = 2
  MaxCrashes = 1
INVARIANT TypeOK
 
 
PROPERTY ImplementsFile
PROPERTY EveryChunkRead
\* Everything written and read, at the limit: the owner only waits.
CHECK_DEADLOCK FALSE
