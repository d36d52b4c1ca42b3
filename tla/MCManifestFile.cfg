CONSTANTS
  U64Max = 6
  MaxSize = 5
  ChunkSizes <- MCChunkSizes
  IdLengths <- MCIdLengths
  U16Max = 3
  U32Max = 85
  MaxFrame = 83
SPECIFICATION Spec
INVARIANTS
  MergeExact
  MissingExact
  ResumeCompletes
  CopiesAgree
