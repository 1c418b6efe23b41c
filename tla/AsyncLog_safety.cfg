\* Lines shorter than LOG_MAX_LENGTH, with the log thread scheduled fairly.
CONSTANTS
  CtxSize <- MCCtxSize
  Lens <- MCShortLens
  MaxWrites = 3
  Paths <- MCPaths
SPECIFICATION FairSpec
PROPERTY RefinesLineQueue
INVARIANT CtxInBounds
