\* Lines of LOG_MAX_LENGTH bytes or more.
CONSTANTS
  CtxSize <- MCCtxSize
  Lens <- MCAllLens
  MaxWrites = 3
  Paths <- MCPaths
SPECIFICATION Spec
INVARIANT CtxInBounds
