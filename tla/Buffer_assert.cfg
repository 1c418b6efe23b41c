\* check_used_ctx's assertion for messages that straddle chunks.
CONSTANTS
  Bytes <- MCBytes
  Cap <- MCCap
  ChunkMax <- MCChunkMax
  MaxIn <- MCMaxIn
  MaxAppend <- MCMaxAppend
  FramerLens <- MCFramerLens
  SpanMessages = TRUE
SPECIFICATION Spec
INVARIANT ContinuousAssert
\* Once MaxIn bytes have passed through, the model has nothing left to do.
CHECK_DEADLOCK FALSE
