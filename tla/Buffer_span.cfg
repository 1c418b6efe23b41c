\* Messages that straddle chunks: remove() against the byte-stream contract.
CONSTANTS
  Bytes <- MCBytes
  Cap <- MCCap
  ChunkMax <- MCChunkMax
  MaxIn <- MCMaxIn
  MaxAppend <- MCMaxAppend
  FramerLens <- MCFramerLens
  SpanMessages = TRUE
SPECIFICATION Spec
PROPERTY RefinesByteStream
\* Once MaxIn bytes have passed through, the model has nothing left to do.
CHECK_DEADLOCK FALSE
