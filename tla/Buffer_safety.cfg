\* Buffer under its io.cpp callers, a reserving packer and head-chunk messages.
CONSTANTS
  Bytes <- MCBytes
  Cap <- MCCap
  ChunkMax <- MCChunkMax
  MaxIn <- MCMaxIn
  MaxAppend <- MCMaxAppend
  FramerLens <- MCFramerLens
  SpanMessages = FALSE
SPECIFICATION Spec
INVARIANT TypeOK
INVARIANT NoEmptyInterior
INVARIANT ContinuousCopy
PROPERTY RefinesByteStream
\* Once MaxIn bytes have passed through, the model has nothing left to do.
CHECK_DEADLOCK FALSE
