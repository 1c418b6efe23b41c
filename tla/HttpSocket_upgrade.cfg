\* Bytes that follow an upgrade request in the stream.
CONSTANTS
  Streams <- MCStreams
  MaxRecv = 3
  NULL = NULL
SPECIFICATION Spec
INVARIANT NoBytesDropped
CHECK_DEADLOCK FALSE
