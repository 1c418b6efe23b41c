\* Four requests, two requests then a non-HTTP byte, and an upgrade; the
\* Reactor and the script's handler scheduled fairly.
CONSTANTS
  Streams <- MCStreams
  MaxRecv = 3
  NULL = NULL
SPECIFICATION FairSpec
INVARIANT MessagesIntact
PROPERTY EventuallyRead
CHECK_DEADLOCK FALSE
