\* Safety of the worker hand-offs under both mask-clearing orders, and
\* liveness under the order that takes the bits before main_routine.
CONSTANTS
  Qids <- MCQids
  MaxQueries <- MCMaxQueries
  MaskOrders = {FALSE, TRUE}
SPECIFICATION FairSpec
INVARIANT TypeOK
INVARIANT FifoDelivery
INVARIANT QuiescenceSound
INVARIANT ReadyBeforeResult
PROPERTY AnsweredWhenClearedFirst
\* The worker thread really ends (connect failure, stop): terminal states are legal.
CHECK_DEADLOCK FALSE
