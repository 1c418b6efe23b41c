\* Liveness under the order of spec 4.4 step 5: call main_routine, then clear.
CONSTANTS
  Qids <- MCQids
  MaxQueries <- MCMaxQueries
  MaskOrders = {FALSE}
SPECIFICATION FairSpec
PROPERTY EventuallyAnswered
\* The worker thread really ends (connect failure, stop): terminal states are legal.
CHECK_DEADLOCK FALSE
