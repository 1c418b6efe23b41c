\* A callback that deregisters a reported fd sends the walk into popped storage.
CONSTANTS
  f1 = f1
  f2 = f2
  f3 = f3
  Fds <- MCFds
  MaxCallbackMods = 1
  MaxWaits = 1
SPECIFICATION Spec
INVARIANT DispatchOnce
CHECK_DEADLOCK FALSE
