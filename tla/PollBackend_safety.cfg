\* The slot table and the walk, with one modify() per callback.
CONSTANTS
  f1 = f1
  f2 = f2
  f3 = f3
  Fds <- MCFds
  MaxCallbackMods = 1
  MaxWaits = 1
SPECIFICATION Spec
SYMMETRY MCSymmetry
INVARIANT TypeOK
INVARIANT IndexConsistent
INVARIANT TableMatchesInterest
\* The walk's read past the array ends the model (the code's behaviour
\* after it is undefined), and MaxWaits bounds the number of polls.
CHECK_DEADLOCK FALSE
