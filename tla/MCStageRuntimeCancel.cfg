SPECIFICATION Spec
CONSTANTS
  Helpers = {h1, h2}
  WorkLimit = 2
  Grace = 1
  RunBudget = 3
INVARIANT
  CancellationEndsTheTree
