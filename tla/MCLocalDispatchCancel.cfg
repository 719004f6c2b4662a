SPECIFICATION Spec
CONSTANTS
  Dispatches = {d1, d2}
  Descriptors <- FixtureBehindAdapter
  Stubborn = {d1}
INVARIANT FinishedBundleStays
