SPECIFICATION Spec
CONSTANTS
  Dispatches = {d1, d2, d3}
  Descriptors <- NoAdapters
  Stubborn = {}
SYMMETRY AnyOrder
INVARIANTS
  OneDispatcherWorks
PROPERTIES
  NothingIsReplaced
