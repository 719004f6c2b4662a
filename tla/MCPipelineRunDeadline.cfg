SPECIFICATION Spec
CONSTANT
  Descriptors <- Implemented
INVARIANT
  DeadlineSkipMeansNoWork
