SPECIFICATION ConsoleSpec
CONSTANT
  Descriptors <- EveryThree
INVARIANTS
  FinalizationIsPossible
  SkipsSayWhy
  GreenBuildIsProved
  ConsoleConforms
  OnlyTheFinalLineCorrects
  FinalLineTellsTheColour
PROPERTIES
  BuildEnds
  KeepsPromise
