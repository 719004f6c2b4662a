SPECIFICATION Spec
CONSTANT MaxSignals = 2
INVARIANTS
  SubmissionIsWrittenAhead
  ReceiptTellsTruth
  PublishedBundleIsExplained
  ExitAgreesWithReceipt
  CancellationWasAsked
PROPERTIES
  ReceiptOnlyGrows
  HandoffEnds
  KeepsPromise
