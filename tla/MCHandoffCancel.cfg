SPECIFICATION Spec
CONSTANT MaxSignals = 1
INVARIANT CancellationSettlesReceipt
