SPECIFICATION Spec
CONSTANTS
  Workers = {w1, w2}
  MaxUid = 3
  Limit = 3
  KeyOf <- CopiedMessage
  Mails <- NoneTrusted
  MaxCrashes = 1
SYMMETRY WorkerSymmetry
INVARIANTS TypeOK OneRowPerMessage WatermarkCovered AnalysedIsInFlight NoWaitCycle
PROPERTIES LoneJobIsTerminal ImplementsIngestion WatermarkNeverMovesBack
