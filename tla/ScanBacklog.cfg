SPECIFICATION Spec
CONSTANTS
  Workers = {w1}
  MaxUid = 2
  Limit = 1
  KeyOf <- UniqueKeys
  Mails <- AllPlain
  MaxCrashes = 0
INVARIANT WatermarkCovered
