SPECIFICATION Spec
CONSTANTS
  Workers = {w1, w2}
  MaxUid = 2
  Limit = 2
  KeyOf <- UniqueKeys
  Mails <- AllPlain
  MaxCrashes = 0
INVARIANT ReturnedJobIsTerminal
