SPECIFICATION FairSpec
CONSTANTS
  Workers = {w1, w2}
  MaxUid = 2
  Limit = 2
  KeyOf <- UniqueKeys
  Mails <- NoneOversize
  MaxCrashes = 1
PROPERTIES EventuallyStored ScansEnd
