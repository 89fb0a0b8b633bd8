SPECIFICATION Spec
CONSTANTS
  MaxUid = 4
  Limit = 2
  Watermark = 1
  Message = 2
  Operations <- PolicyOperations
INVARIANTS TypeOK FetchIsExact SingleLossIsSurvived MoveIsSafe
PROPERTIES CallsEnd
CHECK_DEADLOCK FALSE
