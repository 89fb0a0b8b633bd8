SPECIFICATION Spec
CONSTANTS
  Sessions = {s1, s2}
  Emails = {e1, e2}
  Names = {n1}
  MaxRequests = 5
SYMMETRY Symmetry
INVARIANTS TypeOK EveryOrganizationHasOneAccount AnswersHold
PROPERTIES LockOutIsFinal
CHECK_DEADLOCK FALSE
