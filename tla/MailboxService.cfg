SPECIFICATION Spec
CONSTANTS
  Sessions = {s1, s2}
  Provider = "gmail"
  Life = 3
  Skew = 1
  MaxMessages = 2
SYMMETRY SessionSymmetry
INVARIANTS TypeOK DisconnectHolds CountersNeverExceed ConnectsWithLiveToken
CHECK_DEADLOCK FALSE
