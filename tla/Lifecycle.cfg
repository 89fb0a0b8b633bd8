SPECIFICATION Spec
CONSTANTS
  Policies <- AllPolicies
  Capabilities = {"mark_as_spam", "move_messages", "delete_messages"}
  Requests = {r1, r2, r3}
  Operations = {"release", "mark_safe", "delete_item", "release_email", "delete_email"}
SYMMETRY RequestSymmetry
INVARIANTS TypeOK ItemMatchesEmail MarkedSafeIsClean MessageKept
PROPERTIES PolicyKeepsDecision
CHECK_DEADLOCK FALSE
