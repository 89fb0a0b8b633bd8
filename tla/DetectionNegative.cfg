SPECIFICATION Spec
CONSTANTS
  Builtins <- LoudBuiltins
  RuleIds = {c1}
  Categories = {"custom", "scam"}
  Scores <- SomeScores
  Conditions <- SomeConditions
  Texts = {"wire", "gift"}
  Messages <- LoudMessages
  Settings <- SomeSettings
  MaxEdits = 2
INVARIANT LabelHasEvidence
