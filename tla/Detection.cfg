SPECIFICATION Spec
CONSTANTS
  Builtins <- SomeBuiltins
  RuleIds = {c1}
  Categories = {"custom", "scam"}
  Scores <- SomeScores
  Conditions <- SomeConditions
  Texts = {"wire", "gift"}
  Messages <- SomeMessages
  Settings <- SomeSettings
  MaxEdits = 2
INVARIANTS TypeOK BadRuleIsContained LabelRestsOnEvidence JoinersLeftToRight AgreedClassKept
PROPERTY MoreEvidenceNeverLowersRisk
