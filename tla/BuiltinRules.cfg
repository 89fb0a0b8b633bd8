SPECIFICATION MailSpec
CONSTANTS
  Settings <- SomeSettings
  Letters = {"a", "l", "1"}
  Leetspeak <- Undone
  Brands <- TwoBrands
  Senders <- SomeSenders
  Links <- SomeLinks
  Attachments <- SomeAttachments
  MaxPhrases = 2
  MaxChanges = 3
INVARIANTS VerdictsAreCorroborated RowsAreDistances
PROPERTY EvidenceAddsUp
CHECK_DEADLOCK FALSE
