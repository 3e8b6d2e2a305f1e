SPECIFICATION TranslateSpec
CONSTANTS
  Sessions <- SomeSessions
  NewValues <- GoodAndBadValues
  NewNames <- OneName
  NewAddresses <- SomeAddresses
  Replacements <- SomeReplacements
  BadReplacements <- NoMessages
  Actions = {"reject", "discard", "quarantine"}
  Answers = {"scalar"}
  MaxHeaders = 4
  MaxRecipients = 2
  MaxModifications = 6
  MaxOperations <- UpToOperations
  MessageBytes = 24
INVARIANTS TranslateTypeOK EchoIsNoop OneFieldEach CountsHeld
PROPERTIES DeliversEdits
CHECK_DEADLOCK FALSE
