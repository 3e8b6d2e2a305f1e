SPECIFICATION TranslateSpec
CONSTANTS
  Sessions <- SomeSessions
  NewValues <- EmptyOrNot
  NewNames <- OneName
  NewAddresses <- SomeAddresses
  Replacements <- SomeReplacements
  BadReplacements <- NoMessages
  Actions = {"reject", "discard", "quarantine"}
  Answers = {"scalar"}
  MaxHeaders = 4
  MaxRecipients = 2
  MaxModifications = 6
  MaxOperations <- UpToOperations
  MessageBytes = 24
INVARIANTS IndexesStayValid
CHECK_DEADLOCK FALSE
