SPECIFICATION Spec
CONSTANTS
  MessageBytes = 14
  EnvelopeBytes = 2
  FrameBytes = 11
  MacroBytes = 2
  MaxHeaders = 2
  MaxRecipients = 2
  MaxModifications = 2
  BodyChunk = 4
  WantedActions <- ActionBits
  Subscriptions <- EveryStage
  Offers <- CapabilityOffers
  Envelopes <- OneEnvelope
  HeaderFields <- OneField
  BodySizes = {0}
  BatchSizes = {1, 2}
  Decisions <- EditDecisions
INVARIANTS OutputFits MacroScope MacroBudget RequestIsCurrent
PROPERTIES TransactionEndResets EditsOnlyAtAcceptedEom
CHECK_DEADLOCK FALSE
