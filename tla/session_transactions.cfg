SPECIFICATION Spec
CONSTANTS
  MessageBytes = 15
  EnvelopeBytes = 7
  FrameBytes = 11
  MacroBytes = 3
  MaxHeaders = 2
  MaxRecipients = 2
  MaxModifications = 2
  BodyChunk = 4
  WantedActions <- ActionBits
  Subscriptions <- AllSubscriptions
  Offers <- SomeOffers
  Envelopes <- TwoEnvelopes
  HeaderFields <- TwoFields
  BodySizes = {0, 3}
  BatchSizes = {}
  Decisions <- PlainDecisions
INVARIANTS TypeOK ReplyBalance TransactionShape CallbackHasContext RawMessageFits
PROPERTY RefusalIsFinal
CHECK_DEADLOCK FALSE
