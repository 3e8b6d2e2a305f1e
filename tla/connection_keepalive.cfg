SPECIFICATION ConnSpec
CONSTANTS
  MessageBytes = 8
  EnvelopeBytes = 2
  FrameBytes = 11
  MacroBytes = 0
  MaxHeaders = 1
  MaxRecipients = 2
  MaxModifications = 2
  BodyChunk = 4
  WantedActions <- ActionBits
  Subscriptions <- TwoSubscriptions
  Offers <- TwoOffers
  Envelopes <- OneEnvelope
  HeaderFields <- OneField
  BodySizes = {1}
  BatchSizes = {}
  Decisions <- FewDecisions
  FailOpen = FALSE
  MaxInFlight = 1
  MaxProgress = 1
INVARIANTS KeepaliveFailureIsFatal
CHECK_DEADLOCK FALSE
