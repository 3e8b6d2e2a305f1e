SPECIFICATION FairConnSpec
CONSTANTS
  MessageBytes = 7
  EnvelopeBytes = 3
  FrameBytes = 11
  MacroBytes = 0
  MaxHeaders = 1
  MaxRecipients = 2
  MaxModifications = 2
  BodyChunk = 4
  WantedActions <- ActionBits
  Subscriptions <- MoreSubscriptions
  Offers <- TwoOffers
  Envelopes <- TwoEnvelopes
  HeaderFields <- OneField
  BodySizes = {1}
  BatchSizes = {}
  Decisions <- ManyDecisions
  FailOpen = FALSE
  MaxInFlight = 2
  MaxProgress = 1
INVARIANTS ConnTypeOK OneReplyPerCommand MessageAgreement ConformingNeverRefused FailClosed StopKeepsReplies
PROPERTIES AnsweredOrEnded StopEndsConnection
CHECK_DEADLOCK FALSE
