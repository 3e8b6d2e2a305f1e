SPECIFICATION Spec
CONSTANTS
  MessageBytes = 14
  EnvelopeBytes = 2
  FrameBytes = 11
  MacroBytes = 3
  MaxHeaders = 2
  MaxRecipients = 2
  MaxModifications = 2
  BodyChunk = 4
  WantedActions <- ActionBits
  Subscriptions <- EveryStage
  Offers <- FullOffer
  Envelopes <- OneEnvelope
  HeaderFields <- OneField
  BodySizes = {0}
  BatchSizes = {}
  Decisions <- ShutdownOnly
INVARIANTS OnlyAbortQuitWhenStopped
CHECK_DEADLOCK FALSE
