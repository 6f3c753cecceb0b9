SPECIFICATION Spec
CONSTANTS
  Positions <- MCOnePosition
  SliderValues <- MCLargeSize
  Mmsis <- MCNone
  Names <- MCNone
  Payloads <- MCNone
  Tokens <- MCTokens
  MaxVessels <- MCNoVessel
  MaxQueue <- MCOne
INVARIANTS
  StreamNeedsDialog
  BoxWithinRange
  SubscriptionMatchesDialog
  TokenIsNeverMissing
  ToolbarShowsStream
PROPERTIES
  ClosingStopsStream
