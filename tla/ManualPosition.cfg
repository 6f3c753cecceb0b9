SPECIFICATION Spec
CONSTANTS
  Positions <- MCTwoPositions
  SliderValues <- MCOneSize
  Mmsis <- MCNone
  Names <- MCNone
  Payloads <- MCRejection
  Tokens <- MCNoToken
  MaxVessels <- MCNoVessel
  MaxQueue <- MCOne
PROPERTIES
  ManualPositionStays
