SPECIFICATION Spec
CONSTANTS
  Positions <- MCPositions
  SliderValues <- MCNone
  Mmsis <- MCNone
  Names <- MCNone
  Payloads <- MCPayloads
  Tokens <- MCNone
  MaxVessels <- MCNoVessel
  MaxQueue <- MCTwo
INVARIANTS
  TypeOK
  SubscriptionMatchesDialog
  LabelTellsLastReport
PROPERTIES
  FollowKeepsBoatInArea
  OnBoatCentersOnBoat
  StoppedStreamFallsSilent
  RestartResumes
