SPECIFICATION Spec
CONSTANTS
  Positions <- MCOnePosition
  SliderValues <- MCOneSize
  Mmsis <- MCMmsis
  Names <- MCNames
  Payloads <- MCNone
  Tokens <- MCNoToken
  MaxVessels <- MCTwo
  MaxQueue <- MCOne
INVARIANTS
  RowsMatchVessels
PROPERTIES
  SettingsSurviveReload
