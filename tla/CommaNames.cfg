SPECIFICATION Spec
CONSTANTS
  Positions <- MCOnePosition
  SliderValues <- MCOneSize
  Mmsis <- MCOneMmsi
  Names <- MCCommaNames
  Payloads <- MCRejection
  Tokens <- MCNoToken
  MaxVessels <- MCOne
  MaxQueue <- MCOne
PROPERTIES
  SettingsSurviveReload
