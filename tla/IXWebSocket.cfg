SPECIFICATION WsSpec
CONSTANTS
  MaxRedirections <- MCMaxRedirections
  MaxFrames <- MCMaxFrames
INVARIANTS
  WsTypeOK
  ClosingIsNoticed
PROPERTIES
  CloseOfOpenEndsRun
