SPECIFICATION Spec
CONSTANTS
  Tokens <- MCNoToken
  MaxRedirections <- MCMaxRedirections
  MaxFrames <- MCMaxFrames
  InitialBackoffSeconds <- MCInitialBackoffSeconds
  MaxBackoffSeconds <- MCInitialBackoffSeconds
PROPERTIES
  StopReturnsUnlessMissed
  SessionEndIsRetried
  RestartEnds
