SPECIFICATION Spec
CONSTANTS
  Tokens <- MCTokens
  MaxRedirections <- MCMaxRedirections
  MaxFrames <- MCMaxFrames
  InitialBackoffSeconds <- MCInitialBackoffSeconds
  MaxBackoffSeconds <- MCMaxBackoffSeconds
INVARIANTS
  CallbacksOnRunThread
