SPECIFICATION Spec
CONSTANTS
  Tokens <- MCTokens
  MaxRedirections <- MCMaxRedirections
  MaxFrames <- MCMaxFrames
  InitialBackoffSeconds <- MCInitialBackoffSeconds
  MaxBackoffSeconds <- MCMaxBackoffSeconds
INVARIANTS
  TypeOK
  SocketOutlivesClose
  JoinedSocketIsClosed
  GuiCallbackIsSilent
  StreamingIffJoinable
  MessagesFollowRunning
PROPERTIES
  PauseShrinksOnlyAfterGoodSession
  ReportsFollowContract
