SPECIFICATION WsSpec
CONSTANTS
  MaxRedirections <- MCMaxRedirections
  MaxFrames <- MCMaxFrames
PROPERTIES
  AbnormalCloseEndsConnection
