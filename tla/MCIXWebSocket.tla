--------------------------- MODULE MCIXWebSocket ---------------------------
(* One connection for TLC: up to two handshakes (one redirection) and up to *)
(* two complete frames per read.                                            *)
EXTENDS IXWebSocket

MCMaxRedirections == 2
MCMaxFrames       == 2
=============================================================================
