------------------------- MODULE MCAisStreamClient -------------------------
(* The client for TLC: the real backoff limits, one redirection, up to two  *)
(* complete frames per read, a token or none.                               *)
EXTENDS AisStreamClient

MCMaxRedirections       == 2
MCMaxFrames             == 2
MCInitialBackoffSeconds == 2
MCMaxBackoffSeconds     == 30
MCTokens                == {"", "token"}
MCNoToken               == {""}
=============================================================================
