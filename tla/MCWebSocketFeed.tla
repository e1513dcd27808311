--------------------------- MODULE MCWebSocketFeed ---------------------------
(***************************************************************************)
(* The instance of WebSocketFeed for TLC is given by feed_errors.cfg.      *)
(***************************************************************************)
EXTENDS WebSocketFeed
=============================================================================
