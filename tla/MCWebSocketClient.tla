------------------------- MODULE MCWebSocketClient --------------------------
(* WebSocketClient for TLC.                                                *)
EXTENDS WebSocketClient
=============================================================================
