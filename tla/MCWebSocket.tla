----------------------------- MODULE MCWebSocket -----------------------------
(* Small instances of WebSocket.                                             *)
EXTENDS WebSocket

CONSTANTS c1, c2, a

TwoConns   == {c1, c2}
OneIp      == {a}
OneLooping == {c1}
=============================================================================
