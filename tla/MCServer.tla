------------------------------- MODULE MCServer -------------------------------
(* Small instances of Server.                                                *)
EXTENDS Server, TLC

CONSTANTS c1, c2, a

OneConn    == {c1}
TwoConns   == {c1, c2}
OneIp      == {a}
NoLooping  == {}
OneLooping == {c1}
=============================================================================
