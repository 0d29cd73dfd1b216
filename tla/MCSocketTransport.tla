------------------------- MODULE MCSocketTransport -------------------------
(* Instances of SocketTransport for TLC.  In a pair the server of s1 sends   *)
(* its handshake and one piece more; that of s2 is silent.                   *)
EXTENDS SocketTransport
CONSTANTS s1, s2

Talkative == [s \in Socket |-> IF s = s1 THEN 2 ELSE 0]
=============================================================================
