----------------------------- MODULE MCTLSServer ----------------------------
EXTENDS TLSServer

CONSTANTS c1, c2, c3

MCConns == {c1, c2, c3}

\* Clients that reach the WebSocket layer or the Trojan layer.
MCUpperKinds == {"trojan", "http", "ws", "wsBad"}

\* Trojan clients only.
MCTrojanKinds == {"trojan"}

\* Correct WebSocket upgrades only.
MCWsKinds == {"ws"}
=============================================================================
