\* Three connections against channels of capacity one: a full channel, a
\* WebSocket acceptor busy with one upgrade while others queue, and the
\* WebSocket layer registering before, between or after the handshakes.
CONSTANTS
    c1 = c1  c2 = c2  c3 = c3
    Conns <- MCConns
    Kinds = {"probe", "badTLS", "trojan", "http", "ws", "wsBad"}
    FallbackMode = "addr"
    WsEnabled = TRUE
    ChanCap = 1
    MayClose = TRUE

SPECIFICATION Spec

INVARIANT TypeOK
INVARIANT ClientRoutedToItsLayer
PROPERTY ImplementsHandoff
