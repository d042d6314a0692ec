\* Three TCP clients sending an HTTP request or other bytes behind a
\* transport plugin (a WebSocket layer on top), an Accept error at any
\* time, channels of capacity one so that handlers wait, and Close at any
\* moment, reaching the transport's or the Trojan layer's context first.
\* The server may stop: after an Accept error or after Close the
\* accept loop is gone and nothing else has to happen.
CONSTANTS
    t1 = t1  t2 = t2  t3 = t3
    Conns <- MCConns
    Kinds = {"http", "other"}
    WsOverlay = TRUE
    ChanCap = 1
    MayAcceptErr = TRUE

SPECIFICATION Spec
CHECK_DEADLOCK FALSE

INVARIANT TypeOK
INVARIANT RoutedToItsLayer
PROPERTY ImplementsHandoff
PROPERTY OverlayReturnsAfterClose
