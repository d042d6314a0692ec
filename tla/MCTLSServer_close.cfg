\* Trojan clients and correct WebSocket upgrades, three connections against
\* channels of capacity one, and Close at any moment: a handler may be
\* blocked on a full connChan, and the WebSocket timeout may fire before the
\* library calls Handler.
CONSTANTS
    c1 = c1  c2 = c2  c3 = c3
    Conns <- MCConns
    Kinds = {"trojan", "ws"}
    FallbackMode = "addr"
    WsEnabled = TRUE
    ChanCap = 1
    MayClose = TRUE

SPECIFICATION Spec

PROPERTY HandlersEndAfterClose
