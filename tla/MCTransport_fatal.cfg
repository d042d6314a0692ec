\* The same server without a transport plugin: TLS reads connChan.  Close
\* may cancel the transport's context before the TLS server's.
CONSTANTS
    t1 = t1  t2 = t2  t3 = t3
    Conns <- MCConns
    Kinds = {"http", "other"}
    WsOverlay = FALSE
    ChanCap = 1
    MayAcceptErr = FALSE

SPECIFICATION Spec
CHECK_DEADLOCK FALSE

INVARIANT NoFatalOnShutdown
