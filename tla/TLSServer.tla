----------------------------- MODULE TLSServer ------------------------------
(***************************************************************************)
(* The TLS layer of the server and the two layers that take connections    *)
(* from it.                                                                *)
(*   - TLS (src/tunnel/tls/server.go 71-187, AcceptConn 190-210): one      *)
(*     handler goroutine per connection runs the handshake, falls back on  *)
(*     a non-TLS first record, then peeks for an HTTP request and sends    *)
(*     the connection to connChan (Trojan) or wsChan (WebSocket); an HTTP  *)
(*     request is redirected while no WebSocket layer has called           *)
(*     AcceptConn (nextHTTP).                                              *)
(*   - the Trojan server's acceptLoop over TLS (src/unnamed/part_000       *)
(*     318-329) takes from connChan;                                       *)
(*   - the Trojan server's acceptLoop over WebSocket calls the WebSocket   *)
(*     server's AcceptConn (part_000 53-147), which takes from wsChan,     *)
(*     checks the upgrade request and runs the upgrade in a ServeHTTP      *)
(*     goroutine, waiting for its handler or a timeout.                    *)
(* What the client sends is its kind; the handshake, the HTTP parse and    *)
(* the upgrade are decided by it.  Time is abstracted: the WebSocket       *)
(* timeout may fire at any moment the acceptor waits.                      *)
(***************************************************************************)
EXTENDS Naturals, Sequences

CONSTANTS
    Conns,          \* the connections the transport hands to TLS
    Kinds,          \* what the clients may send
    FallbackMode,   \* "addr": fallback_port set; "resp": plain_http_response; "none"
    WsEnabled,      \* websocket.enabled
    ChanCap,        \* capacity of connChan and wsChan (32 in NewServer)
    MayClose        \* whether the server may be closed

(***************************************************************************)
(* Client kinds: "probe" sends no TLS record; "badTLS" fails the handshake *)
(* otherwise (e.g. SNI mismatch); over TLS, "trojan" sends Trojan bytes,   *)
(* "http" an HTTP request that is no WebSocket upgrade to the path, "ws"   *)
(* a correct upgrade and "wsBad" an upgrade to the path that the websocket *)
(* library's handshake refuses.                                            *)
(***************************************************************************)
AllKinds == {"probe", "badTLS", "trojan", "http", "ws", "wsBad"}

ASSUME /\ Kinds \subseteq AllKinds
       /\ FallbackMode \in {"addr", "resp", "none"}
       /\ WsEnabled \in BOOLEAN /\ MayClose \in BOOLEAN
       /\ ChanCap \in Nat \ {0}

NoConn == "noconn"

\* Where a connection is.  Settled: handed to a layer above, to the
\* redirector, closed, or given up by the WebSocket acceptor.
Settled == {"trojan", "wsOwned", "redirected", "closed", "abandoned"}

VARIABLES
    tpc,        \* tpc[c]: where the TLS handler of c is, or who owns c
    kind,       \* kind[c]: what the client of c sends
    connChan, wsChan,
    nextHTTP,   \* s.nextHTTP of the TLS server
    trojanAcc,  \* the Trojan acceptLoop over TLS: "running" or "exited"
    wsAcc,      \* [st, conn]: the WebSocket AcceptConn and the conn it serves
    wsConn,     \* wsConn[c]: the variable wsConn of the AcceptConn call for c
    hnd,        \* hnd[c]: the ServeHTTP goroutine of c
    connCtx,    \* connCtx[c]: the context AcceptConn derived for c is cancelled
    ctxDone     \* the server's context is cancelled (Close)

vars == <<tpc, kind, connChan, wsChan, nextHTTP, trojanAcc, wsAcc, wsConn,
          hnd, connCtx, ctxDone>>

Init ==
    /\ tpc = [c \in Conns |-> "idle"]
    /\ kind = [c \in Conns |-> "none"]
    /\ connChan = <<>> /\ wsChan = <<>>
    /\ nextHTTP = FALSE
    /\ trojanAcc = "running"
    /\ wsAcc = [st |-> "start", conn |-> NoConn]
    /\ wsConn = [c \in Conns |-> FALSE]
    /\ hnd = [c \in Conns |-> "none"]
    /\ connCtx = [c \in Conns |-> FALSE]
    /\ ctxDone = FALSE

SetTpc(c, s) == tpc' = [tpc EXCEPT ![c] = s]

(***************************************************************************)
(* The TLS handler of c.                                                   *)
(***************************************************************************)
\* acceptLoop takes c from the transport and starts its handler.
TLSAccept(c) ==
    /\ tpc[c] = "idle"
    /\ \E k \in Kinds : kind' = [kind EXCEPT ![c] = k]
    /\ SetTpc(c, "handshake")
    /\ UNCHANGED <<connChan, wsChan>>

\* Lines 116-149: Handshake over a rewind connection.  A first record that
\* is not TLS is rewound and redirected to the fallback address, answered
\* with the static response and closed, or closed; any other handshake
\* error closes the connection.
Handshake(c) ==
    /\ tpc[c] = "handshake"
    /\ SetTpc(c, CASE kind[c] = "probe" /\ FallbackMode = "addr" -> "redirected"
                   [] kind[c] \in {"probe", "badTLS"}             -> "closed"
                   [] OTHER                                      -> "demux")
    /\ UNCHANGED <<kind, connChan, wsChan>>

\* A plausible slip: the HTTP parse result read the wrong way round.
DemuxErrInverted(c) ==
    /\ tpc[c] = "demux"
    /\ SetTpc(c, IF kind[c] = "trojan"
                 THEN IF nextHTTP THEN "sendWs" ELSE "redirected"
                 ELSE "sendConn")
    /\ UNCHANGED <<kind, connChan, wsChan>>

\* Lines 157-184: http.ReadRequest over a rewind connection.  No request:
\* Trojan.  A request: WebSocket once a WebSocket layer registered,
\* otherwise redirected.
Demux(c) ==
    /\ tpc[c] = "demux"
    /\ SetTpc(c, IF kind[c] = "trojan"
                 THEN "sendConn"
                 ELSE IF nextHTTP THEN "sendWs" ELSE "redirected")
    /\ UNCHANGED <<kind, connChan, wsChan>>

\* A plausible slip: a send that does not wait for room.
SendConnUnbounded(c) ==
    /\ tpc[c] = "sendConn"
    /\ connChan' = Append(connChan, c)
    /\ SetTpc(c, "inConnChan")
    /\ UNCHANGED <<kind, wsChan>>

\* Lines 165 and 181: a plain channel send, blocking while the channel is
\* full; it does not select on s.ctx.
SendConn(c) ==
    /\ tpc[c] = "sendConn" /\ Len(connChan) < ChanCap
    /\ connChan' = Append(connChan, c)
    /\ SetTpc(c, "inConnChan")
    /\ UNCHANGED <<kind, wsChan>>

SendWs(c) ==
    /\ tpc[c] = "sendWs" /\ Len(wsChan) < ChanCap
    /\ wsChan' = Append(wsChan, c)
    /\ SetTpc(c, "inWsChan")
    /\ UNCHANGED <<kind, connChan>>

TLSHandler(c) ==
    /\ TLSAccept(c) \/ Handshake(c) \/ Demux(c) \/ SendConn(c) \/ SendWs(c)
    /\ UNCHANGED <<nextHTTP, trojanAcc, wsAcc, wsConn, hnd, connCtx, ctxDone>>

(***************************************************************************)
(* The Trojan acceptLoop over TLS: AcceptConn(trojan) selects on connChan  *)
(* and s.ctx.Done(); the loop returns on an error once ctx is done.        *)
(***************************************************************************)
TrojanTake ==
    /\ trojanAcc = "running" /\ connChan # <<>>
    /\ SetTpc(Head(connChan), "trojan")
    /\ connChan' = Tail(connChan)
    /\ UNCHANGED <<trojanAcc, wsChan>>

TrojanExit ==
    /\ trojanAcc = "running" /\ ctxDone
    /\ trojanAcc' = "exited"
    /\ UNCHANGED <<tpc, connChan, wsChan>>

TrojanAcceptor ==
    /\ TrojanTake \/ TrojanExit
    /\ UNCHANGED <<kind, nextHTTP, wsAcc, wsConn, hnd, connCtx, ctxDone>>

(***************************************************************************)
(* The WebSocket AcceptConn, called by the Trojan acceptLoop over          *)
(* WebSocket in a loop that continues after an error and returns once ctx  *)
(* is done.                                                                *)
(***************************************************************************)
SetWs(st, c) == wsAcc' = [st |-> st, conn |-> c]

\* TLS AcceptConn(websocket), lines 192-201: nextHTTP is set, then the call
\* selects on wsChan and s.ctx.Done().
WsCall ==
    /\ wsAcc.st = "start"
    /\ nextHTTP' = TRUE
    /\ SetWs("waiting", NoConn)
    /\ UNCHANGED <<tpc, wsChan, wsConn, hnd, connCtx>>

WsTake ==
    /\ wsAcc.st = "waiting" /\ wsChan # <<>>
    /\ SetWs("peek", Head(wsChan))
    /\ SetTpc(Head(wsChan), "wsPeek")
    /\ wsChan' = Tail(wsChan)
    /\ UNCHANGED <<nextHTTP, wsConn, hnd, connCtx>>

WsExit ==
    /\ wsAcc.st = "waiting" /\ ctxDone
    /\ SetWs("exited", NoConn)
    /\ UNCHANGED <<tpc, wsChan, nextHTTP, wsConn, hnd, connCtx>>

\* Lines 58-126: disabled, or not an upgrade to the path: redirected;
\* otherwise ServeHTTP is started on the connection.
WsPeek ==
    LET c == wsAcc.conn
    IN  /\ wsAcc.st = "peek"
        /\ IF ~WsEnabled \/ kind[c] \notin {"ws", "wsBad"}
           THEN /\ SetTpc(c, "redirected")
                /\ SetWs("start", NoConn)
                /\ UNCHANGED hnd
           ELSE /\ hnd' = [hnd EXCEPT ![c] = "serving"]
                /\ SetWs("select", c)
                /\ UNCHANGED tpc
        /\ UNCHANGED <<wsChan, nextHTTP, wsConn, connCtx>>

\* A plausible slip: the select waits for the handshake alone.
WsTimeoutNever == FALSE

\* Line 131: time.After(s.timeout) fires.
WsTimeout ==
    /\ wsAcc.st = "select"
    /\ SetWs("check", wsAcc.conn)
    /\ UNCHANGED <<tpc, wsChan, nextHTTP, wsConn, hnd, connCtx>>

\* Lines 134-146: wsConn is read without synchronisation with the handler;
\* nil: cancel() and an error, the connection is left as it is.
WsCheck ==
    LET c == wsAcc.conn
    IN  /\ wsAcc.st = "check"
        /\ IF wsConn[c]
           THEN SetTpc(c, "wsOwned") /\ UNCHANGED connCtx
           ELSE SetTpc(c, "abandoned") /\ connCtx' = [connCtx EXCEPT ![c] = TRUE]
        /\ SetWs("start", NoConn)
        /\ UNCHANGED <<wsChan, nextHTTP, wsConn, hnd>>

WsAcceptor ==
    /\ WsCall \/ WsTake \/ WsExit \/ WsPeek \/ WsTimeout \/ WsCheck
    /\ UNCHANGED <<kind, connChan, trojanAcc, ctxDone>>

(***************************************************************************)
(* The ServeHTTP goroutine of c (lines 103-126).  The library refuses a    *)
(* bad upgrade and closes the connection without calling Handler; Handler  *)
(* stores wsConn, sends on the unbuffered channel handshake, and waits for *)
(* the context of c before returning, which closes the connection.         *)
(***************************************************************************)
HndServe(c) ==
    /\ hnd[c] = "serving"
    /\ IF kind[c] = "wsBad"
       THEN hnd' = [hnd EXCEPT ![c] = "done"] /\ UNCHANGED wsConn
       ELSE /\ hnd' = [hnd EXCEPT ![c] = "stored"]
            /\ wsConn' = [wsConn EXCEPT ![c] = TRUE]
    /\ UNCHANGED <<tpc, wsAcc>>

\* handshake <- struct{}{}: a rendezvous with the select of AcceptConn.
HndSend(c) ==
    /\ hnd[c] = "stored"
    /\ wsAcc.st = "select" /\ wsAcc.conn = c
    /\ hnd' = [hnd EXCEPT ![c] = "waitCtx"]
    /\ SetWs("check", c)
    /\ UNCHANGED <<tpc, wsConn>>

HndReturn(c) ==
    /\ hnd[c] = "waitCtx" /\ (connCtx[c] \/ ctxDone)
    /\ hnd' = [hnd EXCEPT ![c] = "done"]
    /\ UNCHANGED <<tpc, wsAcc, wsConn>>

WsHandler(c) ==
    /\ HndServe(c) \/ HndSend(c) \/ HndReturn(c)
    /\ UNCHANGED <<kind, connChan, wsChan, nextHTTP, trojanAcc, connCtx, ctxDone>>

\* Server.Close: s.cancel(); the contexts of the layers above are its
\* children.
Close ==
    /\ MayClose /\ ~ctxDone
    /\ ctxDone' = TRUE
    /\ UNCHANGED <<tpc, kind, connChan, wsChan, nextHTTP, trojanAcc, wsAcc,
                   wsConn, hnd, connCtx>>

\* Every connection has settled, or the server was closed: nothing is left
\* to do but wait for clients.
Quiescent == (\A c \in Conns : tpc[c] \in Settled) \/ ctxDone

Terminated == Quiescent /\ UNCHANGED vars

Next ==
    \/ \E c \in Conns : TLSHandler(c) \/ WsHandler(c)
    \/ TrojanAcceptor \/ WsAcceptor \/ Close
    \/ Terminated

(***************************************************************************)
(* Every goroutine keeps being scheduled while it can run, and the         *)
(* WebSocket timeout fires after at most 14 s.  Close is not assumed.      *)
(***************************************************************************)
Fairness ==
    /\ \A c \in Conns : WF_vars(TLSHandler(c)) /\ WF_vars(WsHandler(c))
    /\ WF_vars(TrojanAcceptor) /\ WF_vars(WsAcceptor)

Spec == Init /\ [][Next]_vars /\ Fairness
-----------------------------------------------------------------------------
TypeOK ==
    /\ tpc \in [Conns -> {"idle", "handshake", "demux", "sendConn", "sendWs",
                          "inConnChan", "inWsChan", "wsPeek"} \cup Settled]
    /\ kind \in [Conns -> Kinds \cup {"none"}]
    /\ \A ch \in {connChan, wsChan} : ch \in Seq(Conns) /\ Len(ch) <= ChanCap
    /\ nextHTTP \in BOOLEAN /\ ctxDone \in BOOLEAN
    /\ trojanAcc \in {"running", "exited"}
    /\ wsAcc.st \in {"start", "waiting", "peek", "select", "check", "exited"}
    /\ wsAcc.conn \in Conns \cup {NoConn}
    /\ wsConn \in [Conns -> BOOLEAN] /\ connCtx \in [Conns -> BOOLEAN]
    /\ hnd \in [Conns -> {"none", "serving", "stored", "waitCtx", "done"}]

(***************************************************************************)
(* Demultiplexing (spec.md 4.5, 4.6): a connection the Trojan layer takes  *)
(* carries Trojan bytes, and a connection the WebSocket layer hands up     *)
(* completed a WebSocket upgrade, whatever the order in which handshakes,  *)
(* the HTTP peek, the registration of the WebSocket layer and its timeout  *)
(* interleave.                                                             *)
(***************************************************************************)
ClientRoutedToItsLayer ==
    \A c \in Conns : /\ tpc[c] = "trojan" => kind[c] = "trojan"
                     /\ tpc[c] = "wsOwned" => kind[c] = "ws"

\* The refinement mapping: a connection is pending from the TLS accept loop
\* until it settles.
HandoffOwner ==
    [c \in Conns |-> CASE tpc[c] = "idle"     -> "none"
                      [] tpc[c] \in Settled -> tpc[c]
                      [] OTHER               -> "pending"]

H == INSTANCE Handoff WITH Outcomes <- Settled,
                           owner <- HandoffOwner, stopped <- ctxDone

(***************************************************************************)
(* The TLS server implements Handoff (spec.md 4.7: a slow or hostile       *)
(* handshake cannot stall the listener): every accepted connection is      *)
(* handed up, redirected, closed or given up exactly once and stays so,    *)
(* and while the server runs it settles, even behind a client whose        *)
(* WebSocket upgrade never completes.                                      *)
(***************************************************************************)
ImplementsHandoff == H!Spec

(***************************************************************************)
(* Shutdown (spec.md 4.7: "shutdown must cancel pending sends via the      *)
(* context"; 5 (c): cancellation releases pending WebSocket handlers):     *)
(* after Close no TLS handler stays blocked sending on connChan or wsChan  *)
(* and every ServeHTTP goroutine returns.                                  *)
(***************************************************************************)
HandlersEndAfterClose ==
    ctxDone ~> \A c \in Conns : /\ tpc[c] \notin {"sendConn", "sendWs"}
                                /\ hnd[c] \in {"none", "done"}
=============================================================================
