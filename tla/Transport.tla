----------------------------- MODULE Transport ------------------------------
(***************************************************************************)
(* The transport layer server (src/tunnel/tls/server.go 411-508): one      *)
(* acceptLoop over the TCP listener, a handler goroutine per connection    *)
(* that reads nextHTTP under httpLock and sends the connection to connChan *)
(* or, in plaintext mode, peeks for an HTTP request and sends it to        *)
(* wsChan; AcceptConn serves the overlays above: TLS, or, behind a         *)
(* transport plugin, Trojan and WebSocket, whose first call turns          *)
(* plaintext mode on.  The transport's context and the overlay's are       *)
(* siblings under the proxy's (proxy/server/server.go 27), which           *)
(* Proxy.Close cancels; Go cancels the children one at a time.             *)
(* What the client sends is its kind; http.ReadRequest decides by it.      *)
(***************************************************************************)
EXTENDS Naturals, Sequences

CONSTANTS
    Conns,          \* the TCP connections clients open
    Kinds,          \* "http": an HTTP request; "other": anything else
    WsOverlay,      \* transport plugin enabled: Trojan reads connChan and a
                    \* WebSocket layer calls AcceptConn; otherwise TLS reads
    ChanCap,        \* capacity of connChan and wsChan (32 in NewServer)
    MayAcceptErr    \* whether Accept may fail while the server runs

ASSUME /\ Kinds \subseteq {"http", "other"}
       /\ WsOverlay \in BOOLEAN /\ MayAcceptErr \in BOOLEAN
       /\ ChanCap \in Nat \ {0}

VARIABLES
    tr,         \* tr[c]: "unaccepted", "handler", "sendConn", "sendWs",
                \* "queued", "upper" (taken from connChan), "upperWs"
    tkind,      \* tkind[c]: what the client of c sends
    connChan, wsChan,
    nextHTTP,   \* s.nextHTTP
    tloop,      \* acceptLoop: "running" or "exited"
    accT,       \* the acceptLoop of the overlay reading connChan:
                \* "running", "exited" or "fatal" (log.Fatal ended the process)
    accW,       \* the WebSocket overlay: "start", "waiting" or "exited"
    regAt,      \* regAt[c]: nextHTTP was on when c was accepted (history)
    ctxDone,    \* the transport server's context is cancelled
    ovDone      \* the context of the overlay reading connChan is cancelled

tvars == <<tr, tkind, connChan, wsChan, nextHTTP, tloop, accT, accW, regAt>>

Init ==
    /\ ctxDone = FALSE /\ ovDone = FALSE
    /\ tr = [c \in Conns |-> "unaccepted"]
    /\ tkind = [c \in Conns |-> "other"]
    /\ connChan = <<>> /\ wsChan = <<>>
    /\ nextHTTP = FALSE
    /\ tloop = "running"
    /\ accT = "running"
    /\ accW = IF WsOverlay THEN "start" ELSE "exited"
    /\ regAt = [c \in Conns |-> FALSE]

(***************************************************************************)
(* acceptLoop (432-484).  Accept returns a connection, or an error once    *)
(* the listener is closed or, e.g. out of file descriptors, while the      *)
(* server runs; on any error the loop returns.                             *)
(***************************************************************************)
Accept(c) ==
    /\ tloop = "running" /\ tr[c] = "unaccepted" /\ ~ctxDone
    /\ \E k \in Kinds : tkind' = [tkind EXCEPT ![c] = k]
    /\ tr' = [tr EXCEPT ![c] = "handler"]
    /\ regAt' = [regAt EXCEPT ![c] = nextHTTP]
    /\ UNCHANGED <<connChan, wsChan, nextHTTP, tloop, accT, accW>>

AcceptErr ==
    /\ tloop = "running" /\ (MayAcceptErr \/ ctxDone)
    /\ tloop' = "exited"
    /\ UNCHANGED <<tr, tkind, connChan, wsChan, nextHTTP, accT, accW, regAt>>

\* A plausible slip: the peek's error check inverted.
HandleErrInverted(c) ==
    /\ tr[c] = "handler"
    /\ tr' = [tr EXCEPT ![c] = IF nextHTTP /\ tkind[c] # "http"
                                THEN "sendWs" ELSE "sendConn"]

\* The handler (445-483): under the read lock, nextHTTP chooses between the
\* plain hand-up and the HTTP peek, whose outcome chooses the channel.
Handle(c) ==
    /\ tr[c] = "handler"
    /\ tr' = [tr EXCEPT ![c] = IF nextHTTP /\ tkind[c] = "http"
                                THEN "sendWs" ELSE "sendConn"]

\* A plausible slip: no bound on the channels.
SendUnbounded(c) ==
    \/ tr[c] = "sendConn" /\ connChan' = Append(connChan, c) /\ UNCHANGED wsChan
    \/ tr[c] = "sendWs" /\ wsChan' = Append(wsChan, c) /\ UNCHANGED connChan

\* s.connChan <- conn and s.wsChan <- conn: plain sends, no ctx.
Send(c) ==
    \/ /\ tr[c] = "sendConn" /\ Len(connChan) < ChanCap
       /\ connChan' = Append(connChan, c) /\ UNCHANGED wsChan
    \/ /\ tr[c] = "sendWs" /\ Len(wsChan) < ChanCap
       /\ wsChan' = Append(wsChan, c) /\ UNCHANGED connChan

Handler(c) ==
    /\ \/ Handle(c) /\ UNCHANGED <<connChan, wsChan>>
       \/ Send(c) /\ tr' = [tr EXCEPT ![c] = "queued"]
    /\ UNCHANGED <<tkind, nextHTTP, tloop, accT, accW, regAt>>

(***************************************************************************)
(* AcceptConn (487-508).  The WebSocket overlay sets nextHTTP under the    *)
(* write lock on every call, then selects on wsChan and ctx; any other     *)
(* overlay selects on connChan and ctx.  Once the transport's ctx is       *)
(* done, the error AcceptConn returns reaches the overlay's acceptLoop,    *)
(* which returns if its own ctx is done; otherwise TLS (tls/server.go      *)
(* 74-80) calls log.Fatal and Trojan (part_000 321-327) calls AcceptConn   *)
(* again, a step that changes nothing.                                     *)
(***************************************************************************)
\* A plausible slip: the Trojan loop continues without looking at its ctx.
OverlayOnErrorSpin == accT

OverlayOnError ==
    CASE ovDone    -> "exited"
      [] WsOverlay -> accT
      [] OTHER     -> "fatal"

TakeConn ==
    /\ accT = "running"
    /\ \/ /\ connChan # <<>>
          /\ tr' = [tr EXCEPT ![Head(connChan)] = "upper"]
          /\ connChan' = Tail(connChan)
          /\ UNCHANGED accT
       \/ ctxDone /\ accT' = OverlayOnError /\ UNCHANGED <<tr, connChan>>
    /\ UNCHANGED <<tkind, wsChan, nextHTTP, tloop, accW, regAt>>

WsCall ==
    /\ accW = "start"
    /\ nextHTTP' = TRUE /\ accW' = "waiting"
    /\ UNCHANGED <<tr, tkind, connChan, wsChan, tloop, accT, regAt>>

\* A plausible slip: the WebSocket branch falls through to the select on
\* connChan.
WsTakeConnChan ==
    /\ accW = "waiting"
    /\ \/ /\ connChan # <<>>
          /\ tr' = [tr EXCEPT ![Head(connChan)] = "upper"]
          /\ connChan' = Tail(connChan)
          /\ accW' = "start"
       \/ ctxDone /\ accW' = "exited" /\ UNCHANGED <<tr, connChan>>
    /\ UNCHANGED <<tkind, wsChan, nextHTTP, tloop, accT, regAt>>

WsTake ==
    /\ accW = "waiting"
    /\ \/ /\ wsChan # <<>>
          /\ tr' = [tr EXCEPT ![Head(wsChan)] = "upperWs"]
          /\ wsChan' = Tail(wsChan)
          /\ accW' = "start"
       \/ ctxDone /\ accW' = "exited" /\ UNCHANGED <<tr, wsChan>>
    /\ UNCHANGED <<tkind, connChan, nextHTTP, tloop, accT, regAt>>

\* The steps of the transport server.
Step ==
    \/ \E c \in Conns : Accept(c) \/ Handler(c)
    \/ AcceptErr \/ TakeConn \/ WsCall \/ WsTake

ctxs == <<ctxDone, ovDone>>

vars == <<tvars, ctxs>>

\* Proxy.Close: p.cancel() starts cancelling the proxy's context, whose
\* children are cancelled one by one in map order: either goes first.
Close ==
    /\ ~ctxDone /\ ~ovDone
    /\ \/ ctxDone' = TRUE /\ UNCHANGED ovDone
       \/ ovDone' = TRUE /\ UNCHANGED ctxDone
    /\ UNCHANGED tvars

\* The same cancel goes on to the other child.
CancelNext ==
    /\ ctxDone # ovDone
    /\ ctxDone' = TRUE /\ ovDone' = TRUE
    /\ UNCHANGED tvars

Next == (Step /\ UNCHANGED ctxs) \/ Close \/ CancelNext

\* Every goroutine of the server is scheduled while it can run, and a
\* cancel that has begun runs to its end.
Fairness ==
    /\ \A c \in Conns : WF_vars(Handler(c) /\ UNCHANGED ctxs)
    /\ WF_vars(TakeConn /\ UNCHANGED ctxs)
    /\ WF_vars((WsCall \/ WsTake) /\ UNCHANGED ctxs)
    /\ WF_vars(CancelNext)

Spec == Init /\ [][Next]_vars /\ Fairness
-----------------------------------------------------------------------------
TypeOK ==
    /\ tr \in [Conns -> {"unaccepted", "handler", "sendConn", "sendWs",
                         "queued", "upper", "upperWs"}]
    /\ tkind \in [Conns -> Kinds \cup {"other"}]
    /\ connChan \in Seq(Conns) /\ Len(connChan) <= ChanCap
    /\ wsChan \in Seq(Conns) /\ Len(wsChan) <= ChanCap
    /\ nextHTTP \in BOOLEAN /\ regAt \in [Conns -> BOOLEAN]
    /\ accT \in {"running", "exited", "fatal"}

(***************************************************************************)
(* Routing (spec.md 4.4): once the WebSocket layer has called AcceptConn,  *)
(* every later HTTP client reaches the WebSocket layer and every other     *)
(* client the layer reading connChan; an HTTP client accepted before that  *)
(* goes to connChan.                                                       *)
(***************************************************************************)
RoutedToItsLayer ==
    \A c \in Conns :
        /\ tr[c] = "upperWs" => tkind[c] = "http"
        /\ tr[c] = "upper" => ~(regAt[c] /\ tkind[c] = "http")

\* The refinement mapping: a connection is pending from Accept until an
\* overlay takes it from connChan or wsChan.
HandoffOwner ==
    [c \in Conns |-> CASE tr[c] = "unaccepted"           -> "none"
                      [] tr[c] \in {"upper", "upperWs"} -> tr[c]
                      [] OTHER                           -> "pending"]

H == INSTANCE Handoff WITH Outcomes <- {"upper", "upperWs"},
                           owner <- HandoffOwner, stopped <- ctxDone

(***************************************************************************)
(* The transport server implements Handoff: every accepted connection is   *)
(* taken by exactly one overlay, once and for good, and, while the server  *)
(* runs, is taken at all, whatever the handlers blocked on a full channel  *)
(* and the WebSocket overlay registering in between.                       *)
(***************************************************************************)
ImplementsHandoff == H!Spec

(***************************************************************************)
(* Shutdown is clean (spec.md 4.9: errors from accept during shutdown are  *)
(* consumed once the context is cancelled; 5: cancellation is a clean      *)
(* shutdown, exit code 0): whichever context Proxy.Close's cancel reaches  *)
(* first, the overlay's acceptLoop never ends the process on the error     *)
(* AcceptConn returns because the transport is closing.                    *)
(***************************************************************************)
NoFatalOnShutdown == accT # "fatal"

(***************************************************************************)
(* Once the overlay's context is cancelled, its acceptLoop returns, also   *)
(* when the transport's context was cancelled first and AcceptConn has     *)
(* been failing in the meantime.                                           *)
(***************************************************************************)
OverlayReturnsAfterClose == ovDone ~> accT # "running"
=============================================================================
