-------------------------------- MODULE Mux ---------------------------------
(***************************************************************************)
(* The mux server (src/tunnel/tls/server.go 591-673): acceptConnWorker     *)
(* takes the carrier connections the Trojan server hands up for the mux    *)
(* command and starts an smux session on each; a goroutine per session     *)
(* accepts the streams the client opens and sends each to connChan in a    *)
(* select with the context, and closes the session and its carrier when    *)
(* AcceptStream fails.  AcceptConn serves the simplesocks layer above.     *)
(* A stream is <<carrier, n>>, the n-th stream the client opened on it.    *)
(***************************************************************************)
EXTENDS Naturals, Sequences

CONSTANTS
    Carriers,   \* the carrier connections of mux clients
    MaxStreams, \* the streams a client opens on one carrier
    MuxChanCap  \* capacity of connChan (32 in NewServer)

ASSUME MaxStreams \in Nat /\ MuxChanCap \in Nat \ {0}

VARIABLES
    sess,       \* sess[c]: "unaccepted", "accepting", "sending", "ended"
    opened,     \* opened[c]: streams the client opened on c
    accepted,   \* accepted[c]: streams AcceptStream returned on c
    clientEnd,  \* clientEnd[c]: the client closed its session
    muxChan,    \* connChan of the mux server: a queue of streams
    delivered,  \* delivered[c]: streams of c the upper layer took, in order
    worker,     \* acceptConnWorker: "running" or "exited"
    upper,      \* the simplesocks accept loop: "running" or "exited"
    ctxDone        \* the server's context is cancelled

mvars == <<sess, opened, accepted, clientEnd, muxChan, delivered, worker, upper>>

Init ==
    /\ ctxDone = FALSE
    /\ sess = [c \in Carriers |-> "unaccepted"]
    /\ opened = [c \in Carriers |-> 0]
    /\ accepted = [c \in Carriers |-> 0]
    /\ clientEnd = [c \in Carriers |-> FALSE]
    /\ muxChan = <<>>
    /\ delivered = [c \in Carriers |-> <<>>]
    /\ worker = "running"
    /\ upper = "running"

(***************************************************************************)
(* acceptConnWorker (598-640): the underlay's AcceptConn returns the next  *)
(* carrier, whose goroutines start smux.Server with the default config     *)
(* (which cannot fail) and the session loop; it fails once the underlay    *)
(* is closed, and the worker returns when ctx is done.                     *)
(***************************************************************************)
WorkerAccept(c) ==
    /\ worker = "running" /\ sess[c] = "unaccepted" /\ ~ctxDone
    /\ sess' = [sess EXCEPT ![c] = "accepting"]
    /\ UNCHANGED <<opened, accepted, clientEnd, muxChan, delivered, worker, upper>>

WorkerExit ==
    /\ worker = "running" /\ ctxDone
    /\ worker' = "exited"
    /\ UNCHANGED <<sess, opened, accepted, clientEnd, muxChan, delivered, upper>>

\* session.AcceptStream (621-626): the next stream the client opened, or an
\* error once the client closed the session; the deferred session.Close and
\* conn.Close then run.
AcceptStream(c) ==
    /\ sess[c] = "accepting"
    /\ \/ accepted[c] < opened[c]
          /\ accepted' = [accepted EXCEPT ![c] = @ + 1]
          /\ sess' = [sess EXCEPT ![c] = "sending"]
       \/ accepted[c] = opened[c] /\ clientEnd[c]
          /\ sess' = [sess EXCEPT ![c] = "ended"] /\ UNCHANGED accepted
    /\ UNCHANGED muxChan

\* A plausible slip: a select with a default branch that drops the stream
\* when connChan is full.
SendStreamDrops(c) ==
    /\ sess[c] = "sending"
    /\ \/ Len(muxChan) < MuxChanCap
          /\ muxChan' = Append(muxChan, <<c, accepted[c]>>)
          /\ sess' = [sess EXCEPT ![c] = "accepting"]
       \/ Len(muxChan) = MuxChanCap
          /\ sess' = [sess EXCEPT ![c] = "accepting"] /\ UNCHANGED muxChan
       \/ ctxDone /\ sess' = [sess EXCEPT ![c] = "ended"] /\ UNCHANGED muxChan
    /\ UNCHANGED accepted

\* A plausible slip: a plain send, as the TLS and Trojan layers do.
SendStreamNoCtx(c) ==
    /\ sess[c] = "sending" /\ Len(muxChan) < MuxChanCap
    /\ muxChan' = Append(muxChan, <<c, accepted[c]>>)
    /\ sess' = [sess EXCEPT ![c] = "accepting"]
    /\ UNCHANGED accepted

\* A plausible slip: no bound on connChan.
SendStreamUnbounded(c) ==
    /\ sess[c] = "sending"
    /\ \/ muxChan' = Append(muxChan, <<c, accepted[c]>>)
          /\ sess' = [sess EXCEPT ![c] = "accepting"]
       \/ ctxDone /\ sess' = [sess EXCEPT ![c] = "ended"] /\ UNCHANGED muxChan
    /\ UNCHANGED accepted

\* The select of 627-635: the stream goes to connChan, or ctx is done and
\* the session loop returns.
SendStream(c) ==
    /\ sess[c] = "sending"
    /\ \/ Len(muxChan) < MuxChanCap
          /\ muxChan' = Append(muxChan, <<c, accepted[c]>>)
          /\ sess' = [sess EXCEPT ![c] = "accepting"]
       \/ ctxDone /\ sess' = [sess EXCEPT ![c] = "ended"] /\ UNCHANGED muxChan
    /\ UNCHANGED accepted

Session(c) ==
    /\ AcceptStream(c) \/ SendStream(c)
    /\ UNCHANGED <<opened, clientEnd, delivered, worker, upper>>

\* AcceptConn (643-650), called in a loop by the layer above.
MuxAcceptConn ==
    /\ upper = "running"
    /\ \/ /\ muxChan # <<>>
          /\ LET s == Head(muxChan)
             IN  delivered' = [delivered EXCEPT ![s[1]] = Append(@, s[2])]
          /\ muxChan' = Tail(muxChan)
          /\ UNCHANGED upper
       \/ ctxDone /\ upper' = "exited" /\ UNCHANGED <<muxChan, delivered>>
    /\ UNCHANGED <<sess, opened, accepted, clientEnd, worker>>

(***************************************************************************)
(* The mux client: opens streams on a live session, then closes it.        *)
(***************************************************************************)
ClientOpen(c) ==
    /\ sess[c] # "ended" /\ ~clientEnd[c] /\ opened[c] < MaxStreams
    /\ opened' = [opened EXCEPT ![c] = @ + 1]
    /\ UNCHANGED <<sess, accepted, clientEnd, muxChan, delivered, worker, upper>>

ClientEnd(c) ==
    /\ ~clientEnd[c]
    /\ clientEnd' = [clientEnd EXCEPT ![c] = TRUE]
    /\ UNCHANGED <<sess, opened, accepted, muxChan, delivered, worker, upper>>

\* The steps of the mux server and its clients.
Step ==
    \/ \E c \in Carriers : WorkerAccept(c) \/ Session(c)
                           \/ ClientOpen(c) \/ ClientEnd(c)
    \/ WorkerExit \/ MuxAcceptConn

vars == <<mvars, ctxDone>>

\* Close: s.cancel(), which the proxy's cancellation also brings about.
Close ==
    /\ ~ctxDone /\ ctxDone' = TRUE
    /\ UNCHANGED mvars

Next == (Step /\ UNCHANGED ctxDone) \/ Close

\* The server's goroutines are scheduled while they can run; clients are
\* not assumed to open streams or to close their sessions.
Fairness ==
    /\ \A c \in Carriers : WF_vars(Session(c) /\ UNCHANGED ctxDone)
    /\ WF_vars(MuxAcceptConn /\ UNCHANGED ctxDone)
    /\ WF_vars(WorkerExit /\ UNCHANGED ctxDone)

Spec == Init /\ [][Next]_vars /\ Fairness
-----------------------------------------------------------------------------
TypeOK ==
    /\ sess \in [Carriers -> {"unaccepted", "accepting", "sending", "ended"}]
    /\ \A c \in Carriers : accepted[c] <= opened[c] /\ opened[c] <= MaxStreams
    /\ muxChan \in Seq(Carriers \X (1..MaxStreams))
    /\ Len(muxChan) <= MuxChanCap

(***************************************************************************)
(* Every stream a client opens on a session the server runs reaches the    *)
(* layer above, in the order it was opened on its carrier: none is lost,   *)
(* duplicated or overtaken, whatever the interleaving of the sessions on   *)
(* the shared, bounded connChan.                                           *)
(***************************************************************************)
StreamsDeliveredInOrder ==
    \A c \in Carriers :
        [](delivered[c] = [i \in 1..Len(delivered[c]) |-> i])
        /\ (\A n \in 1..MaxStreams :
              (sess[c] # "unaccepted" /\ opened[c] >= n)
                  ~> (Len(delivered[c]) >= n \/ ctxDone))

(***************************************************************************)
(* Shutdown: after Close no session goroutine stays blocked on connChan,   *)
(* and the worker and the layer above return.                              *)
(***************************************************************************)
MuxReleasedAfterClose ==
    ctxDone ~> /\ \A c \in Carriers : sess[c] # "sending"
            /\ worker = "exited" /\ upper = "exited"
=============================================================================
