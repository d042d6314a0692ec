----------------------------- MODULE ProxyRelay -----------------------------
(***************************************************************************)
(* The relay engine (src/proxy/proxy.go): relayConnLoop (63-117) and       *)
(* relayPacketLoop (120-178) accept inbound connections from the           *)
(* endpoint servers; a handler goroutine per inbound dials the outbound    *)
(* through the sink, starts one copier per direction, each reporting on    *)
(* errChan (capacity 2) when it stops, and returns on the first report or  *)
(* when the proxy's context is cancelled, closing both connections.        *)
(*                                                                         *)
(* A connection side is "in" (the client, behind the inbound) or "out"     *)
(* (the target, behind the outbound).  The copier of direction "up" reads  *)
(* in and writes out; "down" the reverse.  The peers may finish their side *)
(* at any time, or never; a packet peer may send an empty datagram.        *)
(***************************************************************************)
EXTENDS Naturals

CONSTANTS
    Conns,      \* the inbound connections the endpoint servers hand up
    Kind,       \* Kind[c]: "conn" (AcceptConn) or "packet" (AcceptPacket)
    ErrChanCap, \* make(chan error, 2)
    MayEmpty,   \* whether a packet peer may send a zero-length datagram
    MayClose    \* whether the proxy may be closed

ASSUME /\ Kind \in [Conns -> {"conn", "packet"}]
       /\ ErrChanCap \in Nat
       /\ MayEmpty \in BOOLEAN /\ MayClose \in BOOLEAN

Sides == {"in", "out"}
Dirs == {"up", "down"}
Src(d) == IF d = "up" THEN "in" ELSE "out"
Dst(d) == IF d = "up" THEN "out" ELSE "in"

VARIABLES
    hpc,        \* hpc[c]: "unaccepted", "dial", "relay", "done"
    dialed,     \* dialed[c]: the sink dialled the outbound of c
    cp,         \* cp[c][d]: copier d of c: "none", "copying", "report", "ended"
    errs,       \* errs[c]: reports buffered in errChan of c
    fin,        \* fin[c][s]: the peer behind side s has finished (EOF)
    empty,      \* empty[c][s]: the peer behind s sent a zero-length datagram
    closed,     \* closed[c][s]: the handler closed side s
    loops,      \* the accept loops still running, by kind
    ctxDone     \* Proxy.Close cancelled p.ctx

vars == <<hpc, dialed, cp, errs, fin, empty, closed, loops, ctxDone>>

peers == <<fin, empty>>

\* Proxy.Run (lines 42-48): relayConnLoop and relayPacketLoop each start an
\* accept loop per source, then Run waits on p.ctx.
RunLoops == {"conn", "packet"}

Init ==
    /\ hpc = [c \in Conns |-> "unaccepted"]
    /\ dialed = [c \in Conns |-> FALSE]
    /\ cp = [c \in Conns |-> [d \in Dirs |-> "none"]]
    /\ errs = [c \in Conns |-> 0]
    /\ fin = [c \in Conns |-> [s \in Sides |-> FALSE]]
    /\ empty = [c \in Conns |-> [s \in Sides |-> FALSE]]
    /\ closed = [c \in Conns |-> [s \in Sides |-> FALSE]]
    /\ loops = RunLoops
    /\ ctxDone = FALSE

(***************************************************************************)
(* The accept loops (lines 65-81, 121-134): AcceptConn / AcceptPacket      *)
(* returns the next inbound, or an error once the endpoint is closed, on   *)
(* which the loop returns because p.ctx is done.                           *)
(***************************************************************************)
Accept(c) ==
    /\ hpc[c] = "unaccepted" /\ Kind[c] \in loops
    /\ hpc' = [hpc EXCEPT ![c] = "dial"]
    /\ UNCHANGED <<dialed, cp, errs, closed, loops, ctxDone>>

LoopExit(k) ==
    /\ k \in loops /\ ctxDone
    /\ loops' = loops \ {k}
    /\ UNCHANGED <<hpc, dialed, cp, errs, closed, ctxDone>>

\* Lines 85-101, 136-164: DialConn / DialPacket; on an error the handler
\* returns and its deferred inbound.Close runs; otherwise both copiers start.
Dial(c) ==
    /\ hpc[c] = "dial"
    /\ \/ /\ hpc' = [hpc EXCEPT ![c] = "done"]
          /\ closed' = [closed EXCEPT ![c]["in"] = TRUE]
          /\ UNCHANGED <<dialed, cp>>
       \/ /\ hpc' = [hpc EXCEPT ![c] = "relay"]
          /\ dialed' = [dialed EXCEPT ![c] = TRUE]
          /\ cp' = [cp EXCEPT ![c] = [d \in Dirs |-> "copying"]]
          /\ UNCHANGED closed
    /\ UNCHANGED <<errs, loops, ctxDone>>

(***************************************************************************)
(* A copier stops when its read fails (the peer finished, or the handler   *)
(* closed the side it reads) or its write fails (the handler closed the    *)
(* side it writes).  The packet copier also stops, reporting nil, on a     *)
(* read of zero bytes (lines 152-155).                                     *)
(***************************************************************************)
CopyStops(c, d) ==
    \/ fin[c][Src(d)] \/ closed[c][Src(d)] \/ closed[c][Dst(d)]
    \/ Kind[c] = "packet" /\ empty[c][Src(d)]

CopyEnd(c, d) ==
    /\ cp[c][d] = "copying" /\ CopyStops(c, d)
    /\ cp' = [cp EXCEPT ![c][d] = "report"]
    /\ UNCHANGED errs

\* A plausible slip: make(chan error, 1).
CopyReportCap1(c, d) ==
    /\ cp[c][d] = "report" /\ errs[c] < 1
    /\ errs' = [errs EXCEPT ![c] = @ + 1]
    /\ cp' = [cp EXCEPT ![c][d] = "ended"]

\* errChan <- err: blocks while errChan holds ErrChanCap reports.
CopyReport(c, d) ==
    /\ cp[c][d] = "report" /\ errs[c] < ErrChanCap
    /\ errs' = [errs EXCEPT ![c] = @ + 1]
    /\ cp' = [cp EXCEPT ![c][d] = "ended"]

Copier(c, d) ==
    /\ CopyEnd(c, d) \/ CopyReport(c, d)
    /\ UNCHANGED <<hpc, dialed, closed, loops, ctxDone>>

\* Lines 103-111, 165-173: the first report, or p.ctx.Done(); the deferred
\* outbound.Close and inbound.Close run on return.
RelayReturns(c) ==
    /\ hpc[c] = "relay"
    /\ \/ errs[c] > 0 /\ errs' = [errs EXCEPT ![c] = @ - 1]
       \/ ctxDone /\ UNCHANGED errs
    /\ hpc' = [hpc EXCEPT ![c] = "done"]
    /\ closed' = [closed EXCEPT ![c] = [s \in Sides |-> TRUE]]

Handler(c) ==
    /\ \/ Dial(c)
       \/ RelayReturns(c) /\ UNCHANGED <<dialed, cp>>
    /\ UNCHANGED <<loops, ctxDone>>

Relay(c) == Accept(c) \/ Handler(c) \/ \E d \in Dirs : Copier(c, d)

(***************************************************************************)
(* The peers: the client or the target finishes its side; a packet peer    *)
(* sends a datagram of zero bytes.                                         *)
(***************************************************************************)
Open(c, s) == /\ hpc[c] \in {"dial", "relay"} /\ ~closed[c][s]
              /\ (s = "out" => dialed[c])

PeerFinish(c, s) ==
    /\ Open(c, s) /\ ~fin[c][s]
    /\ fin' = [fin EXCEPT ![c][s] = TRUE]
    /\ UNCHANGED empty

PeerSendsEmpty(c, s) ==
    /\ MayEmpty /\ Kind[c] = "packet"
    /\ Open(c, s) /\ ~empty[c][s]
    /\ empty' = [empty EXCEPT ![c][s] = TRUE]
    /\ UNCHANGED fin

Peer(c, s) ==
    /\ PeerFinish(c, s) \/ PeerSendsEmpty(c, s)
    /\ UNCHANGED <<hpc, dialed, cp, errs, closed, loops, ctxDone>>

\* Proxy.Close, lines 51-58: cancel p.ctx, then close the sink and sources.
Close ==
    /\ MayClose /\ ~ctxDone
    /\ ctxDone' = TRUE
    /\ UNCHANGED <<hpc, dialed, cp, errs, fin, empty, closed, loops>>

Next ==
    \/ \E c \in Conns : \/ Relay(c) /\ UNCHANGED peers
                        \/ \E s \in Sides : Peer(c, s)
    \/ \E k \in RunLoops : LoopExit(k) /\ UNCHANGED peers
    \/ Close

(***************************************************************************)
(* The goroutines of the proxy keep being scheduled while they can run;    *)
(* neither the peers nor Close are assumed to act.                         *)
(***************************************************************************)
Fairness ==
    /\ \A c \in Conns : WF_vars(Relay(c) /\ UNCHANGED peers)
    /\ \A k \in RunLoops : WF_vars(LoopExit(k) /\ UNCHANGED peers)

Spec == Init /\ [][Next]_vars /\ Fairness
-----------------------------------------------------------------------------
RelayOver(c) == hpc[c] = "done" /\ \A d \in Dirs : cp[c][d] \in {"none", "ended"}

(***************************************************************************)
(* Relay teardown (spec.md 4.9): once the client or the target has         *)
(* finished, or the proxy is closed, the handler returns, both connections *)
(* are closed and both copier goroutines end: none stays blocked reading   *)
(* or reporting on errChan.                                                *)
(***************************************************************************)
RelayEndsAfterASideEnds ==
    \A c \in Conns :
        (hpc[c] = "relay" /\ (fin[c]["in"] \/ fin[c]["out"] \/ ctxDone))
            ~> RelayOver(c)
=============================================================================
