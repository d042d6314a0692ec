---------------------------- MODULE TrojanServer ----------------------------
(***************************************************************************)
(* The Trojan tunnel server (package trojan, src/unnamed/part_000 lines    *)
(* 183-456): one handler goroutine per connection the underlay hands up,   *)
(* running InboundConn.Auth over a rewind connection, redirecting to the   *)
(* fallback on failure and dispatching by command on success; the upper    *)
(* layers take connections from connChan, muxChan and packetChan; an       *)
(* InboundConn is closed by the layer that owns it.  The handlers share    *)
(* the per-user IP set of the authenticator (statistic.User, not under     *)
(* src/, modelled from spec.md 3) and the three bounded channels.          *)
(***************************************************************************)
EXTENDS Naturals, Sequences, FiniteSets, SequencesExt, RewindConn

CONSTANTS
    Conns,      \* connections the underlay hands to acceptLoop
    Users,      \* hashes the authenticator accepts, one per user
    BadHash,    \* a 56-byte hash the authenticator does not know
    IPs,        \* client IPs
    ConnIP,     \* ConnIP[c]: the client IP of connection c (RemoteAddr)
    IPLimit,    \* the users' ip_limit
    ChanCap,    \* capacity of connChan, muxChan, packetChan (32 in NewServer)
    BufSize,    \* rewindConn.SetBufferSize(128)
    Requests    \* the byte streams a client may send

ASSUME /\ ConnIP \in [Conns -> IPs]
       /\ IPLimit \in Nat \ {0}
       /\ ChanCap \in Nat \ {0}
       /\ BadHash \notin Users

NoUser == "nouser"

\* The three commands of the request header, and one the code does not know.
Commands == {"CONNECT", "ASSOCIATE", "MUX", "OTHER"}

(***************************************************************************)
(* A request: the hash the client sends (split: whether its first segment  *)
(* carries fewer than the 56 bytes), the two CRLF fields, the command and  *)
(* domain of the header with the domain's length, and whether the client   *)
(* stops sending after the hash.                                           *)
(***************************************************************************)
HashSegs(r) ==
    IF r.split
    THEN << [kind |-> "hash", val |-> r.hash, dom |-> "none", len |-> 20],
            [kind |-> "hash", val |-> r.hash, dom |-> "none", len |-> 36] >>
    ELSE << [kind |-> "hash", val |-> r.hash, dom |-> "none", len |-> 56] >>

Crlf(v) == [kind |-> "crlf", val |-> v, dom |-> "none", len |-> 2]

\* CMD, ATYP=DomainName, length byte, name, port.
Header(r) == [kind |-> "hdr", val |-> r.cmd, dom |-> r.dom, len |-> 5 + r.domLen]

Payload == [kind |-> "data", val |-> "payload", dom |-> "none", len |-> 100]

Stream(r) ==
    IF r.truncated
    THEN HashSegs(r)
    ELSE HashSegs(r) \o << Crlf(r.crlf1), Header(r), Crlf(r.crlf2), Payload >>

VARIABLES
    pc,         \* pc[c]: where the handler of c is, or who owns c
    req,        \* req[c]: what the client of c sent
    rc,         \* rc[c]: the RewindConn the handler wraps c in
    user,       \* user[c]: InboundConn.user, set by Auth
    meta,       \* meta[c]: InboundConn.metadata, set by Auth
    target,     \* target[c]: the channel the handler sends c to
    ipSet,      \* ipSet[u]: the IPs user u holds (statistic.User)
    connChan, muxChan, packetChan,
    fallback,   \* fallback[c]: the bytes the redirector sent to redirAddr
    loop,       \* acceptLoop: "running" or "exited"
    uppers,     \* the callers of AcceptConn/AcceptPacket still calling:
                \* "conn" (the proxy), "mux" (the mux server), "packet"
    ctxDone     \* s.ctx is cancelled

vars == <<pc, req, rc, user, meta, target, ipSet,
          connChan, muxChan, packetChan, fallback, loop, uppers, ctxDone>>

life == <<loop, uppers, ctxDone>>

chans == <<connChan, muxChan, packetChan>>

NoRequest == [hash |-> BadHash, split |-> FALSE, crlf1 |-> "ok", cmd |-> "OTHER",
              dom |-> "none", domLen |-> 0, crlf2 |-> "ok", truncated |-> TRUE]

(***************************************************************************)
(* statistic.User.AddIP / DelIP (spec.md 3): the IP set never exceeds      *)
(* ip_limit; an IP already in the set is admitted again.                   *)
(***************************************************************************)
CanAddIP(set, i) == i \in set \/ Cardinality(set) < IPLimit

AddIP(set, i) == IF CanAddIP(set, i) THEN set \cup {i} ELSE set

DelIP(set, i) == set \ {i}

Init ==
    /\ pc = [c \in Conns |-> "idle"]
    /\ req = [c \in Conns |-> NoRequest]
    /\ rc = [c \in Conns |-> NewRewindConn(<<>>)]
    /\ user = [c \in Conns |-> NoUser]
    /\ meta = [c \in Conns |-> [cmd |-> "none", dom |-> "none"]]
    /\ target = [c \in Conns |-> "none"]
    /\ ipSet = [u \in Users |-> {}]
    /\ connChan = <<>> /\ muxChan = <<>> /\ packetChan = <<>>
    /\ fallback = [c \in Conns |-> <<>>]
    /\ loop = "running" /\ uppers = {"conn", "mux", "packet"}
    /\ ctxDone = FALSE

(***************************************************************************)
(* The failure path of the handler: Rewind, StopBuffering and hand the     *)
(* rewind connection to the redirector, which sends all of it to redirAddr.*)
(* Nothing else happens: the InboundConn is not closed.                    *)
(***************************************************************************)
\* A plausible slip: hand the connection over without rewinding it.
RedirectNoRewind(c, r) ==
    LET back == StopBuffering(r)
    IN  /\ rc' = [rc EXCEPT ![c] = back]
        /\ fallback' = [fallback EXCEPT ![c] = Drain(back)]
        /\ pc' = [pc EXCEPT ![c] = "redirected"]

Redirect(c, r) ==
    LET back == StopBuffering(Rewind(r))
    IN  /\ rc' = [rc EXCEPT ![c] = back]
        /\ fallback' = [fallback EXCEPT ![c] = Drain(back)]
        /\ pc' = [pc EXCEPT ![c] = "redirected"]

\* acceptLoop takes c from the underlay and starts its handler, which wraps
\* c in a RewindConn buffering BufSize bytes.  Once Close has closed the
\* underlay, AcceptConn fails instead.
AcceptLoop(c) ==
    /\ loop = "running" /\ ~ctxDone /\ pc[c] = "idle"
    /\ \E r \in Requests :
          /\ req' = [req EXCEPT ![c] = r]
          /\ rc' = [rc EXCEPT ![c] = SetBufferSize(NewRewindConn(Stream(r)), BufSize)]
    /\ pc' = [pc EXCEPT ![c] = "readHash"]
    /\ UNCHANGED <<user, meta, target, ipSet, chans, fallback, life>>

\* The underlay's AcceptConn fails after Close; ctx is done, so the loop
\* returns.
AcceptLoopExit ==
    /\ loop = "running" /\ ctxDone
    /\ loop' = "exited"
    /\ UNCHANGED <<pc, req, rc, user, meta, target, ipSet, chans, fallback,
                   uppers, ctxDone>>

\* Auth: one Read of the 56-byte hash, then AuthUser.
AuthReadHash(c) ==
    /\ pc[c] = "readHash"
    /\ LET rd == Read(rc[c])
       IN  IF rd.err \/ rd.seg.kind # "hash" \/ rd.seg.len # 56
              \/ rd.seg.val \notin Users
           THEN Redirect(c, rd.conn) /\ UNCHANGED user
           ELSE /\ rc' = [rc EXCEPT ![c] = rd.conn]
                /\ user' = [user EXCEPT ![c] = rd.seg.val]
                /\ pc' = [pc EXCEPT ![c] = "addIP"]
                /\ UNCHANGED fallback
    /\ UNCHANGED <<req, meta, target, ipSet, chans, life>>

\* A plausible slip: ignore the result of AddIP.
AuthAddIPIgnoresResult(c) ==
    /\ pc[c] = "addIP"
    /\ ipSet' = [ipSet EXCEPT ![user[c]] = AddIP(@, ConnIP[c])]
    /\ pc' = [pc EXCEPT ![c] = "readRequest"]
    /\ UNCHANGED <<rc, fallback, req, user, meta, target, chans, life>>

\* Auth: the client IP is added to the user's IP set; ip limit reached fails.
AuthAddIP(c) ==
    /\ pc[c] = "addIP"
    /\ LET u == user[c]
       IN  IF CanAddIP(ipSet[u], ConnIP[c])
           THEN /\ ipSet' = [ipSet EXCEPT ![u] = AddIP(@, ConnIP[c])]
                /\ pc' = [pc EXCEPT ![c] = "readRequest"]
                /\ UNCHANGED <<rc, fallback>>
           ELSE Redirect(c, rc[c]) /\ UNCHANGED ipSet
    /\ UNCHANGED <<req, user, meta, target, chans, life>>

(***************************************************************************)
(* Auth reads CRLF, the request header and CRLF (an error in any read      *)
(* fails Auth; the CRLF bytes themselves are not compared), then the       *)
(* handler stops buffering and picks the channel by command.  A failure    *)
(* is redirected with the IP still in the user's set; an unknown command   *)
(* is logged and the connection left as it is.                             *)
(***************************************************************************)
Route(m) ==
    CASE m.cmd = "CONNECT" /\ m.dom = "MUX_CONN" -> "mux"
      [] m.cmd = "CONNECT"                       -> "conn"
      [] m.cmd = "ASSOCIATE"                     -> "packet"
      [] m.cmd = "MUX"                           -> "mux"
      [] OTHER                                   -> "none"

AuthReadRequest(c) ==
    /\ pc[c] = "readRequest"
    /\ LET r1 == Read(rc[c])
           r2 == Read(r1.conn)
           r3 == Read(r2.conn)
           failed == \/ r1.err
                     \/ (~r1.err /\ r2.err)
                     \/ (~r1.err /\ ~r2.err /\ (r2.seg.kind # "hdr" \/ r3.err))
           last == IF r1.err THEN r1.conn
                   ELSE IF r2.err THEN r2.conn ELSE r3.conn
           m == [cmd |-> r2.seg.val, dom |-> r2.seg.dom]
       IN  IF failed
           THEN Redirect(c, last) /\ UNCHANGED <<meta, target>>
           ELSE /\ rc' = [rc EXCEPT ![c] = StopBuffering(r3.conn)]
                /\ meta' = [meta EXCEPT ![c] = m]
                /\ target' = [target EXCEPT ![c] = Route(m)]
                /\ pc' = [pc EXCEPT ![c] = IF Route(m) = "none"
                                            THEN "dropped" ELSE "send"]
                /\ UNCHANGED fallback
    /\ UNCHANGED <<req, user, ipSet, chans, life>>

\* A plausible slip: an unbounded queue in place of the channel.
SendUnbounded(ch, c) == ch' = Append(ch, c)

\* The handler's blocking send: it waits while the channel is full.
Send(ch, c) == /\ Len(ch) < ChanCap
               /\ ch' = Append(ch, c)

Dispatch(c) ==
    /\ pc[c] = "send"
    /\ \/ target[c] = "conn" /\ Send(connChan, c) /\ UNCHANGED <<muxChan, packetChan>>
       \/ target[c] = "mux" /\ Send(muxChan, c) /\ UNCHANGED <<connChan, packetChan>>
       \/ target[c] = "packet" /\ Send(packetChan, c) /\ UNCHANGED <<connChan, muxChan>>
    /\ pc' = [pc EXCEPT ![c] = "queued"]
    /\ UNCHANGED <<req, rc, user, meta, target, ipSet, fallback, life>>

\* AcceptConn(mux tunnel), AcceptConn(any other), AcceptPacket: the upper
\* layer takes the oldest connection of its channel and owns it.  Each
\* selects on s.ctx as well; after Close its caller gets an error and
\* stops calling (UpperExit).
Take(u, ch) ==
    /\ u \in uppers /\ ch # <<>>
    /\ ch' = Tail(ch)
    /\ pc' = [pc EXCEPT ![Head(ch)] = "owned"]

AcceptConn ==
    \/ Take("mux", muxChan) /\ UNCHANGED <<connChan, packetChan>>
    \/ Take("conn", connChan) /\ UNCHANGED <<muxChan, packetChan>>

AcceptPacket == Take("packet", packetChan) /\ UNCHANGED <<connChan, muxChan>>

UpperExit ==
    /\ ctxDone /\ \E u \in uppers : uppers' = uppers \ {u}
    /\ UNCHANGED <<pc, req, rc, user, meta, target, ipSet, chans, fallback,
                   loop, ctxDone>>

\* Server.Close: s.cancel() and underlay.Close().
Close ==
    /\ ~ctxDone /\ ctxDone' = TRUE
    /\ UNCHANGED <<pc, req, rc, user, meta, target, ipSet, chans, fallback,
                   loop, uppers>>

\* InboundConn.Close: the owner closes c, which gives the IP back.
InboundConnClose(c) ==
    /\ pc[c] = "owned"
    /\ ipSet' = [ipSet EXCEPT ![user[c]] = DelIP(@, ConnIP[c])]
    /\ pc' = [pc EXCEPT ![c] = "closed"]
    /\ UNCHANGED <<req, rc, user, meta, target, chans, fallback, life>>

\* Every connection has been dealt with, or the server is closed and its
\* loops have returned: handlers may be left blocked on a full channel.
Done == \/ \A c \in Conns : pc[c] \in {"redirected", "dropped", "closed"}
        \/ ctxDone /\ loop = "exited" /\ uppers = {}

Terminated == Done /\ UNCHANGED vars

Next ==
    \/ \E c \in Conns :
          \/ AcceptLoop(c) \/ AuthReadHash(c) \/ AuthAddIP(c)
          \/ AuthReadRequest(c) \/ Dispatch(c) \/ InboundConnClose(c)
    \/ (AcceptConn \/ AcceptPacket) /\ UNCHANGED <<req, rc, user, meta, target, ipSet, fallback, life>>
    \/ AcceptLoopExit \/ UpperExit \/ Close
    \/ Terminated

Spec == Init /\ [][Next]_vars
-----------------------------------------------------------------------------
(***************************************************************************)
(* Properties                                                              *)
(***************************************************************************)
\* The states in which a connection that passed AddIP is still served: an
\* unknown command ("dropped", spec.md 4.7) ends the service like a close.
Served == {"readRequest", "send", "queued", "owned"}

TypeOK ==
    /\ pc \in [Conns -> {"idle", "readHash", "addIP", "readRequest", "send",
                         "queued", "owned", "closed", "redirected", "dropped"}]
    /\ req \in [Conns -> Requests \cup {NoRequest}]
    /\ user \in [Conns -> Users \cup {NoUser}]
    /\ target \in [Conns -> {"none", "conn", "mux", "packet"}]
    /\ ipSet \in [Users -> SUBSET IPs]
    /\ \A ch \in {connChan, muxChan, packetChan} :
          ch \in Seq(Conns) /\ Len(ch) <= ChanCap

(***************************************************************************)
(* Probe resistance (spec.md 4.7, 8.1): a connection the handler gives up  *)
(* on is replayed to the fallback byte for byte from its first byte,       *)
(* whichever read of Auth failed and however the client segmented it.      *)
(***************************************************************************)
RedirectReplaysClientBytes ==
    \A c \in Conns : pc[c] = "redirected" => fallback[c] = Stream(req[c])

(***************************************************************************)
(* The IP limit (spec.md 3, 8.2): the connections a user has been admitted *)
(* on and that are still served come from at most ip_limit distinct IPs,   *)
(* across interleaved AddIP of concurrent handlers and DelIP of closing    *)
(* owners (InboundConn.Close, line 243), also when two of them share an    *)
(* IP.                                                                     *)
(***************************************************************************)
LiveIPs(u) == {ConnIP[c] : c \in {d \in Conns : pc[d] \in Served /\ user[d] = u}}

IPLimitRespected == \A u \in Users : Cardinality(LiveIPs(u)) <= IPLimit

(***************************************************************************)
(* No leaked IP slot (spec.md 8.2, 4.7): every IP a user holds belongs to  *)
(* a connection admitted for that user and still served; a connection      *)
(* that failed Auth after AddIP, or that the handler dropped for an        *)
(* unknown command, must have released its IP.                             *)
(***************************************************************************)
NoLeakedIP == \A u \in Users : ipSet[u] \subseteq LiveIPs(u)
=============================================================================
