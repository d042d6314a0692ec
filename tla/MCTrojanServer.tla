--------------------------- MODULE MCTrojanServer ---------------------------
(***************************************************************************)
(* Model values and request sets for checking TrojanServer with TLC.       *)
(***************************************************************************)
EXTENDS TrojanServer

CONSTANTS c1, c2, c3, i1, i2, i3, u1

MCConns == {c1, c2, c3}
MCIPs == {i1, i2, i3}
MCUsers == {u1}

\* A request from a client of user u with the given command and domain.
Req(u, cmd, dom, domLen) ==
    [hash |-> u, split |-> FALSE, crlf1 |-> "ok", cmd |-> cmd, dom |-> dom,
     domLen |-> domLen, crlf2 |-> "ok", truncated |-> FALSE]

\* What well-behaved clients and probes send: CONNECT, ASSOCIATE, MUX over
\* CONNECT (the MUX command takes the same branch of Dispatch), an unknown
\* command, an unknown hash, a client that stops after
\* the hash, a hash split over two segments, and a domain too long for the
\* 128-byte rewind buffer.
MCRequestsFor(u) ==
    { Req(u, "CONNECT", "example.com", 11),
      Req(u, "ASSOCIATE", "example.com", 11),
      Req(u, "CONNECT", "MUX_CONN", 8),
      Req(u, "OTHER", "example.com", 11),
      Req(BadHash, "CONNECT", "example.com", 11),
      [Req(u, "CONNECT", "example.com", 11) EXCEPT !.truncated = TRUE],
      [Req(u, "CONNECT", "example.com", 11) EXCEPT !.split = TRUE],
      Req(u, "CONNECT", "a-long-name", 100) }

MCRequests == UNION {MCRequestsFor(u) : u \in Users}

\* Every connection from its own IP.
MCConnIPDistinct == [c \in MCConns |-> CASE c = c1 -> i1 [] c = c2 -> i2 [] OTHER -> i3]

\* Two connections from one client IP (two tabs, a NAT), a third from another.
MCConnIPShared == [c \in MCConns |-> IF c = c3 THEN i2 ELSE i1]

\* Clients that all send a well-formed CONNECT request.
MCWellFormedRequests == {Req(u, "CONNECT", "example.com", 11) : u \in Users}
=============================================================================
