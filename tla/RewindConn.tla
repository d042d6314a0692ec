----------------------------- MODULE RewindConn -----------------------------
(***************************************************************************)
(* The rewind connection (common.RewindConn) and the redirector's splice.  *)
(* Their code is not under src/; both are modelled from spec.md 4.2 and    *)
(* 4.3.  A byte stream is a sequence of segments: one segment is what one  *)
(* Read of the underlying connection returns.  A segment is a record       *)
(*   [kind : {"hash","crlf","hdr","data"}, val, dom, len]                  *)
(* where len is its size in bytes.                                         *)
(*                                                                         *)
(* A rewind connection is a record                                         *)
(*   [src, buf, idx, rewound, buffering, size]                             *)
(* src the bytes not yet read from the underlying connection, buf the      *)
(* rewind buffer, idx the replay cursor into buf.                          *)
(***************************************************************************)
EXTENDS Naturals, Sequences, SequencesExt

\* Number of bytes in a sequence of segments.
Bytes(s) == FoldLeft(LAMBDA acc, seg : acc + seg.len, 0, s)

\* NewRewindConn(conn): nothing read, nothing buffered.
NewRewindConn(src) ==
    [src |-> src, buf |-> <<>>, idx |-> 0,
     rewound |-> FALSE, buffering |-> FALSE, size |-> 0]

\* SetBufferSize(n): start buffering with capacity n.
SetBufferSize(r, n) ==
    [r EXCEPT !.buffering = TRUE, !.size = n, !.buf = <<>>, !.idx = 0]

\* Rewind(): the next reads replay the buffer from its start.
Rewind(r) == [r EXCEPT !.rewound = TRUE, !.idx = 0]

\* StopBuffering(): the buffer is frozen; reads no longer append to it.
StopBuffering(r) == [r EXCEPT !.buffering = FALSE]

NoSegment == [kind |-> "none", val |-> "none", dom |-> "none", len |-> 0]

(***************************************************************************)
(* One Read.  The result is [err, seg, conn]: the segment read and the     *)
(* connection after the read.  A rewound connection first drains its       *)
(* buffer.  A read of the underlying stream fails at end of stream, and,   *)
(* while buffering, when the segment would overflow the buffer (spec 4.2:  *)
(* the read fails with BufferOverflow, and the segment stays unread).      *)
(***************************************************************************)
Read(r) ==
    IF r.rewound /\ r.idx < Len(r.buf)
    THEN [err |-> FALSE, seg |-> r.buf[r.idx + 1],
          conn |-> [r EXCEPT !.idx = @ + 1]]
    ELSE LET s == [r EXCEPT !.rewound = FALSE]
         IN  IF r.src = <<>>
                \/ (r.buffering /\ Bytes(r.buf) + Head(r.src).len > r.size)
             THEN [err |-> TRUE, seg |-> NoSegment, conn |-> s]
             ELSE [err |-> FALSE, seg |-> Head(r.src),
                   conn |-> [s EXCEPT !.src = Tail(@),
                                      !.buf = IF r.buffering
                                              THEN Append(@, Head(r.src))
                                              ELSE @]]

(***************************************************************************)
(* The redirector dials the fallback and copies the inbound connection to  *)
(* it until end of stream: the fallback receives every byte a reader of    *)
(* the connection would still get, the unreplayed part of the buffer       *)
(* first.                                                                  *)
(***************************************************************************)
Drain(r) ==
    (IF r.rewound THEN SubSeq(r.buf, r.idx + 1, Len(r.buf)) ELSE <<>>)
    \o r.src
=============================================================================
