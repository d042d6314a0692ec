------------------------------ MODULE Handoff -------------------------------
(***************************************************************************)
(* What a layer server of src/tunnel/tls/server.go promises the layers     *)
(* above it, with the mechanics (handlers, channels, peeks, locks) left    *)
(* out: a connection it takes from below is pending until it reaches one   *)
(* outcome (a layer above, a redirect, a close), stays there, and reaches  *)
(* one while the server runs.  The transport and TLS servers each refine   *)
(* it under their own mapping.                                             *)
(***************************************************************************)
CONSTANTS
    Conns,      \* the connections the layer below hands up
    Outcomes    \* where a connection can end up

VARIABLES
    owner,      \* owner[c]: "none", "pending" or an outcome
    stopped     \* the server's context is cancelled

avars == <<owner, stopped>>

Init ==
    /\ owner = [c \in Conns |-> "none"]
    /\ stopped = FALSE

\* The server accepts c from the layer below.
Take(c) ==
    /\ owner[c] = "none"
    /\ owner' = [owner EXCEPT ![c] = "pending"]
    /\ UNCHANGED stopped

\* c reaches its outcome, once.
Settle(c, o) ==
    /\ owner[c] = "pending"
    /\ owner' = [owner EXCEPT ![c] = o]
    /\ UNCHANGED stopped

Stop ==
    /\ ~stopped /\ stopped' = TRUE
    /\ UNCHANGED owner

Next ==
    \/ \E c \in Conns : Take(c) \/ \E o \in Outcomes : Settle(c, o)
    \/ Stop

\* While the server runs, a pending connection is not left behind.
Progress ==
    \A c \in Conns : owner[c] = "pending" ~> (owner[c] \in Outcomes \/ stopped)

Spec == Init /\ [][Next]_avars /\ Progress
=============================================================================
