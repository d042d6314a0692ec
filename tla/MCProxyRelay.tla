---------------------------- MODULE MCProxyRelay ----------------------------
EXTENDS ProxyRelay

CONSTANTS c1, c2

MCConns == {c1, c2}

\* One TCP inbound and one UDP inbound.
MCKind == [c \in MCConns |-> IF c = c1 THEN "conn" ELSE "packet"]
=============================================================================
