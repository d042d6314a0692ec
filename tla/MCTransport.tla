---------------------------- MODULE MCTransport -----------------------------
EXTENDS Transport

CONSTANTS t1, t2, t3

MCConns == {t1, t2, t3}
=============================================================================
