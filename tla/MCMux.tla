------------------------------- MODULE MCMux --------------------------------
EXTENDS Mux

CONSTANTS m1, m2

MCCarriers == {m1, m2}
=============================================================================
