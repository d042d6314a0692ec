\* One TCP and one UDP relay, each peer finishing or not, empty datagrams,
\* and Close at any moment.  A relay whose peers keep their sides open
\* waits for them for good, so a state with nothing to do is no deadlock.
CONSTANTS
    c1 = c1  c2 = c2
    Conns <- MCConns
    Kind <- MCKind
    ErrChanCap = 2
    MayEmpty = TRUE
    MayClose = TRUE

SPECIFICATION Spec
CHECK_DEADLOCK FALSE

PROPERTY RelayEndsAfterASideEnds
