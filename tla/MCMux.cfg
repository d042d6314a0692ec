\* Two mux carriers, each opening two streams, sharing a connChan of
\* capacity one so that session goroutines wait on it, and Close at any
\* moment.  The server may stop: clients may close their sessions and
\* after Close every goroutine returns.
CONSTANTS
    m1 = m1  m2 = m2
    Carriers <- MCCarriers
    MaxStreams = 2
    MuxChanCap = 1

SPECIFICATION Spec
CHECK_DEADLOCK FALSE

INVARIANT TypeOK
PROPERTY StreamsDeliveredInOrder
PROPERTY MuxReleasedAfterClose
