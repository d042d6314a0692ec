\* The server may stop: after Close the reload goroutine exits and the
\* operator has nothing left to install.
CONSTANTS
    Versions = {1, 2, 3}
    Password = ""
    MayDelete = TRUE
    Gone = Gone

SPECIFICATION Spec
CHECK_DEADLOCK FALSE

PROPERTY LoopExitsAfterClose
