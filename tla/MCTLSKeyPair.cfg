\* The server may stop: after Close the reload goroutine exits, and the
\* operator stops once it has installed every version or deleted the key.
CONSTANTS
    Versions = {1, 2, 3}
    Password = ""
    MayDelete = TRUE
    Gone = Gone

SPECIFICATION Spec
CHECK_DEADLOCK FALSE

INVARIANT TypeOK
PROPERTY KeyPairFollowsFiles
PROPERTY LoopExitsAfterCloseWhileKeyExists
