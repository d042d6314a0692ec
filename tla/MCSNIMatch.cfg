\* Names over a, b and the dot up to 4 characters: one-label names, names
\* one label longer than "b" or "a.b", and names with no dot before the
\* suffix ("ab", "aab") all occur.
CONSTANTS
    Alphabet = {"a", "b", "."}
    MaxLen = 4
    Patterns <- MCPatterns

SPECIFICATION MCSpec
\* Startup may end the process (an error, log.Fatal), and with a transport
\* plugin there is no TLS layer to handshake with: nothing follows.
CHECK_DEADLOCK FALSE

INVARIANT NoFalseRejection
INVARIANT EndpointsAsSpecified
