----------------------------- MODULE MCSNIMatch -----------------------------
(***************************************************************************)
(* The configuration-time logic of the server, checked together: the       *)
(* startup the server creator goes through, the tunnel tree it builds, and *)
(* the SNI policy each handshake of the TLS layer it built applies.        *)
(***************************************************************************)
EXTENDS SNIMatch, Startup

\* A wildcard, a two-label name and a wildcard over a two-label suffix.
MCPatterns == { <<"*", ".", "b">>, <<"a", ".", "b">>, <<"*", ".", "a", ".", "b">> }

MCInit == Init /\ StartupInit

\* Handshakes reach GetCertificate only when the creator built a TLS layer
\* (no transport plugin) and returned the proxy; the SNI settings do not
\* change meanwhile, so starting them later loses no answer.
MCNext == \/ phase = "ready" /\ ~pluginEnabled /\ Next /\ UNCHANGED stvars
          \/ StartupNext /\ UNCHANGED vars

MCSpec == MCInit /\ [][MCNext]_<<vars, stvars>>
=============================================================================
