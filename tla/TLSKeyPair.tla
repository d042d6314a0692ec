----------------------------- MODULE TLSKeyPair -----------------------------
(***************************************************************************)
(* Hot reload of the TLS key pair (src/tunnel/tls/server.go):              *)
(* checkKeyPairLoop (lines 218-258) polls the key and certificate files,   *)
(* loads a new pair with loadKeyPair (261-302) when their bytes changed    *)
(* and swaps it into the keyPair slot under keyPairLock, which handshakes  *)
(* read in GetCertificate (89-111); Server.Close (54-60) cancels the       *)
(* context the loop selects on.                                            *)
(*                                                                         *)
(* File contents are versions: a key and a certificate of the same version *)
(* form a pair.  The operator installs version v+1 by replacing both files *)
(* in either order; a file being replaced cannot be read until it is       *)
(* written.  The operator may also delete the key file for good.           *)
(***************************************************************************)
EXTENDS Naturals, FiniteSets

CONSTANTS
    Versions,   \* the versions installed one after the other: 1..N
    Password,   \* cfg.TLS.KeyPassword: "" or a password
    MayDelete,  \* whether the operator may delete the key file
    Gone        \* what ReadFile yields for a file that cannot be read

ASSUME /\ Versions = 1..Cardinality(Versions)
       /\ Gone \notin Versions
       /\ MayDelete \in BOOLEAN

Files == {"key", "cert"}

NoBytes == 0    \* lastKeyBytes, lastCertBytes before the first check: nil

VARIABLES
    file,       \* file[f]: what ReadFile of the key / cert path returns
    installed,  \* the version the operator is installing or has installed
    deleted,    \* the operator deleted the key file
    keyPair,    \* the version in s.keyPair
    lastKey,    \* lastKeyBytes
    lastCert,   \* lastCertBytes
    readKey,    \* keyBytes of the current iteration
    readCert,   \* certBytes of the current iteration
    loop,       \* where checkKeyPairLoop is
    ctxDone     \* s.ctx is cancelled

vars == <<file, installed, deleted, keyPair, lastKey, lastCert,
          readKey, readCert, loop, ctxDone>>

loopVars == <<keyPair, lastKey, lastCert, readKey, readCert, loop>>

(***************************************************************************)
(* loadKeyPair reads both files again.  With a password it decrypts the    *)
(* key block and returns "failed to decrypt key" when DecryptPEMBlock      *)
(* succeeds (line 272); without one tls.LoadX509KeyPair needs the key and  *)
(* certificate of one pair.  The result is the version loaded, or Gone.    *)
(***************************************************************************)
LoadKeyPair(key, cert) ==
    IF key = Gone \/ cert = Gone \/ key # cert THEN Gone
    ELSE IF Password # "" THEN Gone
    ELSE key

Init ==
    /\ file = [f \in Files |-> 1]
    /\ installed = 1
    /\ deleted = FALSE
    /\ keyPair = 1              \* NewServer loaded the pair (line 338)
    /\ lastKey = NoBytes /\ lastCert = NoBytes
    /\ readKey = NoBytes /\ readCert = NoBytes
    /\ loop = "readKey"
    /\ ctxDone = FALSE

\* A plausible slip: return from the loop on a read error instead of
\* continuing it.
ReadKeyFileReturns ==
    /\ loop = "readKey"
    /\ readKey' = file["key"]
    /\ loop' = IF file["key"] = Gone THEN "exited" ELSE "readCert"
    /\ UNCHANGED <<keyPair, lastKey, lastCert, readCert>>

\* Line 225: keyBytes, err := ioutil.ReadFile(keyPath); on error the for
\* loop continues at once.
ReadKeyFile ==
    /\ loop = "readKey"
    /\ readKey' = file["key"]
    /\ loop' = IF file["key"] = Gone THEN "readKey" ELSE "readCert"
    /\ UNCHANGED <<keyPair, lastKey, lastCert, readCert>>

\* Line 230: the same for the certificate.
ReadCertFile ==
    /\ loop = "readCert"
    /\ readCert' = file["cert"]
    /\ loop' = IF file["cert"] = Gone THEN "readKey" ELSE "compare"
    /\ UNCHANGED <<keyPair, lastKey, lastCert, readKey>>

\* A plausible slip: swap in the result of loadKeyPair without its error.
CompareAndLoadIgnoresErr ==
    /\ loop = "compare"
    /\ IF readKey # lastKey \/ readCert # lastCert
       THEN /\ keyPair' = LoadKeyPair(file["key"], file["cert"])
            /\ lastKey' = readKey /\ lastCert' = readCert
            /\ loop' = "wait"
       ELSE /\ loop' = "wait"
            /\ UNCHANGED <<keyPair, lastKey, lastCert>>
    /\ UNCHANGED <<readKey, readCert>>

\* Lines 235-247: when the bytes read differ from the last loaded ones,
\* loadKeyPair reads the files again; a failed load continues at once, a
\* successful one is swapped in and the bytes read are remembered.
CompareAndLoad ==
    /\ loop = "compare"
    /\ IF readKey # lastKey \/ readCert # lastCert
       THEN LET kp == LoadKeyPair(file["key"], file["cert"])
            IN  IF kp = Gone
                THEN /\ loop' = "readKey"
                     /\ UNCHANGED <<keyPair, lastKey, lastCert>>
                ELSE /\ keyPair' = kp
                     /\ lastKey' = readKey /\ lastCert' = readCert
                     /\ loop' = "wait"
       ELSE /\ loop' = "wait"
            /\ UNCHANGED <<keyPair, lastKey, lastCert>>
    /\ UNCHANGED <<readKey, readCert>>

\* A plausible slip: wait on the ticker alone.
TickIgnoresCtx ==
    /\ loop = "wait"
    /\ loop' = "readKey"
    /\ UNCHANGED <<keyPair, lastKey, lastCert, readKey, readCert>>

\* Lines 249-256: the select on the ticker and on s.ctx.Done().
Tick ==
    /\ loop = "wait"
    /\ loop' = IF ctxDone THEN "exited" ELSE "readKey"
    /\ UNCHANGED <<keyPair, lastKey, lastCert, readKey, readCert>>

Loop == (ReadKeyFile \/ ReadCertFile \/ CompareAndLoad \/ Tick)
        /\ UNCHANGED <<file, installed, deleted, ctxDone>>

\* Server.Close: s.cancel().
Close ==
    /\ ~ctxDone
    /\ ctxDone' = TRUE
    /\ UNCHANGED <<file, installed, deleted>> /\ UNCHANGED loopVars

(***************************************************************************)
(* The operator.                                                           *)
(***************************************************************************)
StartInstall ==
    /\ installed < Cardinality(Versions) /\ ~deleted
    /\ \A f \in Files : file[f] = installed
    /\ installed' = installed + 1
    /\ UNCHANGED <<file, deleted>>

Truncate(f) ==
    /\ file[f] \in Versions /\ file[f] < installed
    /\ file' = [file EXCEPT ![f] = Gone]
    /\ UNCHANGED <<installed, deleted>>

Write(f) ==
    /\ file[f] = Gone /\ ~deleted
    /\ file' = [file EXCEPT ![f] = installed]
    /\ UNCHANGED <<installed, deleted>>

DeleteKey ==
    /\ MayDelete /\ ~deleted
    /\ \A f \in Files : file[f] = installed
    /\ file' = [file EXCEPT !["key"] = Gone]
    /\ deleted' = TRUE
    /\ UNCHANGED installed

Operator ==
    /\ \/ StartInstall \/ DeleteKey
       \/ \E f \in Files : Truncate(f) \/ Write(f)
    /\ UNCHANGED ctxDone /\ UNCHANGED loopVars

Next == Loop \/ Close \/ Operator

(***************************************************************************)
(* The loop is a goroutine the scheduler keeps running; the operator       *)
(* finishes replacing a file it started on and writes the other file of    *)
(* the version it installs.                                                *)
(***************************************************************************)
Fairness ==
    /\ WF_vars(Loop)
    /\ \A f \in Files : WF_vars(Truncate(f) /\ UNCHANGED ctxDone /\ UNCHANGED loopVars)
                        /\ WF_vars(Write(f) /\ UNCHANGED ctxDone /\ UNCHANGED loopVars)

Spec == Init /\ [][Next]_vars /\ Fairness
-----------------------------------------------------------------------------
TypeOK ==
    /\ file \in [Files -> Versions \cup {Gone}]
    /\ installed \in Versions /\ deleted \in BOOLEAN
    /\ keyPair \in Versions
    /\ {lastKey, lastCert, readKey, readCert} \subseteq Versions \cup {Gone, NoBytes}
    /\ loop \in {"readKey", "readCert", "compare", "wait", "exited"}
    /\ ctxDone \in BOOLEAN

(***************************************************************************)
(* Hot reload (spec.md 4.5, scenario S6): once the files hold one complete *)
(* pair for good and the server runs, handshakes eventually present that   *)
(* pair, although the loop compares the bytes it read but loads the files  *)
(* as they are when loadKeyPair reads them.                                *)
(***************************************************************************)
Settled == file["key"] = file["cert"] /\ file["key"] # Gone /\ ~ctxDone

KeyPairFollowsFiles == <>[]Settled => <>[](keyPair = file["key"])

(***************************************************************************)
(* Shutdown (spec.md 5, 8.6): after Close the reload goroutine ends.       *)
(***************************************************************************)
LoopExitsAfterClose == ctxDone ~> loop = "exited"

(***************************************************************************)
(* The same while the key file exists: after Close the reload goroutine    *)
(* ends, whether Close finds it waiting on the ticker, reading, comparing  *)
(* or loading, unless the operator deletes the key file.                   *)
(***************************************************************************)
LoopExitsAfterCloseWhileKeyExists ==
    ctxDone /\ ~deleted ~> loop = "exited" \/ deleted
=============================================================================
