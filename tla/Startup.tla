------------------------------ MODULE Startup -------------------------------
(***************************************************************************)
(* NewProxyFromConfigData (src/proxy/proxy.go 202-234), which picks the    *)
(* creator by run_type, and the server creator (src/proxy/server/server.go *)
(* 23-79) as the steps it takes once, at startup: transport.NewServer      *)
(* (src/tunnel/tls/server.go 516-577), whose plugin subprocess is started  *)
(* before the listener is opened; the TLS layer's NewServer (305-389),     *)
(* whose error BuildNext turns into log.Fatal (part_006 29-32); the rest   *)
(* of the tree of StackTree; CreateClientStack (part_006 75-88) and        *)
(* NewProxy.  Then                                                         *)
(* Proxy.Close (proxy.go 51-58), whose sources' Close calls reach          *)
(* transport.Server.Close (tls/server.go 424-430).                         *)
(*                                                                         *)
(* What the configuration names and what the system answers (a port in     *)
(* use, an unreadable file, an unreachable fallback, a plugin command that *)
(* does not start) are the inputs of the step that reads them.  The other  *)
(* layers' NewServer (Shadowsocks, Trojan, WebSocket, mux, simplesocks)    *)
(* are taken to succeed.                                                   *)
(***************************************************************************)
EXTENDS StackTree

\* cfg.TransportPlugin.Type: the three NewServer knows and one it does not.
PluginTypes == {"shadowsocks", "other", "plaintext", "unknown"}

\* cfg.TLS fallback settings: FallbackPort set, else HTTPResponseFileName
\* set, else neither.
FallbackSettings == {"port", "responseFile", "none"}

VARIABLES
    pluginEnabled,      \* cfg.TransportPlugin.Enabled
    shadowsocksEnabled, \* cfg.Shadowsocks.Enabled
    phase,      \* "config", "transport", "tls", "tree", "ready", "closed";
                \* or "failed" (an error returned), "fatal" (log.Fatal)
    plugin,     \* the plugin subprocess: "none" or "running"
    ctxCancelled, \* the creator's context (server.go 27) is cancelled
    sources     \* the serverList handed to NewProxy; {} before

stvars == <<pluginEnabled, shadowsocksEnabled, phase, plugin, ctxCancelled, sources>>

StartupInit ==
    /\ pluginEnabled \in BOOLEAN /\ shadowsocksEnabled \in BOOLEAN
    /\ phase = "config" /\ plugin = "none"
    /\ ctxCancelled = FALSE /\ sources = {}

(***************************************************************************)
(* NewProxyFromConfigData: a run_type with no registered creator, or a log *)
(* file that cannot be opened, returns an error; otherwise it calls the    *)
(* creator, whose first act is context.WithCancel (server.go 27).          *)
(***************************************************************************)
LoadConfig ==
    /\ phase = "config"
    /\ \E creatorFound \in BOOLEAN, logFileOk \in BOOLEAN :
         phase' = IF creatorFound /\ logFileOk THEN "transport" ELSE "failed"
    /\ UNCHANGED <<pluginEnabled, shadowsocksEnabled, plugin, ctxCancelled, sources>>

\* The creator's error paths (30-33, 73-76): cancel(); return nil, err.
CreatorFails ==
    /\ phase' = "failed" /\ ctxCancelled' = TRUE

(***************************************************************************)
(* transport.NewServer.  With the plugin enabled, shadowsocks and other    *)
(* run exec.Command(...).Start(), whose error is not checked (a command    *)
(* that fails to start leaves no process), plaintext does nothing and any  *)
(* other type returns an error; then net.Listen, whose error is returned   *)
(* with the subprocess left as it is.                                      *)
(***************************************************************************)
TransportNewServer ==
    /\ phase = "transport"
    /\ \E type \in PluginTypes, started \in BOOLEAN, listenOk \in BOOLEAN :
         LET typeOk == ~pluginEnabled \/ type # "unknown"
             spawns == pluginEnabled /\ type \in {"shadowsocks", "other"}
         IN  /\ plugin' = IF spawns /\ started THEN "running" ELSE "none"
             /\ \/ typeOk /\ listenOk /\ UNCHANGED ctxCancelled
                   /\ phase' = IF pluginEnabled THEN "tree" ELSE "tls"
                \/ ~(typeOk /\ listenOk) /\ CreatorFails
    /\ UNCHANGED <<pluginEnabled, shadowsocksEnabled, sources>>

\* loadKeyPair (261-302): with a password, a key that decrypts returns
\* "failed to decrypt key" (272) and one that does not leaves no key for
\* X509KeyPair; without one, LoadX509KeyPair needs readable files of one
\* pair.
KeyPairLoads(password, filesOk) == ~password /\ filesOk

(***************************************************************************)
(* root.BuildNext(tls.Name) (server.go 50): tls.NewServer dials the        *)
(* fallback port once, or reads the response file, then loads the key      *)
(* pair and opens the key log file; an error returns from NewServer and    *)
(* BuildNext calls log.Fatal, which ends the process.                      *)
(***************************************************************************)
BuildTLS ==
    /\ phase = "tls"
    /\ \E fallback \in FallbackSettings, reachable \in BOOLEAN,
          password \in BOOLEAN, filesOk \in BOOLEAN,
          keyLog \in BOOLEAN, openOk \in BOOLEAN :
         LET ok == /\ fallback \in {"port", "responseFile"} => reachable
                   /\ KeyPairLoads(password, filesOk)
                   /\ keyLog => openOk
         IN  phase' = IF ok THEN "tree" ELSE "fatal"
    /\ UNCHANGED <<pluginEnabled, shadowsocksEnabled, plugin, ctxCancelled, sources>>

(***************************************************************************)
(* The rest of the tree, FindAllEndpoints (server.go 53-71), then          *)
(* CreateClientStack (72-76): freedom, and router over it when routing is  *)
(* enabled; a NewClient error is returned.  NewProxy gets the sources.     *)
(***************************************************************************)
CreateServerProxy ==
    /\ phase = "tree"
    /\ \E clientOk \in BOOLEAN :
         \/ clientOk /\ phase' = "ready" /\ UNCHANGED ctxCancelled
            /\ sources' = ServerList(pluginEnabled, shadowsocksEnabled)
         \/ ~clientOk /\ CreatorFails /\ UNCHANGED sources
    /\ UNCHANGED <<pluginEnabled, shadowsocksEnabled, plugin>>

(***************************************************************************)
(* Proxy.Close: p.cancel() cancels the creator's context, then each        *)
(* source's Close cancels its own and calls its underlay's Close, down to  *)
(* transport.Server.Close, which kills the plugin process if it has one    *)
(* (cmd.Process != nil) and closes the listener.                           *)
(***************************************************************************)
\* transport.Server.Close: s.cancel(), the kill of the plugin process when
\* cmd.Process is set, and the listener's Close.
TransportClose == plugin' = "none"

ProxyClose ==
    /\ phase = "ready"
    /\ phase' = "closed" /\ ctxCancelled' = TRUE /\ TransportClose
    /\ UNCHANGED <<pluginEnabled, shadowsocksEnabled, sources>>

StartupNext ==
    LoadConfig \/ TransportNewServer \/ BuildTLS \/ CreateServerProxy \/ ProxyClose
-----------------------------------------------------------------------------
(***************************************************************************)
(* Whatever the transport plugin and Shadowsocks settings, the proxy the   *)
(* creator returns relays from exactly the four inbound stacks its         *)
(* comments describe: a Trojan node that is both an endpoint and the       *)
(* parent of mux is one source, and no intermediate layer (TLS, WebSocket, *)
(* mux, Shadowsocks) is one.                                               *)
(***************************************************************************)
EndpointsAsSpecified ==
    sources # {} => sources = ExpectedStacks(pluginEnabled, shadowsocksEnabled)
=============================================================================
