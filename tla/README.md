# TLA+ models of the trojan-go server

This directory holds TLA+ models of the server side of trojan-go, with the TLC
configurations that check them. The models cover the tunnel stack in
`src/unnamed/part_000` and `src/tunnel/tls/server.go`, and the relay engine in
`src/proxy/proxy.go`. `PROJECT.json` records what each module maps to in the
source, every run and its expected result, the mutants that show each
property can fail, the findings and the hazards.

## 1. The system

The server is a stack of tunnel layers, each a `tunnel.Server` whose
`AcceptConn`/`AcceptPacket` the layer above calls in a loop. The stack is
built once by `src/proxy/server/server.go`:

```
transport ─┬─ tls ─┬─ trojan ─┬─ (endpoint)                  ┐
           │       │          └─ mux ── simplesocks (endpoint)│  relay engine
           │       └─ websocket ── trojan ─┬─ (endpoint)     │  (proxy.go)
           │                               └─ mux ── ...     ┘
           └─ websocket (with a transport plugin, no TLS)
```

Layers talk through buffered Go channels of capacity 32, filled by one
goroutine per connection and drained by the layer above. Every layer derives
its context from the proxy's, so `Proxy.Close` cancels them all.

| Part | Source | State | Operations |
|---|---|---|---|
| Transport server | tls/server.go 411-577 | listener, `connChan`, `wsChan`, `nextHTTP` | acceptLoop, per-conn handler (HTTP peek in plaintext mode), AcceptConn, Close |
| TLS server | tls/server.go 31-392 | `connChan`, `wsChan`, `nextHTTP`, `keyPair` | acceptLoop and per-conn handler (handshake, fallback, HTTP peek), GetCertificate, checkKeyPairLoop, loadKeyPair, AcceptConn, Close |
| WebSocket server | part_000 1-182 | none beyond the underlay | AcceptConn: request check, upgrade in a ServeHTTP goroutine, timeout |
| Trojan server | part_000 183-456 | `connChan`, `muxChan`, `packetChan`, per-user IP sets | acceptLoop and handler: Auth, redirect, dispatch; AcceptConn, AcceptPacket, InboundConn.Close, Close |
| Mux server | tls/server.go 578-673 | `connChan`, smux sessions | acceptConnWorker, per-session stream loop, AcceptConn, Close |
| Relay engine | proxy.go | per relay: two copiers and `errChan` | relayConnLoop, relayPacketLoop, Close |
| Rewind connection, redirector, authenticator | not under src/ | buffer, IP sets | from spec.md 4.2, 4.3 and 3 |
| Server stack construction | proxy/server/server.go, part_006, tls/server.go `NewServer`s | the `proxy.Node` tree, the plugin subprocess, the creator's context | the server creator, transport and TLS `NewServer`, `BuildNext`, `FindAllEndpoints`, `CreateClientStack` |
| Configuration, options, client, errors | part_001-005, part_007, common | none at run time | not modelled (section 6) |

### The hard behaviours

- **Goroutine interleavings.** Each layer runs one goroutine per connection
  besides its accept loop. They meet on bounded channels, on `nextHTTP` under
  `httpLock`, on `keyPair` under `keyPairLock`, and (racily) on the
  WebSocket `wsConn` variable.
- **Bounded channels.** A full channel blocks the senders. Only the mux layer
  selects on the context while sending. The transport, TLS and Trojan
  handlers use plain sends.
- **Timeouts.** The WebSocket AcceptConn races the upgrade against a random
  5-14 s timer.
- **Partial failure.** Auth can fail after it has added the client's IP.
  Reading the key files can fail halfway through a reload.
- **Rewinding.** A rejected client's bytes must be replayed to the fallback.
  The buffers that hold them are bounded (128, 512 and 2048 bytes).
- **Shutdown.** Close cancels the context. Every goroutine should then
  return.
- **Edge values.** These include zero-length datagrams and wildcard
  certificate names.

## 2. Modules

Each module models one component. Its state is the VARIABLES, with one action
per handler step. An `MC*` module gives model values to the constants, and
each `.cfg` picks the bounds.

| Module | Models | State ↔ code |
|---|---|---|
| `RewindConn` | `common.RewindConn` and the redirector (spec_modelled) | a record of buffered/consumed segments. `Read` fails without consuming on overflow. `Drain` is what the fallback receives after `Rewind`. |
| `TrojanServer` | Trojan acceptLoop, handler, `InboundConn.Auth`, AcceptConn/AcceptPacket, `InboundConn.Close`, `Server.Close` | `pc[c]` is the handler's position. `req[c]` is what the client sends (hash, segmentation, CRLFs, command, domain length). `ipSet[u]` is the user's IP set. Each of the three channels is a sequence. `loop`, `uppers` and `ctxDone` are the accept loop, the callers still calling AcceptConn/AcceptPacket, and the context. |
| `TLSKeyPair` | `checkKeyPairLoop`, `loadKeyPair`, `Close` | `loop` is the loop's position. `lastKey`/`lastCert` are the remembered bytes. `keyPair` is the served version. An operator replaces files in any order, truncates them and may delete the key. |
| `SNIMatch` | `isDomainNameMatched`, `GetCertificate` | Names are character sequences. Init enumerates every configuration over a set of patterns. A step is one ClientHello. `Covers` is a one-label reference meaning of a wildcard. |
| `TLSServer` | TLS acceptLoop handler and AcceptConn, the Trojan acceptor over TLS, the WebSocket AcceptConn with its ServeHTTP handler, Close | `tpc[c]` is the TLS handler's position. `kind[c]` is what the client sends. `wsAcc` is the WebSocket acceptor. `hnd[c]` is the ServeHTTP goroutine. `wsConn[c]` and `connCtx[c]` are the per-call variables of AcceptConn. |
| `Transport` | transport acceptLoop, handler, AcceptConn, the overlay's acceptLoop reacting to AcceptConn's error, Proxy.Close's cancel | `tr[c]` is the handler's position. `regAt[c]` is a history variable recording whether plaintext mode was on when c was accepted. `accT` is the acceptLoop of the overlay reading `connChan` (TLS, or Trojan behind a plugin). `ctxDone` and `ovDone` are the transport's and that overlay's contexts. They are siblings under the proxy's context, and `Close`/`CancelNext` cancel them one at a time, in either order. |
| `Mux` | acceptConnWorker, the session loop, AcceptConn, Close | `sess[c]` is the session goroutine of carrier c. `opened`/`accepted` count the streams. `delivered[c]` is the order in which the layer above received c's streams. |
| `StackTree` | the tree the server creator builds (proxy/server/server.go 41-71), `Node.BuildNext`, `FindAllEndpoints` (part_006) | Operators only. A node is its path of tunnel names from the root, and a tree is its nodes plus the nodes marked `IsEndpoint`. `BuildNext` adds a child only if it is missing, so it returns the existing one otherwise. `FindAllEndpoints` is a RECURSIVE operator. |
| `Startup` | the server creator (server.go 23-79), transport `NewServer` (tls/server.go 516-577), TLS `NewServer` (305-389), `CreateClientStack` | Init fixes the plugin and Shadowsocks settings. `phase` goes `config` (`NewProxyFromConfigData` finds the creator and opens the log file), `transport`, then `tls` (no plugin), then `tree`, then `ready`, and `closed` after `Proxy.Close`, whose Close chain reaches `transport.Server.Close` and kills the plugin. Otherwise it ends in `failed` (the creator cancels its context and returns an error) or `fatal` (`BuildNext`'s `log.Fatal`). Each step chooses what the configuration and the system answer with `\E`: the plugin type, whether the command starts, whether `Listen` succeeds, the fallback, the key pair with or without a password, and the key log. `plugin` is the subprocess. |
| `Handoff` | the abstract promise of a layer server | `owner[c]` goes from `none` to `pending` to one outcome, once. A pending connection settles while the server runs. `Transport` and `TLSServer` refine it (section 3.1). |
| `ProxyRelay` | relayConnLoop/relayPacketLoop handlers, copiers, Close | `hpc[c]` is the handler. `cp[c][d]` is the copier of direction d. `errs[c]` is `errChan`. `fin`/`empty`/`closed` are the two connection sides. |

Actions take in the whole handler step, including every call that changes
state. Examples: the redirect's `Rewind`, `StopBuffering` and the fallback
write; the reload's compare, load and remember; the relay's deferred closes.
Guards come from the code's conditions and early returns.

## 3. Runs

| Run | Expect | What it shows |
|---|---|---|
| `trojan_core` | pass | Three concurrent Trojan connections over CONNECT, ASSOCIATE and MUX over CONNECT (the MUX command takes the same Dispatch branch), and the failure modes (bad hash, truncated, split hash, long domain, unknown command). Every rejected stream reaches the fallback byte for byte. With distinct client IPs, each user's live connections come from at most `ip_limit` IPs. |
| `trojan_ip_leak` | violation | A connection that fails Auth after `AddIP`, or that sends an unknown command, keeps its IP slot for good (code bug). |
| `trojan_shared_ip` | violation | Two connections of one user share an IP. When the first closes, `DelIP` frees the IP the second still uses, and a client from a new IP is admitted past `ip_limit = 1` (code bug). |
| `keypair_reload` | pass | Once the files settle on one pair, the served pair becomes that pair, although the loop compares the bytes it read but loads the files as they are later. The loop exits after Close while the key file exists. |
| `keypair_deleted` | violation | With the key file deleted, the loop spins on `continue` and never sees Close (code bug). |
| `server_config` | pass | The startup and configuration-time logic. Every error path of startup is taken. `verify_sni` never rejects a name that the sni option, the CN or a DNS name covers, for all names of up to 4 characters over `{a, b, .}`. For each of the four transport-plugin/Shadowsocks settings, a startup that succeeds hands `NewProxy` exactly the four inbound stacks named in its comments. The Trojan node is both an endpoint and the parent of mux, and it counts once. No intermediate layer counts. |
| `tls_demux` | pass | TLS handlers, the Trojan acceptor and the WebSocket acceptor route each client to its own layer. The TLS server refines `Handoff`: every accepted connection settles exactly once and stays settled, and it settles while the server runs, even behind a WebSocket upgrade that never completes. |
| `handlers_after_close` | violation | After Close, a TLS handler blocked on a full channel, or a WebSocket handler whose upgrade finished after the timeout, stays blocked for good. |
| `transport` | pass | In plaintext mode, HTTP clients accepted after the WebSocket layer's first AcceptConn reach it, and all other clients reach `connChan`. The transport server refines `Handoff`: each accepted connection is taken by one overlay, once, and is taken while the server runs. Behind a plugin, Trojan's acceptLoop returns once its context is cancelled, even when the transport's context went first and AcceptConn kept failing. |
| `mux` | pass | Streams of concurrent sessions on a shared `connChan` of capacity one reach the layer above, each session's in order, none lost. After Close, no session goroutine stays on the send, and the worker and the layer above return. |
| `relay` | pass | Once either peer finishes or the proxy closes, the handler returns and both copiers end. Neither copier is left blocked on `errChan`. |
| `transport_shutdown_fatal` | violation | Without a plugin, `Proxy.Close` can cancel the transport's context before the TLS server's. The TLS acceptLoop then calls `log.Fatal` during a clean shutdown (spec/code divergence). |

### 3.1 Refinement

`Handoff` states what a layer server promises the layer above, without the
mechanics. A connection it accepts stays pending until it reaches one
outcome. It never leaves that outcome. While the server runs, it reaches
one. `Transport` and `TLSServer` each instantiate it with `INSTANCE Handoff
WITH`:
- `Transport` maps `tr[c]`: `unaccepted` is `none`; `upper` and `upperWs`
  are outcomes; every handler and channel state is `pending`.
- `TLSServer` maps `tpc[c]`: `idle` is `none`; the `Settled` states
  (Trojan, WebSocket, redirected, closed, abandoned) are outcomes; the rest
  is `pending`.
- In both, `stopped` is the server's context.

`ImplementsHandoff`, which is `H!Spec`, is a PROPERTY of the `transport` and
`tls_demux` runs. It subsumes the earlier progress properties, and adds the
step constraint that no action moves a settled connection or settles it
twice.

### 3.2 Mutants

Every property of a passing run has a mutant in `PROJECT.json`. A mutant is
an operator placed just before the definition it replaces, modelling a
plausible slip. Examples: a dropped rewind, an ignored `AddIP` result, a
`select` with a `default` branch, a send without the context, an off-by-one
in the wildcard prefix. TLC finds the property violated under each mutant.

### Bounds

- **Three connections.** Two may wait on a channel of capacity one while a
  third is handshaking. That is the smallest size at which a sender blocks
  behind another.
- **Channels of capacity 1 instead of 32.** Blocking depends only on a
  channel being full, and capacity 1 reaches that state with the fewest
  connections.
- **`ip_limit = 2` with three IPs.** The limit is reached and then exceeded
  by one. `trojan_core` gives each connection its own IP; `trojan_shared_ip`
  gives two connections one IP with `ip_limit = 1`, the smallest case in
  which a Close can free an IP still in use.
- **Three key versions.** Enough for a replacement to start while an earlier
  one is still half-written.
- **SNI names of up to 4 characters.** This admits `aab` against `*.b` and
  `a.a.b` against `*.a.b`, so both one-label and two-label prefixes occur.
- **Two mux carriers with two streams each.** A stream of one session can
  wait behind a stream of the other.
- **Server tree: all four settings** of `transport_plugin.enabled` and
  `shadowsocks.enabled`. These are every configuration the creator reads.
- **Relay: one TCP and one UDP relay, `errChan` of capacity 2 (as in the
  code).**

## 4. Fairness

Weak fairness is assumed for every server goroutine: handlers, accept loops,
acceptors, copiers, the reload loop and mux sessions. These are runnable Go
goroutines, and the Go scheduler eventually runs a runnable goroutine.

Nothing fair is assumed of the environment. Clients and peers may never send,
never finish, or never close. Close may never happen. The key-file operator
is fair only in finishing a file it has started to write.

Go's `cancelCtx.cancel` cancels every child in one call, without blocking.
A cancel that has begun therefore completes, so `CancelNext` is weakly
fair. Other goroutines can still run between two children, and that is
the interleaving `transport_shutdown_fatal` shows.

The WebSocket timer is modelled as a step the acceptor may always take while
it waits, because `time.After` eventually fires.

Runs whose system may genuinely stop set `CHECK_DEADLOCK FALSE`, and each says
why in a comment. The system may stop after Close, after a transport Accept
error (the loop returns), when every relay has ended, or when startup ends
(an error, `log.Fatal`, or a proxy without a TLS layer for `server_config`'s
handshakes). `trojan_core` does
check deadlock. Its `Done` admits two final states. Either every connection
has been dealt with, or the server is closed and its accept loop and all
three callers have returned. The second can leave a handler blocked on a
full channel, which is the hazard at part_000:356.

## 5. Findings

Violation runs back these findings. Details and line numbers are in
`PROJECT.json`.

- **IP leak in Auth and dispatch** (part_000:276, 341, 371). `DelIP` runs
  only in `InboundConn.Close`. Two handler exits skip it: Auth fails after
  adding the client's IP, or the command is unknown and is only logged. In
  both cases the IP is never released. spec.md 4.7 says an unknown command
  is dropped. TLC's shortest trace takes either exit; each alone violates
  `NoLeakedIP`.
- **Busy reload loop that ignores Close** (tls/server.go:228).
- **A shared IP is released by the first of its connections to close**
  (part_000:243). The IP set holds each IP once, so the second connection
  from that IP is no longer counted, and a third client from another IP is
  admitted past `ip_limit`. spec.md 8.2 says it must be refused. The trace
  takes three handlers and one owner's Close.
- **Handlers stay blocked after Close.** TLS handlers use plain channel
  sends (tls/server.go:165, 181; spec.md 4.7 says shutdown cancels pending
  sends). A WebSocket handler whose upgrade completes after the timeout
  blocks on an unbuffered send (part_000:110).
- **A clean shutdown can end in `log.Fatal`** (tls/server.go:77).
  `Proxy.Close` cancels the proxy's context. Go cancels its children one
  by one, in map order. If the transport's context goes first, AcceptConn
  returns "transport server closed". The TLS acceptLoop sees its own
  context not yet done and calls `log.Fatal`. spec.md 4.9 says accept
  errors during shutdown are consumed, and section 5 says cancellation is
  a clean shutdown with exit code 0. Behind a plugin, Trojan's loop
  retries instead, and it returns once its own context is cancelled
  (`OverlayReturnsAfterClose`).

The source also shows the following. These are listed as hazards in
`PROJECT.json`, without a run:
- Auth does not compare the CRLF fields.
- Auth reads the hash in a single `Read`.
- The 128-byte rewind buffer in the Trojan handler is too small for long
  domains.
- The SNI wildcard check never looks at the character before the suffix
  (tls/server.go:66), so `*.b` accepts `aab`. `server_config` checks the
  other side, that no covered name is refused; the over-acceptance needs
  only one input and a unit test shows it.
- `loadKeyPair` inverts the decrypt check, so password-protected keys never
  load.
- The transport accept loop returns after any Accept error.
- The plugin subprocess is started before `net.Listen`
  (tls/server.go:548, 554, 561). If `Listen` fails, or startup fails later
  (a client-stack error, or `log.Fatal` in `BuildNext`), nobody calls Close
  and the subprocess outlives trojan-go. `Startup` reaches these states.
- An empty UDP datagram ends the packet relay (proxy.go:152). The `relay`
  run lets a copier stop on an empty read. No run currently states that
  only a side's end may stop the relay.

## 6. Not modelled, and why

- **Configuration, command-line options, client config generation, version
  output, error formatting** (part_001-004, part_007, common/error.go). These
  are sequential parsing and formatting with no concurrent state.
- **Parts of stack construction.** `Startup` treats the `NewServer` of
  Shadowsocks, Trojan, WebSocket, mux and simplesocks as succeeding. It
  treats the client stack as one outcome. `LinkNextNode` serves only the
  custom-stack creator, which is not under src/. In the other models,
  which layers exist is a constant.
- **Cryptography, HTTP parsing, the smux protocol and the websocket
  library.** Each is abstracted to its outcome: the client's kind, or the
  stream a client opens.
- **Traffic accounting in `InboundConn.Read/Write`, the UDP framing, the
  transport plugin process.** These are data-path detail that the properties
  do not tell apart.

## 7. Plan for later work

1. **The `trojan → mux` link.** Compose `TrojanServer`'s `muxChan` with
   `Mux`'s carriers. This needs a smaller Trojan request set to stay within
   TLC's reach. The mux worker (tls/server.go 601-608) behaves like Trojan's
   loop on an underlay error: it returns only once its own context is done,
   so the composed shutdown needs the sibling-cancel order that `Transport`
   models.
2. **More refinement.** `TrojanServer` can refine `Handoff`, with the
   redirected and dropped states as outcomes. Its liveness half needs
   fairness on the Trojan handlers, which the current `trojan_core` bounds
   leave no time for. An abstract "replay the prefix" rewind buffer can be
   refined by `RewindConn`.
3. **The framing rules of Auth.** Add them (CRLF, a well-formed request never
   redirected) as properties, once a run slot is free.
4. **The nextHTTP race in the TLS server** (tls/server.go:170). Add a
   history variable like `Transport`'s `regAt`, and check that a WebSocket
   client is redirected only when its peek preceded the registration.
5. **The orphaned plugin process** (tls/server.go:561). `Startup` reaches
   the state where NewServer fails with the plugin running. A violation run
   of "a failed startup leaves no plugin process" would record it, once a run
   slot is free.
