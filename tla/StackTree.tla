----------------------------- MODULE StackTree ------------------------------
(***************************************************************************)
(* The server's tunnel tree (src/proxy/server/server.go 23-79) and the     *)
(* endpoint search the proxy runs on it (src/unnamed/part_006).  A node is *)
(* its path of tunnel names from the root, so Node.Next is the set of      *)
(* paths one longer; a tree is its nodes and the nodes marked IsEndpoint.  *)
(* The servers the nodes hold are left out: a node's server is the one     *)
(* BuildNext created for that path.                                        *)
(***************************************************************************)
EXTENDS Naturals, Sequences

Root == <<"TRANSPORT">>

NewTree == [nodes |-> {Root}, ends |-> {}]

\* Node.BuildNext (part_006 22-42): the child of that name, created only
\* when n.Next has none, so a second call returns the same node.
BuildNext(t, n, name) == [t EXCEPT !.nodes = @ \cup {Append(n, name)}]

\* BuildNext along a chain of names, as server.go's BuildNext(...).BuildNext.
RECURSIVE BuildChain(_, _, _)
BuildChain(t, n, names) ==
    IF names = <<>> THEN t
    ELSE BuildChain(BuildNext(t, n, Head(names)), Append(n, Head(names)), Tail(names))

\* ... .IsEndpoint = true on the last node of a chain.
MarkEndpoint(t, n) == [t EXCEPT !.ends = @ \cup {n}]

Children(t, n) == {m \in t.nodes : Len(m) = Len(n) + 1 /\ SubSeq(m, 1, Len(n)) = n}

\* A plausible slip: only the leaves count as endpoints.
RECURSIVE FindLeaves(_, _)
FindLeaves(t, n) ==
    (IF Children(t, n) = {} THEN {n} ELSE {})
        \cup UNION {FindLeaves(t, m) : m \in Children(t, n)}

\* FindAllEndpoints (part_006 62-72): the node itself when it is marked or
\* has no children, then the endpoints below each child.  The Go list is
\* in map order; a tree holds every node once, so the set loses nothing.
RECURSIVE FindAllEndpoints(_, _)
FindAllEndpoints(t, n) ==
    (IF n \in t.ends \/ Children(t, n) = {} THEN {n} ELSE {})
        \cup UNION {FindAllEndpoints(t, m) : m \in Children(t, n)}

(***************************************************************************)
(* The creator of the server proxy (server.go 23-79): TLS under the        *)
(* transport unless a transport plugin is enabled, an optional             *)
(* Shadowsocks layer, and under it Trojan twice (with mux and simplesocks, *)
(* and as an endpoint itself); then the same under WebSocket.              *)
(***************************************************************************)
\* The node server.go's root names once TLS is in place.
ServerRoot(plugin) == IF plugin THEN Root ELSE Append(Root, "TLS")

ServerTree(plugin, ss) ==
    LET root == ServerRoot(plugin)
        t0 == IF plugin THEN NewTree ELSE BuildNext(NewTree, Root, "TLS")
        Sub(t, n) ==        \* the Trojan chains under n
            LET s == IF ss THEN Append(n, "SHADOWSOCKS") ELSE n
                muxEnd == s \o <<"TROJAN", "MUX", "SIMPLESOCKS">>
                t1 == BuildChain(IF ss THEN BuildNext(t, n, "SHADOWSOCKS") ELSE t,
                                 s, <<"TROJAN", "MUX", "SIMPLESOCKS">>)
            IN  MarkEndpoint(MarkEndpoint(BuildNext(t1, s, "TROJAN"),
                                          muxEnd), Append(s, "TROJAN"))
        t2 == Sub(t0, root)
    IN  Sub(BuildNext(t2, root, "WEBSOCKET"), Append(root, "WEBSOCKET"))

\* proxy.FindAllEndpoints(root), root being the TLS node unless a plugin is
\* enabled: the sources handed to NewProxy.
ServerList(plugin, ss) ==
    FindAllEndpoints(ServerTree(plugin, ss), ServerRoot(plugin))

-----------------------------------------------------------------------------
(***************************************************************************)
(* The inbound paths the creator's comments list (server.go 56-67),        *)
(* transport->tls->trojan->mux->simplesocks and the rest, with the         *)
(* optional layers in place.                                               *)
(***************************************************************************)
ExpectedStacks(plugin, ss) ==
    LET base == IF plugin THEN Root ELSE Append(Root, "TLS")
        ssLayer == IF ss THEN <<"SHADOWSOCKS">> ELSE <<>>
        tails == {<<"TROJAN">>, <<"TROJAN", "MUX", "SIMPLESOCKS">>}
    IN  {base \o ssLayer \o x : x \in tails}
            \cup {base \o <<"WEBSOCKET">> \o ssLayer \o x : x \in tails}

=============================================================================
