------------------------------ MODULE Routing ------------------------------
(***************************************************************************)
(* sim/routing.py: which sequences of links are a route from a client to a *)
(* host, and which of them work now.                                       *)
(***************************************************************************)
EXTENDS Integers, Sequences, FiniteSets

CONSTANTS
    Node, Link,
    Ends       \* a link's endpoints

ASSUME RoutingAssumption ==
    /\ Ends \in [Link -> SUBSET Node]
    /\ \A l \in Link : Cardinality(Ends[l]) = 2

Other(l, n) == CHOOSE m \in Ends[l] : m # n

\* The nodes a path visits, in order, from the client on; where a link does not
\* continue the path the walk stays put, which Simple below refuses.
Walk(path, source) ==
    LET at[k \in 0 .. Len(path)] ==
            IF k = 0 THEN source
            ELSE LET n == at[k - 1]
                 IN IF n \in Ends[path[k]] THEN Other(path[k], n) ELSE n
    IN [k \in 0 .. Len(path) |-> at[k]]

Visited(path, source) ==
    LET walk == Walk(path, source) IN {walk[k] : k \in 0 .. Len(path)}

\* Ordered from client to host and without a cycle.  A simple path cannot be
\* longer than the nodes allow.
Simple(path, source, host) ==
    /\ Cardinality(Visited(path, source)) = Len(path) + 1
    /\ Walk(path, source)[Len(path)] = host

Operational(path, source, upNode, upLink) ==
    /\ Visited(path, source) \subseteq upNode
    /\ \A k \in 1 .. Len(path) : path[k] \in upLink

\* path_error, its reasons left out: TRUE when the path is refused.
path_error(path, source, host, upNode, upLink) ==
    ~(Simple(path, source, host) /\ Operational(path, source, upNode, upLink))

Paths == UNION {[1 .. k -> Link] : k \in 0 .. Cardinality(Node) - 1}

\* The simple paths of the topology, with what each of them depends on.
RouteOf(p, source) ==
    [path |-> p, source |-> source, host |-> Walk(p, source)[Len(p)],
     nodes |-> Visited(p, source), links |-> {p[k] : k \in 1 .. Len(p)}]

Routes == {RouteOf(q[1], q[2]) : q \in
    {q \in Paths \X Node : Cardinality(Visited(q[1], q[2])) = Len(q[1]) + 1}}

OperationalPaths(source, host, upNode, upLink) ==
    {r.path : r \in {q \in Routes : /\ q.source = source /\ q.host = host
                                    /\ q.nodes \subseteq upNode
                                    /\ q.links \subseteq upLink}}

\* What route_to may answer: a shortest path that works, or nothing.
route_to(source, host, upNode, upLink) ==
    LET ps == OperationalPaths(source, host, upNode, upLink)
    IN {p \in ps : \A q \in ps : Len(p) <= Len(q)}
=============================================================================
