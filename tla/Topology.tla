------------------------------ MODULE Topology ------------------------------
(***************************************************************************)
(* build_topology: a gateway, edge servers and devices, each of them linked *)
(* to the gateway; with redundant_links the edge servers to each other and  *)
(* every device to an edge server.  A node is its kind and its index, a     *)
(* link whether it is redundant and its endpoints.                          *)
(***************************************************************************)
EXTENDS Naturals, Sequences, SequencesExt

CONSTANTS EdgeServers, Devices, RedundantLinks

Gateway == <<"gw", 0>>
EdgeServer(i) == <<"edge", i - 1>>
Device(j) == <<"dev", j - 1>>

Nodes == {Gateway} \cup {EdgeServer(i) : i \in 1 .. EdgeServers}
                   \cup {Device(j) : j \in 1 .. Devices}

GatewayLink(n) == [redundant |-> FALSE, ends |-> {Gateway, n}]
RedundantLink(m, n) == [redundant |-> TRUE, ends |-> {m, n}]

AccessLinks == [j \in 1 .. Devices |-> GatewayLink(Device(j))]
HostLinks == [i \in 1 .. EdgeServers |-> GatewayLink(EdgeServer(i))]

\* A device's second home: the edge servers in turn.
SecondHomes == [j \in 1 .. Devices |->
    RedundantLink(Device(j), EdgeServer(1 + ((j - 1) % EdgeServers)))]

MeshOf(i) == [k \in 1 .. EdgeServers - i |-> RedundantLink(EdgeServer(i), EdgeServer(i + k))]
Mesh == FlattenSeq([i \in 1 .. EdgeServers |-> MeshOf(i)])

\* In the order of their identifiers: l_gw_dev, l_gw_edge, l_redundant_dev,
\* l_redundant_edge.
SortedLinks == AccessLinks \o HostLinks
    \o (IF RedundantLinks THEN SecondHomes \o Mesh ELSE <<>>)

LinkEnds == [l \in ToSet(SortedLinks) |-> l.ends]

\* Service s starts on an edge server and is called by a device, both in turn.
InitialRoute(s) ==
    <<GatewayLink(Device(1 + ((s - 1) % Devices))), GatewayLink(EdgeServer(1 + ((s - 1) % EdgeServers)))>>
=============================================================================
