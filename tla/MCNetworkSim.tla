---------------------------- MODULE MCNetworkSim ----------------------------
(* One service of a device behind the gateway, two edge servers joined by a *)
(* redundant link.                                                          *)
EXTENDS NetworkSim

MCNode == {"gw", "edge0", "edge1", "dev"}
MCLink == {"gw_dev", "gw_edge0", "gw_edge1", "red_edge0_edge1"}
MCEnds == [l \in MCLink |->
    CASE l = "gw_dev" -> {"gw", "dev"}
      [] l = "gw_edge0" -> {"gw", "edge0"}
      [] l = "gw_edge1" -> {"gw", "edge1"}
      [] l = "red_edge0_edge1" -> {"edge0", "edge1"}]
MCSource == [s \in {"svc0"} |-> "dev"]
MCHome == [s \in {"svc0"} |-> "edge0"]
MCMemCapacity == [n \in MCNode |-> IF n \in {"edge0", "edge1"} THEN 2 ELSE 0]
MCDeltas == {-1, 1}
=============================================================================
