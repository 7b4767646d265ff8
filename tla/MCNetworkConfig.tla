--------------------------- MODULE MCNetworkConfig ---------------------------
(***************************************************************************)
(* Two links.  One has two addresses of one subnet, the second of them a   *)
(* secondary one.  A gateway lies on a subnet of its own that only a route *)
(* of the request leads to; one device of a request is not there, and one  *)
(* name of a link contains "lo".                                           *)
(***************************************************************************)
EXTENDS NetworkConfig, TLC

CONSTANTS e0, e1, eth0, eth1, vlo, gone, a1, a2, b1, gwa, A, B, G, default

MCSubnet == (a1 :> A) @@ (a2 :> A) @@ (b1 :> B) @@ (gwa :> G)
MCInitName == (e0 :> eth0) @@ (e1 :> eth1)
MCInitAddrs == (e0 :> <<a1, a2>>) @@ (e1 :> <<b1>>)

MCIfaceRequests ==
    {[link |-> e0, addrs |-> <<a2, b1>>, name |-> vlo],
     [link |-> e0, addrs |-> <<a1>>, name |-> eth0],
     [link |-> e0, addrs |-> <<a1, a1>>, name |-> eth0],
     [link |-> e1, addrs |-> <<b1>>, name |-> eth0],
     [link |-> NoLink, addrs |-> <<>>, name |-> eth0]}

Via(d, g, n) == [dest |-> d, gw |-> g, dev |-> n]
MCRouteRequests ==
    {<<Via(default, gwa, eth0), Via(G, NoGw, eth0)>>,
     <<Via(default, b1, eth1)>>,
     <<Via(G, NoGw, eth1), Via(default, gwa, gone)>>}
=============================================================================
