------------------------------ MODULE MCRoute ------------------------------
(***************************************************************************)
(* Route for TLC: two VLANs of a router, the hosts in the first: one that  *)
(* may change its MAC and one that never answers, so that both are due in  *)
(* the same resolution cycle; the BGP peer may announce a route through    *)
(* the first.                                                              *)
(***************************************************************************)
EXTENDS Route, TLC

CONSTANTS v1, v2, h1, h2, net, m1, m2, e1

OnePort == [m \in Mac |-> e1]
OneSubnet == v1 :> {h1, h2} @@ v2 :> {}
HostClaims == {<<v1, h1, m1>>, <<v1, h1, m2>>}
NoStatic == [v \in Vlan |-> {}]
Announced == {<<net, h1>>}

\* The routes are as the proofs about the rules want them.
ASSUME InstanceHasOneRouteEach == OneRouteEach
=============================================================================
