---------------------------- MODULE MCListView ----------------------------
(***************************************************************************)
(* The catalogs of MCPrometheusTargets with the document's key order.      *)
(***************************************************************************)
EXTENDS MCPrometheusTargets, ListView

MCNodeOrder == <<"n1", "n2", "n3">>
MCPodOrder == <<"p1", "p2">>
=============================================================================
