---------------------------- MODULE MCFilterLaws ----------------------------
(***************************************************************************)
(* Every document of at most two clusters of two nodes of one pod with at  *)
(* most two targets, over two targets of distinct health that the search  *)
(* value "b" tells apart.                                                  *)
(***************************************************************************)
EXTENDS FilterLaws

a == "a"
b == "b"

L1 == [health |-> "up", scrapeUrl |-> <<a, b>>, scrapePool |-> <<a>>,
       labels |-> [job |-> <<a>>], discoveredLabels |-> [job |-> <<a>>]]
L2 == [health |-> "down", scrapeUrl |-> <<a>>, scrapePool |-> <<a>>,
       labels |-> [job |-> <<a>>], discoveredLabels |-> [job |-> <<a>>]]
MCTargetValues == {L1, L2}
MCSearchValues == {<<b>>}
MCClusterNames == {"c1", "c2"}
MCNodeNames == {"n1", "n2"}
MCPodNames == {"p1"}
MCChars == {a, b}
=============================================================================
