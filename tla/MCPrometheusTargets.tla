------------------------ MODULE MCPrometheusTargets ------------------------
(***************************************************************************)
(* A small instance of PrometheusTargets: two clusters, a node name shared *)
(* by both, an empty pod and an empty node, duplicate targets, and targets *)
(* of every health that the search values tell apart.                      *)
(***************************************************************************)
EXTENDS PrometheusTargets

\* Strings over {"a", "b"}.
a == "a"
b == "b"

\* Targets: health, and the strings the search looks at.
T1 == [health |-> "up", scrapeUrl |-> <<a, b>>, scrapePool |-> <<a>>,
       labels |-> [job |-> <<a>>], discoveredLabels |-> [job |-> <<a>>]]
T2 == [health |-> "down", scrapeUrl |-> <<a>>, scrapePool |-> <<b, a>>,
       labels |-> [job |-> <<a>>], discoveredLabels |-> [job |-> <<a>>]]
T3 == [health |-> "unknown", scrapeUrl |-> <<a>>, scrapePool |-> <<a>>,
       labels |-> [job |-> <<a>>], discoveredLabels |-> [pod |-> <<b, b>>]]
T4 == [health |-> "up", scrapeUrl |-> <<a>>, scrapePool |-> <<a>>,
       labels |-> [job |-> <<a>>, env |-> <<a, a>>], discoveredLabels |-> [job |-> <<a>>]]

NoChildren == [x \in {} |-> <<>>]

\* The catalog of the first successful fetch.
Catalog1 ==
  [c1 |-> [n1 |-> [p1 |-> <<T1, T2>>, p2 |-> <<>>],
           n2 |-> [p1 |-> <<T3>>]],
   c2 |-> [n1 |-> [p1 |-> <<T4, T4>>, p2 |-> <<T2>>],
           n3 |-> NoChildren]]

\* Another catalog a fetch may return, without the cluster c2.
Catalog2 ==
  [c1 |-> [n2 |-> [p2 |-> <<T3, T1>>],
           n3 |-> [p1 |-> <<T2>>]]]

MCResponses == {Catalog1, Catalog2}
MCQueries == {<<>>, <<b>>, <<b, a>>}
MCClusterNames == {"c1", "c2"}
MCNodeNames == {"n1", "n2", "n3"}
MCPodNames == {"p1", "p2"}
MCChars == {a, b}
=============================================================================
