----------------------------- MODULE TargetTree -----------------------------
(***************************************************************************)
(* The target catalog and the filters over it (models/Pod.ts, Node.ts,     *)
(* Cluster.ts, PrometheusTargetsManager.ts and the filter builders of      *)
(* HealthSelector.tsx, SearchBar.tsx and PopoverSelector.tsx).             *)
(*                                                                         *)
(* Every level of the tree is a JS object keyed by name, and the classes   *)
(* are rebuilt from that raw data by their constructors, so a level is     *)
(* modelled as a function from child name to child:                        *)
(*   cluster list (Cluster[])  : [ClusterName -> Cluster]                  *)
(*   Cluster                   : [NodeName    -> Node]                     *)
(*   Node                      : [PodName     -> Pod]                      *)
(*   Pod (activeTargets)       : Seq(Target)                               *)
(* Key order of the JS objects is abstracted away (spec: ordered-          *)
(* irrelevant mapping); the order and multiplicity of a pod's targets is   *)
(* kept.  A string is a sequence of characters, so that String.includes    *)
(* is modelled by what it does.                                            *)
(***************************************************************************)
EXTENDS Naturals, Sequences, FiniteSets

CONSTANTS
  ClusterNames,   \* names a cluster may have in a fetched document
  NodeNames,      \* names a node may have
  PodNames,       \* names a pod may have
  Chars           \* characters the strings of a target are made of

ASSUME NamesAssumption ==
  /\ ClusterNames # {} /\ NodeNames # {} /\ PodNames # {} /\ Chars # {}

\* Target.health: the values the collector reports.
HealthStates == {"up", "down", "unknown"}

\* Object.values of a name-keyed map.
Values(f) == {f[x] : x \in DOMAIN f}

(***************************************************************************)
(* The targets getters (Node.targets, Cluster.targets,                     *)
(* PrometheusTargetsManager.targets) flatten the tree into one list; the   *)
(* list is modelled by the positions of its elements, so that how often a  *)
(* target occurs is kept and the key order of the maps is not.             *)
(***************************************************************************)
NodeTargetPositions(node) ==
  UNION {{<<p, i>> : i \in 1..Len(node[p])} : p \in DOMAIN node}

ClusterTargetPositions(cluster) ==
  UNION {{<<n>> \o q : q \in NodeTargetPositions(cluster[n])} : n \in DOMAIN cluster}

TargetPositions(clusters) ==
  UNION {{<<c>> \o q : q \in ClusterTargetPositions(clusters[c])} : c \in DOMAIN clusters}

TargetAt(clusters, pos) == clusters[pos[1]][pos[2]][pos[3]][pos[4]]

\* How often target t occurs in the flattened list.
TargetCount(clusters, t) ==
  Cardinality({pos \in TargetPositions(clusters) : TargetAt(clusters, pos) = t})

(***************************************************************************)
(* String.prototype.includes(q) on s, for a non-empty q.                   *)
(***************************************************************************)
Includes(s, q) ==
  \E i \in 0..(Len(s) - Len(q)) : SubSeq(s, i + 1, i + Len(q)) = q

(***************************************************************************)
(* The target predicates the health and the search filter build: the      *)
(* closure is the builder's kind with the argument it captured.            *)
(*   health: states.includes(target.health)                                *)
(*   search: the value occurs in the scrape URL, the scrape pool, one of   *)
(*           the label values or one of the discovered-label values.       *)
(***************************************************************************)
SearchMatch(t, value) ==
  \/ Includes(t.scrapeUrl, value)
  \/ Includes(t.scrapePool, value)
  \/ \E v \in Values(t.labels) : Includes(v, value)
  \/ \E v \in Values(t.discoveredLabels) : Includes(v, value)

Accepts(pred, t) ==
  IF pred.kind = "health" THEN t.health \in pred.arg ELSE SearchMatch(t, pred.arg)

\* Pod.filterTargets with the short-circuit taken whenever any target is
\* kept, not only when all are: the pod keeps its rejected targets.
PodFilterTargetsAnyKept(pod, pred) ==
  LET filteredTargets == SelectSeq(pod, LAMBDA t : Accepts(pred, t))
  IN  IF Len(filteredTargets) > 0 THEN pod ELSE filteredTargets

(***************************************************************************)
(* Pod.filterTargets: keep the active targets the predicate accepts; when  *)
(* it accepts them all the pod returns itself.                             *)
(***************************************************************************)
PodFilterTargets(pod, pred) ==
  LET filteredTargets == SelectSeq(pod, LAMBDA t : Accepts(pred, t))
  IN  IF Len(filteredTargets) = Len(pod) THEN pod ELSE filteredTargets

(***************************************************************************)
(* Node.filterTargets: filter every pod, keep those with targets           *)
(* (hasTargets), rebuild the node from the surviving pods' responses.      *)
(***************************************************************************)
NodeFilterTargets(node, pred) ==
  LET kept == {p \in DOMAIN node : Len(PodFilterTargets(node[p], pred)) > 0}
  IN  [p \in kept |-> PodFilterTargets(node[p], pred)]

(***************************************************************************)
(* Cluster.filterTargets: filter every node, keep those with pods          *)
(* (hasPods), rebuild the cluster from their rawPods.                      *)
(***************************************************************************)
ClusterFilterTargets(cluster, pred) ==
  LET kept == {n \in DOMAIN cluster : DOMAIN NodeFilterTargets(cluster[n], pred) # {}}
  IN  [n \in kept |-> NodeFilterTargets(cluster[n], pred)]

(***************************************************************************)
(* data.map(c => c.filterTargets(fn)).filter(c => c.hasNodes): the body    *)
(* shared by the health and the search filter.                             *)
(***************************************************************************)
FilterClusters(clusters, pred) ==
  LET kept == {c \in DOMAIN clusters : DOMAIN ClusterFilterTargets(clusters[c], pred) # {}}
  IN  [c \in kept |-> ClusterFilterTargets(clusters[c], pred)]

\* HealthFilter(states): pass-through for no states.
HealthFilter(states, clusters) ==
  IF states = {} THEN clusters
  ELSE FilterClusters(clusters, [kind |-> "health", arg |-> states])

\* SearchFilter(value): pass-through for "".
SearchFilter(value, clusters) ==
  IF value = <<>> THEN clusters
  ELSE FilterClusters(clusters, [kind |-> "search", arg |-> value])

(***************************************************************************)
(* PopoverClusterFilter(selected): keep the clusters whose name is         *)
(* selected.                                                               *)
(***************************************************************************)
PopoverClusterFilter(selected, clusters) ==
  [c \in DOMAIN clusters \cap selected |-> clusters[c]]

(***************************************************************************)
(* PopoverNodeFilter(selected): rebuild every cluster from                 *)
(* cluster.findNodes(selected), the raw data of its selected nodes, and    *)
(* keep the clusters left with nodes (hasNodes).                           *)
(***************************************************************************)
FindNodes(cluster, names) == [n \in DOMAIN cluster \cap names |-> cluster[n]]

\* PopoverNodeFilter without the final .filter(c => c.hasNodes): clusters
\* with none of the selected nodes are kept, empty.
PopoverNodeFilterUnpruned(selected, clusters) ==
  [c \in DOMAIN clusters |-> FindNodes(clusters[c], selected)]

PopoverNodeFilter(selected, clusters) ==
  LET kept == {c \in DOMAIN clusters : DOMAIN FindNodes(clusters[c], selected) # {}}
  IN  [c \in kept |-> FindNodes(clusters[c], selected)]

(***************************************************************************)
(* A filter function is the builder that made it and the argument it      *)
(* closed over; applied to a cluster list it is that builder's body.       *)
(***************************************************************************)
ApplyFilter(fn, clusters) ==
  CASE fn.kind = "health"  -> HealthFilter(fn.arg, clusters)
    [] fn.kind = "search"  -> SearchFilter(fn.arg, clusters)
    [] fn.kind = "cluster" -> PopoverClusterFilter(fn.arg, clusters)
    [] fn.kind = "node"    -> PopoverNodeFilter(fn.arg, clusters)


\* No cluster without nodes, node without pods or pod without targets.
PrunedTree(clusters) ==
  \A c \in DOMAIN clusters :
    /\ DOMAIN clusters[c] # {}
    /\ \A n \in DOMAIN clusters[c] :
         /\ DOMAIN clusters[c][n] # {}
         /\ \A p \in DOMAIN clusters[c][n] : Len(clusters[c][n][p]) > 0

=============================================================================
