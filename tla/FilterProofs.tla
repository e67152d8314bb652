----------------------------- MODULE FilterProofs -----------------------------
(***************************************************************************)
(* Proofs about the filter operators of TargetTree for every cluster map:   *)
(* the structural filters (PopoverClusterFilter, PopoverNodeFilter)         *)
(* commute with each other and with the target filters (FilterClusters,    *)
(* hence HealthFilter and SearchFilter), whatever the target predicate,    *)
(* and the target filters leave no empty group.                            *)
(* That the health and search filters commute with each other is about    *)
(* SelectSeq on every sequence and is left to TLC (FiltersCommute).       *)
(***************************************************************************)
EXTENDS TargetTree, TLAPS

\* Node.filterTargets and Cluster.findNodes only ever shrink a domain.
LEMMA ClusterFilterTargetsDomain ==
  ASSUME NEW cl, NEW pred
  PROVE  DOMAIN ClusterFilterTargets(cl, pred) \subseteq DOMAIN cl
BY DEF ClusterFilterTargets

LEMMA FindNodesDomain ==
  ASSUME NEW cl, NEW names
  PROVE  DOMAIN FindNodes(cl, names) = DOMAIN cl \cap names
BY DEF FindNodes

\* Filtering the targets of a cluster and selecting its nodes commute.
LEMMA FindNodesFilterTargets ==
  ASSUME NEW cl, NEW names, NEW pred
  PROVE  ClusterFilterTargets(FindNodes(cl, names), pred)
           = FindNodes(ClusterFilterTargets(cl, pred), names)
BY DEF ClusterFilterTargets, FindNodes

LEMMA ClusterSelectionsCommute ==
  ASSUME NEW x, NEW A1, NEW A2
  PROVE  PopoverClusterFilter(A1, PopoverClusterFilter(A2, x))
           = PopoverClusterFilter(A2, PopoverClusterFilter(A1, x))
BY DEF PopoverClusterFilter

LEMMA NodeSelectionsCommute ==
  ASSUME NEW x, NEW B1, NEW B2
  PROVE  PopoverNodeFilter(B1, PopoverNodeFilter(B2, x))
           = PopoverNodeFilter(B2, PopoverNodeFilter(B1, x))
BY DEF PopoverNodeFilter, FindNodes

LEMMA ClusterNodeCommute ==
  ASSUME NEW x, NEW A, NEW B
  PROVE  PopoverClusterFilter(A, PopoverNodeFilter(B, x))
           = PopoverNodeFilter(B, PopoverClusterFilter(A, x))
BY DEF PopoverClusterFilter, PopoverNodeFilter, FindNodes

LEMMA ClusterTargetCommute ==
  ASSUME NEW x, NEW A, NEW pred
  PROVE  PopoverClusterFilter(A, FilterClusters(x, pred))
           = FilterClusters(PopoverClusterFilter(A, x), pred)
BY DEF PopoverClusterFilter, FilterClusters

LEMMA NodeTargetCommute ==
  ASSUME NEW x, NEW B, NEW pred
  PROVE  PopoverNodeFilter(B, FilterClusters(x, pred))
           = FilterClusters(PopoverNodeFilter(B, x), pred)
<1> DEFINE CFT(cl) == ClusterFilterTargets(cl, pred)
           FN(cl) == FindNodes(cl, B)
           lhs == PopoverNodeFilter(B, FilterClusters(x, pred))
           rhs == FilterClusters(PopoverNodeFilter(B, x), pred)
<1>1. \A c \in DOMAIN x : CFT(FN(x[c])) = FN(CFT(x[c]))
  BY FindNodesFilterTargets
<1>2. \A c \in DOMAIN x : DOMAIN FN(CFT(x[c])) \subseteq DOMAIN CFT(x[c])
  BY FindNodesDomain
<1>3. \A c \in DOMAIN x : DOMAIN CFT(FN(x[c])) \subseteq DOMAIN FN(x[c])
  BY ClusterFilterTargetsDomain
<1>4. DOMAIN lhs = {c \in DOMAIN x : DOMAIN FN(CFT(x[c])) # {}}
  BY <1>2 DEF PopoverNodeFilter, FilterClusters
<1>5. DOMAIN rhs = {c \in DOMAIN x : DOMAIN FN(CFT(x[c])) # {}}
  BY <1>1, <1>3 DEF PopoverNodeFilter, FilterClusters
<1>6. \A c \in DOMAIN lhs : lhs[c] = FN(CFT(x[c]))
  BY <1>4 DEF PopoverNodeFilter, FilterClusters
<1>7. \A c \in DOMAIN rhs : rhs[c] = CFT(FN(x[c]))
  BY <1>5 DEF PopoverNodeFilter, FilterClusters
<1>8. lhs = [c \in DOMAIN lhs |-> lhs[c]] /\ rhs = [c \in DOMAIN rhs |-> rhs[c]]
  BY DEF PopoverNodeFilter, FilterClusters
<1>. QED  BY <1>1, <1>4, <1>5, <1>6, <1>7, <1>8

(***************************************************************************)
(* For every cluster map, the filter functions the controls register       *)
(* commute when one of them is a cluster or node selection (the            *)
(* PopoverSelector filters): applied in either registration order, a      *)
(* structural filter and any health, search, cluster or node filter give   *)
(* the same view.                                                          *)
(***************************************************************************)
THEOREM StructuralFiltersCommute ==
  ASSUME NEW x, NEW f, NEW g,
         f.kind \in {"cluster", "node"},
         g.kind \in {"health", "search", "cluster", "node"}
  PROVE  ApplyFilter(f, ApplyFilter(g, x)) = ApplyFilter(g, ApplyFilter(f, x))
<1>1. CASE f.kind = "cluster" /\ g.kind = "cluster"
  BY <1>1, ClusterSelectionsCommute DEF ApplyFilter
<1>2. CASE f.kind = "cluster" /\ g.kind = "node"
  BY <1>2, ClusterNodeCommute DEF ApplyFilter
<1>3. CASE f.kind = "node" /\ g.kind = "cluster"
  BY <1>3, ClusterNodeCommute DEF ApplyFilter
<1>4. CASE f.kind = "node" /\ g.kind = "node"
  BY <1>4, NodeSelectionsCommute DEF ApplyFilter
<1>5. CASE f.kind = "cluster" /\ g.kind = "health"
  BY <1>5, ClusterTargetCommute DEF ApplyFilter, HealthFilter
<1>6. CASE f.kind = "cluster" /\ g.kind = "search"
  BY <1>6, ClusterTargetCommute DEF ApplyFilter, SearchFilter
<1>7. CASE f.kind = "node" /\ g.kind = "health"
  BY <1>7, NodeTargetCommute DEF ApplyFilter, HealthFilter
<1>8. CASE f.kind = "node" /\ g.kind = "search"
  BY <1>8, NodeTargetCommute DEF ApplyFilter, SearchFilter
<1>. QED  BY <1>1, <1>2, <1>3, <1>4, <1>5, <1>6, <1>7, <1>8

(***************************************************************************)
(* For every cluster map and target predicate, the health and search       *)
(* filters' body (map(filterTargets) then filter(hasNodes), over           *)
(* Cluster/Node/Pod.filterTargets) leaves no cluster without nodes, no     *)
(* node without pods and no pod without targets: the spec's empty-pruning *)
(* invariant, whatever the fetched document holds empty.                   *)
(***************************************************************************)
THEOREM TargetFiltersPrune ==
  ASSUME NEW x, NEW pred
  PROVE  PrunedTree(FilterClusters(x, pred))
<1> DEFINE y == FilterClusters(x, pred)
<1>1. \A c \in DOMAIN y : y[c] = ClusterFilterTargets(x[c], pred)
                         /\ DOMAIN y[c] # {}
  BY DEF FilterClusters
<1>2. ASSUME NEW cl
      PROVE  \A n \in DOMAIN ClusterFilterTargets(cl, pred) :
               /\ ClusterFilterTargets(cl, pred)[n] = NodeFilterTargets(cl[n], pred)
               /\ DOMAIN NodeFilterTargets(cl[n], pred) # {}
  BY DEF ClusterFilterTargets
<1>3. ASSUME NEW nd
      PROVE  \A p \in DOMAIN NodeFilterTargets(nd, pred) :
               Len(NodeFilterTargets(nd, pred)[p]) > 0
  BY DEF NodeFilterTargets
<1>. QED  BY <1>1, <1>2, <1>3 DEF PrunedTree

=============================================================================
