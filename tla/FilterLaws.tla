------------------------------ MODULE FilterLaws ------------------------------
(***************************************************************************)
(* The filter operators of TargetTree checked against what the spec says  *)
(* of them, over every document the collector could send within small     *)
(* bounds.  The state is the fetched document (the clusters map of the    *)
(* JSON body); the actions build it one group or one target at a time, so *)
(* that the reachable states are exactly the bounded documents, empty     *)
(* clusters, nodes and pods included.  The properties quantify over every *)
(* filter the controls can register.                                      *)
(***************************************************************************)
EXTENDS TargetTree

CONSTANTS
  TargetValues,   \* the targets a pod may list
  SearchValues,   \* non-empty search inputs
  MaxTargets      \* the longest activeTargets list built

ASSUME LawsAssumption ==
  /\ MaxTargets \in Nat
  /\ <<>> \notin SearchValues

VARIABLE doc

EmptyMap == [x \in {} |-> x]

\* The map f with key k bound to v.
Put(f, k, v) == [x \in DOMAIN f \cup {k} |-> IF x = k THEN v ELSE f[x]]

AddCluster(c) ==
  /\ c \notin DOMAIN doc
  /\ doc' = Put(doc, c, EmptyMap)

AddNode(c, n) ==
  /\ c \in DOMAIN doc
  /\ n \notin DOMAIN doc[c]
  /\ doc' = Put(doc, c, Put(doc[c], n, EmptyMap))

AddPod(c, n, p) ==
  /\ c \in DOMAIN doc
  /\ n \in DOMAIN doc[c]
  /\ p \notin DOMAIN doc[c][n]
  /\ doc' = Put(doc, c, Put(doc[c], n, Put(doc[c][n], p, <<>>)))

AppendTarget(c, n, p, t) ==
  /\ c \in DOMAIN doc
  /\ n \in DOMAIN doc[c]
  /\ p \in DOMAIN doc[c][n]
  /\ Len(doc[c][n][p]) < MaxTargets
  /\ doc' = Put(doc, c, Put(doc[c], n, Put(doc[c][n], p, Append(doc[c][n][p], t))))

Init == doc = EmptyMap

Next ==
  \/ \E c \in ClusterNames : AddCluster(c)
  \/ \E c \in ClusterNames, n \in NodeNames : AddNode(c, n)
  \/ \E c \in ClusterNames, n \in NodeNames, p \in PodNames : AddPod(c, n, p)
  \/ \E c \in ClusterNames, n \in NodeNames, p \in PodNames, t \in TargetValues :
       AppendTarget(c, n, p, t)

\* Every document is complete once no group or target can be added.
Spec == Init /\ [][Next]_doc

-----------------------------------------------------------------------------
\* The target predicates of the health and the search filter.
Preds ==
  {[kind |-> "health", arg |-> s] : s \in SUBSET HealthStates \ {{}}} \cup
  {[kind |-> "search", arg |-> q] : q \in SearchValues}

\* The filter functions the four controls register (never with an empty
\* selection: each control registers only when its selection is not empty).
FilterFns ==
  {[kind |-> "health", arg |-> s] : s \in SUBSET HealthStates \ {{}}} \cup
  {[kind |-> "search", arg |-> q] : q \in SearchValues} \cup
  {[kind |-> "cluster", arg |-> s] : s \in SUBSET ClusterNames \ {{}}} \cup
  {[kind |-> "node", arg |-> s] : s \in SUBSET NodeNames \ {{}}}

(***************************************************************************)
(* The result guarantee of the health and search filters (the body of     *)
(* HealthFilter and SearchFilter over Cluster/Node/Pod.filterTargets):    *)
(* every target occurs in the result exactly as often as in the document  *)
(* if the predicate accepts it, and not at all otherwise, and the result  *)
(* holds no empty group.                                                   *)
(***************************************************************************)
TargetFilterContract ==
  \A pred \in Preds :
    LET result == FilterClusters(doc, pred)
    IN  /\ PrunedTree(result)
        /\ \A t \in TargetValues :
             TargetCount(result, t) = IF Accepts(pred, t) THEN TargetCount(doc, t) ELSE 0

(***************************************************************************)
(* Any two filters the controls register commute, on every document: the  *)
(* view does not depend on the order in which the controls registered     *)
(* them, although the pipeline folds them in that order.                   *)
(***************************************************************************)
FiltersCommute ==
  \A f, g \in FilterFns :
    ApplyFilter(f, ApplyFilter(g, doc)) = ApplyFilter(g, ApplyFilter(f, doc))

(***************************************************************************)
(* The spec: a structural selection filter with the empty selection passes *)
(* every cluster through (clusterFilter([]) (clusters) == clusters).      *)
(***************************************************************************)
EmptyClusterSelectionPassesThrough ==
  PopoverClusterFilter({}, doc) = doc

=============================================================================
