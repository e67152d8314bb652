------------------------------ MODULE ListView ------------------------------
(***************************************************************************)
(* The target table of TargetsList.tsx over the page of PrometheusTargets. *)
(* Every cluster of filteredData renders a table whose rows are            *)
(* cluster.targets, keyed `${cluster.name}-${target.scrapeUrl}-${idx}`;   *)
(* each Row keeps its own `open` state (the JSON details), which React     *)
(* keeps for as long as a row with the same key is rendered and drops when *)
(* that key disappears.                                                    *)
(*                                                                         *)
(* Object.values follows the key order of the fetched JSON; it is the      *)
(* order of NodeOrder and PodOrder here (the node filter's re-ordering of  *)
(* nodes by selection order is not modelled).                              *)
(***************************************************************************)
EXTENDS PrometheusTargets

CONSTANTS
  NodeOrder,  \* the node names in document key order
  PodOrder    \* the pod names in document key order

VARIABLES
  open,       \* keys of the rendered Rows whose open state is true
  openedAt    \* history: <<key, target>> for each open row, the target it was opened on

listVars == <<open, openedAt>>

\* Node.targets: Object.values(pods).flatMap(pod => pod.targets)
NodeTargetSeq(node) ==
  LET F[i \in 0..Len(PodOrder)] ==
        IF i = 0 THEN <<>>
        ELSE F[i - 1] \o (IF PodOrder[i] \in DOMAIN node THEN node[PodOrder[i]] ELSE <<>>)
  IN  F[Len(PodOrder)]

\* Cluster.targets: Object.values(nodes).flatMap(node => node.targets)
ClusterTargetSeq(cluster) ==
  LET F[i \in 0..Len(NodeOrder)] ==
        IF i = 0 THEN <<>>
        ELSE F[i - 1] \o (IF NodeOrder[i] \in DOMAIN cluster
                          THEN NodeTargetSeq(cluster[NodeOrder[i]]) ELSE <<>>)
  IN  F[Len(NodeOrder)]

\* The Row key of the idx-th target of a cluster's table.
RowKey(c, t, idx) == <<c, t.scrapeUrl, idx>>

\* TargetList: the spinner while loading, the error when error is set,
\* else one table per cluster of filteredData (none while it is null).
Rows ==
  IF loading \/ error \/ data = Null THEN {}
  ELSE UNION {{<<RowKey(c, ClusterTargetSeq(FilteredData[c])[i], i - 1),
                 ClusterTargetSeq(FilteredData[c])[i]>> :
                 i \in 1..Len(ClusterTargetSeq(FilteredData[c]))} :
              c \in DOMAIN FilteredData}

RowKeys == {r[1] : r \in Rows}

\* React reconciles the rows by key: the open state of a key that is still
\* rendered is kept, that of a key no longer rendered is dropped.
Rerendered ==
  /\ open' = open \cap RowKeys'
  /\ openedAt' = {p \in openedAt : p[1] \in RowKeys'}

\* Row onClick: setOpen(o => !o) on the row with key k.
ToggleRow(k) ==
  /\ k \in RowKeys
  /\ open' = IF k \in open THEN open \ {k} ELSE open \cup {k}
  /\ openedAt' = IF k \in open THEN {p \in openedAt : p[1] # k}
                 ELSE openedAt \cup {r \in Rows : r[1] = k}
  /\ UNCHANGED vars

ListInit == Init /\ open = {} /\ openedAt = {}

ListNext == (Next /\ Rerendered) \/ \E k \in RowKeys : ToggleRow(k)

ListSpec == ListInit /\ [][ListNext]_<<vars, listVars>>

(***************************************************************************)
(* An expanded row shows the details of the target it was expanded on (the *)
(* spec: a target's identity for the UI is its pod, scrape URL and         *)
(* position): a filter change never moves a row's open state to another    *)
(* target.                                                                 *)
(***************************************************************************)
ExpandedRowKeepsItsTarget == \A p \in openedAt : p \in Rows

=============================================================================
