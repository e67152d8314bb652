--------------------------- MODULE AbstractTargets ---------------------------
(***************************************************************************)
(* The page as the spec describes it to a reader of the view: the catalog  *)
(* lifecycle of AbstractCatalog, one current selection per control, and    *)
(* the derived view, which is the catalog narrowed by every selection (an  *)
(* empty selection narrows nothing).  No filter ids, no pipeline order and *)
(* no clock: the filter array of the provider is an implementation of      *)
(* this view.                                                              *)
(***************************************************************************)
EXTENDS TargetTree, AbstractCatalog

CONSTANT Queries   \* values the search input may take; <<>> is empty

VARIABLE selection  \* [health, search, cluster, node] -> the control's selection

vars == <<status, catalog, selection>>

Choices ==
  [health : SUBSET HealthStates, search : Queries,
   cluster : SUBSET ClusterNames, node : SUBSET NodeNames]

\* The catalog narrowed by every non-empty selection.
ViewOf(cat, sel) ==
  IF cat = NoCatalog THEN NoCatalog
  ELSE LET h == IF sel.health = {} THEN cat ELSE HealthFilter(sel.health, cat)
           s == SearchFilter(sel.search, h)
           c == IF sel.cluster = {} THEN s ELSE PopoverClusterFilter(sel.cluster, s)
       IN  IF sel.node = {} THEN c ELSE PopoverNodeFilter(sel.node, c)

Init ==
  /\ CatalogInit
  /\ selection = [health |-> {}, search |-> <<>>, cluster |-> {}, node |-> {}]

Load == StartFetch /\ UNCHANGED selection

Succeed(r) == FetchOk(r) /\ UNCHANGED selection

Fail == FetchError /\ UNCHANGED selection

\* Control k changes its selection, whatever the fetch is doing.
Select(k) ==
  /\ selection' \in Choices
  /\ \A j \in DOMAIN selection \ {k} : selection'[j] = selection[j]
  /\ UNCHANGED catalogVars

Next ==
  \/ Load
  \/ \E r \in Catalogs : Succeed(r)
  \/ Fail
  \/ \E k \in DOMAIN selection : Select(k)

\* The derived view: NoCatalog without a catalog.
View == ViewOf(catalog, selection)

\* The safety part, without the transport's promise that a fetch settles.
SafetySpec == Init /\ [][Next]_vars

Spec == Init /\ [][Next]_vars /\ WF_vars(Fail \/ \E r \in Catalogs : Succeed(r))

=============================================================================
