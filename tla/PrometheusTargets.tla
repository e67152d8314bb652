------------------------- MODULE PrometheusTargets -------------------------
(***************************************************************************)
(* The targets page as one state machine: the provider                     *)
(* (PrometheusTargetsProvider.tsx: fetch, catalog, filter array, derived   *)
(* view) and the four controls that register filters in it                 *)
(* (HealthSelector, SearchBar and the cluster and node PopoverSelectors    *)
(* of TargetFilter.tsx).                                                   *)
(*                                                                         *)
(* Each action is one browser event together with the React render and    *)
(* the effects it triggers: React 18 flushes the state updates and the     *)
(* passive effects of a discrete event (click, input, select) before it    *)
(* dispatches the next one.  The fetch is two steps: the synchronous part  *)
(* up to the first await, and its settlement.  fetch() calls are counted *)
(* apart from the useRef guard: the early return of a call that meets the *)
(* guard still runs the finally block, which releases the guard while the *)
(* first call's request is pending.                                      *)
(*                                                                         *)
(* The filter array FilterEntry[] is modelled as the set of its entries    *)
(* and the order between them (filters.before holds <<a, b>> when the      *)
(* entry with id a is before the one with id b): appending and removing by *)
(* id act on both exactly as on the array.                                 *)
(***************************************************************************)
EXTENDS TargetTree

CONSTANTS
  Responses,  \* catalogs (cluster maps) a successful fetch may return
  Queries,    \* values the search input may take; <<>> is the empty input
  MaxTime,    \* last value of Date.now() explored
  Null,       \* null
  StrictMode  \* rendered in <React.StrictMode> in a development build, where
              \* React runs every mount effect twice (the entry point that
              \* decides it is not part of the collector's sources)

ASSUME ConstantsAssumption ==
  /\ MaxTime \in Nat
  /\ <<>> \in Queries
  /\ Null \notin Responses
  /\ StrictMode \in BOOLEAN

VARIABLES
  mounted,          \* the provider's mount effect has run
  loading,          \* useState loading
  error,            \* useState error # null
  data,             \* useState data: a catalog's cluster map, or Null
  fetchInProgress,  \* useRef fetchInProgress.current
  requests,         \* fetch() calls whose promise has not settled yet
  filters,          \* useState filters: [entries, before]
  now,              \* Date.now()
  healthStates,     \* HealthSelector: states
  query,            \* SearchBar: the input's value
  clusterSel,       \* cluster PopoverSelector: selectedValues (= TargetFilter.selectedClusters)
  nodeSel,          \* node PopoverSelector: selectedValues
  filterId          \* each control's filterId / filterIdRef.current

fetchVars   == <<mounted, loading, error, data, fetchInProgress, requests>>
controlVars == <<healthStates, query, clusterSel, nodeSel, filterId>>
vars        == <<fetchVars, filters, now, controlVars>>

Controls == {"health", "search", "cluster", "node"}

\* The name each control passes to addFilter.
FilterName == [health  |-> "health_filter",
               search  |-> "search",
               cluster |-> "cluster_popover_filter",
               node    |-> "node_popover_filter"]

FilterNames == {FilterName[k] : k \in Controls}

\* `filter_${name}_${Date.now()}`
Ids == FilterNames \X (0..MaxTime)

ASSUME NullAssumption == Null \notin Ids

\* A filter function is the builder that made it (one per control) and the
\* argument it closed over.
IsFn(fn) ==
  /\ fn = [kind |-> fn.kind, arg |-> fn.arg]
  /\ \/ fn.kind = "health"  /\ fn.arg \in SUBSET HealthStates
     \/ fn.kind = "search"  /\ fn.arg \in Queries
     \/ fn.kind = "cluster" /\ fn.arg \in SUBSET ClusterNames
     \/ fn.kind = "node"    /\ fn.arg \in SUBSET NodeNames

\* FilterEntry {id, name, fn}
IsEntry(e) ==
  /\ e = [id |-> e.id, name |-> e.name, fn |-> e.fn]
  /\ e.id \in Ids /\ e.name \in FilterNames /\ IsFn(e.fn)

\* useState<FilterEntry[]>: the entries and their order.
IsPipeline(fl) ==
  /\ fl = [entries |-> fl.entries, before |-> fl.before]
  /\ \A e \in fl.entries : IsEntry(e)
  /\ fl.before \subseteq Ids \X Ids

TypeOK ==
  /\ mounted \in BOOLEAN /\ loading \in BOOLEAN /\ error \in BOOLEAN
  /\ fetchInProgress \in BOOLEAN
  /\ requests \in Nat
  /\ data \in Responses \cup {Null}
  /\ IsPipeline(filters)
  /\ now \in 0..MaxTime
  /\ healthStates \in SUBSET HealthStates
  /\ query \in Queries
  /\ clusterSel \in SUBSET ClusterNames
  /\ nodeSel \in SUBSET NodeNames
  /\ filterId \in [Controls -> Ids \cup {Null}]

-----------------------------------------------------------------------------
(***************************************************************************)
(* The provider's filter operations.                                       *)
(***************************************************************************)

\* removeFilter(id): prev.filter(f => f.id !== id)
RemoveFilter(fl, id) ==
  [entries |-> {e \in fl.entries : e.id # id},
   before  |-> {p \in fl.before : p[1] # id /\ p[2] # id}]

\* addFilter(name, fn): [...prev, {id, name, fn}] with id from Date.now()
\* An id built from Date.now() alone (`filter_${Date.now()}`), the same
\* prefix for every control.
NewFilterIdUnnamed(name) == <<FilterName["search"], now>>

NewFilterId(name) == <<name, now>>

AddFilter(fl, name, fn) ==
  [entries |-> fl.entries \cup {[id |-> NewFilterId(name), name |-> name, fn |-> fn]},
   before  |-> fl.before \cup {<<e.id, NewFilterId(name)>> : e \in fl.entries}]

(***************************************************************************)
(* filteredData (useMemo): null without data, else the filters folded left *)
(* to right over data.clusters.  The fold over a set of entries applies    *)
(* the last one to the fold of the others.                                 *)
(***************************************************************************)
Pipeline(clusters, fl) ==
  LET F[S \in SUBSET fl.entries] ==
        IF S = {} THEN clusters
        ELSE LET isLast(e) == \A f \in S \ {e} : <<f.id, e.id>> \in fl.before
                 last == IF \E e \in S : isLast(e) THEN CHOOSE e \in S : isLast(e)
                         ELSE CHOOSE e \in S : TRUE
             IN  ApplyFilter(last.fn, F[S \ {last}])
  IN  F[fl.entries]

FilteredData == IF data = Null THEN Null ELSE Pipeline(data, filters)

-----------------------------------------------------------------------------
(***************************************************************************)
(* Fetch.                                                                  *)
(***************************************************************************)

\* The state fetchPrometheusTargets reads and writes before its first await.
CallState ==
  [guard |-> fetchInProgress, loading |-> loading, error |-> error, requests |-> requests]

\* fetchPrometheusTargets up to its first await, from call state f.  With a
\* fetch in flight the early `return` still runs the finally block, which
\* clears loading and the guard; otherwise it sets the guard and loading,
\* clears the error and sends the request.
CallFetch(f) ==
  IF f.guard
  THEN [f EXCEPT !.loading = FALSE, !.guard = FALSE]
  ELSE [f EXCEPT !.guard = TRUE, !.loading = TRUE, !.error = FALSE, !.requests = @ + 1]

\* The call state becomes f.
CallDone(f) ==
  /\ fetchInProgress' = f.guard
  /\ loading' = f.loading
  /\ error' = f.error
  /\ requests' = f.requests

\* The effect with a dependency that changes with the data: it runs again
\* after every render that changed it.
MountEffectRerun ==
  /\ mounted' = TRUE
  /\ CallDone(CallFetch(CallState))
  /\ UNCHANGED <<data, filters, now, controlVars>>

\* useEffect(() => fetchPrometheusTargets(), ...) on mount; under
\* StrictMode React runs it a second time in the same commit, and that call
\* meets the guard.
MountEffect ==
  LET first == CallFetch(CallState)
  IN  /\ ~mounted
      /\ mounted' = TRUE
      /\ CallDone(IF StrictMode THEN CallFetch(first) ELSE first)
      /\ UNCHANGED <<data, filters, now, controlVars>>

\* A Reload button rendered whenever not loading.
ReloadAlways ==
  /\ mounted /\ ~loading
  /\ CallDone(CallFetch(CallState))
  /\ UNCHANGED <<mounted, data, filters, now, controlVars>>

\* TargetList's Reload button: rendered only when not loading and error.
Reload ==
  /\ mounted /\ ~loading /\ error
  /\ CallDone(CallFetch(CallState))
  /\ UNCHANGED <<mounted, data, filters, now, controlVars>>

\* Success that clears loading but, with the guard reset only in catch,
\* leaves fetchInProgress set.
FetchSucceedKeepGuard(r) ==
  /\ requests > 0
  /\ requests' = requests - 1
  /\ data' = r
  /\ error' = FALSE
  /\ loading' = FALSE
  /\ UNCHANGED <<mounted, fetchInProgress, filters, now, controlVars>>

\* The response is ok and parses: a new catalog replaces data; finally
\* clears loading and the guard.
FetchSucceed(r) ==
  /\ requests > 0
  /\ requests' = requests - 1
  /\ data' = r
  /\ error' = FALSE
  /\ loading' = FALSE
  /\ fetchInProgress' = FALSE
  /\ UNCHANGED <<mounted, filters, now, controlVars>>

\* A rejection the catch block does not recognise (err instanceof Error is
\* false): loading and the guard are released, no error is recorded.
FetchFailNoError ==
  /\ requests > 0
  /\ requests' = requests - 1
  /\ loading' = FALSE
  /\ fetchInProgress' = FALSE
  /\ UNCHANGED <<mounted, error, data, filters, now, controlVars>>

\* Network failure, non-2xx status or bad JSON: error is set, data is left
\* as it was; finally clears loading and the guard.
FetchFail ==
  /\ requests > 0
  /\ requests' = requests - 1
  /\ error' = TRUE
  /\ loading' = FALSE
  /\ fetchInProgress' = FALSE
  /\ UNCHANGED <<mounted, data, filters, now, controlVars>>

FetchSettle == FetchFail \/ \E r \in Responses : FetchSucceed(r)

-----------------------------------------------------------------------------
(***************************************************************************)
(* The controls.  Each one, on a change of its selection, removes the      *)
(* filter it registered last (if any) and registers a new one when the new *)
(* selection is not empty.                                                 *)
(***************************************************************************)

\* The handlers' two calls in the other order: add the new filter, then
\* remove the old id (which removes the new entry too when Date.now() has
\* not moved).
ReregisteredAddFirst(k, fn, keep) ==
  LET old == filterId[k]
      fl  == IF keep THEN AddFilter(filters, FilterName[k], fn) ELSE filters
  IN  IF old = Null THEN fl ELSE RemoveFilter(fl, old)

\* The pipeline after control k's remove-then-add with filter function fn.
Reregistered(k, fn, keep) ==
  LET old == filterId[k]
      fl  == IF old = Null THEN filters ELSE RemoveFilter(filters, old)
  IN  IF keep THEN AddFilter(fl, FilterName[k], fn) ELSE fl

ReregisteredId(k, keep) == IF keep THEN NewFilterId(FilterName[k]) ELSE Null

\* Controls are disabled while loading.
Enabled == mounted /\ ~loading

\* HealthSelector.onCheckboxClick(s): toggle s, re-register HealthFilter.
OnCheckboxClick(s) ==
  LET newStates == IF s \in healthStates THEN healthStates \ {s}
                   ELSE healthStates \cup {s}
      keep == newStates # {}
  IN  /\ Enabled
      /\ healthStates' = newStates
      /\ filters' = Reregistered("health", [kind |-> "health", arg |-> newStates], keep)
      /\ filterId' = [filterId EXCEPT !["health"] = ReregisteredId("health", keep)]
      /\ UNCHANGED <<fetchVars, now, query, clusterSel, nodeSel>>

\* The effect's cleanup run after every input, as it would be were
\* removeFilter not memoised: it removes the previous id even when the new
\* filter got the same id.
HandleInputsCleanupEveryRender(value) ==
  LET keep  == value # <<>>
      old   == filterId["search"]
      newId == ReregisteredId("search", keep)
      fl    == Reregistered("search", [kind |-> "search", arg |-> value], keep)
  IN  /\ Enabled
      /\ value # query
      /\ query' = value
      /\ filters' = IF old # Null THEN RemoveFilter(fl, old) ELSE fl
      /\ filterId' = [filterId EXCEPT !["search"] = newId]
      /\ UNCHANGED <<fetchVars, now, healthStates, clusterSel, nodeSel>>

\* SearchBar.handleInputs(value), then the effect's cleanup, which removes
\* the previous filterId once more when setFilterId changed it.
HandleInputs(value) ==
  LET keep  == value # <<>>
      old   == filterId["search"]
      newId == ReregisteredId("search", keep)
      fl    == Reregistered("search", [kind |-> "search", arg |-> value], keep)
  IN  /\ Enabled
      /\ value # query
      /\ query' = value
      /\ filters' = IF newId # old /\ old # Null THEN RemoveFilter(fl, old) ELSE fl
      /\ filterId' = [filterId EXCEPT !["search"] = newId]
      /\ UNCHANGED <<fetchVars, now, healthStates, clusterSel, nodeSel>>

\* What a popover lists: all clusters of data; the nodes of the selected
\* clusters (of all clusters when none is selected).
ClusterChoices == IF data = Null THEN {} ELSE DOMAIN data

NodeChoices ==
  IF data = Null THEN {}
  ELSE UNION {DOMAIN data[c] : c \in {c \in DOMAIN data : clusterSel = {} \/ c \in clusterSel}}

Toggle(S, x) == IF x \in S THEN S \ {x} ELSE S \cup {x}

\* Cluster PopoverSelector.handleSelect(c), then its effect: re-register
\* PopoverClusterFilter and report the selection to TargetFilter.
SelectCluster(c) ==
  LET newSel == Toggle(clusterSel, c)
      keep   == newSel # {}
  IN  /\ Enabled
      /\ c \in ClusterChoices
      /\ clusterSel' = newSel
      /\ filters' = Reregistered("cluster", [kind |-> "cluster", arg |-> newSel], keep)
      /\ filterId' = [filterId EXCEPT !["cluster"] = ReregisteredId("cluster", keep)]
      /\ UNCHANGED <<fetchVars, now, healthStates, query, nodeSel>>

\* Node PopoverSelector.handleSelect(n), then its effect: re-register
\* PopoverNodeFilter.
SelectNode(n) ==
  LET newSel == Toggle(nodeSel, n)
      keep   == newSel # {}
  IN  /\ Enabled
      /\ n \in NodeChoices
      /\ nodeSel' = newSel
      /\ filters' = Reregistered("node", [kind |-> "node", arg |-> newSel], keep)
      /\ filterId' = [filterId EXCEPT !["node"] = ReregisteredId("node", keep)]
      /\ UNCHANGED <<fetchVars, now, healthStates, query, clusterSel>>

\* The clock advances.
Tick ==
  /\ now < MaxTime
  /\ now' = now + 1
  /\ UNCHANGED <<fetchVars, filters, controlVars>>

-----------------------------------------------------------------------------
Init ==
  /\ mounted = FALSE /\ loading = FALSE /\ error = FALSE
  /\ data = Null /\ fetchInProgress = FALSE /\ requests = 0
  /\ filters = [entries |-> {}, before |-> {}]
  /\ now = 0
  /\ healthStates = {} /\ query = <<>> /\ clusterSel = {} /\ nodeSel = {}
  /\ filterId = [k \in Controls |-> Null]

Next ==
  \/ MountEffect
  \/ Reload
  \/ \E r \in Responses : FetchSucceed(r)
  \/ FetchFail
  \/ \E s \in HealthStates : OnCheckboxClick(s)
  \/ \E q \in Queries : HandleInputs(q)
  \/ \E c \in ClusterNames : SelectCluster(c)
  \/ \E n \in NodeNames : SelectNode(n)
  \/ Tick

(***************************************************************************)
(* fetch() has no timeout: that a started fetch settles is an assumption   *)
(* on the browser and the network, stated as weak fairness of FetchSettle. *)
(***************************************************************************)
Spec == Init /\ [][Next]_vars /\ WF_vars(FetchSettle)

-----------------------------------------------------------------------------
(***************************************************************************)
(* Properties.                                                             *)
(***************************************************************************)

Selection(k) ==
  CASE k = "health"  -> healthStates
    [] k = "search"  -> query
    [] k = "cluster" -> clusterSel
    [] k = "node"    -> nodeSel

\* `if (newStates.length > 0)`, `if (value)`, `if (selectedValues.length > 0)`
Selected(k) == IF k = "search" THEN query # <<>> ELSE Selection(k) # {}

(***************************************************************************)
(* Every control owns exactly one entry of the filter array, under the id  *)
(* it remembers and holding its current selection, when its selection is  *)
(* not empty, and none (with no id remembered) when it is empty: no filter *)
(* is lost or left behind by the remove-then-add of the four handlers,     *)
(* even when Date.now() gives a new filter the id of the one it replaces.  *)
(***************************************************************************)
ControlsOwnTheirFilters ==
  \A k \in Controls :
    LET own == {e \in filters.entries : e.name = FilterName[k]}
    IN  IF Selected(k)
        THEN own = {[id |-> filterId[k], name |-> FilterName[k],
                     fn |-> [kind |-> k, arg |-> Selection(k)]]}
        ELSE own = {} /\ filterId[k] = Null

(***************************************************************************)
(* No request is ever pending or failed once a catalog has been loaded:    *)
(* the only callers are the mount effect and the Reload button, which      *)
(* exists only in the error state.  A loaded catalog is therefore never    *)
(* refreshed and never shown stale beside an error.                        *)
(***************************************************************************)
NoFetchAfterLoad == (requests > 0 \/ error) => data = Null

(***************************************************************************)
(* Every request sent is eventually settled, and the guard and the loading *)
(* flag are then released (the finally block), given that fetch() settles. *)
(***************************************************************************)
FetchSettles == requests > 0 ~> (requests = 0 /\ ~fetchInProgress /\ ~loading)

(***************************************************************************)
(* At most one request to the targets endpoint is ever pending, so two     *)
(* responses can never race to setData.  This is what the useRef guard is  *)
(* for, but the guard does not ensure it alone: under StrictMode the       *)
(* second mount-effect run releases the guard (its return runs the        *)
(* finally block) while the first request is pending, and then only the   *)
(* absence of a Reload button outside the error state keeps a second      *)
(* request from being sent.                                                *)
(***************************************************************************)
OneRequestInFlight == requests <= 1

(***************************************************************************)
(* The filter array stays an array of distinct ids in registration order:  *)
(* no two entries share an id (so removeFilter(id) removes one entry), and *)
(* the order between the entries is a strict total order over their ids,  *)
(* so that filteredData folds them in one well-defined order.  Ids come    *)
(* from Date.now(): it takes two registrations within a millisecond to    *)
(* make them collide.                                                      *)
(***************************************************************************)
FilterArrayOrdered ==
  LET ids == {e.id : e \in filters.entries}
      Before(a, b) == <<a, b>> \in filters.before
  IN  /\ \A e, f \in filters.entries : e.id = f.id => e = f
      /\ filters.before \subseteq ids \X ids
      /\ \A a \in ids : ~Before(a, a)
      /\ \A a, b \in ids : a # b => (Before(a, b) \/ Before(b, a))
      /\ \A a, b, c \in ids : Before(a, b) /\ Before(b, c) => Before(a, c)

(***************************************************************************)
(* The inductive strengthening of TypeOK, ControlsOwnTheirFilters and      *)
(* NoFetchAfterLoad: an id carries the name of its entry (so removing one  *)
(* control's id never touches another control's entry), loading mirrors   *)
(* the fetch guard, the guard is held only while the one pending request  *)
(* is, a failed request leaves none pending, outside StrictMode a pending *)
(* request holds the guard, and before the mount effect nothing was sent. *)
(***************************************************************************)
EntryIdsNamed == \A e \in filters.entries : e.id[1] = e.name

FetchState ==
  /\ loading = fetchInProgress
  /\ OneRequestInFlight
  /\ fetchInProgress => requests = 1
  /\ error => requests = 0
  /\ ~StrictMode => (requests = 1 => fetchInProgress)
  /\ ~mounted => (data = Null /\ ~fetchInProgress /\ ~error /\ requests = 0)

IInv ==
  /\ TypeOK
  /\ EntryIdsNamed
  /\ ControlsOwnTheirFilters
  /\ FetchState
  /\ NoFetchAfterLoad

(***************************************************************************)
(* Every selected node is listed by the node selector, so it can be        *)
(* deselected (the spec: the node selector depends on the selected        *)
(* clusters).                                                              *)
(***************************************************************************)
SelectedNodesListed == nodeSel \subseteq NodeChoices

(***************************************************************************)
(* Every selection of the two popovers names parts of the loaded catalog:  *)
(* each selected cluster is listed by the cluster selector (so it can be   *)
(* deselected, and the view is never narrowed to a cluster the catalog    *)
(* does not hold), and each selected node is a node of the catalog, though *)
(* per SelectedNodesListed not necessarily one the node selector lists.    *)
(* Both popovers choose from data, and the catalog is loaded once and      *)
(* never replaced (Reload exists only in the error state, before any       *)
(* catalog).                                                               *)
(***************************************************************************)
CatalogNodes == UNION {DOMAIN data[c] : c \in ClusterChoices}

SelectionsInCatalog ==
  /\ clusterSel \subseteq ClusterChoices
  /\ nodeSel \subseteq CatalogNodes


(***************************************************************************)
(* Whenever a filter is registered, the view holds no empty group: no      *)
(* cluster without nodes, no node without pods, no pod without targets     *)
(* (the spec's empty-pruning invariant for filtered results).  The cluster *)
(* and node popover filters only select by name, so whatever the fetched   *)
(* document holds empty reaches the view through them.                    *)
(***************************************************************************)
FilteredViewPruned ==
  (data # Null /\ filters.entries # {}) => PrunedTree(FilteredData)


-----------------------------------------------------------------------------
(***************************************************************************)
(* The refinement mapping.  TargetsList renders a spinner while loading,   *)
(* the error with its Reload button when error is set, the table           *)
(* otherwise; before the mount effect nothing has been fetched.  The       *)
(* abstract selection is the controls' state; the abstract view is what    *)
(* filteredData is compared with.                                         *)
(***************************************************************************)
CatalogStatus ==
  IF ~mounted THEN "empty"
  ELSE IF loading THEN "loading"
  ELSE IF error THEN "failed"
  ELSE "ready"

Selections ==
  [health |-> healthStates, search |-> query, cluster |-> clusterSel, node |-> nodeSel]

AT == INSTANCE AbstractTargets
        WITH status <- CatalogStatus, catalog <- data,
             selection <- Selections,
             Catalogs <- Responses, NoCatalog <- Null

(***************************************************************************)
(* Once mounted, TargetsList renders its table (neither the spinner nor    *)
(* the error with its Reload button) only when a catalog has been loaded:  *)
(* the mount effect sets loading in the render it runs after, and every    *)
(* settlement either stores a catalog or sets the error.  Under StrictMode *)
(* the second effect run clears loading before the first request settles. *)
(***************************************************************************)
ReadyListHasCatalog == CatalogStatus = "ready" => data \in Responses

(***************************************************************************)
(* The page implements the abstract page: what the list shows moves        *)
(* Empty -> Loading -> Ready | Failed, a fetch starts only when none is in  *)
(* flight, the catalog changes only when a fetch succeeds, a started fetch *)
(* settles, and the controls change only their own selection.             *)
(***************************************************************************)
ImplementsAbstractTargets == AT!Spec

(***************************************************************************)
(* The derived view (filteredData) is the abstract view: the catalog       *)
(* narrowed by the current selection of every control, whatever order the *)
(* filters were registered in and re-registered since: the health,       *)
(* search, cluster and node filters commute, including the pruning of      *)
(* emptied pods, nodes and clusters.                                       *)
(***************************************************************************)
ViewReflectsSelections == FilteredData = AT!View

=============================================================================
