# Formal model of the KOF collector web UI (Prometheus targets page)

This directory holds TLA+ specifications of the single-page UI under
`src/kof-operator/webapp/collector/src`: the TLC configurations that
model-check them, and TLAPS proofs about them.

## The system

The page shows the Prometheus scrape targets that the collector reports. The
targets are grouped as cluster → node → pod → target. The parts of the page:

| part | source | role |
|---|---|---|
| target catalog | `models/Pod.ts`, `Node.ts`, `Cluster.ts`, `PrometheusTargetsManager.ts`, `PrometheusTarget.ts` | An immutable tree rebuilt from the fetched JSON. Each level has a `filterTargets(pred)` that prunes emptied children (`hasTargets`/`hasPods`/`hasNodes`). `Cluster.findNodes(names)` selects nodes by name. |
| provider | `providers/prometheus/PrometheusTargetsProvider.tsx` | Owns `loading`, `error`, `data` and the ordered filter array `filters`. Fetches once on mount, behind the `fetchInProgress` guard. `addFilter(name, fn)` appends `{id: filter_<name>_<Date.now()>, name, fn}` and `removeFilter(id)` drops an entry by id. `filteredData` folds the filters left to right over `data.clusters`. |
| health selector | `components/features/HealthSelector.tsx` | A checkbox per health state. A click toggles the state, removes the filter it registered last and registers `HealthFilter(states)` if any states are left. |
| search bar | `components/features/SearchBar.tsx` | On input it does the same with `SearchFilter(value)`. An effect cleanup removes the previous id once more when the id changes. |
| popover selectors | `components/features/PopoverSelector.tsx`, `TargetFilter.tsx` | One popover for clusters and one for nodes. A selection change triggers an effect that re-registers `PopoverClusterFilter` or `PopoverNodeFilter`. The node popover lists only the nodes of the selected clusters. |
| target list | `components/features/TargetsList.tsx` | Renders the view: a spinner while loading, only an error with a Reload button when `error` is set, else one table per cluster. A row is keyed by cluster, scrape URL and index, and keeps its own expanded state. |
| wiring and presentation | `App.tsx`, `MainPage.tsx`, `PrometheusContext.tsx`, `PrometheusHook.tsx`, `TargetsStats.tsx`, `utils/target.ts` | Context plumbing and counting badges. |

The controls and the list share one provider through React context. Every
control is disabled while `loading` is true.

## Modules

Modules are listed in dependency order.

- **`TargetTree.tla`**: the catalog and the four filter builders, as pure operators.
  - The `targets` getters of Node, Cluster and the manager are the positions of the flattened list (`TargetPositions`), so `TargetCount` keeps how often a target occurs. `ApplyFilter` interprets a registered filter function.
  - Each level is a function from child name to child, and a pod is the sequence of its active targets.
  - `PodFilterTargets`, `NodeFilterTargets` and `ClusterFilterTargets` translate the three `filterTargets` methods, pruning included. `FilterClusters` is the shared `map(filterTargets).filter(hasNodes)`.
  - `HealthFilter`, `SearchFilter` (with `SearchMatch` over URL, pool, labels and discovered labels), `PopoverClusterFilter`, `FindNodes` and `PopoverNodeFilter` translate their builders.
  - A string is a sequence of characters, so `Includes` is substring search, not equality.
- **`PrometheusTargets.tla`**: the page as one state machine.
  - Variables:
    - the provider's state: `loading`, `error`, `data`, `fetchInProgress` and `filters`;
    - `requests`, the number of `fetch()` calls whose promise has not settled (kept apart from the guard, which the code can release while a request is pending);
    - `mounted`, which is whether the mount effect has run;
    - the clock `now`;
    - each control's selection and remembered filter id (`filterId`).
  - The filter array is kept as its set of entries plus the order relation `before` between ids. Appending and removing by id act on both exactly as on the array, and `Pipeline` folds the entries in that order.
  - Actions:
    - `MountEffect` and `Reload` call `CallFetch`: the code up to the first `await`. With the guard clear it sets the guard and `loading`, clears the error and sends a request. With the guard set, the early `return` is inside `try`, so the `finally` still runs: it clears `loading` and the guard, and sends nothing.
    - The constant `StrictMode` says whether the app runs inside `<React.StrictMode>` in a development build. There React runs the mount effect twice in the same commit, and `MountEffect` then calls `CallFetch` twice. The entry point that would decide this (`main.tsx`) is not part of the sources, so both values are checked.
    - `FetchSucceed` and `FetchFail` are the settlement, with the `finally` block.
    - `OnCheckboxClick`, `HandleInputs`, `SelectCluster` and `SelectNode` are the control events.
    - `Tick` advances `Date.now()`.
  - Each control action is the handler together with the render and the effects it triggers. React 18 flushes the state updates and passive effects of a discrete event (click, input, select) before the next event is dispatched, so these steps are atomic. The remove-then-add of every control is `Reregistered`. The search bar's cleanup removes the old id a second time when the id changed.
  - The refinement mapping to `AbstractTargets`: `CatalogStatus` is what `TargetList` shows (spinner, error, table; `"empty"` before the mount effect), the catalog is `data`, and `Selections` is the four controls' state.
- **`AbstractCatalog.tla`** and **`AbstractTargets.tla`**: what the spec promises, with no ids, clock or pipeline order.
  - `AbstractCatalog` is the lifecycle Empty -> Loading -> Ready | Failed. A fetch starts only when none is in flight, success replaces the catalog as a whole, failure keeps it, and a started fetch settles (weak fairness).
  - `AbstractTargets` adds one selection per control, changed by `Select(k)` whatever the fetch is doing, and the derived `View`: the catalog narrowed by each non-empty selection in a fixed order.
  - `CatalogReady` is the abstract promise that Ready comes with a catalog.
- **`FilterLaws.tla`** / **`MCFilterLaws.tla`**: the filter operators checked on every small document.
  - The state is the fetched document. `AddCluster`, `AddNode`, `AddPod` and `AppendTarget` build every value of the JSON types (`ClustersData`, `NodeData`, `PodResponse`) within the bounds, empty groups included.
  - The properties quantify over every filter the controls can register.
- **`ListView.tla`** / **`MCListView.tla`**: the target table over the page.
  - `ClusterTargetSeq` is `cluster.targets` in document key order (`NodeOrder`, `PodOrder`), `Rows` the rendered rows with their keys `<<cluster, scrapeUrl, idx>>`.
  - `open` is the `open` state of each `Row`. Every page step re-renders (`Rerendered`): React keeps the state of a key still rendered and drops the others. `ToggleRow` is the row's click. `openedAt` is a history variable: the target each open row was opened on.
  - The node filter re-orders nodes by selection order (`findNodes` iterates the names); this is not modelled, key order is the document's.
- **`MCPrometheusTargets.tla`**: the model for TLC.
  - A two-cluster catalog has an empty pod, a node with no pods, duplicate targets and all three health states.
  - A second catalog, without the cluster `c2`, is available as an alternative response.
  - Three queries, `""`, `"b"` and `"ba"`, match different targets through URL, pool, labels and discovered labels.
- **`PrometheusTargetsProofs.tla`**, **`PrometheusTargetsRefinement.tla`**, **`FilterArrayProofs.tla`** and **`FilterProofs.tla`**: the TLAPS proofs.

## Runs

| run | cfg | expect | what it shows |
|---|---|---|---|
| `session` | `MCPrometheusTargets.cfg` | pass | With `StrictMode = TRUE`: `ControlsOwnTheirFilters`, `ViewReflectsSelections`, `NoFetchAfterLoad`, `OneRequestInFlight`, `FilterArrayOrdered`, `SelectionsInCatalog` and `FetchSettles`, over every interleaving (62,693 states, depth 13). |
| `stale_node_selection` | `MCStaleNode.cfg` | violation | `SelectedNodesListed` fails: a selected node stops being listed after a cluster selection. |
| `empty_groups` | `MCEmptyGroups.cfg` | violation | `FilteredViewPruned` fails: an empty pod from the document reaches the view through the cluster filter. |
| `filter_laws` | `MCFilterLaws.cfg` | pass | `TargetFilterContract` and `FiltersCommute` on all 6,724 documents of the bounds. |
| `empty_selection` | `MCEmptySelection.cfg` | violation | `EmptyClusterSelectionPassesThrough` fails on the first document with a cluster. |
| `refinement` | `MCRefinement.cfg` | pass | With `StrictMode = FALSE` (a production build): `ReadyListHasCatalog` and `ImplementsAbstractTargets`, the page implementing `AbstractTargets!Spec`, liveness included (62,552 states). |
| `strict_mode_ready` | `MCStrictReady.cfg` | violation | With `StrictMode = TRUE`, `ReadyListHasCatalog` fails at the mount: the second effect run clears `loading` while the first request is pending. |
| `row_state` | `MCListView.cfg` | violation | `ExpandedRowKeepsItsTarget` fails in 4 steps: an expanded row's state moves to another target after a health click. |

The properties of the `session` run:

- **`ControlsOwnTheirFilters`**: every control owns exactly one entry, under the id it remembers and holding its current selection, when its selection is non-empty. It owns none, and remembers no id, when its selection is empty.
  - This covers the same-millisecond case, where the new id equals the old one. `MaxTime = 1` makes both the equal-id and the distinct-id re-registrations happen.
  - The search bar's second removal of the old id must never hit the live entry.
- **`ViewReflectsSelections`**: `filteredData` equals the abstract `View` of `AbstractTargets` under the mapping: health, then search, then cluster, then node applied to the data, whatever order the filters were registered and re-registered in. In other words, the filters commute, and their pruning commutes with them.
- **`NoFetchAfterLoad`**: no request is pending and no error is set once a catalog is loaded, so a loaded catalog is never refetched. This records a divergence from the spec (see Findings).
- **`OneRequestInFlight`**: at most one request is unsettled. Under StrictMode the mount effect's second run releases the guard while the first request is pending, so the guard alone does not ensure this; only the fact that Reload is rendered after a failure, when nothing is pending, does.
- **`FilterArrayOrdered`**: no two entries of the filter array share an id, so `removeFilter(id)` removes one entry. The order between entries is a strict total order over their ids, so `filteredData` folds them in one well-defined order.
- **`SelectionsInCatalog`**: every selected cluster is one the cluster popover lists, and every selected node is a node of the loaded catalog. Neither popover ever checks its `selectedValues` against its list. The selections stay in the catalog only because the catalog is loaded once and never replaced. Compare `SelectedNodesListed`: a selected node need not be listed.
- **`FetchSettles`**: every sent request settles, and then no request is pending and the guard and `loading` are released.

The properties of `filter_laws`:

- **`TargetFilterContract`**: for every health set and search value, `FilterClusters` keeps each accepted target exactly as often as the document has it, no rejected target, and leaves no empty cluster, node or pod (the spec's result guarantee and empty-pruning).
- **`FiltersCommute`**: any two of the filter functions the four controls can register give the same result in either order. `ViewReflectsSelections` shows this on the page's catalogs; here it holds on every bounded document.

The properties of `refinement`, in a production build:

- **`ReadyListHasCatalog`**: once mounted, `TargetList` renders its table (neither spinner nor error) only when a catalog has been loaded. The mount effect sets `loading` in the render it runs after, and every settlement stores a catalog or sets the error. Under StrictMode it fails (`strict_mode_ready`, finding 6).
- **`ImplementsAbstractTargets`**: every step of the page is a step of `AbstractTargets` under the mapping or leaves its variables alone, and the abstract fairness holds: a fetch the list shows as loading settles. Together with `ViewReflectsSelections`, the view shown is the abstract view.

Each of these properties is broken by a plausible bug in the code. The mutants are listed in `PROJECT.json`:

- Reload shown whenever the page is not loading. A refetch of `Catalog2`, which has no cluster `c2`, then leaves `c2` selected and unlisted (`SelectionsInCatalog`). After the StrictMode mount released the guard, a click also sends a second request (`OneRequestInFlight`).
- The remove and the add swapped.
- The search bar's cleanup run after every input, as it would be were `removeFilter` not memoised.
- The mount effect re-running on data changes.
- The guard reset only in `catch`.
- `Pod.filterTargets` taking its short-circuit whenever any target is kept.
- `PopoverNodeFilter` without its `hasNodes` filter.
- A rejection the `catch` does not recognise (`err instanceof Error` false): the table is shown with no catalog (`ReadyListHasCatalog`), and the page leaves Loading for no abstract state (`ImplementsAbstractTargets`).
- Ids built from `Date.now()` without the filter name: two controls registering in one millisecond share an id (`FilterArrayOrdered`).

### Bounds

- Two clusters and three node names are enough:
  - a node name occurs in both clusters (`n1`);
  - one node occurs in only one cluster (`n2`);
  - another node has no pods (`n3`).

  This is the smallest catalog in which selecting a cluster hides a selected node, and in which the node filter, the cluster filter and the pruning of the target filters all interact.
- Three health states and three queries make every filter both keep and drop targets.
- `MaxTime = 1` gives both equal and distinct filter ids.
- Without a state constraint the graph is complete at depth 13.
- `filter_laws` enumerates every document of at most two clusters of two nodes of one pod with at most two targets, over two targets of different health that the search value `"b"` tells apart. Every target filter then both keeps and drops targets, and empties pods, nodes and clusters. A larger instance (three targets, 51,076 documents) also passes but takes four and a half minutes.
- `Catalog2` lacks the cluster `c2` and the node `n1`. A refetch after a load, which the code never does, would strand a selection on them.
- `row_state` needs two targets with the same URL in one cluster, which both catalogs have (`T4` and `T2` in `c2` of `Catalog1`, `T3` and `T2` in `c1` of `Catalog2`).
- `StrictMode` is a constant, so each run fixes it: `session` takes the development build, whose fetch behaviour is the harder one, and `refinement` the production build, where the abstract lifecycle holds.

### Fairness

The only fairness is `WF_vars(FetchSettle)`: a pending request eventually settles. `fetch()` has no timeout (`PrometheusTargetsProvider.tsx:39`), so settlement is an assumption about the browser and the network, not a guarantee of the code. User actions carry no fairness, since nobody has to click.

## Proofs (`PrometheusTargetsProofs.tla`, `PrometheusTargetsRefinement.tla`, `FilterArrayProofs.tla`, `FilterProofs.tla`)

| theorem | statement |
|---|---|
| `TypeCorrect` | `Spec => []TypeOK` |
| `InductiveInvariant` | `Spec => []IInv` |
| `OwnershipInvariant` | `Spec => []ControlsOwnTheirFilters` |
| `NoRefresh` | `Spec => []NoFetchAfterLoad` |
| `SingleRequest` | `Spec => []OneRequestInFlight` |
| `Refinement` | `~StrictMode => (Spec => AT!SafetySpec)` |
| `ListShowsCatalog` | `~StrictMode => (Spec => []ReadyListHasCatalog)` |
| `SelectionsStayInCatalog` | `Spec => []SelectionsInCatalog` |
| `FilterOrderInvariant` | `Spec => []FilterArrayOrdered` |
| `StructuralFiltersCommute` | for every cluster map `x` and filters `f`, `g` with `f` a cluster or node selection: `ApplyFilter(f, ApplyFilter(g, x)) = ApplyFilter(g, ApplyFilter(f, x))` |
| `TargetFiltersPrune` | for every cluster map and predicate: `PrunedTree(FilterClusters(x, pred))` |

These hold for every catalog set, query set, name sets and clock bound that satisfy the named assumptions:

- `NamesAssumption`;
- `ConstantsAssumption`: `MaxTime \in Nat`, `<<>> \in Queries`, `Null \notin Responses` and `StrictMode \in BOOLEAN`;
- `NullAssumption`: `Null` is not an id.

`ControlsOwnTheirFilters` is not inductive on its own. Two further facts are needed:

- Removing another control's id must not touch this control's entry. This needs `EntryIdsNamed`: an entry's id carries its name, because ids are `<<name, time>>`.
- `NoFetchAfterLoad` needs `FetchState`: `loading` mirrors the guard; at most one request is pending; the guard is held only with one request pending and an error only with none; in a production build a pending request holds the guard; before the mount nothing has been fetched. The last but one fact fails under StrictMode, whose second mount run releases the guard, which is why it is conditioned on `~StrictMode`. `Reload` needs the fourth: it is enabled only with an error, so no request is pending when it sends one.

The inductive invariant is `IInv == TypeOK /\ EntryIdsNamed /\ ControlsOwnTheirFilters /\ FetchState /\ NoFetchAfterLoad`. It is proved by `InitInv` and `InvStep`; `SingleRequest`, `OwnershipInvariant` and `NoRefresh` read their invariants off it. The fetch cases of `InvStep` first extract the few fetch facts they need from `IInv` and the action, then conclude in a small context (the provers time out on the whole of `TypeOK`); the mount case splits on `StrictMode`. `InvStep` has one case per action. The control cases rest on these lemmas:

- `ReregisteredNamed`: a re-registration leaves the other controls' entries alone and leaves this control exactly the entry it added. It is built from `RemoveFilterOther/Same`, `AddFilterOther/Same` and `FilterNameInjective`.
- `ControlStep`: the health control and the two popovers.
- `SearchStep`: the extra cleanup removal, using `RememberedId`.

`Refinement` proves the safety part of `ImplementsAbstractTargets` (`Init /\ [][Next]_vars` of `AbstractTargets` under the mapping). `InitRefines` maps the initial state. `StepRefines` shows that every step, from a state and to a state satisfying `IInv`, is an abstract step or a stutter:

- the fetch start, success and failure lemmas rest on `FetchState`: in a production build the mount effect calls `CallFetch` once, so every pending request holds the guard and `loading` (`SettleFromLoading`), and a settlement leaves the status Loading;
- `SelectStep` covers the four control events, since each changes only its own selection and no fetch variable;
- `Tick` is a stutter.

The theorem then combines `InductiveInvariant` with these by PTL. It is stated for production builds, `~StrictMode`; under StrictMode it is false, since the mount goes from Empty to a shown table with no catalog (`strict_mode_ready`).

`ListShowsCatalog` is the abstract invariant `CatalogReady` carried to the page. It is proved from `Refinement`: `CatalogReady` holds initially and is kept by every abstract step, so it holds on every behaviour of `AT!SafetySpec`, and `AT!CatalogReady` is `ReadyListHasCatalog` under the mapping. tlapm 1.4.5 does not let a proof cite a theorem through `AT!`. The two abstract steps are therefore proved again over the `AT!` definitions in `PrometheusTargetsRefinement`; they never open the page's actions. Like `Refinement`, it holds for production builds only.

`SelectionsStayInCatalog` is not inductive on its own. A successful fetch changes `data`. Only `NoFetchAfterLoad` (in `IInv`) tells that a fetch settles only while `data` is null. Then both lists, and so both selections, are empty. `SelectionsStep` proves `IInv /\ SelectionsInCatalog /\ [Next]_vars => SelectionsInCatalog'` with one case per action. `handleSelect` toggles a listed cluster or node, and the node list is part of the catalog's nodes. The theorem then follows from `InductiveInvariant` by PTL.

`FilterArrayProofs` proves a property of the filter array from `IInv`.

- `FilterArrayOrdered` is not inductive on its own. An `addFilter` keeps it only if its new id is carried by no entry. That holds because the control's own entry has just been removed and the ids of all other entries start with other names (`FreshId`, from `ReregisteredNamed` with no new entry).
- The lemmas for `FilterArrayOrdered`:
  - `RemoveFilterOrdered`: removing an id keeps the order of what is left.
  - `AddFilterOrdered`: appending a fresh id after all entries keeps a strict total order.
  - `ReregisteredOrdered` combines the two.
  - `OrderedStep` has one case per handler; the search bar's extra removal is covered by `RemoveFilterOrdered`.

`FilterProofs` needs no assumption and never opens `PodFilterTargets` (`SelectSeq`). The structural filters restrict domains, and the target filters map each child and keep the non-empty ones. The key lemma `FindNodesFilterTargets` says that selecting a cluster's nodes and filtering its targets commute. The hardest case, `NodeTargetCommute`, compares the kept cluster sets on both sides through it. `TargetFiltersPrune` is the pruning half of `TargetFilterContract` for every document. The structural filters have no such theorem, and finding 2 shows they do not prune.

Left to TLC:

- `ViewReflectsSelections` is about the recursive fold and the filter operators. `Pipeline` is a recursive function over the subsets of the entries. Even its defining equation needs the well-founded recursion theorem, and relating it to `View` needs induction over those subsets. The library states both with operator parameters, which the provers cannot instantiate. `FilterArrayOrdered` (proved) is the fact that makes the fold's order well defined; `ControlsOwnTheirFilters` (proved) says what is folded.
- `FetchSettles` and the fairness part of `ImplementsAbstractTargets` are liveness.
- The parts of `TargetFilterContract` and `FiltersCommute` that depend on `SelectSeq`: which targets survive, and how often, and that the health and search filters commute with each other. Both need induction over sequences.

## Findings

1. **Code bug: a stale node selection** (`TargetFilter.tsx:38`, `PopoverSelector.tsx:61`). The node popover lists only the nodes of the selected clusters, but its `selectedValues` is never pruned when that list shrinks. TLC reaches this in 5 steps: mount, load, select `n2` (in `c1` only), select `c2`. The result:
   - `n2` is still selected and its filter is still active;
   - `n2` is no longer listed, so it cannot be deselected;
   - the view is empty.
2. **Spec divergence: empty groups reach the view** (`PopoverSelector.tsx:25`). The spec says a group with zero children never appears in a filtered result. The structural filters select by name and do not prune, so an empty pod or node of the fetched document is shown when only they are active.
3. **Spec divergence: there is no refresh** (`TargetsList.tsx:37`). The spec describes `Loading → Failed` keeping the previous catalog visible beside an error. This transition cannot happen in the code:
   - Reload is the only fetch caller besides the mount, and it is rendered only when `error` is set;
   - so once data is loaded, no fetch ever starts (`NoRefresh`);
   - in addition, `TargetList` hides the data whenever `error` is set.

4. **Spec divergence: an empty structural selection excludes everything** (`PopoverSelector.tsx:25`). The spec says `clusterFilter([]) (clusters) == clusters`, but `PopoverClusterFilter([])` keeps no cluster. The UI never registers an empty selection (`PopoverSelector.tsx:81`), so the view is not affected today.
5. **Code bug: an expanded row jumps to another target** (`TargetsList.tsx:73`). Rows are keyed by cluster, scrape URL and index in the filtered list. TLC, in 4 steps: mount, load `Catalog2`, expand the first row of `c1` (`T3`, unknown), check "down". Only `T2` is left in `c1`; it has the same URL, takes the key `c1`/`a`/`0`, and React keeps it expanded. The spec identifies a target in the UI by its pod, scrape URL and position.
6. **Code bug: under StrictMode the table shows before the catalog** (`PrometheusTargetsProvider.tsx:31`, `:61-64`, `:67-69`). In a development build under `<React.StrictMode>` the mount effect runs twice. The second call finds the guard set and returns, but the `return` is inside `try`, so the `finally` sets `loading` to false and clears the guard while the first request is pending. `TargetList` then renders the table with `data` null instead of the spinner, and the controls are enabled. TLC finds it at the mount (`strict_mode_ready`). The spec's lifecycle keeps the page Loading until the fetch settles. A production build is not affected (`ListShowsCatalog`), and the Reload button never meets the released guard, since it is rendered only after a failure (`SingleRequest`).

## Not modelled

- `clearFilters`, which has no caller.
- The health-count effect and the badges (`TargetsStats`, `utils/target.ts`), which are presentation.
- The cell formatting of a row (URL host rewrite, dates, durations, the JSON view).
- The popover open flag.
- Component unmounting: `MainPage` never unmounts the controls.
- The toast.
- The JSON shape beyond what the filters read: a target is `health`, `scrapeUrl`, `scrapePool`, `labels` and `discoveredLabels`.
- Key order of the JS objects. The spec treats the maps as unordered.
