---------------------- MODULE PrometheusTargetsProofs ----------------------
(***************************************************************************)
(* Proofs about PrometheusTargets: the type invariant, and that every      *)
(* filter control owns exactly the pipeline entry its selection calls for. *)
(***************************************************************************)
EXTENDS PrometheusTargets, TLAPS

-----------------------------------------------------------------------------
(***************************************************************************)
(* Lemmas on the provider's filter operations.                             *)
(***************************************************************************)

LEMMA RemoveFilterType ==
  ASSUME NEW fl, IsPipeline(fl), NEW id
  PROVE  IsPipeline(RemoveFilter(fl, id))
BY DEF IsPipeline, RemoveFilter

LEMMA AddFilterType ==
  ASSUME NEW fl, IsPipeline(fl), NEW name \in FilterNames, NEW fn, IsFn(fn),
         now \in 0..MaxTime
  PROVE  IsPipeline(AddFilter(fl, name, fn))
BY DEF IsPipeline, AddFilter, NewFilterId, IsEntry, Ids

LEMMA ReregisteredType ==
  ASSUME TypeOK, NEW k \in Controls, NEW fn, IsFn(fn), NEW keep \in BOOLEAN
  PROVE  /\ IsPipeline(Reregistered(k, fn, keep))
         /\ ReregisteredId(k, keep) \in Ids \cup {Null}
<1>1. FilterName[k] \in FilterNames
  BY DEF FilterNames
<1>2. IsPipeline(IF filterId[k] = Null THEN filters ELSE RemoveFilter(filters, filterId[k]))
  BY RemoveFilterType DEF TypeOK
<1>3. IsPipeline(Reregistered(k, fn, keep))
  BY <1>1, <1>2, AddFilterType DEF Reregistered, TypeOK
<1>4. ReregisteredId(k, keep) \in Ids \cup {Null}
  BY <1>1 DEF ReregisteredId, NewFilterId, Ids, TypeOK
<1>. QED  BY <1>3, <1>4

-----------------------------------------------------------------------------
(***************************************************************************)
(* Type correctness.                                                       *)
(***************************************************************************)

LEMMA InitType == Init => TypeOK
<1> SUFFICES ASSUME Init PROVE TypeOK
  OBVIOUS
<1>1. IsPipeline(filters)
  BY DEF Init, IsPipeline
<1>2. filterId \in [Controls -> Ids \cup {Null}]
  BY DEF Init
<1>3. now \in 0..MaxTime /\ query \in Queries
  BY ConstantsAssumption DEF Init
<1>. QED  BY <1>1, <1>2, <1>3 DEF Init, TypeOK

\* Whether the app runs under StrictMode is a Boolean.
LEMMA StrictModeBoolean == StrictMode \in BOOLEAN
BY ConstantsAssumption

\* The part of TypeOK about the fetch state.
FetchTypeOK ==
  /\ mounted \in BOOLEAN /\ loading \in BOOLEAN /\ error \in BOOLEAN
  /\ fetchInProgress \in BOOLEAN /\ requests \in Nat

\* A step that gives the fetch state its types and leaves the rest alone
\* keeps TypeOK.
LEMMA FetchStepType ==
  ASSUME TypeOK, FetchTypeOK',
         UNCHANGED <<data, filters, now, healthStates, query, clusterSel, nodeSel, filterId>>
  PROVE  TypeOK'
BY DEF TypeOK, FetchTypeOK

LEMMA TypeStep == TypeOK /\ [Next]_vars => TypeOK'
<1> USE DEF fetchVars, controlVars
<1> SUFFICES ASSUME TypeOK, [Next]_vars PROVE TypeOK'
  OBVIOUS
<1>0. FetchTypeOK
  BY DEF TypeOK, FetchTypeOK
<1>1. CASE MountEffect
  <2>0. requests + 1 \in Nat /\ requests + 1 + 1 \in Nat
    BY <1>0 DEF FetchTypeOK
  <2>1. FetchTypeOK'
    BY <1>0, <1>1, <2>0, Zenon DEF MountEffect, CallState, CallFetch, CallDone, FetchTypeOK
  <2>. QED  BY <1>1, <2>1, FetchStepType DEF MountEffect
<1>2. CASE Reload
  <2>0. requests + 1 \in Nat
    BY <1>0 DEF FetchTypeOK
  <2>1. FetchTypeOK'
    BY <1>0, <1>2, <2>0, Zenon DEF Reload, CallState, CallFetch, CallDone, FetchTypeOK
  <2>. QED  BY <1>2, <2>1, FetchStepType DEF Reload
<1>3. ASSUME NEW r \in Responses, FetchSucceed(r) PROVE TypeOK'
  <2>0. requests - 1 \in Nat
    <3>1. requests > 0
      BY <1>3 DEF FetchSucceed
    <3>. QED  BY <1>0, <3>1 DEF FetchTypeOK
  <2>1. FetchTypeOK'
    BY <1>0, <1>3, <2>0, Zenon DEF FetchSucceed, FetchTypeOK
  <2>2. data' \in Responses \cup {Null}
    BY <1>3 DEF FetchSucceed
  <2>. QED  BY <1>3, <1>0, <2>1, <2>2 DEF FetchSucceed, TypeOK, FetchTypeOK
<1>4. CASE FetchFail
  <2>0. requests - 1 \in Nat
    <3>1. requests > 0
      BY <1>4 DEF FetchFail
    <3>. QED  BY <1>0, <3>1 DEF FetchTypeOK
  <2>1. FetchTypeOK'
    BY <1>0, <1>4, <2>0, Zenon DEF FetchFail, FetchTypeOK
  <2>. QED  BY <1>4, <2>1, FetchStepType DEF FetchFail
<1>5. ASSUME NEW s \in HealthStates, OnCheckboxClick(s) PROVE TypeOK'
  <2> DEFINE newStates == IF s \in healthStates THEN healthStates \ {s}
                          ELSE healthStates \cup {s}
  <2>1. IsFn([kind |-> "health", arg |-> newStates])
    BY DEF IsFn, TypeOK
  <2>2. "health" \in Controls
    BY DEF Controls
  <2>. QED  BY <1>5, <2>1, <2>2, ReregisteredType DEF OnCheckboxClick, TypeOK
<1>6. ASSUME NEW q \in Queries, HandleInputs(q) PROVE TypeOK'
  <2>1. IsFn([kind |-> "search", arg |-> q])
    BY DEF IsFn
  <2>2. "search" \in Controls
    BY DEF Controls
  <2>3. IsPipeline(Reregistered("search", [kind |-> "search", arg |-> q], q # <<>>))
    BY <2>1, <2>2, ReregisteredType
  <2>4. ReregisteredId("search", q # <<>>) \in Ids \cup {Null}
    BY <2>1, <2>2, ReregisteredType
  <2>. QED  BY <1>6, <2>3, <2>4, RemoveFilterType DEF HandleInputs, TypeOK
<1>7. ASSUME NEW c \in ClusterNames, SelectCluster(c) PROVE TypeOK'
  <2>1. IsFn([kind |-> "cluster", arg |-> Toggle(clusterSel, c)])
    BY DEF IsFn, Toggle, TypeOK
  <2>2. "cluster" \in Controls
    BY DEF Controls
  <2>. QED  BY <1>7, <2>1, <2>2, ReregisteredType DEF SelectCluster, Toggle, TypeOK
<1>8. ASSUME NEW n \in NodeNames, SelectNode(n) PROVE TypeOK'
  <2>1. IsFn([kind |-> "node", arg |-> Toggle(nodeSel, n)])
    BY DEF IsFn, Toggle, TypeOK
  <2>2. "node" \in Controls
    BY DEF Controls
  <2>. QED  BY <1>8, <2>1, <2>2, ReregisteredType DEF SelectNode, Toggle, TypeOK
<1>9. CASE Tick
  BY <1>9, ConstantsAssumption DEF Tick, TypeOK
<1>10. CASE UNCHANGED vars
  BY <1>10 DEF vars, fetchVars, controlVars, TypeOK
<1>. QED  BY <1>1, <1>2, <1>3, <1>4, <1>5, <1>6, <1>7, <1>8, <1>9, <1>10 DEF Next

\* Every reachable state has the types TypeOK gives the provider's and the
\* controls' state (the filter array holds well-formed entries with ids
\* made of a control's filter name and a clock value).
THEOREM TypeCorrect == Spec => []TypeOK
BY InitType, TypeStep, PTL DEF Spec

-----------------------------------------------------------------------------
(***************************************************************************)
(* Ownership of the pipeline entries.                                      *)
(***************************************************************************)

\* The entries of fl that carry filter name N.
Named(fl, N) == {e \in fl.entries : e.name = N}

\* Every entry's id starts with the entry's name.
IdsNamed(fl) == \A e \in fl.entries : e.id[1] = e.name

LEMMA RemoveFilterOther ==
  ASSUME NEW fl, NEW id, NEW N, NEW M, N # M, IdsNamed(fl), id[1] = N
  PROVE  Named(RemoveFilter(fl, id), M) = Named(fl, M)
BY DEF Named, IdsNamed, RemoveFilter

LEMMA RemoveFilterSame ==
  ASSUME NEW fl, NEW id, NEW N
  PROVE  /\ Named(RemoveFilter(fl, id), N) = {e \in Named(fl, N) : e.id # id}
         /\ IdsNamed(fl) => IdsNamed(RemoveFilter(fl, id))
BY DEF Named, IdsNamed, RemoveFilter

LEMMA AddFilterOther ==
  ASSUME NEW fl, NEW N, NEW M, N # M, NEW fn
  PROVE  Named(AddFilter(fl, N, fn), M) = Named(fl, M)
BY DEF Named, AddFilter, NewFilterId

LEMMA AddFilterSame ==
  ASSUME NEW fl, NEW N, NEW fn
  PROVE  /\ Named(AddFilter(fl, N, fn), N)
              = Named(fl, N) \cup {[id |-> NewFilterId(N), name |-> N, fn |-> fn]}
         /\ IdsNamed(fl) => IdsNamed(AddFilter(fl, N, fn))
BY DEF Named, IdsNamed, AddFilter, NewFilterId

LEMMA FilterNameInjective ==
  ASSUME NEW j \in Controls, NEW k \in Controls, j # k
  PROVE  FilterName[j] # FilterName[k]
BY DEF Controls, FilterName

\* What control k owns in the pipeline, by ControlsOwnTheirFilters.
Owns(k) ==
  IF Selected(k)
  THEN Named(filters, FilterName[k])
         = {[id |-> filterId[k], name |-> FilterName[k],
             fn |-> [kind |-> k, arg |-> Selection(k)]]}
  ELSE Named(filters, FilterName[k]) = {} /\ filterId[k] = Null

LEMMA OwnsUnfold ==
  ASSUME NEW k \in Controls
  PROVE  ControlsOwnTheirFilters <=> \A j \in Controls : Owns(j)
BY DEF ControlsOwnTheirFilters, Owns, Named

(***************************************************************************)
(* A control's remove-then-add leaves the other controls' entries alone    *)
(* and leaves it exactly the entry it added, if any.                       *)
(***************************************************************************)
LEMMA ReregisteredNamed ==
  ASSUME IInv, NEW k \in Controls, NEW fn, NEW keep \in BOOLEAN
  PROVE  /\ \A j \in Controls \ {k} :
              Named(Reregistered(k, fn, keep), FilterName[j]) = Named(filters, FilterName[j])
         /\ Named(Reregistered(k, fn, keep), FilterName[k])
              = IF keep THEN {[id |-> NewFilterId(FilterName[k]), name |-> FilterName[k], fn |-> fn]}
                ELSE {}
         /\ IdsNamed(Reregistered(k, fn, keep))
<1> DEFINE N == FilterName[k]
           old == filterId[k]
           fl1 == IF old = Null THEN filters ELSE RemoveFilter(filters, old)
<1>1. Owns(k) /\ IdsNamed(filters)
  BY OwnsUnfold DEF IInv, EntryIdsNamed, IdsNamed
<1>2. /\ \A j \in Controls \ {k} : Named(fl1, FilterName[j]) = Named(filters, FilterName[j])
      /\ Named(fl1, N) = {}
      /\ IdsNamed(fl1)
  <2>1. CASE old = Null
    <3>1. ~Selected(k)
      <4>1. SUFFICES ASSUME Selected(k) PROVE FALSE
        OBVIOUS
      <4>2. [id |-> old, name |-> N, fn |-> [kind |-> k, arg |-> Selection(k)]] \in filters.entries
        BY <1>1, <4>1 DEF Owns, Named
      <4>3. old \in Ids
        BY <4>2 DEF IInv, TypeOK, IsPipeline, IsEntry
      <4>. QED  BY <2>1, <4>3, NullAssumption
    <3>. QED  BY <1>1, <2>1, <3>1 DEF Owns
  <2>2. CASE old # Null
    <3>1. Selected(k)
      BY <1>1, <2>2 DEF Owns
    <3>2. Named(filters, N) = {[id |-> old, name |-> N, fn |-> [kind |-> k, arg |-> Selection(k)]]}
      BY <1>1, <3>1 DEF Owns
    <3>3. old[1] = N
      BY <1>1, <3>2 DEF IdsNamed, Named
    <3>4. \A j \in Controls \ {k} : Named(RemoveFilter(filters, old), FilterName[j]) = Named(filters, FilterName[j])
      BY <1>1, <3>3, RemoveFilterOther, FilterNameInjective
    <3>5. Named(RemoveFilter(filters, old), N) = {}
      <4>1. Named(RemoveFilter(filters, old), N) = {e \in Named(filters, N) : e.id # old}
        BY RemoveFilterSame
      <4>. QED  BY <4>1, <3>2
    <3>6. IdsNamed(RemoveFilter(filters, old))
      BY <1>1, RemoveFilterSame
    <3>. QED  BY <2>2, <3>4, <3>5, <3>6
  <2>. QED  BY <2>1, <2>2
<1>3. CASE keep
  <2>1. \A j \in Controls \ {k} : Named(AddFilter(fl1, N, fn), FilterName[j]) = Named(fl1, FilterName[j])
    BY AddFilterOther, FilterNameInjective
  <2>2. Named(AddFilter(fl1, N, fn), N) = {[id |-> NewFilterId(N), name |-> N, fn |-> fn]}
    BY <1>2, AddFilterSame
  <2>3. IdsNamed(AddFilter(fl1, N, fn))
    BY <1>2, AddFilterSame
  <2>. QED  BY <1>2, <1>3, <2>1, <2>2, <2>3 DEF Reregistered
<1>4. CASE ~keep
  BY <1>2, <1>4 DEF Reregistered
<1>. QED  BY <1>3, <1>4


\* ReregisteredNamed as one formula, for the steps that instantiate it.
LEMMA ReregisteredNamedAll ==
  IInv => \A k \in Controls : \A fn : \A keep \in BOOLEAN :
    /\ \A j \in Controls \ {k} :
         Named(Reregistered(k, fn, keep), FilterName[j]) = Named(filters, FilterName[j])
    /\ Named(Reregistered(k, fn, keep), FilterName[k])
         = IF keep THEN {[id |-> NewFilterId(FilterName[k]), name |-> FilterName[k], fn |-> fn]}
           ELSE {}
    /\ IdsNamed(Reregistered(k, fn, keep))
BY ReregisteredNamed, Zenon

\* A control that remembers an id has a selection, and the id carries its name.
LEMMA RememberedId ==
  ASSUME IInv, NEW k \in Controls, filterId[k] # Null
  PROVE  Selected(k) /\ filterId[k][1] = FilterName[k]
<1>1. Owns(k) /\ IdsNamed(filters)
  BY OwnsUnfold DEF IInv, EntryIdsNamed, IdsNamed
<1>2. Selected(k)
  BY <1>1 DEF Owns
<1>3. [id |-> filterId[k], name |-> FilterName[k],
       fn |-> [kind |-> k, arg |-> Selection(k)]] \in filters.entries
  BY <1>1, <1>2 DEF Owns, Named
<1>. QED  BY <1>1, <1>2, <1>3 DEF IdsNamed

(***************************************************************************)
(* A step in which nothing of the pipeline and the controls changes.       *)
(***************************************************************************)
LEMMA ControlsUnchanged ==
  ASSUME IInv, UNCHANGED <<filters, controlVars>>
  PROVE  ControlsOwnTheirFilters' /\ EntryIdsNamed'
BY DEF IInv, ControlsOwnTheirFilters, Selected, Selection, EntryIdsNamed, controlVars

(***************************************************************************)
(* A step of the health, cluster or node control: it re-registers its      *)
(* filter for its new selection and leaves the other controls alone.       *)
(***************************************************************************)
LEMMA ControlStep ==
  ASSUME IInv, NEW k \in Controls, NEW keep \in BOOLEAN, NEW fn,
         fn = [kind |-> k, arg |-> Selection(k)'],
         keep = Selected(k)',
         filters' = Reregistered(k, fn, keep),
         filterId' = [filterId EXCEPT ![k] = ReregisteredId(k, keep)],
         \A j \in Controls \ {k} : Selection(j)' = Selection(j) /\ Selected(j)' = Selected(j)
  PROVE  ControlsOwnTheirFilters' /\ EntryIdsNamed'
<1>1. /\ \A j \in Controls \ {k} : Named(filters', FilterName[j]) = Named(filters, FilterName[j])
      /\ Named(filters', FilterName[k])
           = IF keep THEN {[id |-> NewFilterId(FilterName[k]), name |-> FilterName[k], fn |-> fn]}
             ELSE {}
      /\ IdsNamed(filters')
  <2>1. /\ \A j \in Controls \ {k} : Named(Reregistered(k, fn, keep), FilterName[j]) = Named(filters, FilterName[j])
        /\ Named(Reregistered(k, fn, keep), FilterName[k])
             = IF keep THEN {[id |-> NewFilterId(FilterName[k]), name |-> FilterName[k], fn |-> fn]}
               ELSE {}
        /\ IdsNamed(Reregistered(k, fn, keep))
    BY ONLY ReregisteredNamedAll, IInv, k \in Controls, keep \in BOOLEAN
  <2>. QED  BY <2>1
<1>2. filterId \in [Controls -> Ids \cup {Null}]
  BY DEF IInv, TypeOK
<1>3. ASSUME NEW j \in Controls \ {k} PROVE Owns(j)'
  <2>1. Owns(j)
    BY OwnsUnfold DEF IInv
  <2>2. filterId'[j] = filterId[j]
    BY <1>2
  <2>. QED  BY <1>1, <2>1, <2>2 DEF Owns
<1>4. Owns(k)'
  <2>1. filterId'[k] = ReregisteredId(k, keep)
    BY <1>2
  <2>. QED  BY <1>1, <2>1 DEF Owns, ReregisteredId
<1>5. ControlsOwnTheirFilters'
  BY <1>3, <1>4 DEF ControlsOwnTheirFilters, Owns, Named
<1>. QED  BY <1>1, <1>5 DEF EntryIdsNamed, IdsNamed

(***************************************************************************)
(* A step of the search bar: the same re-registration, then the effect     *)
(* cleanup's second removal of the previous id.                            *)
(***************************************************************************)
LEMMA SearchStep ==
  ASSUME IInv, NEW q \in Queries, HandleInputs(q)
  PROVE  ControlsOwnTheirFilters' /\ EntryIdsNamed'
<1> DEFINE keep  == q # <<>>
           old   == filterId["search"]
           newId == ReregisteredId("search", keep)
           sfn   == [kind |-> "search", arg |-> q]
           fl    == Reregistered("search", sfn, keep)
           N     == FilterName["search"]
<1>1. "search" \in Controls
  BY DEF Controls
<1>2. /\ \A j \in Controls \ {"search"} : Named(fl, FilterName[j]) = Named(filters, FilterName[j])
      /\ Named(fl, N) = IF keep THEN {[id |-> NewFilterId(N), name |-> N, fn |-> sfn]} ELSE {}
      /\ IdsNamed(fl)
  <2>1. keep \in BOOLEAN
    OBVIOUS
  <2>2. /\ \A j \in Controls \ {"search"} :
             Named(Reregistered("search", sfn, keep), FilterName[j]) = Named(filters, FilterName[j])
        /\ Named(Reregistered("search", sfn, keep), FilterName["search"])
             = IF keep THEN {[id |-> NewFilterId(FilterName["search"]), name |-> FilterName["search"],
                              fn |-> sfn]}
               ELSE {}
        /\ IdsNamed(Reregistered("search", sfn, keep))
    <3>1. \A ff : \A kp \in BOOLEAN :
            /\ \A j \in Controls \ {"search"} :
                 Named(Reregistered("search", ff, kp), FilterName[j]) = Named(filters, FilterName[j])
            /\ Named(Reregistered("search", ff, kp), FilterName["search"])
                 = IF kp THEN {[id |-> NewFilterId(FilterName["search"]), name |-> FilterName["search"],
                                fn |-> ff]}
                   ELSE {}
            /\ IdsNamed(Reregistered("search", ff, kp))
      BY ONLY <1>1, ReregisteredNamedAll, IInv, Zenon
    <3>. QED  BY ONLY <3>1, <2>1, Zenon
  <2>. QED  BY ONLY <2>2 DEF fl, N
<1>3. /\ \A j \in Controls : Named(filters', FilterName[j]) = Named(fl, FilterName[j])
      /\ IdsNamed(filters')
  <2>1. CASE newId # old /\ old # Null
    <3>1. old[1] = N
      BY <1>1, <2>1, RememberedId
    <3>2. filters' = RemoveFilter(fl, old)
      BY <2>1 DEF HandleInputs
    <3>3. ASSUME NEW j \in Controls \ {"search"}
          PROVE  Named(filters', FilterName[j]) = Named(fl, FilterName[j])
      BY <1>1, <1>2, <3>1, <3>2, FilterNameInjective, RemoveFilterOther
    <3>4. Named(filters', N) = Named(fl, N)
      <4>1. Named(filters', N) = {e \in Named(fl, N) : e.id # old}
        BY <3>2, RemoveFilterSame
      <4>2. keep => NewFilterId(N) = newId
        BY DEF ReregisteredId
      <4>. QED  BY <1>2, <2>1, <4>1, <4>2
    <3>5. IdsNamed(filters')
      BY <1>2, <3>2, RemoveFilterSame
    <3>. QED  BY <3>3, <3>4, <3>5
  <2>2. CASE ~(newId # old /\ old # Null)
    BY <2>2, <1>2 DEF HandleInputs
  <2>. QED  BY <2>1, <2>2
<1>4. filterId \in [Controls -> Ids \cup {Null}]
  BY DEF IInv, TypeOK
<1>5. ASSUME NEW j \in Controls \ {"search"} PROVE Owns(j)'
  <2>1. Owns(j)
    BY OwnsUnfold DEF IInv
  <2>2. filterId'[j] = filterId[j] /\ Selection(j)' = Selection(j) /\ Selected(j)' = Selected(j)
    BY <1>4 DEF HandleInputs, Selection, Selected, Controls
  <2>. QED  BY <1>2, <1>3, <2>1, <2>2 DEF Owns
<1>6. Owns("search")'
  <2>1. filterId'["search"] = newId /\ query' = q
    BY <1>1, <1>4 DEF HandleInputs
  <2>2. Selection("search")' = q /\ (Selected("search")' <=> keep)
    BY <2>1 DEF Selection, Selected
  <2>3. Named(filters', N) = IF keep THEN {[id |-> newId, name |-> N, fn |-> sfn]} ELSE {}
    BY <1>1, <1>2, <1>3 DEF ReregisteredId
  <2>4. ~keep => newId = Null
    BY DEF ReregisteredId
  <2>. QED  BY <2>1, <2>2, <2>3, <2>4 DEF Owns
<1>7. ControlsOwnTheirFilters'
  BY <1>5, <1>6 DEF ControlsOwnTheirFilters, Owns, Named
<1>. QED  BY <1>3, <1>7 DEF EntryIdsNamed, IdsNamed


(***************************************************************************)
(* A step of HealthSelector, or of one of the PopoverSelectors, is a       *)
(* ControlStep.                                                            *)
(***************************************************************************)
LEMMA CheckboxStep ==
  ASSUME IInv, NEW s \in HealthStates, OnCheckboxClick(s)
  PROVE  ControlsOwnTheirFilters' /\ EntryIdsNamed'
<1>1. "health" \in Controls
  BY DEF Controls
<1>. QED  BY <1>1, ControlStep DEF OnCheckboxClick, Selection, Selected, Controls

LEMMA ClusterStep ==
  ASSUME IInv, NEW c \in ClusterNames, SelectCluster(c)
  PROVE  ControlsOwnTheirFilters' /\ EntryIdsNamed'
<1>1. "cluster" \in Controls
  BY DEF Controls
<1>. QED  BY <1>1, ControlStep DEF SelectCluster, Selection, Selected, Controls

LEMMA NodeStep ==
  ASSUME IInv, NEW n \in NodeNames, SelectNode(n)
  PROVE  ControlsOwnTheirFilters' /\ EntryIdsNamed'
<1>1. "node" \in Controls
  BY DEF Controls
<1>. QED  BY <1>1, ControlStep DEF SelectNode, Selection, Selected, Controls

(***************************************************************************)
(* IInv is inductive.  The control steps leave the fetch state alone; the  *)
(* fetch steps leave the pipeline and the controls alone.                  *)
(***************************************************************************)
LEMMA InvStep == IInv /\ [Next]_vars => IInv'
<1> SUFFICES ASSUME IInv, [Next]_vars PROVE IInv'
  OBVIOUS
<1> USE DEF fetchVars, controlVars
<1>0. TypeOK'
  BY TypeStep DEF IInv
<1>1. CASE MountEffect
  <2>1. ControlsOwnTheirFilters' /\ EntryIdsNamed'
    BY <1>1, ControlsUnchanged DEF MountEffect
  <2>2. ~fetchInProgress /\ ~loading /\ ~error /\ requests = 0 /\ data = Null
    BY <1>1 DEF MountEffect, IInv, FetchState
  <2>3. mounted' = TRUE /\ data' = Null
    BY <1>1, <2>2 DEF MountEffect
  <2>4. ASSUME StrictMode PROVE FetchState' /\ NoFetchAfterLoad'
    <3>1. fetchInProgress' = FALSE /\ loading' = FALSE /\ error' = FALSE /\ requests' = 1
      BY <1>1, <2>2, <2>4 DEF MountEffect, CallState, CallFetch, CallDone
    <3>2. requests' =< 1 /\ requests' > 0
      BY <3>1
    <3>. QED  BY <2>3, <2>4, <3>1, <3>2, Zenon
              DEF FetchState, OneRequestInFlight, NoFetchAfterLoad
  <2>5. ASSUME ~StrictMode PROVE FetchState' /\ NoFetchAfterLoad'
    <3>1. fetchInProgress' = TRUE /\ loading' = TRUE /\ error' = FALSE /\ requests' = 1
      BY <1>1, <2>2, <2>5 DEF MountEffect, CallState, CallFetch, CallDone
    <3>2. requests' =< 1 /\ requests' > 0
      BY <3>1
    <3>. QED  BY <2>3, <2>5, <3>1, <3>2, Zenon
              DEF FetchState, OneRequestInFlight, NoFetchAfterLoad
  <2>. QED  BY <1>0, <2>1, <2>4, <2>5, StrictModeBoolean DEF IInv
<1>2. CASE Reload
  <2>1. ControlsOwnTheirFilters' /\ EntryIdsNamed'
    BY <1>2, ControlsUnchanged DEF Reload
  <2>2. ~fetchInProgress /\ requests = 0 /\ data = Null
    BY <1>2 DEF Reload, IInv, FetchState, NoFetchAfterLoad
  <2>3. fetchInProgress' /\ loading' /\ ~error' /\ requests' = 1
    BY <1>2, <2>2 DEF Reload, CallState, CallFetch, CallDone
  <2>4. FetchState' /\ NoFetchAfterLoad'
    BY <1>2, <2>2, <2>3 DEF Reload, FetchState, OneRequestInFlight, NoFetchAfterLoad
  <2>. QED  BY <1>0, <2>1, <2>4 DEF IInv
<1>3. ASSUME NEW r \in Responses, FetchSucceed(r) PROVE IInv'
  <2>1. ControlsOwnTheirFilters' /\ EntryIdsNamed'
    BY <1>3, ControlsUnchanged DEF FetchSucceed
  <2>2. requests = 1 /\ mounted
    BY <1>3 DEF FetchSucceed, IInv, TypeOK, FetchState, OneRequestInFlight
  <2>3. requests' = 0 /\ ~fetchInProgress' /\ ~loading' /\ ~error' /\ mounted'
    BY <1>3, <2>2 DEF FetchSucceed
  <2>4. FetchState' /\ NoFetchAfterLoad'
    BY <1>0, <2>3 DEF TypeOK, FetchState, OneRequestInFlight, NoFetchAfterLoad
  <2>. QED  BY <1>0, <2>1, <2>4 DEF IInv
<1>4. CASE FetchFail
  <2>1. ControlsOwnTheirFilters' /\ EntryIdsNamed'
    BY <1>4, ControlsUnchanged DEF FetchFail
  <2>2. requests = 1 /\ mounted /\ data = Null
    BY <1>4 DEF FetchFail, IInv, TypeOK, FetchState, OneRequestInFlight, NoFetchAfterLoad
  <2>3. requests' = 0 /\ ~fetchInProgress' /\ ~loading' /\ error' /\ mounted'
        /\ data' = Null
    BY <1>4, <2>2 DEF FetchFail
  <2>4. FetchState' /\ NoFetchAfterLoad'
    BY <1>0, <2>3 DEF TypeOK, FetchState, OneRequestInFlight, NoFetchAfterLoad
  <2>. QED  BY <1>0, <2>1, <2>4 DEF IInv
<1>5. ASSUME NEW s \in HealthStates, OnCheckboxClick(s) PROVE IInv'
  <2>1. UNCHANGED fetchVars
    BY <1>5 DEF OnCheckboxClick
  <2>. QED  BY <1>0, <1>5, <2>1, CheckboxStep DEF IInv, FetchState, OneRequestInFlight,
                                                 NoFetchAfterLoad
<1>6. ASSUME NEW q \in Queries, HandleInputs(q) PROVE IInv'
  <2>1. UNCHANGED fetchVars
    BY <1>6 DEF HandleInputs
  <2>. QED  BY <1>0, <1>6, <2>1, SearchStep DEF IInv, FetchState, OneRequestInFlight,
                                                 NoFetchAfterLoad
<1>7. ASSUME NEW c \in ClusterNames, SelectCluster(c) PROVE IInv'
  <2>1. UNCHANGED fetchVars
    BY <1>7 DEF SelectCluster
  <2>. QED  BY <1>0, <1>7, <2>1, ClusterStep DEF IInv, FetchState, OneRequestInFlight,
                                                 NoFetchAfterLoad
<1>8. ASSUME NEW n \in NodeNames, SelectNode(n) PROVE IInv'
  <2>1. UNCHANGED fetchVars
    BY <1>8 DEF SelectNode
  <2>. QED  BY <1>0, <1>8, <2>1, NodeStep DEF IInv, FetchState, OneRequestInFlight,
                                                 NoFetchAfterLoad
<1>9. CASE Tick
  <2>1. ControlsOwnTheirFilters' /\ EntryIdsNamed'
    BY <1>9, ControlsUnchanged DEF Tick
  <2>. QED  BY <1>0, <1>9, <2>1 DEF Tick, IInv, FetchState, OneRequestInFlight,
                                    NoFetchAfterLoad
<1>10. CASE UNCHANGED vars
  <2>1. ControlsOwnTheirFilters' /\ EntryIdsNamed'
    BY <1>10, ControlsUnchanged DEF vars
  <2>. QED  BY <1>0, <1>10, <2>1 DEF vars, IInv, FetchState, OneRequestInFlight,
                                     NoFetchAfterLoad
<1>. QED  BY <1>1, <1>2, <1>3, <1>4, <1>5, <1>6, <1>7, <1>8, <1>9, <1>10 DEF Next

\* The initial state: an empty filter array, no selection, nothing fetched.
LEMMA InitInv == Init => IInv
<1> SUFFICES ASSUME Init PROVE IInv
  OBVIOUS
<1>1. TypeOK
  BY InitType
<1>2. ControlsOwnTheirFilters
  <2>1. filterId \in [Controls -> {Null}]
    BY DEF Init
  <2>. QED  BY <2>1 DEF Init, ControlsOwnTheirFilters, Selected, Selection, Controls
<1>3. EntryIdsNamed
  BY DEF Init, EntryIdsNamed
<1>4. FetchState
  <2>1. mounted = FALSE /\ loading = FALSE /\ fetchInProgress = FALSE /\ error = FALSE
        /\ requests = 0 /\ data = Null
    BY DEF Init
  <2>2. requests =< 1 /\ requests # 1
    BY <2>1
  <2>. QED  BY <2>1, <2>2, Zenon DEF FetchState, OneRequestInFlight
<1>5. NoFetchAfterLoad
  BY DEF Init, NoFetchAfterLoad
<1>. QED  BY <1>1, <1>2, <1>3, <1>4, <1>5 DEF IInv

(***************************************************************************)
(* For every catalog, response set and clock bound, the inductive         *)
(* invariant holds in every reachable state: types, entry ids that carry   *)
(* their control's name, every control owning exactly its filter, loading *)
(* mirroring the fetch guard, and no fetch once a catalog is loaded.       *)
(***************************************************************************)
THEOREM InductiveInvariant == Spec => []IInv
BY InitInv, InvStep, PTL DEF Spec

(***************************************************************************)
(* For every catalog, response set and clock bound, every control owns     *)
(* exactly the one filter entry of its current selection (none when its   *)
(* selection is empty), through any sequence of checkbox clicks, search    *)
(* inputs, popover selections, fetches and clock ticks.                    *)
(***************************************************************************)
THEOREM OwnershipInvariant == Spec => []ControlsOwnTheirFilters
BY InductiveInvariant, PTL DEF IInv

(***************************************************************************)
(* For every instance, no fetch is ever in flight or failed once a catalog *)
(* is loaded: the mount effect and the error-only Reload button are the   *)
(* only callers of fetchPrometheusTargets, so a catalog is never refreshed.*)
(***************************************************************************)
THEOREM NoRefresh == Spec => []NoFetchAfterLoad
BY InductiveInvariant, PTL DEF IInv

(***************************************************************************)
(* For every instance, in a development build under StrictMode as in a    *)
(* production build, at most one fetch() of the targets is unsettled at   *)
(* any time: the mount effect's second run releases the guard, but the    *)
(* only other caller, the Reload button, is rendered only after a failure,*)
(* when no request is pending.                                            *)
(***************************************************************************)
THEOREM SingleRequest == Spec => []OneRequestInFlight
BY InductiveInvariant, PTL DEF IInv, FetchState


-----------------------------------------------------------------------------
(***************************************************************************)
(* The popovers' selections stay within the loaded catalog.  Only          *)
(* handleSelect changes a selection, with a listed cluster or node, and    *)
(* only a successful fetch changes data; by NoFetchAfterLoad a fetch is in *)
(* flight only while data is null, when the lists, hence the selections,   *)
(* are empty.                                                              *)
(***************************************************************************)
LEMMA SelectionsStep ==
  IInv /\ SelectionsInCatalog /\ [Next]_vars => SelectionsInCatalog'
<1> SUFFICES ASSUME IInv, SelectionsInCatalog, [Next]_vars
             PROVE  SelectionsInCatalog'
  OBVIOUS
<1> USE DEF fetchVars, controlVars
<1>1. ASSUME NEW r \in Responses, FetchSucceed(r) PROVE SelectionsInCatalog'
  <2>1. data = Null
    BY <1>1 DEF FetchSucceed, IInv, NoFetchAfterLoad
  <2>2. clusterSel = {} /\ nodeSel = {}
    BY <2>1 DEF SelectionsInCatalog, CatalogNodes, ClusterChoices
  <2>. QED  BY <1>1, <2>2 DEF FetchSucceed, SelectionsInCatalog
<1>2. ASSUME NEW c \in ClusterNames, SelectCluster(c) PROVE SelectionsInCatalog'
  <2>1. c \in ClusterChoices /\ clusterSel' = Toggle(clusterSel, c)
        /\ UNCHANGED <<data, nodeSel>>
    BY <1>2 DEF SelectCluster
  <2>. QED  BY <2>1 DEF Toggle, SelectionsInCatalog, CatalogNodes, ClusterChoices
<1>3. ASSUME NEW n \in NodeNames, SelectNode(n) PROVE SelectionsInCatalog'
  <2>1. n \in NodeChoices /\ nodeSel' = Toggle(nodeSel, n)
        /\ UNCHANGED <<data, clusterSel>>
    BY <1>3 DEF SelectNode
  <2>2. NodeChoices \subseteq CatalogNodes
    BY DEF NodeChoices, CatalogNodes, ClusterChoices
  <2>. QED  BY <2>1, <2>2 DEF Toggle, SelectionsInCatalog, CatalogNodes, ClusterChoices
<1>4. CASE UNCHANGED <<data, clusterSel, nodeSel>>
  BY <1>4 DEF SelectionsInCatalog, CatalogNodes, ClusterChoices
<1>5. CASE MountEffect \/ Reload \/ FetchFail \/ Tick \/ UNCHANGED vars
  BY <1>4, <1>5 DEF MountEffect, Reload, FetchFail, Tick, vars
<1>6. ASSUME NEW s \in HealthStates, OnCheckboxClick(s) PROVE SelectionsInCatalog'
  BY <1>4, <1>6 DEF OnCheckboxClick
<1>7. ASSUME NEW q \in Queries, HandleInputs(q) PROVE SelectionsInCatalog'
  BY <1>4, <1>7 DEF HandleInputs
<1>. QED  BY <1>1, <1>2, <1>3, <1>5, <1>6, <1>7 DEF Next

(***************************************************************************)
(* For every catalog, response set and clock bound, every selected cluster *)
(* is listed by the cluster PopoverSelector and every selected node is a   *)
(* node of the loaded catalog: the popovers' selections never outlive the  *)
(* catalog they were made from, because that catalog is never replaced.   *)
(***************************************************************************)
THEOREM SelectionsStayInCatalog == Spec => []SelectionsInCatalog
<1>1. Init => SelectionsInCatalog
  BY DEF Init, SelectionsInCatalog
<1>2. IInv /\ SelectionsInCatalog /\ [Next]_vars => SelectionsInCatalog'
  BY SelectionsStep
<1>. QED  BY <1>1, <1>2, InductiveInvariant, PTL DEF Spec

=============================================================================
