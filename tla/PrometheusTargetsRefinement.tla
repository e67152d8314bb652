-------------------- MODULE PrometheusTargetsRefinement --------------------
(***************************************************************************)
(* Proof that the page implements the safety part of AbstractTargets under *)
(* the refinement mapping of PrometheusTargets: the status the list shows, *)
(* the catalog, and the controls' selections.  Every step of the page is a *)
(* step of the abstract page or leaves its variables alone.  This holds   *)
(* in a production build only: under StrictMode the mount effect's second *)
(* run clears loading while the first request is pending.                 *)
(***************************************************************************)
EXTENDS PrometheusTargetsProofs

AbstractKeys == {"health", "search", "cluster", "node"}

LEMMA InitRefines == Init => AT!Init
BY DEF Init, AT!Init, AT!CatalogInit, CatalogStatus, Selections

\* A control event that changes only control k's selection is AT!Select(k).
LEMMA SelectStep ==
  ASSUME TypeOK', UNCHANGED fetchVars, NEW k \in AbstractKeys,
         \A j \in AbstractKeys \ {k} : Selections'[j] = Selections[j]
  PROVE  AT!Next
<1>1. Selections' \in AT!Choices
  BY DEF TypeOK, Selections, AT!Choices, AT!HealthStates, HealthStates
<1>2. DOMAIN Selections = AbstractKeys
  BY DEF Selections, AbstractKeys
<1>3. UNCHANGED <<CatalogStatus, data>>
  BY DEF fetchVars, CatalogStatus
<1>4. AT!Select(k)
  BY <1>1, <1>2, <1>3 DEF AT!Select, AT!catalogVars
<1>. QED  BY <1>2, <1>4 DEF AT!Next

\* The fetch steps seen through the mapping, in a production build: the
\* mount effect runs once, so every pending request holds the guard and
\* loading.
LEMMA FetchStartRefines ==
  ASSUME IInv, ~StrictMode, MountEffect \/ Reload
  PROVE  AT!Load
<1>1. ~fetchInProgress /\ ~loading /\ requests = 0
  BY DEF IInv, FetchState, NoFetchAfterLoad, MountEffect, Reload
<1>2. CallFetch(CallState) = [guard |-> TRUE, loading |-> TRUE, error |-> FALSE,
                              requests |-> requests + 1]
  BY <1>1 DEF CallFetch, CallState
<1>3. mounted' = TRUE /\ loading' = TRUE
  <2>1. CASE MountEffect
    BY <1>2, <2>1 DEF MountEffect, CallDone
  <2>2. CASE Reload
    BY <1>2, <2>2 DEF Reload, CallDone
  <2>. QED  BY <2>1, <2>2
<1>4. CatalogStatus # "loading"
  BY <1>1 DEF CatalogStatus
<1>5. CatalogStatus' = "loading"
  BY <1>3 DEF CatalogStatus
<1>. QED  BY <1>4, <1>5 DEF MountEffect, Reload, AT!Load, AT!StartFetch, Selections,
                           controlVars

\* A settling request held the guard, so the list showed the spinner.
LEMMA SettleFromLoading ==
  ASSUME IInv, ~StrictMode, requests > 0
  PROVE  CatalogStatus = "loading"
<1>1. requests = 1
  BY DEF IInv, TypeOK, FetchState, OneRequestInFlight
<1>2. fetchInProgress /\ loading /\ mounted
  BY <1>1 DEF IInv, FetchState
<1>. QED  BY <1>2 DEF CatalogStatus

LEMMA FetchSucceedRefines ==
  ASSUME IInv, ~StrictMode, NEW r \in Responses, FetchSucceed(r)
  PROVE  AT!Next
<1>1. CatalogStatus = "loading"
  BY SettleFromLoading DEF FetchSucceed
<1>2. CatalogStatus' = "ready"
  <2>1. mounted' = TRUE
    BY SettleFromLoading DEF FetchSucceed, CatalogStatus
  <2>. QED  BY <2>1 DEF FetchSucceed, CatalogStatus
<1>3. AT!Succeed(r)
  BY <1>1, <1>2 DEF FetchSucceed, AT!Succeed, AT!FetchOk, Selections, controlVars
<1>. QED  BY <1>3 DEF AT!Next

LEMMA FetchFailRefines ==
  ASSUME IInv, ~StrictMode, FetchFail
  PROVE  AT!Next
<1>1. CatalogStatus = "loading"
  BY SettleFromLoading DEF FetchFail
<1>2. CatalogStatus' = "failed"
  <2>1. mounted' = TRUE
    BY SettleFromLoading DEF FetchFail, CatalogStatus
  <2>. QED  BY <2>1 DEF FetchFail, CatalogStatus
<1>3. AT!Fail
  BY <1>1, <1>2 DEF FetchFail, AT!Fail, AT!FetchError, Selections, controlVars
<1>. QED  BY <1>3 DEF AT!Next

LEMMA StepRefines ==
  ASSUME ~StrictMode
  PROVE  IInv /\ IInv' /\ [Next]_vars => [AT!Next]_AT!vars
<1> SUFFICES ASSUME IInv, IInv', [Next]_vars PROVE [AT!Next]_AT!vars
  OBVIOUS
<1>0. TypeOK'
  BY DEF IInv
<1>1. CASE MountEffect \/ Reload
  BY <1>1, FetchStartRefines DEF AT!Next
<1>2. ASSUME NEW r \in Responses, FetchSucceed(r) PROVE [AT!Next]_AT!vars
  BY <1>2, FetchSucceedRefines
<1>3. CASE FetchFail
  BY <1>3, FetchFailRefines
<1>4. ASSUME NEW s \in HealthStates, OnCheckboxClick(s) PROVE [AT!Next]_AT!vars
  <2>1. UNCHANGED fetchVars /\ \A j \in AbstractKeys \ {"health"} : Selections'[j] = Selections[j]
    BY <1>4 DEF OnCheckboxClick, Selections, AbstractKeys
  <2>. QED  BY <1>0, <2>1, SelectStep DEF AbstractKeys
<1>5. ASSUME NEW q \in Queries, HandleInputs(q) PROVE [AT!Next]_AT!vars
  <2>1. UNCHANGED fetchVars /\ \A j \in AbstractKeys \ {"search"} : Selections'[j] = Selections[j]
    BY <1>5 DEF HandleInputs, Selections, AbstractKeys
  <2>. QED  BY <1>0, <2>1, SelectStep DEF AbstractKeys
<1>6. ASSUME NEW c \in ClusterNames, SelectCluster(c) PROVE [AT!Next]_AT!vars
  <2>1. UNCHANGED fetchVars /\ \A j \in AbstractKeys \ {"cluster"} : Selections'[j] = Selections[j]
    BY <1>6 DEF SelectCluster, Selections, AbstractKeys
  <2>. QED  BY <1>0, <2>1, SelectStep DEF AbstractKeys
<1>7. ASSUME NEW n \in NodeNames, SelectNode(n) PROVE [AT!Next]_AT!vars
  <2>1. UNCHANGED fetchVars /\ \A j \in AbstractKeys \ {"node"} : Selections'[j] = Selections[j]
    BY <1>7 DEF SelectNode, Selections, AbstractKeys
  <2>. QED  BY <1>0, <2>1, SelectStep DEF AbstractKeys
<1>8. CASE Tick \/ UNCHANGED vars
  BY <1>8 DEF Tick, vars, fetchVars, controlVars, AT!vars, CatalogStatus, Selections
<1>. QED  BY <1>1, <1>2, <1>3, <1>4, <1>5, <1>6, <1>7, <1>8 DEF Next

(***************************************************************************)
(* For every instance of a production build (no StrictMode), the page    *)
(* implements the safety part of the abstract page: what TargetsList     *)
(* shows only moves Empty -> Loading ->                                   *)
(* Ready | Failed (and Failed -> Loading on Reload), the catalog changes   *)
(* only when a fetch succeeds, and each control event changes only that   *)
(* control's selection.                                                    *)
(***************************************************************************)
THEOREM Refinement == ~StrictMode => (Spec => AT!SafetySpec)
<1> SUFFICES ASSUME ~StrictMode PROVE Spec => AT!SafetySpec
  OBVIOUS
<1>1. Spec => []IInv
  BY InductiveInvariant
<1>2. Init => AT!Init
  BY InitRefines
<1>3. IInv /\ IInv' /\ [Next]_vars => [AT!Next]_AT!vars
  BY StepRefines
<1>. QED  BY <1>1, <1>2, <1>3, PTL DEF Spec, AT!SafetySpec

(***************************************************************************)
(* For every instance of a production build, once the provider is mounted,*)
(* whenever TargetsList shows neither the spinner nor the error it has a  *)
(* fetched catalog to show: the abstract page's invariant CatalogReady,   *)
(* carried to the page through the refinement.  (Under StrictMode it      *)
(* fails: see the strict_mode_ready run.)                                 *)
(***************************************************************************)
THEOREM ListShowsCatalog == ~StrictMode => (Spec => []ReadyListHasCatalog)
<1> SUFFICES ASSUME ~StrictMode PROVE Spec => []ReadyListHasCatalog
  OBVIOUS
<1>1. AT!Init => AT!CatalogReady
  BY DEF AT!Init, AT!CatalogInit, AT!CatalogReady
<1>2. AT!CatalogReady /\ [AT!Next]_AT!vars => AT!CatalogReady'
  BY DEF AT!CatalogReady, AT!Next, AT!Load, AT!Succeed, AT!Fail, AT!Select,
         AT!StartFetch, AT!FetchOk, AT!FetchError, AT!vars, AT!catalogVars
<1>3. AT!SafetySpec => []ReadyListHasCatalog
  BY <1>1, <1>2, PTL DEF AT!SafetySpec, AT!CatalogReady, ReadyListHasCatalog
<1>. QED  BY <1>3, Refinement

=============================================================================
