-------------------------- MODULE FilterArrayProofs --------------------------
(***************************************************************************)
(* Proofs about the provider's filter array: it keeps distinct ids in a    *)
(* strict total registration order (FilterArrayOrdered) through every step *)
(* of the page.                                                            *)
(* The argument: removeFilter keeps the order of what is left, and         *)
(* addFilter appends after every entry an id that no entry carries, since  *)
(* the id starts with the control's filter name and the control's own      *)
(* entry was removed just before (IInv, proved in PrometheusTargetsProofs).*)
(***************************************************************************)
EXTENDS PrometheusTargetsProofs

\* FilterArrayOrdered for any pipeline fl.
Ordered(fl) ==
  LET ids == {e.id : e \in fl.entries}
      Before(a, b) == <<a, b>> \in fl.before
  IN  /\ \A e, f \in fl.entries : e.id = f.id => e = f
      /\ fl.before \subseteq ids \X ids
      /\ \A a \in ids : ~Before(a, a)
      /\ \A a, b \in ids : a # b => (Before(a, b) \/ Before(b, a))
      /\ \A a, b, c \in ids : Before(a, b) /\ Before(b, c) => Before(a, c)

\* The ids the entries of fl carry.
EntryIds(fl) == {e.id : e \in fl.entries}

LEMMA RemoveFilterOrdered ==
  ASSUME NEW fl, NEW id, Ordered(fl)
  PROVE  Ordered(RemoveFilter(fl, id))
<1> DEFINE fl2 == RemoveFilter(fl, id)
<1>1. EntryIds(fl2) = EntryIds(fl) \ {id}
  BY DEF EntryIds, RemoveFilter
<1>2. fl2.entries \subseteq fl.entries /\ fl2.before \subseteq fl.before
  BY DEF RemoveFilter
<1>3. \A p \in fl2.before : p[1] # id /\ p[2] # id
  BY DEF RemoveFilter
<1>4. fl2.before \subseteq EntryIds(fl2) \X EntryIds(fl2)
  BY <1>1, <1>2, <1>3 DEF Ordered, EntryIds
<1>5. \A a, b \in EntryIds(fl2) : (<<a, b>> \in fl2.before) <=> (<<a, b>> \in fl.before)
  BY <1>1 DEF RemoveFilter
<1>. QED  BY <1>1, <1>2, <1>4, <1>5 DEF Ordered, EntryIds

LEMMA AddFilterOrdered ==
  ASSUME NEW fl, NEW N, NEW fn, Ordered(fl), NewFilterId(N) \notin EntryIds(fl)
  PROVE  Ordered(AddFilter(fl, N, fn))
<1> DEFINE nid == NewFilterId(N)
           ne  == [id |-> nid, name |-> N, fn |-> fn]
           fl2 == AddFilter(fl, N, fn)
           ids == EntryIds(fl)
<1>1. fl2.entries = fl.entries \cup {ne}
  BY DEF AddFilter
<1>2. fl2.before = fl.before \cup {<<a, nid>> : a \in ids}
  BY DEF AddFilter, EntryIds
<1>3. EntryIds(fl2) = ids \cup {nid}
  <2>1. ne.id = nid
    OBVIOUS
  <2>. QED  BY <1>1, <2>1 DEF EntryIds
<1>4. \A e, f \in fl2.entries : e.id = f.id => e = f
  BY <1>1 DEF Ordered, EntryIds
<1>5. fl2.before \subseteq EntryIds(fl2) \X EntryIds(fl2)
  BY <1>2, <1>3 DEF Ordered, EntryIds
<1>6. \A a \in ids : <<nid, a>> \notin fl2.before /\ <<a, nid>> \in fl2.before
  BY <1>2 DEF Ordered, EntryIds
<1>7. \A a, b \in ids : (<<a, b>> \in fl2.before) <=> (<<a, b>> \in fl.before)
  BY <1>2
<1>8. <<nid, nid>> \notin fl2.before
  BY <1>2 DEF Ordered, EntryIds
<1>. QED  BY <1>3, <1>4, <1>5, <1>6, <1>7, <1>8 DEF Ordered, EntryIds

(***************************************************************************)
(* After a control's removal of the id it remembers, no entry carries its  *)
(* filter name, hence none carries the id addFilter is about to give.      *)
(***************************************************************************)
LEMMA FreshId ==
  ASSUME IInv, NEW k \in Controls, NEW fn
  PROVE  NewFilterId(FilterName[k]) \notin EntryIds(Reregistered(k, fn, FALSE))
<1>1. Named(Reregistered(k, fn, FALSE), FilterName[k]) = {}
      /\ IdsNamed(Reregistered(k, fn, FALSE))
  BY ONLY ReregisteredNamedAll, IInv, k \in Controls, FALSE \in BOOLEAN
<1>2. SUFFICES ASSUME NEW e \in Reregistered(k, fn, FALSE).entries,
                    e.id = NewFilterId(FilterName[k])
             PROVE  FALSE
  BY DEF EntryIds
<1>3. e.id[1] = FilterName[k]
  BY <1>2 DEF NewFilterId
<1>4. e.name = FilterName[k]
  BY <1>1, <1>3 DEF IdsNamed
<1>. QED  BY <1>1, <1>4 DEF Named

LEMMA ReregisteredOrdered ==
  ASSUME IInv, Ordered(filters), NEW k \in Controls, NEW fn, NEW keep \in BOOLEAN
  PROVE  Ordered(Reregistered(k, fn, keep))
<1> DEFINE fl1 == IF filterId[k] = Null THEN filters ELSE RemoveFilter(filters, filterId[k])
<1>1. Ordered(fl1)
  BY RemoveFilterOrdered
<1>2. fl1 = Reregistered(k, fn, FALSE)
  BY DEF Reregistered
<1>3. NewFilterId(FilterName[k]) \notin EntryIds(fl1)
  BY <1>2, FreshId
<1>4. CASE keep
  BY <1>1, <1>3, <1>4, AddFilterOrdered DEF Reregistered
<1>5. CASE ~keep
  BY <1>1, <1>5 DEF Reregistered
<1>. QED  BY <1>4, <1>5

(***************************************************************************)
(* One step of the page keeps the filter array ordered.                    *)
(***************************************************************************)
LEMMA OrderedStep ==
  ASSUME IInv, Ordered(filters), [Next]_vars
  PROVE  Ordered(filters')
<1>1. CASE \E s \in HealthStates : OnCheckboxClick(s)
  BY <1>1, ReregisteredOrdered DEF OnCheckboxClick, Controls
<1>2. ASSUME NEW q \in Queries, HandleInputs(q) PROVE Ordered(filters')
  <2> DEFINE fl == Reregistered("search", [kind |-> "search", arg |-> q], q # <<>>)
  <2>1. Ordered(fl)
    BY ReregisteredOrdered DEF Controls
  <2>. QED  BY <1>2, <2>1, RemoveFilterOrdered DEF HandleInputs
<1>3. CASE \E c \in ClusterNames : SelectCluster(c)
  BY <1>3, ReregisteredOrdered DEF SelectCluster, Controls
<1>4. CASE \E n \in NodeNames : SelectNode(n)
  BY <1>4, ReregisteredOrdered DEF SelectNode, Controls
<1>5. CASE UNCHANGED filters
  BY <1>5
<1>. QED
  BY <1>1, <1>2, <1>3, <1>4, <1>5
  DEF Next, MountEffect, Reload, FetchSucceed, FetchFail, Tick, vars

(***************************************************************************)
(* For every instance, the filter array never holds two entries with one   *)
(* id, and its registration order is a strict total order over the ids it *)
(* holds, through every sequence of control events within and across      *)
(* milliseconds: filteredData always folds the filters in one order.      *)
(***************************************************************************)
THEOREM FilterOrderInvariant == Spec => []FilterArrayOrdered
<1>1. Init => Ordered(filters)
  BY DEF Init, Ordered
<1>2. IInv /\ IInv' /\ Ordered(filters) /\ [Next]_vars => Ordered(filters)'
  BY OrderedStep DEF Ordered
<1>3. Spec => []Ordered(filters)
  BY <1>1, <1>2, InductiveInvariant, PTL DEF Spec
<1>4. Ordered(filters) <=> FilterArrayOrdered
  BY DEF Ordered, FilterArrayOrdered
<1>. QED  BY <1>3, <1>4, PTL

====
