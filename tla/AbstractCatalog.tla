--------------------------- MODULE AbstractCatalog ---------------------------
(***************************************************************************)
(* What the page promises of its catalog (spec.md, FilterPipeline state    *)
(* machine): it is absent before the first fetch, Empty -> Loading ->      *)
(* Ready | Failed, a successful fetch replaces it atomically, a failed one *)
(* leaves it as it was, and another fetch may be started whenever none is  *)
(* in flight.  A started fetch settles (the transport's own timeout).      *)
(***************************************************************************)
CONSTANTS
  Catalogs,   \* catalogs a successful fetch may deliver
  NoCatalog   \* the catalog before any fetch succeeded

VARIABLES status, catalog

catalogVars == <<status, catalog>>

Statuses == {"empty", "loading", "ready", "failed"}

CatalogTypeOK ==
  /\ status \in Statuses
  /\ catalog \in Catalogs \cup {NoCatalog}

CatalogInit == status = "empty" /\ catalog = NoCatalog

\* A fetch is started when none is in flight.
StartFetch ==
  /\ status # "loading"
  /\ status' = "loading"
  /\ UNCHANGED catalog

\* Loading -> Ready: the catalog is replaced as a whole.
FetchOk(r) ==
  /\ status = "loading"
  /\ status' = "ready"
  /\ catalog' = r

\* Loading -> Failed: the previous catalog stays.
FetchError ==
  /\ status = "loading"
  /\ status' = "failed"
  /\ UNCHANGED catalog

Settle == FetchError \/ \E r \in Catalogs : FetchOk(r)

CatalogNext == StartFetch \/ Settle

(***************************************************************************)
(* The list shows Ready only with a catalog: a successful fetch is the only *)
(* way into Ready, and it delivers one (Loading and Failed show a spinner   *)
(* or an error, never a table without a catalog).                           *)
(***************************************************************************)
CatalogReady == status = "ready" => catalog \in Catalogs

CatalogSpec == CatalogInit /\ [][CatalogNext]_catalogVars /\ WF_catalogVars(Settle)

=============================================================================
