CONSTANTS
  ClusterNames <- MCClusterNames
  NodeNames <- MCNodeNames
  PodNames <- MCPodNames
  Chars <- MCChars
  Responses <- MCResponses
  Queries <- MCQueries
  MaxTime = 1
  Null = Null
  StrictMode = TRUE
SPECIFICATION Spec
INVARIANT ControlsOwnTheirFilters
INVARIANT ViewReflectsSelections
INVARIANT NoFetchAfterLoad
INVARIANT OneRequestInFlight
INVARIANT FilterArrayOrdered
INVARIANT SelectionsInCatalog
PROPERTY FetchSettles
